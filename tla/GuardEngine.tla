----------------------------- MODULE GuardEngine -----------------------------
(***************************************************************************)
(* The pure decision of the sshfs mount guard (internal/sshfs/guard.go).   *)
(*                                                                         *)
(* The code stores time stamps and subtracts them from now.  This module   *)
(* stores what those subtractions yield: the age of the stamp, counted in  *)
(* ticks of the launchd agent and saturating at Horizon, beyond which no   *)
(* comparison in the code can tell two ages apart.  Ticks start at least   *)
(* one apart, so no two trips of a mount have one age before they leave    *)
(* TripWindow: the list of trips is the set of their ages.                 *)
(***************************************************************************)
EXTENDS Integers, FiniteSets

CONSTANTS
  Park,          \* how long an AV-parked mount stays down before a remount
  Idle,          \* unmount after this long without owner activity, 0 = never
  TripLimit,     \* AV parks within TripWindow before the mount is benched
  TripWindow,    \* how long an AV park counts as a trip
  SustainTicks,  \* consecutive hot ticks before the scanner counts as hot
  Horizon        \* the age at which ages stop growing

ASSUME TuningAssumption ==
  /\ Park \in Nat /\ Idle \in Nat /\ TripWindow \in Nat \ {0}
  /\ TripLimit \in Nat \ {0} /\ SustainTicks \in Nat \ {0}
  /\ Horizon \in Nat
  /\ Horizon >= Park /\ Horizon >= Idle /\ Horizon >= TripWindow

NoTime == -1                     \* the zero time.Time
Age    == 0 .. Horizon
Stamp  == Age \cup {NoTime}

\* The guard's memory of one registered mount.
GuardMount == [active: Stamp, parked: Stamp, reason: {"", "av", "idle"},
               trips: SUBSET Age, benched: BOOLEAN]

\* A mount the guard has no memory of: the map has no entry, Decide starts here.
Unknown == [active |-> NoTime, parked |-> NoTime, reason |-> "",
            trips |-> {}, benched |-> FALSE]

Ops == {"park", "idle", "remount", "bench"}

-----------------------------------------------------------------------------
(* Time passing over a memory. *)

Older(a) == IF a = NoTime \/ a = Horizon THEN a ELSE a + 1

OlderMount(m) == [m EXCEPT !.active = Older(@), !.parked = Older(@),
                           !.trips = {Older(a) : a \in @}]

-----------------------------------------------------------------------------
(* One mount's share of Decide: the new memory and the action, "" for none. *)

PruneTrips(trips) == {a \in trips : a < TripWindow}

\* The mount is not in the mount table.
DecideDown(m, ticketOK) ==
  CASE m.parked = NoTime        -> [mount |-> [m EXCEPT !.active = NoTime], op |-> ""]
    [] /\ m.parked # NoTime
       /\ m.reason # "av"       -> [mount |-> m, op |-> ""]
    [] /\ m.parked # NoTime
       /\ m.reason = "av"
       /\ Cardinality(m.trips) >= TripLimit
            -> [mount |-> [m EXCEPT !.benched = TRUE],
                op    |-> IF m.benched THEN "" ELSE "bench"]
    [] OTHER -> [mount |-> m,
                 op    |-> IF m.parked >= Park /\ ticketOK THEN "remount" ELSE ""]

\* Mutant: a mount that is up again starts with a clean record.
SettleForgetsTrips(m) ==
  [m EXCEPT !.parked = NoTime, !.reason = "", !.benched = FALSE, !.trips = {}]

\* It is up, by the guard or by hand: whatever was owed is settled, trips stay.
Settle(m) == [m EXCEPT !.parked = NoTime, !.reason = "", !.benched = FALSE]

Touch(m, active) ==
  IF active \/ m.active = NoTime THEN [m EXCEPT !.active = 0] ELSE m

\* The mount is in the mount table.  busy: its daemons are over DaemonHot;
\* scan: the scanner is over ScannerHot now; hot: for SustainTicks ticks.
DecideUp(m, held, busy, scan, hot) ==
  LET t == Touch(Settle(m), held \/ (busy /\ ~scan))
  IN  CASE hot /\ busy /\ ~held ->
             [mount |-> [t EXCEPT !.trips = @ \cup {0}, !.parked = 0, !.reason = "av"],
              op    |-> "park"]
        [] /\ ~(hot /\ busy /\ ~held)
           /\ Idle > 0 /\ ~held /\ t.active >= Idle ->
             [mount |-> [t EXCEPT !.parked = 0, !.reason = "idle"], op |-> "idle"]
        [] OTHER -> [mount |-> t, op |-> ""]

\* ScannerHotTicks; the code only ever asks whether it reached SustainTicks.
HotTicks(hot, scan) ==
  IF ~scan THEN 0 ELSE IF hot < SustainTicks THEN hot + 1 ELSE hot

\* What one tick makes of the registered mount n.
Decided(st, obs, n) ==
  LET m   == [st.mounts[n] EXCEPT !.trips = PruneTrips(@)]
      hot == HotTicks(st.hot, obs.scan) >= SustainTicks
  IN  IF n \in obs.up
      THEN DecideUp(m, n \in obs.held, n \in obs.busy, obs.scan, hot)
      ELSE DecideDown(m, obs.ticket)

\* Mutant: a mount that is not in the mount table is forgotten.
DecideForgetsDown(st, names, obs) ==
  [state   |-> [hot    |-> HotTicks(st.hot, obs.scan),
                mounts |-> [n \in DOMAIN st.mounts |->
                              IF n \in obs.up THEN Decided(st, obs, n).mount
                                              ELSE Unknown]],
   actions |-> {<<n, Decided(st, obs, n).op>> :
                  n \in {x \in names : Decided(st, obs, x).op # ""}}]

(***************************************************************************)
(* Decide: st is the state loaded from disk, names the registered mounts,  *)
(* obs what the samples said.  Mounts outside names are forgotten.         *)
(***************************************************************************)
Decide(st, names, obs) ==
  [state   |-> [hot    |-> HotTicks(st.hot, obs.scan),
                mounts |-> [n \in DOMAIN st.mounts |->
                              IF n \in names THEN Decided(st, obs, n).mount
                                             ELSE Unknown]],
   actions |-> {<<n, Decided(st, obs, n).op>> :
                  n \in {x \in names : Decided(st, obs, x).op # ""}}]
=============================================================================
