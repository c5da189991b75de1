------------------------------ MODULE SshfsGuard ------------------------------
(***************************************************************************)
(* The sshfs plane of mu on one laptop: the mount registry, the mounts,    *)
(* the owner's verbs (hmt, hum, set, add, rm, doctor) and the unattended   *)
(* guard tick that launchd fires (internal/cli/sshfs_guard.go), which      *)
(* samples, decides, acts on one mount after another and only then saves.  *)
(***************************************************************************)
EXTENDS GuardEngine

CONSTANTS
  Mounts,    \* mount names
  TickSpan,  \* how long one tick can take: all its calls are bounded by timeouts
  Flaky      \* whether the mount table may be unreadable within its deadline

ASSUME EnvironmentAssumption == TickSpan \in Nat /\ Flaky \in BOOLEAN

VARIABLES
  registry,  \* the names in the registry file
  mnt,       \* the mount table as the kernel has it: "down", "up" or "hung"
  held,      \* an owner's process has a file or its cwd on the mount
  ticket,    \* a usable Kerberos ticket is cached
  disk,      \* the saved guard state
  tick,      \* the running tick: where it is, its copy of the state, what is left
  lag,       \* age of the moment the tick took for now
  \* History, read by the properties only.
  owed,      \* who took it down: "tick" = parked by this tick, "owed" = and saved
  parks,     \* ages of the saved AV parks whose unmount reported success
  tried      \* age of the last saved AV park or failed remount

world   == <<registry, mnt, held, ticket>>
history == <<owed, parks, tried>>
vars    == <<registry, mnt, held, ticket, disk, tick, lag, owed, parks, tried>>

GuardState == [hot: 0 .. SustainTicks, mounts: [Mounts -> GuardMount]]
Empty      == [hot |-> 0, mounts |-> [n \in Mounts |-> Unknown]]

\* No tick is running; launchd starts the next one.
NoTick == [pc |-> "off", names |-> {}, mem |-> Empty, todo |-> {}, on |-> {},
           parked |-> {}, failed |-> {}]

\* Every stamp is NoTime or an age: none lies in the future of the clock that reads it.
TypeOK ==
  /\ registry \in SUBSET Mounts
  /\ mnt \in [Mounts -> {"down", "up", "hung"}]
  /\ held \in [Mounts -> BOOLEAN]
  /\ ticket \in BOOLEAN
  /\ disk \in GuardState
  /\ tick \in [pc: {"off", "act", "mounting"},
               names: SUBSET Mounts,           \* the registry this tick read
               mem: GuardState,                \* its copy of the state
               todo: SUBSET (Mounts \X Ops),   \* the actions left
               on: SUBSET Mounts,              \* the mount sshfs is starting on
               parked: SUBSET Mounts,          \* history: AV parks done
               failed: SUBSET Mounts]          \* history: remounts that failed
  /\ lag \in Age
  /\ owed \in [Mounts -> {"none", "tick", "owed"}]
  /\ parks \in [Mounts -> SUBSET Age]
  /\ tried \in [Mounts -> Stamp]

Init ==
  /\ registry = Mounts
  /\ mnt = [n \in Mounts |-> "down"]
  /\ held = [n \in Mounts |-> FALSE]
  /\ ticket = TRUE
  /\ disk = Empty
  /\ tick = NoTick
  /\ lag = Horizon
  /\ owed = [n \in Mounts |-> "none"]
  /\ parks = [n \in Mounts |-> {}]
  /\ tried = [n \in Mounts |-> NoTime]

-----------------------------------------------------------------------------
(* What the shared helpers do to one mount. *)

\* The mount table after n went through an unmount, a mount, or both.
SetMount(n, to) ==
  /\ mnt' = [mnt EXCEPT ![n] = to]
  /\ held' = [held EXCEPT ![n] = @ /\ to # "down"]
  /\ owed' = [owed EXCEPT ![n] = IF to = "down" THEN @ ELSE "none"]

\* Umount: where the mount ends, and what is reported.  A mount table that cannot
\* be read within its deadline reads as "not mounted": success, nothing touched.
\* The second try is diskutil's force, so an owner inside does not save the mount.
Umount(n) ==
  IF mnt[n] = "down" THEN {<<"down", TRUE>>}
  ELSE {<<"down", TRUE>>, <<mnt[n], FALSE>>}
         \cup (IF Flaky THEN {<<mnt[n], TRUE>>} ELSE {})

\* runBounded and the verdict of runMount, on a directory where nothing was mounted
\* when sshfs was launched.  A fatal line or the deadline unmounts whatever is on
\* the directory by then, and that unmount may fail and leave it half open.
Launched(n) ==
  IF mnt[n] = "down"
  THEN {<<"up", TRUE>>, <<"up", FALSE>>, <<"hung", FALSE>>, <<"down", FALSE>>}
  ELSE {<<mnt[n], FALSE>>, <<"down", FALSE>>}

-----------------------------------------------------------------------------
(* The owner's verbs. *)

\* hmt, hcd, hmt --stale: runMount is a no-op on a live mount and takes a hung one
\* down first; EnsureTicket runs pkinit when the ticket is gone.
OwnerMount(n) ==
  /\ n \in registry /\ mnt[n] # "up"
  /\ ticket' \in {ticket, TRUE}
  /\ \E to \in {"down", "up", "hung"} : (to = "down" \/ ticket') /\ SetMount(n, to)
  /\ UNCHANGED <<registry, disk, tick, lag, parks, tried>>

\* set: a live mount is unmounted and mounted again to apply the change.
OwnerSet(n) ==
  /\ n \in registry /\ mnt[n] # "down"
  /\ ticket' \in {ticket, TRUE}
  /\ \E to \in {"down", "up", "hung"} : (to = "down" \/ ticket') /\ SetMount(n, to)
  /\ UNCHANGED <<registry, disk, tick, lag, parks, tried>>

\* hum, hum --all, doctor --fix (hung, or up without a registry entry).
OwnerUmount(n) ==
  /\ mnt[n] # "down"
  /\ \E r \in Umount(n) : SetMount(n, r[1])
  /\ UNCHANGED <<registry, ticket, disk, tick, lag, parks, tried>>

OwnerAdd(n) ==
  /\ n \notin registry
  /\ registry' = registry \cup {n}
  /\ UNCHANGED <<mnt, held, ticket, disk, tick, lag, history>>

\* rm only warns about a live mount.
OwnerRm(n) ==
  /\ n \in registry
  /\ registry' = registry \ {n}
  /\ UNCHANGED <<mnt, held, ticket, disk, tick, lag, history>>

\* cd into the mount or open a file on it, and leave.
OwnerEnter(n) ==
  /\ mnt[n] = "up" /\ ~held[n]
  /\ held' = [held EXCEPT ![n] = TRUE]
  /\ UNCHANGED <<registry, mnt, ticket, disk, tick, lag, history>>

OwnerLeave(n) ==
  /\ held[n]
  /\ held' = [held EXCEPT ![n] = FALSE]
  /\ UNCHANGED <<registry, mnt, ticket, disk, tick, lag, history>>

-----------------------------------------------------------------------------
(* The network, the ticket and the clock. *)

Endpoint(n) ==
  /\ mnt[n] # "down"
  /\ mnt' = [mnt EXCEPT ![n] = IF @ = "up" THEN "hung" ELSE "up"]
  /\ UNCHANGED <<registry, held, ticket, disk, tick, lag, history>>

Ticket ==
  /\ ticket' = ~ticket
  /\ UNCHANGED <<registry, mnt, held, disk, tick, lag, history>>

OlderState(st) == [st EXCEPT !.mounts = [n \in Mounts |-> OlderMount(@[n])]]

Advance ==
  /\ tick.pc # "off" => lag < TickSpan
  /\ disk' = OlderState(disk)
  /\ tick' = [tick EXCEPT !.mem = OlderState(@)]
  /\ lag' = Older(lag)
  /\ parks' = [n \in Mounts |-> PruneTrips({Older(a) : a \in parks[n]})]
  /\ tried' = [n \in Mounts |-> Older(tried[n])]
  /\ UNCHANGED <<world, owed>>

-----------------------------------------------------------------------------
(* runGuardTick. *)

\* What ps, lsof, the mount table and klist told this tick.
Sample(up, inside, busy, scan) ==
  [up |-> up, held |-> inside, busy |-> busy, scan |-> scan, ticket |-> ticket]

\* Sampling and Decide.  A mount table or an lsof that does not answer reads as
\* "nothing mounted", "nobody inside"; lsof also exits 1 when one of the
\* directories it was given is not in use, and that exit discards its output.
\* launchd fires a tick an interval after the last one began, never two at once.
BeginTick(up, inside) ==
  /\ tick.pc = "off" /\ lag >= 1 /\ registry # {}
  /\ up = {n \in registry : mnt[n] # "down"} \/ (Flaky /\ up = {})
  /\ inside \in {{}, {n \in up : held[n]}}
  /\ \E scan \in BOOLEAN, busy \in SUBSET up :
       LET d == Decide(disk, registry, Sample(up, inside, busy, scan))
       IN  tick' = [NoTick EXCEPT !.pc = "act", !.names = registry,
                                  !.mem = d.state, !.todo = d.actions]
  /\ lag' = 0
  /\ UNCHANGED <<world, disk, history>>

Done(n, op) == [tick EXCEPT !.todo = @ \ {<<n, op>>}]

\* The tick t with m as its memory of the mount n.
Remember(t, n, m) == [t EXCEPT !.mem.mounts[n] = m]

Parked(n, age) == [tick.mem.mounts[n] EXCEPT !.parked = age]

\* "park" and "idle".  A failed unmount takes back the claim, not the trip.
Take(n, op) ==
  /\ tick.pc = "act" /\ <<n, op>> \in tick.todo /\ op \in {"park", "idle"}
  /\ \E r \in Umount(n) :
       /\ mnt' = [mnt EXCEPT ![n] = r[1]]
       /\ held' = [held EXCEPT ![n] = @ /\ r[1] # "down"]
       /\ owed' = [owed EXCEPT ![n] = IF op = "park" /\ mnt[n] # "down" /\ r[1] = "down"
                                      THEN "tick" ELSE @]
       /\ tick' = IF r[2]
                  THEN [Done(n, op) EXCEPT !.parked = IF op = "park" THEN @ \cup {n} ELSE @]
                  ELSE Remember(Done(n, op), n, [Parked(n, NoTime) EXCEPT !.reason = ""])
  /\ UNCHANGED <<registry, ticket, disk, lag, parks, tried>>

Failed(n) == [Done(n, "remount") EXCEPT !.pc = "act", !.on = {}, !.failed = @ \cup {n}]

\* Mutants: a failed remount retries at once; or is given up; or is stamped with the time
\* the next try is due.
RetryAtOnce(n)  == Failed(n)
RetryForgets(n) == Remember(Failed(n), n, Parked(n, NoTime))
RetryDue(n)     == Remember(Failed(n), n, Parked(n, lag - Park))

\* A remount that failed waits out another cooldown, counted from this tick's now.
Retry(n) == Remember(Failed(n), n, Parked(n, lag))

\* runMount that never launches sshfs: the mount is up; or it left the registry, is
\* hung and will not unmount, or there is no ticket and pkinit fails.
RemountSkip(n) ==
  /\ tick.pc = "act" /\ <<n, "remount">> \in tick.todo
  /\ IF n \in registry /\ mnt[n] = "up"
     THEN tick' = Done(n, "remount")
     ELSE /\ n \notin registry \/ mnt[n] = "hung" \/ ~ticket
          /\ tick' = Retry(n)
  /\ UNCHANGED <<world, disk, lag, history>>

\* The directory looks clear (a hung mount was unmounted first, or the mount table did
\* not answer), the ticket is there or pkinit just got one: sshfs is started and the
\* tick waits for it.
RemountLaunch(n) ==
  /\ tick.pc = "act" /\ <<n, "remount">> \in tick.todo
  /\ n \in registry
  /\ \E to \in {"down", mnt[n]} :
       /\ IF to = "down" THEN mnt[n] # "up" ELSE Flaky
       /\ SetMount(n, to)
  /\ ticket' = TRUE
  /\ tick' = [tick EXCEPT !.pc = "mounting", !.on = {n}]
  /\ UNCHANGED <<registry, disk, lag, parks, tried>>

RemountEnd(n) ==
  /\ tick.pc = "mounting" /\ n \in tick.on
  /\ \E r \in Launched(n) :
       /\ SetMount(n, r[1])
       /\ tick' = IF r[2] THEN [Done(n, "remount") EXCEPT !.pc = "act", !.on = {}]
                          ELSE Retry(n)
  /\ UNCHANGED <<registry, ticket, disk, lag, parks, tried>>

\* "bench" only warns.
Warn(n) ==
  /\ tick.pc = "act" /\ <<n, "bench">> \in tick.todo
  /\ tick' = Done(n, "bench")
  /\ UNCHANGED <<world, disk, lag, history>>

\* What the saved tick leaves to the history.
Record ==
  /\ owed' = [n \in Mounts |-> IF n \notin tick.names THEN "none"
                               ELSE IF owed[n] = "tick" THEN "owed" ELSE owed[n]]
  /\ parks' = [n \in Mounts |-> IF n \notin tick.names THEN {}
                                ELSE IF n \in tick.parked THEN parks[n] \cup {lag}
                                ELSE parks[n]]
  /\ tried' = [n \in Mounts |-> IF n \notin tick.names THEN NoTime
                                ELSE IF n \in tick.parked \cup tick.failed THEN lag
                                ELSE tried[n]]

\* SaveGuardState.  A failed write loses the tick as a crash would.
SaveTick ==
  /\ tick.pc = "act" /\ tick.todo = {}
  /\ disk' = tick.mem
  /\ tick' = NoTick
  /\ Record
  /\ UNCHANGED <<world, lag>>

\* The laptop sleeps or dies, mu is killed, or the save fails: what the tick did to the
\* mounts stays done, what it meant to remember is gone.  A starting sshfs may still mount.
LoseTick ==
  /\ tick.pc # "off"
  /\ tick' = NoTick
  /\ \E up \in SUBSET {n \in tick.on : mnt[n] = "down"} :
       /\ mnt' = [n \in Mounts |-> IF n \in up THEN "up" ELSE mnt[n]]
       /\ owed' = [n \in Mounts |-> IF n \in up \/ owed[n] = "tick" THEN "none" ELSE owed[n]]
  /\ UNCHANGED <<registry, held, ticket, disk, lag, parks, tried>>

-----------------------------------------------------------------------------

Owner(n) ==
  \/ OwnerMount(n) \/ OwnerSet(n) \/ OwnerUmount(n)
  \/ OwnerAdd(n) \/ OwnerRm(n) \/ OwnerEnter(n) \/ OwnerLeave(n)

Handle(n) ==
  \/ \E op \in {"park", "idle"} : Take(n, op)
  \/ RemountSkip(n) \/ RemountLaunch(n)
  \/ Warn(n)

Begin == \E up \in SUBSET Mounts, inside \in SUBSET Mounts : BeginTick(up, inside)

Next ==
  \/ \E n \in Mounts : Owner(n) \/ Endpoint(n) \/ Handle(n) \/ RemountEnd(n)
  \/ Ticket \/ Advance
  \/ Begin \/ SaveTick \/ LoseTick

Spec == Init /\ [][Next]_vars

(***************************************************************************)
(* Fairness.  launchd keeps firing ticks and a tick's calls are bounded by *)
(* timeouts, so a tick that is possible again and again (with a ticket and *)
(* a readable mount table) happens, and so do its steps; a mount that is   *)
(* tried again and again succeeds at some time.  The owner owes nothing.   *)
(***************************************************************************)
GoodTick == ticket /\ BeginTick({n \in registry : mnt[n] # "down"}, {})

GoodMount(n) == RemountEnd(n) /\ mnt'[n] = "up"

Fairness ==
  /\ WF_vars(Advance) /\ SF_vars(GoodTick) /\ SF_vars(SaveTick)
  /\ \A n \in Mounts : SF_vars(Handle(n)) /\ SF_vars(GoodMount(n))

FairSpec == Spec /\ Fairness

-----------------------------------------------------------------------------
(* Properties. *)

\* A mount the guard took down for the AV, and that nobody brought up since, is a
\* mount the saved state says it owes a remount: whatever the owner, the network,
\* failed unmounts, failed remounts and lost ticks do in between.  (GuardState is
\* "STATE, not cache: it holds which mounts the guard owes a remount".)
OwedIsRemembered ==
  \A n \in Mounts :
    owed[n] = "owed" => disk.mounts[n].parked # NoTime /\ disk.mounts[n].reason = "av"

\* The guard starts sshfs on n in this step.
Launches(n) == n \in tick'.on /\ n \notin tick.on

\* The guard never cycles a mount the AV keeps returning to: it does not bring up a
\* mount it parked TripLimit times within the last TripWindow, even when the owner
\* mounted it by hand in between.
NoCycling ==
  [][\A n \in Mounts : Launches(n) => Cardinality(PruneTrips(parks[n])) < TripLimit]_vars

\* Between an AV park or a failed remount and the next try lies a whole cooldown, by the
\* clock of the ticks that saved.
CooldownHolds ==
  [][\A n \in Mounts : Launches(n) /\ tried[n] # NoTime => tried[n] >= Park]_vars

\* An owed mount is paid or benched: once its ticket lives on and it stays registered
\* ("without a live ticket it just waits"), a mount parked for the AV does not stay parked
\* forever, unless the guard gave it up for good and said so.
OwedIsPaid ==
  \A n \in Mounts :
    <>[](ticket /\ n \in registry)
      => ((owed[n] = "owed") ~> (owed[n] # "owed" \/ disk.mounts[n].benched))

\* A benched mount "stays down until mounted by hand" (GuardMount.Benched).
BenchedStaysDown ==
  [][\A n \in Mounts : Launches(n) => ~disk.mounts[n].benched]_vars

\* "It also unmounts a mount nobody has touched for --idle": a mount the guard idled out
\* and its owner mounted again is not idled out by the next tick, sooner than --idle.
IdleComebackIsFresh ==
  [][\A n \in Mounts :
       /\ <<n, "idle">> \in tick'.todo \ tick.todo
       /\ lag < Idle
       => disk.mounts[n].reason # "idle"]_vars
=============================================================================
