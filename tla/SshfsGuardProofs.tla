--------------------------- MODULE SshfsGuardProofs ---------------------------
(***************************************************************************)
(* Proofs about SshfsGuard, for every set of mounts and every tuning: the  *)
(* type invariant, that a debt is never forgotten, that the guard does not *)
(* cycle a mount, and that a cooldown lies before every remount.           *)
(***************************************************************************)
EXTENDS SshfsGuard, FiniteSetTheorems, TLAPS

-----------------------------------------------------------------------------
(* Time. *)

LEMMA OlderAge ==
  ASSUME NEW a \in Stamp
  PROVE  /\ Older(a) \in Stamp
         /\ a \in Age => Older(a) \in Age /\ Older(a) >= a
         /\ (Older(a) = NoTime) <=> (a = NoTime)
BY TuningAssumption DEF Older, Stamp, Age, NoTime

\* Ages that pass TripWindow leave the count: it never grows by waiting.
LEMMA PrunedShrinks ==
  ASSUME NEW T \in SUBSET Age
  PROVE  /\ PruneTrips({Older(a) : a \in T}) \subseteq {Older(a) : a \in PruneTrips(T)}
         /\ IsFiniteSet(PruneTrips(T))
         /\ Cardinality(PruneTrips({Older(a) : a \in T})) <= Cardinality(PruneTrips(T))
<1> DEFINE P == PruneTrips(T)
           I == {Older(a) : a \in P}
           Q == PruneTrips({Older(a) : a \in T})
<1>1. Q \subseteq I
  <2> SUFFICES ASSUME NEW b \in Q PROVE b \in I
    OBVIOUS
  <2>1. PICK a \in T : b = Older(a)
    BY DEF PruneTrips
  <2>2. a \in Int /\ Older(a) \in Int /\ Older(a) >= a /\ Older(a) < TripWindow
    BY <2>1, OlderAge, TuningAssumption DEF PruneTrips, Stamp, Age
  <2>3. a \in P
    BY <2>2, TuningAssumption DEF PruneTrips
  <2> QED BY <2>1, <2>3
<1>2. IsFiniteSet(P)
  <2>1. IsFiniteSet(Age)
    BY FS_Interval, TuningAssumption DEF Age
  <2>2. P \in SUBSET Age
    BY DEF PruneTrips
  <2> QED BY <2>1, <2>2, FS_Subset
<1>3. IsFiniteSet(I) /\ Cardinality(I) <= Cardinality(P)
  <2> DEFINE f == [a \in P |-> Older(a)]
  <2>1. f \in Surjection(P, I)
    BY DEF Surjection
  <2> QED BY <2>1, <1>2, FS_Surjection
<1>4. Cardinality(Q) <= Cardinality(I)
  BY <1>1, <1>3, FS_Subset
<1>5. Cardinality(P) \in Nat /\ Cardinality(I) \in Nat /\ Cardinality(Q) \in Nat
  BY <1>1, <1>2, <1>3, FS_CardinalityType, FS_Subset
<1> QED BY <1>1, <1>2, <1>3, <1>4, <1>5

LEMMA OlderMountType ==
  ASSUME NEW m \in GuardMount
  PROVE  OlderMount(m) \in GuardMount
<1>1. m.active \in Stamp /\ m.parked \in Stamp /\ m.trips \in SUBSET Age
  BY DEF GuardMount
<1>2. Older(m.active) \in Stamp /\ Older(m.parked) \in Stamp
  BY <1>1, OlderAge
<1>3. {Older(a) : a \in m.trips} \in SUBSET Age
  BY <1>1, OlderAge DEF Stamp
<1> QED BY <1>2, <1>3 DEF OlderMount, GuardMount

-----------------------------------------------------------------------------
(* The decision about one mount. *)

\* The mount is AV-parked: the guard owes it a remount.
Owes(m) == m.parked # NoTime /\ m.reason = "av"

LEMMA DownDecision ==
  ASSUME NEW m \in GuardMount, NEW ok \in BOOLEAN
  PROVE  LET d == DecideDown(m, ok)
         IN  /\ d.mount \in GuardMount
             /\ d.mount.parked = m.parked /\ d.mount.reason = m.reason
             /\ d.mount.trips = m.trips
             /\ d.op \in {"", "bench", "remount"}
             /\ d.op = "remount" =>
                  /\ Owes(m) /\ m.parked >= Park
                  /\ ~(Cardinality(m.trips) >= TripLimit)
<1>1. CASE m.parked = NoTime
  BY <1>1 DEF DecideDown, GuardMount, Stamp
<1>2. CASE m.parked # NoTime /\ m.reason # "av"
  BY <1>2 DEF DecideDown, GuardMount
<1>3. CASE Owes(m) /\ Cardinality(m.trips) >= TripLimit
  BY <1>3 DEF DecideDown, GuardMount, Owes
<1>4. CASE Owes(m) /\ ~(Cardinality(m.trips) >= TripLimit)
  BY <1>4 DEF DecideDown, GuardMount, Owes
<1> QED BY <1>1, <1>2, <1>3, <1>4 DEF Owes

\* What the samples of a tick can say.
Observation == [up: SUBSET Mounts, held: SUBSET Mounts, busy: SUBSET Mounts,
                scan: BOOLEAN, ticket: BOOLEAN]

LEMMA UpDecision ==
  ASSUME NEW m \in GuardMount, NEW obs \in Observation, NEW n, NEW k
  PROVE  LET d == DecideUp(m, n \in obs.held, n \in obs.busy, obs.scan, k >= SustainTicks)
         IN  /\ d.mount \in GuardMount
             /\ m.trips \subseteq d.mount.trips
             /\ d.op \in {"", "park", "idle"}
             /\ IF d.op = "park"
                THEN Owes(d.mount) /\ d.mount.parked = 0 /\ 0 \in d.mount.trips
                ELSE ~Owes(d.mount)
<1> DEFINE inside == n \in obs.held
           busy == n \in obs.busy
           hot == k >= SustainTicks
           s == Settle(m)
           u == [s EXCEPT !.active = 0]
           t == Touch(s, inside \/ (busy /\ ~obs.scan))
<1>1. 0 \in Age /\ 0 \in Stamp /\ NoTime \in Stamp /\ NoTime # 0
  BY TuningAssumption DEF Age, Stamp, NoTime
<1>2. s \in GuardMount /\ s.parked = NoTime /\ s.reason = "" /\ s.trips = m.trips
  BY <1>1 DEF Settle, GuardMount
<1>3. u \in GuardMount /\ u.parked = s.parked /\ u.reason = s.reason /\ u.trips = s.trips
  BY <1>1, <1>2 DEF GuardMount
<1>4. /\ t \in GuardMount /\ t.parked = NoTime /\ t.reason = "" /\ t.trips = m.trips
  <2>1. t = s \/ t = u
    BY DEF Touch
  <2> QED BY <2>1, <1>2, <1>3
<1>5. CASE hot /\ busy /\ ~inside
  BY <1>1, <1>4, <1>5 DEF DecideUp, GuardMount, Owes
<1>6. CASE ~(hot /\ busy /\ ~inside) /\ Idle > 0 /\ ~inside /\ t.active >= Idle
  BY <1>1, <1>4, <1>6 DEF DecideUp, GuardMount, Owes
<1>7. CASE ~(hot /\ busy /\ ~inside) /\ ~(Idle > 0 /\ ~inside /\ t.active >= Idle)
  BY <1>1, <1>4, <1>7 DEF DecideUp, GuardMount, Owes
<1> QED BY <1>5, <1>6, <1>7

LEMMA PrunedMount ==
  ASSUME NEW m \in GuardMount
  PROVE  LET p == [m EXCEPT !.trips = PruneTrips(@)]
         IN  /\ p \in GuardMount
             /\ p.trips = PruneTrips(m.trips)
             /\ p.parked = m.parked /\ p.reason = m.reason
BY DEF GuardMount, PruneTrips

LEMMA Pruning ==
  ASSUME NEW T, NEW U, T \subseteq U
  PROVE  /\ PruneTrips(PruneTrips(T)) = PruneTrips(T)
         /\ PruneTrips(T) \subseteq PruneTrips(U)
BY DEF PruneTrips

LEMMA OneDecision ==
  ASSUME NEW st \in GuardState, NEW obs \in Observation, NEW n \in Mounts
  PROVE  LET d == Decided(st, obs, n)
             m == st.mounts[n]
         IN  /\ d.mount \in GuardMount
             /\ d.op \in Ops \cup {""}
             /\ PruneTrips(m.trips) \subseteq d.mount.trips
             /\ n \notin obs.up =>
                  /\ d.op \in {"", "bench", "remount"}
                  /\ d.mount.parked = m.parked /\ d.mount.reason = m.reason
             /\ n \in obs.up =>
                  /\ d.op \in {"", "park", "idle"}
                  /\ Owes(d.mount) => d.op = "park" /\ d.mount.parked = 0
             /\ d.op = "park" => Owes(d.mount) /\ 0 \in d.mount.trips
             /\ d.op = "remount" =>
                  /\ Owes(d.mount) /\ d.mount.parked >= Park
                  /\ ~(Cardinality(PruneTrips(d.mount.trips)) >= TripLimit)
<1> DEFINE m == st.mounts[n]
           p == [m EXCEPT !.trips = PruneTrips(@)]
<1>1. m \in GuardMount
  BY DEF GuardState
<1>2. p \in GuardMount /\ p.trips = PruneTrips(m.trips)
      /\ p.parked = m.parked /\ p.reason = m.reason
  BY <1>1, PrunedMount
<1>3. obs.scan \in BOOLEAN /\ obs.ticket \in BOOLEAN
  BY DEF Observation
<1>4. CASE n \in obs.up
  <2> DEFINE k == HotTicks(st.hot, obs.scan)
             d == DecideUp(p, n \in obs.held, n \in obs.busy, obs.scan, k >= SustainTicks)
  <2>1. Decided(st, obs, n) = d
    BY <1>4 DEF Decided
  <2> HIDE DEF k, p
  <2>2. /\ d.mount \in GuardMount
        /\ p.trips \subseteq d.mount.trips
        /\ d.op \in {"", "park", "idle"}
        /\ IF d.op = "park"
           THEN Owes(d.mount) /\ d.mount.parked = 0 /\ 0 \in d.mount.trips
           ELSE ~Owes(d.mount)
    BY <1>2, UpDecision
  <2> HIDE DEF d
  <2> QED BY <2>1, <2>2, <1>2, <1>4 DEF Ops
<1>5. CASE n \notin obs.up
  <2> DEFINE d == DecideDown(p, obs.ticket)
  <2>1. Decided(st, obs, n) = d
    BY <1>5 DEF Decided
  <2>2. /\ d.mount \in GuardMount
        /\ d.mount.parked = p.parked /\ d.mount.reason = p.reason
        /\ d.mount.trips = p.trips
        /\ d.op \in {"", "bench", "remount"}
        /\ d.op = "remount" =>
             /\ Owes(p) /\ p.parked >= Park
             /\ ~(Cardinality(p.trips) >= TripLimit)
    BY <1>2, <1>3, DownDecision
  <2>3. PruneTrips(p.trips) = p.trips
    BY <1>2, Pruning
  <2> HIDE DEF d
  <2> QED BY <2>1, <2>2, <2>3, <1>2, <1>5 DEF Ops, Owes
<1> QED BY <1>4, <1>5

LEMMA UnknownType == Unknown \in GuardMount /\ ~Owes(Unknown) /\ Unknown.trips = {}
BY TuningAssumption DEF Unknown, GuardMount, Stamp, Owes, NoTime

LEMMA DecideType ==
  ASSUME NEW st \in GuardState, NEW obs \in Observation, NEW names \in SUBSET Mounts
  PROVE  LET d == Decide(st, names, obs)
         IN  /\ d.state \in GuardState
             /\ d.actions \in SUBSET (Mounts \X Ops)
             /\ \A n \in names : d.state.mounts[n] = Decided(st, obs, n).mount
             /\ \A n \in Mounts \ names : d.state.mounts[n] = Unknown
             /\ \A n \in Mounts, op \in Ops :
                  <<n, op>> \in d.actions <=> n \in names /\ Decided(st, obs, n).op = op
<1>1. DOMAIN st.mounts = Mounts
  BY DEF GuardState
<1>2. HotTicks(st.hot, obs.scan) \in 0 .. SustainTicks
  BY TuningAssumption DEF HotTicks, GuardState
<1>3. \A n \in Mounts : /\ Decided(st, obs, n).mount \in GuardMount
                        /\ Decided(st, obs, n).op \in Ops \cup {""}
  BY OneDecision
<1>4. "" \notin Ops
  BY DEF Ops
<1>5. Decide(st, names, obs).state \in GuardState
  BY <1>1, <1>2, <1>3, UnknownType DEF Decide, GuardState
<1>6. Decide(st, names, obs).actions \in SUBSET (Mounts \X Ops)
  <2> SUFFICES ASSUME NEW n \in names, Decided(st, obs, n).op # ""
               PROVE  <<n, Decided(st, obs, n).op>> \in Mounts \X Ops
    BY DEF Decide
  <2> QED BY <1>3
<1>7. /\ \A n \in names : Decide(st, names, obs).state.mounts[n] = Decided(st, obs, n).mount
      /\ \A n \in Mounts \ names : Decide(st, names, obs).state.mounts[n] = Unknown
  BY <1>1 DEF Decide
<1>8. \A n \in Mounts, op \in Ops :
        <<n, op>> \in Decide(st, names, obs).actions
          <=> n \in names /\ Decided(st, obs, n).op = op
  BY <1>3, <1>4 DEF Decide
<1> QED BY <1>5, <1>6, <1>7, <1>8

-----------------------------------------------------------------------------
(* The type invariant. *)

LEMMA OlderStateType ==
  ASSUME NEW st \in GuardState
  PROVE  OlderState(st) \in GuardState
BY OlderMountType DEF OlderState, GuardState

LEMMA SetMountType ==
  ASSUME TypeOK, NEW n \in Mounts, NEW to \in {"down", "up", "hung"}, SetMount(n, to)
  PROVE  /\ mnt' \in [Mounts -> {"down", "up", "hung"}]
         /\ held' \in [Mounts -> BOOLEAN]
         /\ owed' \in [Mounts -> {"none", "tick", "owed"}]
<1>1. mnt' \in [Mounts -> {"down", "up", "hung"}] /\ owed' \in [Mounts -> {"none", "tick", "owed"}]
  BY DEF TypeOK, SetMount
<1>2. held' \in [Mounts -> BOOLEAN]
  BY DEF TypeOK, SetMount
<1> QED BY <1>1, <1>2

LEMMA UmountType ==
  ASSUME TypeOK, NEW n \in Mounts, NEW r \in Umount(n)
  PROVE  /\ r[1] \in {"down", "up", "hung"} /\ r[2] \in BOOLEAN
         /\ r[2] = FALSE => r[1] = mnt[n] /\ mnt[n] # "down"
         /\ mnt[n] = "down" => r[1] = "down"
         /\ r[1] \in {"down", mnt[n]}
<1>1. mnt[n] \in {"down", "up", "hung"}
  BY DEF TypeOK
<1>2. CASE r = <<"down", TRUE>>
  BY <1>2
<1>3. CASE r = <<mnt[n], FALSE>> /\ mnt[n] # "down"
  BY <1>1, <1>3
<1>4. CASE r = <<mnt[n], TRUE>> /\ mnt[n] # "down"
  BY <1>1, <1>4
<1> QED BY <1>2, <1>3, <1>4 DEF Umount

LEMMA LaunchedType ==
  ASSUME TypeOK, NEW n \in Mounts, NEW r \in Launched(n)
  PROVE  r[1] \in {"down", "up", "hung"} /\ r[2] \in BOOLEAN
<1>1. mnt[n] \in {"down", "up", "hung"}
  BY DEF TypeOK
<1>2. \E x \in {"down", "up", "hung"}, b \in BOOLEAN : r = <<x, b>>
  BY <1>1 DEF Launched
<1> QED BY <1>2

Tick == [pc: {"off", "act", "mounting"}, names: SUBSET Mounts, mem: GuardState,
         todo: SUBSET (Mounts \X Ops), on: SUBSET Mounts, parked: SUBSET Mounts,
         failed: SUBSET Mounts]

LEMMA NoTickType == NoTick \in Tick
<1>1. Empty \in GuardState
  BY UnknownType, TuningAssumption DEF Empty, GuardState
<1> QED BY <1>1 DEF NoTick, Tick

LEMMA TypeInit == Init => TypeOK
<1> SUFFICES ASSUME Init PROVE TypeOK
  OBVIOUS
<1>1. Empty \in GuardState
  BY UnknownType, TuningAssumption DEF Empty, GuardState
<1>2. Horizon \in Age /\ NoTime \in Stamp
  BY TuningAssumption DEF Age, Stamp
<1>3. tick \in Tick
  BY NoTickType DEF Init
<1> QED BY <1>1, <1>2, <1>3 DEF Init, TypeOK, Tick

LEMMA RememberType ==
  ASSUME NEW t \in Tick, NEW n \in Mounts, NEW m \in GuardMount
  PROVE  /\ Remember(t, n, m) \in Tick
         /\ Remember(t, n, m).mem.mounts = [t.mem.mounts EXCEPT ![n] = m]
<1> DEFINE f == [t.mem.mounts EXCEPT ![n] = m]
           s == [t.mem EXCEPT !.mounts = f]
<1>1. f \in [Mounts -> GuardMount]
  BY DEF Tick, GuardState
<1>2. s \in GuardState /\ s.mounts = f
  BY <1>1 DEF Tick, GuardState
<1>3. Remember(t, n, m) = [t EXCEPT !.mem = s]
  BY DEF Remember
<1> HIDE DEF f, s
<1>4. [t EXCEPT !.mem = s] \in Tick /\ [t EXCEPT !.mem = s].mem = s
  BY <1>2 DEF Tick
<1> QED BY <1>2, <1>3, <1>4 DEF f

LEMMA MemType ==
  ASSUME NEW t \in Tick, NEW n \in Mounts
  PROVE  t.mem \in GuardState /\ t.mem.mounts[n] \in GuardMount
BY DEF Tick, GuardState

LEMMA DoneType ==
  ASSUME TypeOK, NEW n \in Mounts, NEW op
  PROVE  /\ Done(n, op) \in Tick
         /\ Done(n, op).mem = tick.mem
BY DEF Done, Tick, TypeOK

LEMMA ParkedType ==
  ASSUME TypeOK, NEW n \in Mounts, NEW a \in Stamp
  PROVE  Parked(n, a) \in GuardMount /\ [Parked(n, a) EXCEPT !.reason = ""] \in GuardMount
<1>1. tick \in Tick
  BY DEF TypeOK, Tick
<1>2. tick.mem.mounts[n] \in GuardMount
  BY <1>1, MemType
<1> QED BY <1>2 DEF Parked, GuardMount

LEMMA RetryType ==
  ASSUME TypeOK, NEW n \in Mounts
  PROVE  Failed(n) \in Tick /\ Retry(n) \in Tick /\ lag \in Stamp
<1>1. Done(n, "remount") \in Tick
  BY DoneType
<1>2. Failed(n) \in Tick
  BY <1>1 DEF Failed, Tick
<1>3. lag \in Stamp
  BY DEF TypeOK, Stamp
<1> QED BY <1>2, <1>3, ParkedType, RememberType DEF Retry

LEMMA TypeStep == TypeOK /\ [Next]_vars => TypeOK'
<1> SUFFICES ASSUME TypeOK, [Next]_vars PROVE TypeOK'
  OBVIOUS
<1> USE DEF world, history
<1>0. tick \in Tick /\ lag \in Stamp /\ NoTime \in Stamp /\ 0 \in Age
  BY TuningAssumption DEF TypeOK, Tick, Stamp, Age
<1>1. ASSUME NEW n \in Mounts, Owner(n) PROVE TypeOK'
  <2>1. CASE OwnerMount(n)
    BY <2>1, SetMountType DEF OwnerMount, TypeOK
  <2>2. CASE OwnerSet(n)
    BY <2>2, SetMountType DEF OwnerSet, TypeOK
  <2>3. CASE OwnerUmount(n)
    <3> PICK r \in Umount(n) : SetMount(n, r[1])
      BY <2>3 DEF OwnerUmount
    <3>1. r[1] \in {"down", "up", "hung"}
      BY UmountType
    <3> QED BY <2>3, <3>1, SetMountType DEF OwnerUmount, TypeOK
  <2>4. CASE OwnerAdd(n) \/ OwnerRm(n)
    BY <2>4 DEF OwnerAdd, OwnerRm, TypeOK
  <2>5. CASE OwnerEnter(n) \/ OwnerLeave(n)
    BY <2>5 DEF OwnerEnter, OwnerLeave, TypeOK
  <2> QED BY <1>1, <2>1, <2>2, <2>3, <2>4, <2>5 DEF Owner
<1>2. ASSUME NEW n \in Mounts, Endpoint(n) PROVE TypeOK'
  BY <1>2 DEF Endpoint, TypeOK
<1>3. CASE Ticket
  BY <1>3 DEF Ticket, TypeOK
<1>4. CASE Advance
  <2>1. disk' \in GuardState /\ tick' \in Tick
    BY <1>0, <1>4, OlderStateType DEF Advance, TypeOK, Tick
  <2>2. lag' \in Age
    BY <1>0, <1>4, OlderAge DEF Advance, TypeOK
  <2>3. parks' \in [Mounts -> SUBSET Age]
    BY <1>0, <1>4, OlderAge DEF Advance, TypeOK, PruneTrips, Stamp
  <2>4. tried' \in [Mounts -> Stamp]
    BY <1>4, OlderAge DEF Advance, TypeOK
  <2> QED BY <1>4, <2>1, <2>2, <2>3, <2>4 DEF Advance, TypeOK, Tick
<1>5. ASSUME NEW n \in Mounts, NEW op \in {"park", "idle"}, Take(n, op) PROVE TypeOK'
  <2> PICK r \in Umount(n) :
       /\ mnt' = [mnt EXCEPT ![n] = r[1]]
       /\ held' = [held EXCEPT ![n] = @ /\ r[1] # "down"]
       /\ owed' = [owed EXCEPT ![n] = IF op = "park" /\ mnt[n] # "down" /\ r[1] = "down"
                                      THEN "tick" ELSE @]
       /\ tick' = IF r[2]
                  THEN [Done(n, op) EXCEPT !.parked = IF op = "park" THEN @ \cup {n} ELSE @]
                  ELSE Remember(Done(n, op), n, [Parked(n, NoTime) EXCEPT !.reason = ""])
    BY <1>5 DEF Take
  <2>1. Done(n, op) \in Tick
    BY <1>0 DEF Done, Tick
  <2>2. tick' \in Tick
    <3> DEFINE d == Done(n, op)
    <3>1. [d EXCEPT !.parked = IF op = "park" THEN @ \cup {n} ELSE @] \in Tick
      BY <2>1 DEF Tick
    <3>2. Remember(d, n, [Parked(n, NoTime) EXCEPT !.reason = ""]) \in Tick
      BY <1>0, <2>1, ParkedType, RememberType
    <3> QED BY <3>1, <3>2
  <2>3. mnt' \in [Mounts -> {"down", "up", "hung"}] /\ owed' \in [Mounts -> {"none", "tick", "owed"}]
    BY UmountType DEF TypeOK
  <2>4. held' \in [Mounts -> BOOLEAN]
    BY DEF TypeOK
  <2> QED BY <1>5, <2>2, <2>3, <2>4 DEF Take, TypeOK, Tick
<1>6. ASSUME NEW n \in Mounts, RemountSkip(n) PROVE TypeOK'
  <2>1. Done(n, "remount") \in Tick /\ Retry(n) \in Tick
    BY DoneType, RetryType
  <2> QED BY <1>6, <2>1 DEF RemountSkip, TypeOK, Tick
<1>7. ASSUME NEW n \in Mounts, RemountLaunch(n) PROVE TypeOK'
  <2>1. tick' \in Tick
    BY <1>0, <1>7 DEF RemountLaunch, Tick
  <2>2. PICK to \in {"down", mnt[n]} : SetMount(n, to)
    BY <1>7 DEF RemountLaunch
  <2>3. to \in {"down", "up", "hung"}
    BY DEF TypeOK
  <2> QED BY <1>7, <2>1, <2>2, <2>3, SetMountType DEF RemountLaunch, TypeOK, Tick
<1>8. ASSUME NEW n \in Mounts, RemountEnd(n) PROVE TypeOK'
  <2>1. Done(n, "remount") \in Tick /\ Retry(n) \in Tick
    BY DoneType, RetryType
  <2>2. [Done(n, "remount") EXCEPT !.pc = "act", !.on = {}] \in Tick
    BY <2>1 DEF Tick
  <2>3. PICK r \in Launched(n) : SetMount(n, r[1])
    BY <1>8 DEF RemountEnd
  <2>4. r[1] \in {"down", "up", "hung"}
    BY <2>3, LaunchedType
  <2>5. tick' \in Tick
    BY <1>8, <2>1, <2>2 DEF RemountEnd
  <2> QED BY <1>8, <2>3, <2>4, <2>5, SetMountType DEF RemountEnd, TypeOK, Tick
<1>9. ASSUME NEW n \in Mounts, Warn(n) PROVE TypeOK'
  <2>1. Done(n, "bench") \in Tick
    BY <1>0 DEF Done, Tick
  <2> QED BY <1>9, <2>1 DEF Warn, TypeOK, Tick
<1>10. CASE Begin
  <2> PICK up \in SUBSET Mounts, inside \in SUBSET Mounts : BeginTick(up, inside)
    BY <1>10 DEF Begin
  <2> PICK scan \in BOOLEAN, busy \in SUBSET up :
       LET d == Decide(disk, registry, [up |-> up, held |-> inside, busy |-> busy,
                                        scan |-> scan, ticket |-> ticket])
       IN  tick' = [NoTick EXCEPT !.pc = "act", !.names = registry,
                                  !.mem = d.state, !.todo = d.actions]
    BY DEF BeginTick, Sample
  <2> DEFINE obs == [up |-> up, held |-> inside, busy |-> busy, scan |-> scan,
                     ticket |-> ticket]
             d == Decide(disk, registry, obs)
  <2>1. obs \in Observation /\ disk \in GuardState /\ registry \in SUBSET Mounts
    BY DEF Observation, TypeOK
  <2>2. d.state \in GuardState /\ d.actions \in SUBSET (Mounts \X Ops)
    BY <2>1, DecideType
  <2> HIDE DEF d, obs
  <2>3. tick' \in Tick
    BY <2>1, <2>2, NoTickType DEF Tick, d, obs
  <2> QED BY <1>0, <2>3 DEF BeginTick, TypeOK, Tick
<1>11. CASE SaveTick
  <2>1. disk' \in GuardState /\ tick' \in Tick
    BY <1>0, <1>11, NoTickType DEF SaveTick, Tick
  <2>2. owed' \in [Mounts -> {"none", "tick", "owed"}]
    BY <1>11 DEF SaveTick, Record, TypeOK
  <2>3. parks' \in [Mounts -> SUBSET Age] /\ tried' \in [Mounts -> Stamp]
    BY <1>0, <1>11 DEF SaveTick, Record, TypeOK
  <2> QED BY <1>11, <2>1, <2>2, <2>3 DEF SaveTick, TypeOK, Tick
<1>12. CASE LoseTick
  <2>1. tick' \in Tick
    BY <1>12, NoTickType DEF LoseTick
  <2> QED BY <1>12, <2>1 DEF LoseTick, TypeOK, Tick
<1>13. CASE UNCHANGED vars
  BY <1>13 DEF vars, TypeOK
<1> QED BY <1>1, <1>2, <1>3, <1>4, <1>5, <1>6, <1>7, <1>8, <1>9, <1>10, <1>11, <1>12, <1>13
        DEF Next, Handle

\* The variables keep their types, the saved state and the tick's copy of it included.
THEOREM Typed == Spec => []TypeOK
BY TypeInit, TypeStep, PTL DEF Spec

-----------------------------------------------------------------------------
(* The inductive invariant: what the books say of each mount. *)

Running == tick.pc # "off"

\* A debt is on the books: in the saved state, and in the running tick's copy.
Debt(n) ==
  /\ owed[n] # "none" => mnt[n] = "down"
  /\ owed[n] = "owed" => Owes(disk.mounts[n])
  /\ owed[n] = "tick" => Running /\ Owes(tick.mem.mounts[n])
  /\ owed[n] = "owed" /\ Running /\ n \in tick.names => Owes(tick.mem.mounts[n])

\* When the tick parked n or failed to remount it, its memory of n carries the tick's now.
Stamped(n) == n \in tick.parked \cup tick.failed \/ <<n, "park">> \in tick.todo

\* The saved parks are trips the state knows of, and its stamp is the last one.
Ledger(n) ==
  /\ Owes(disk.mounts[n]) => tried[n] = disk.mounts[n].parked
  /\ PruneTrips(parks[n]) \subseteq disk.mounts[n].trips
  /\ Running /\ n \in tick.names =>
       LET m == tick.mem.mounts[n]
       IN  /\ Owes(m) => m.parked = IF Stamped(n) THEN lag ELSE tried[n]
           /\ PruneTrips(parks[n]) \subseteq m.trips
           /\ n \in tick.parked => lag \in m.trips
  /\ Running /\ n \notin tick.names => ~Owes(tick.mem.mounts[n])

\* What the tick has still to do to n is one thing, and the books allow it.
Plan(n) ==
  /\ \A op \in Ops : <<n, op>> \in tick.todo =>
       /\ Running /\ n \in tick.names
       /\ n \notin tick.parked \cup tick.failed
       /\ \A other \in Ops : <<n, other>> \in tick.todo => other = op
  /\ <<n, "park">> \in tick.todo =>
       Owes(tick.mem.mounts[n]) /\ lag \in tick.mem.mounts[n].trips
  /\ <<n, "remount">> \in tick.todo =>
       /\ Owes(tick.mem.mounts[n]) /\ tick.mem.mounts[n].parked >= Park
       /\ ~(Cardinality(PruneTrips(tick.mem.mounts[n].trips)) >= TripLimit)

Books == \A n \in Mounts : Debt(n) /\ Ledger(n) /\ Plan(n)

\* Without a running tick there is nothing to do and nothing on record.
Idling == ~Running => tick = NoTick

\* sshfs is only ever started on a mount the plan says to remount.
Starting == \A n \in tick.on : tick.pc = "mounting" /\ <<n, "remount">> \in tick.todo

IInv == TypeOK /\ Books /\ Idling /\ Starting

-----------------------------------------------------------------------------
(* Every step keeps the books. *)

\* One mount goes up or down; the tick, if one runs, goes on with what it knows.
LEMMA SetMountBooks ==
  ASSUME TypeOK, Books, NEW n \in Mounts, NEW to \in {"down", "up", "hung"},
         SetMount(n, to), UNCHANGED <<disk, lag, parks, tried>>,
         Running' = Running, tick'.mem = tick.mem, tick'.names = tick.names,
         tick'.todo = tick.todo, tick'.parked = tick.parked, tick'.failed = tick.failed
  PROVE  Books'
<1> SUFFICES ASSUME NEW k \in Mounts PROVE Debt(k)' /\ Ledger(k)' /\ Plan(k)'
  BY DEF Books
<1>1. Debt(k) /\ Ledger(k) /\ Plan(k)
  BY DEF Books
<1>2. owed'[k] \in {owed[k], "none"} /\ (owed'[k] # "none" => mnt'[k] = "down")
  BY <1>1 DEF SetMount, TypeOK, Debt
<1>3. Debt(k)'
  BY <1>1, <1>2 DEF Debt
<1>4. Ledger(k)'
  BY <1>1 DEF Ledger, Stamped
<1>5. Plan(k)'
  BY <1>1 DEF Plan
<1> QED BY <1>3, <1>4, <1>5

\* Nothing the books speak of changes but a mount that owes nothing.
LEMMA WorldBooks ==
  ASSUME TypeOK, Books, UNCHANGED <<disk, tick, lag, owed, parks, tried>>,
         \A k \in Mounts : mnt'[k] = "down" \/ owed[k] = "none"
  PROVE  Books'
<1> SUFFICES ASSUME NEW k \in Mounts PROVE Debt(k)' /\ Ledger(k)' /\ Plan(k)'
  BY DEF Books
<1>1. Debt(k) /\ Ledger(k) /\ Plan(k)
  BY DEF Books
<1>2. Debt(k)'
  BY <1>1 DEF Debt, Running
<1>3. Ledger(k)'
  BY <1>1 DEF Ledger, Stamped, Running
<1>4. Plan(k)'
  BY <1>1 DEF Plan, Running
<1> QED BY <1>2, <1>3, <1>4

\* The tick is done with its action op on n, which leaves it the memory m of n.
LEMMA ActionBooks ==
  ASSUME TypeOK, Books, UNCHANGED <<disk, lag, parks, tried>>,
         NEW n \in Mounts, NEW op \in Ops, <<n, op>> \in tick.todo,
         NEW m, NEW P \in SUBSET {n}, NEW F \in SUBSET {n},
         Running', tick'.names = tick.names, tick'.todo = tick.todo \ {<<n, op>>},
         tick'.mem.mounts = [tick.mem.mounts EXCEPT ![n] = m],
         tick'.parked = tick.parked \cup P, tick'.failed = tick.failed \cup F,
         m.trips = tick.mem.mounts[n].trips,
         n \in P => lag \in m.trips,
         Owes(m) => m.parked = IF n \in P \cup F THEN lag ELSE tried[n],
         owed'[n] # "none" => Owes(m) /\ mnt'[n] = "down",
         owed'[n] \in {"none", "tick", "owed"},
         \A k \in Mounts \ {n} : owed'[k] = owed[k] /\ mnt'[k] = mnt[k],
         owed'[n] = "owed" => owed[n] = "owed"
  PROVE  Books'
<1>1. Running /\ n \in tick.names /\ n \notin tick.parked \cup tick.failed
      /\ \A other \in Ops : <<n, other>> \in tick.todo => other = op
  BY DEF Books, Plan
<1>2. \A other \in Ops : <<n, other>> \notin tick'.todo
  BY <1>1
<1>3. DOMAIN tick.mem.mounts = Mounts
  BY DEF TypeOK, GuardState
<1>4. tick'.mem.mounts[n] = m /\ \A k \in Mounts \ {n} : tick'.mem.mounts[k] = tick.mem.mounts[k]
  BY <1>3
<1>5. "park" \in Ops /\ "remount" \in Ops
  BY DEF Ops
<1>6. Debt(n)' /\ Ledger(n)' /\ Plan(n)'
  <2>1. Debt(n) /\ Ledger(n)
    BY DEF Books
  <2>2. Debt(n)'
    BY <1>4, <2>1 DEF Debt
  <2>3. Stamped(n)' <=> n \in P \cup F
    BY <1>1, <1>2, <1>5 DEF Stamped
  <2>4. Ledger(n)'
    BY <1>1, <1>4, <2>1, <2>3 DEF Ledger
  <2>5. Plan(n)'
    BY <1>2, <1>5 DEF Plan
  <2> QED BY <2>2, <2>4, <2>5
<1>7. ASSUME NEW k \in Mounts, k # n PROVE Debt(k)' /\ Ledger(k)' /\ Plan(k)'
  <2>1. Debt(k) /\ Ledger(k) /\ Plan(k)
    BY DEF Books
  <2>2. \A o \in Ops : <<k, o>> \in tick'.todo <=> <<k, o>> \in tick.todo
    BY <1>7
  <2>3. (k \in tick'.parked <=> k \in tick.parked) /\ (k \in tick'.failed <=> k \in tick.failed)
    BY <1>7
  <2>4. Debt(k)'
    BY <1>1, <1>4, <1>7, <2>1 DEF Debt
  <2>5. Ledger(k)'
    BY <1>1, <1>4, <1>5, <1>7, <2>1, <2>2, <2>3 DEF Ledger, Stamped
  <2>6. Plan(k)'
    BY <1>1, <1>4, <1>5, <1>7, <2>1, <2>2, <2>3 DEF Plan
  <2> QED BY <2>4, <2>5, <2>6
<1> QED BY <1>6, <1>7 DEF Books

\* Time passes over everything alike.
LEMMA AdvanceBooks == TypeOK /\ Books /\ Advance => Books'
<1> SUFFICES ASSUME TypeOK, Books, Advance, NEW n \in Mounts
             PROVE  Debt(n)' /\ Ledger(n)' /\ Plan(n)'
  BY DEF Books
<1> DEFINE m == tick.mem.mounts[n]
           d == disk.mounts[n]
<1>1. Debt(n) /\ Ledger(n) /\ Plan(n)
  BY DEF Books
<1>2. m \in GuardMount /\ d \in GuardMount /\ lag \in Stamp /\ tried[n] \in Stamp
      /\ parks[n] \in SUBSET Age
  BY DEF TypeOK, GuardState, Stamp
<1>3. tick'.mem.mounts[n] = OlderMount(m) /\ disk'.mounts[n] = OlderMount(d)
  BY DEF Advance, OlderState, TypeOK, GuardState
<1>4. /\ Running' <=> Running
      /\ tick'.names = tick.names /\ tick'.todo = tick.todo
      /\ tick'.parked = tick.parked /\ tick'.failed = tick.failed
  BY DEF Advance, TypeOK, Running
<1>5. lag' = Older(lag) /\ tried'[n] = Older(tried[n]) /\ owed' = owed /\ mnt' = mnt
      /\ parks'[n] = PruneTrips({Older(a) : a \in parks[n]})
  BY DEF Advance, TypeOK, world
<1>6. \A g \in GuardMount :
        /\ OlderMount(g).parked = Older(g.parked)
        /\ OlderMount(g).trips = {Older(a) : a \in g.trips}
        /\ Owes(OlderMount(g)) <=> Owes(g)
  BY OlderAge DEF OlderMount, GuardMount, Owes
<1>7. Debt(n)'
  BY <1>1, <1>2, <1>3, <1>4, <1>5, <1>6 DEF Debt
<1>8. ASSUME NEW T \in SUBSET Age, PruneTrips(parks[n]) \subseteq T
      PROVE  PruneTrips(parks'[n]) \subseteq {Older(a) : a \in T}
  BY <1>2, <1>5, <1>8, PrunedShrinks, Pruning
<1>9. Ledger(n)'
  <2>1. m.trips \in SUBSET Age /\ d.trips \in SUBSET Age
    BY <1>2 DEF GuardMount
  <2>2. PruneTrips(parks'[n]) \subseteq disk'.mounts[n].trips
    BY <1>1, <1>2, <1>3, <1>6, <1>8, <2>1 DEF Ledger
  <2>3. Owes(disk'.mounts[n]) => tried'[n] = disk'.mounts[n].parked
    BY <1>1, <1>2, <1>3, <1>5, <1>6 DEF Ledger
  <2>4. ASSUME Running, n \in tick.names
        PROVE  LET g == tick'.mem.mounts[n]
               IN  /\ Owes(g) => g.parked = IF Stamped(n) THEN lag' ELSE tried'[n]
                   /\ PruneTrips(parks'[n]) \subseteq g.trips
                   /\ n \in tick.parked => lag' \in g.trips
    BY <1>1, <1>2, <1>3, <1>5, <1>6, <1>8, <2>1, <2>4, SMTT(20) DEF Ledger
  <2>5. Stamped(n)' <=> Stamped(n)
    BY <1>4 DEF Stamped
  <2>6. ASSUME Running, n \notin tick.names PROVE ~Owes(tick'.mem.mounts[n])
    BY <1>1, <1>2, <1>3, <1>6, <2>6 DEF Ledger
  <2> QED BY <1>4, <2>2, <2>3, <2>4, <2>5, <2>6 DEF Ledger
<1>10. Plan(n)'
  <2>1. <<n, "park">> \in tick.todo =>
          Owes(tick'.mem.mounts[n]) /\ lag' \in tick'.mem.mounts[n].trips
    BY <1>1, <1>2, <1>3, <1>5, <1>6 DEF Plan
  <2>2. ASSUME <<n, "remount">> \in tick.todo
        PROVE  /\ Owes(tick'.mem.mounts[n]) /\ tick'.mem.mounts[n].parked >= Park
               /\ ~(Cardinality(PruneTrips(tick'.mem.mounts[n].trips)) >= TripLimit)
    <3>1. Owes(m) /\ m.parked >= Park /\ ~(Cardinality(PruneTrips(m.trips)) >= TripLimit)
      BY <1>1, <2>2 DEF Plan
    <3>2. m.parked \in Age /\ m.trips \in SUBSET Age
      BY <1>2, <3>1 DEF GuardMount, Owes, Stamp
    <3>3. Older(m.parked) \in Age /\ Older(m.parked) >= m.parked
      BY <3>2, OlderAge DEF Stamp
    <3>4. Older(m.parked) >= Park
      BY <3>1, <3>2, <3>3, TuningAssumption DEF Age
    <3>5. Cardinality(PruneTrips({Older(a) : a \in m.trips})) <= Cardinality(PruneTrips(m.trips))
      BY <3>2, PrunedShrinks
    <3>6. /\ Cardinality(PruneTrips(m.trips)) \in Nat
          /\ Cardinality(PruneTrips({Older(a) : a \in m.trips})) \in Nat
      <4>1. {Older(a) : a \in m.trips} \in SUBSET Age
        BY <3>2, OlderAge DEF Stamp
      <4> QED BY <3>2, <4>1, PrunedShrinks, FS_CardinalityType
    <3>7. ~(Cardinality(PruneTrips({Older(a) : a \in m.trips})) >= TripLimit)
      BY <3>1, <3>5, <3>6, TuningAssumption
    <3>8. /\ tick'.mem.mounts[n].trips = {Older(a) : a \in m.trips}
          /\ tick'.mem.mounts[n].parked = Older(m.parked)
          /\ Owes(tick'.mem.mounts[n])
      BY <1>2, <1>3, <1>6, <3>1
    <3> QED BY <3>4, <3>7, <3>8
  <2> QED BY <1>1, <1>4, <2>1, <2>2 DEF Plan
<1> QED BY <1>7, <1>9, <1>10

LEMMA TakeBooks ==
  ASSUME TypeOK, Books, NEW n \in Mounts, NEW op \in {"park", "idle"}, Take(n, op)
  PROVE  Books'
<1> DEFINE g == tick.mem.mounts[n]
<1>1. Debt(n) /\ Ledger(n) /\ Plan(n) /\ op \in Ops /\ <<n, op>> \in tick.todo
  BY DEF Books, Take, Ops
<1>2. tick \in Tick /\ Done(n, op) \in Tick /\ Done(n, op).mem = tick.mem
  BY DoneType DEF TypeOK, Tick
<1>3. PICK r \in Umount(n) :
       /\ mnt' = [mnt EXCEPT ![n] = r[1]]
       /\ owed' = [owed EXCEPT ![n] = IF op = "park" /\ mnt[n] # "down" /\ r[1] = "down"
                                      THEN "tick" ELSE @]
       /\ tick' = IF r[2]
                  THEN [Done(n, op) EXCEPT !.parked = IF op = "park" THEN @ \cup {n} ELSE @]
                  ELSE Remember(Done(n, op), n, [Parked(n, NoTime) EXCEPT !.reason = ""])
  BY DEF Take
<1>4. /\ r[1] \in {"down", mnt[n]} /\ r[2] \in BOOLEAN
      /\ r[2] = FALSE => r[1] = mnt[n] /\ mnt[n] # "down"
      /\ mnt[n] = "down" => r[1] = "down"
  BY UmountType
<1>5. /\ Running /\ n \in tick.names
      /\ Owes(g) => g.parked = IF op = "park" THEN lag ELSE tried[n]
      /\ op = "park" => Owes(g) /\ lag \in g.trips
  BY <1>1 DEF Plan, Ledger, Stamped, Ops
<1>6. \A k \in Mounts \ {n} : owed'[k] = owed[k] /\ mnt'[k] = mnt[k]
  BY <1>3 DEF TypeOK
<1>7. /\ owed'[n] = IF op = "park" /\ mnt[n] # "down" /\ r[1] = "down" THEN "tick" ELSE owed[n]
      /\ mnt'[n] = r[1] /\ owed[n] \in {"none", "tick", "owed"}
  BY <1>3 DEF TypeOK
<1>8. CASE r[2] = TRUE
  <2> DEFINE P == IF op = "park" THEN {n} ELSE {}
             t == [Done(n, op) EXCEPT !.parked = IF op = "park" THEN @ \cup {n} ELSE @]
  <2>1. tick' = t
    BY <1>3, <1>8
  <2>2. t.parked = tick.parked \cup P /\ t.failed = tick.failed \cup {} /\ t.names = tick.names
        /\ t.todo = tick.todo \ {<<n, op>>} /\ t.mem = tick.mem /\ t.pc = tick.pc
    BY <1>2 DEF Done, Tick
  <2>3. tick'.mem.mounts = [tick.mem.mounts EXCEPT ![n] = g]
    BY <1>2, <2>1, <2>2 DEF Tick, GuardState
  <2>4. owed'[n] # "none" => Owes(g) /\ mnt'[n] = "down"
    BY <1>1, <1>4, <1>5, <1>7 DEF Debt
  <2>5. UNCHANGED <<disk, lag, parks, tried>>
    BY DEF Take
  <2>6. Running'
    BY <1>5, <2>1, <2>2 DEF Running
  <2>7. P \in SUBSET {n} /\ {} \in SUBSET {n} /\ (n \in P <=> op = "park")
    OBVIOUS
  <2>8. /\ tick'.names = tick.names /\ tick'.todo = tick.todo \ {<<n, op>>}
        /\ tick'.parked = tick.parked \cup P /\ tick'.failed = tick.failed \cup {}
    BY <2>1, <2>2
  <2>9. /\ n \in P => lag \in g.trips
        /\ Owes(g) => g.parked = IF n \in P \cup {} THEN lag ELSE tried[n]
    BY <1>5, <2>7
  <2>10. owed'[n] \in {"none", "tick", "owed"} /\ (owed'[n] = "owed" => owed[n] = "owed")
    BY <1>7
  <2>11. g.trips = tick.mem.mounts[n].trips
    OBVIOUS
  <2> HIDE DEF t, g, P
  <2> QED BY <1>1, <1>6, <2>3, <2>4, <2>5, <2>6, <2>7, <2>8, <2>9, <2>10, <2>11, ActionBooks
<1>9. CASE r[2] = FALSE
  <2> DEFINE m == [Parked(n, NoTime) EXCEPT !.reason = ""]
             t == Remember(Done(n, op), n, m)
  <2>1. tick' = t
    BY <1>3, <1>9
  <2>2. m \in GuardMount /\ ~Owes(m) /\ m.trips = g.trips
    <3>1. g \in GuardMount /\ NoTime \in Stamp
      BY <1>2, MemType DEF Stamp
    <3> QED BY <3>1 DEF Parked, GuardMount, Owes
  <2>3. t.parked = tick.parked \cup {} /\ t.failed = tick.failed \cup {} /\ t.names = tick.names
        /\ t.todo = tick.todo \ {<<n, op>>} /\ t.pc = tick.pc
    BY <1>2 DEF Done, Tick, Remember
  <2>4. tick'.mem.mounts = [tick.mem.mounts EXCEPT ![n] = m]
    <3> HIDE DEF m
    <3>1. t.mem.mounts = [Done(n, op).mem.mounts EXCEPT ![n] = m]
      BY <1>2, <2>2, RememberType
    <3> QED BY <1>2, <2>1, <3>1
  <2>5. owed'[n] = owed[n] /\ owed[n] = "none"
    BY <1>1, <1>4, <1>7, <1>9 DEF Debt
  <2>6. UNCHANGED <<disk, lag, parks, tried>>
    BY DEF Take
  <2>7. Running'
    BY <1>5, <2>1, <2>3 DEF Running
  <2> DEFINE E == {}
  <2>8. E \in SUBSET {n} /\ n \notin E
    OBVIOUS
  <2>9. /\ tick'.names = tick.names /\ tick'.todo = tick.todo \ {<<n, op>>}
        /\ tick'.parked = tick.parked \cup E /\ tick'.failed = tick.failed \cup E
    BY <2>1, <2>3
  <2>10. m.trips = tick.mem.mounts[n].trips /\ ~Owes(m)
    BY <2>2
  <2>11. /\ owed'[n] # "none" => Owes(m) /\ mnt'[n] = "down"
         /\ owed'[n] \in {"none", "tick", "owed"}
         /\ owed'[n] = "owed" => owed[n] = "owed"
    BY <2>5
  <2> HIDE DEF t, g, m, E
  <2> QED BY <1>1, <1>6, <2>4, <2>6, <2>7, <2>8, <2>9, <2>10, <2>11, ActionBooks
<1> QED BY <1>4, <1>8, <1>9

\* What holds of n when the tick is at its action op other than "park".
LEMMA AtAction ==
  ASSUME TypeOK, Books, NEW n \in Mounts, NEW op \in Ops \ {"park"}, <<n, op>> \in tick.todo
  PROVE  /\ Running /\ n \in tick.names
         /\ LET g == tick.mem.mounts[n]
            IN  /\ Owes(g) => g.parked = tried[n]
                /\ owed[n] # "none" => Owes(g) /\ mnt[n] = "down"
         /\ owed[n] \in {"none", "tick", "owed"}
<1>1. Debt(n) /\ Ledger(n) /\ Plan(n) /\ "park" \in Ops
  BY DEF Books, Ops
<1>2. ~Stamped(n)
  BY <1>1 DEF Plan, Stamped
<1>3. owed[n] \in {"none", "tick", "owed"}
  BY DEF TypeOK
<1> QED BY <1>1, <1>2, <1>3 DEF Debt, Ledger, Plan

\* A tick's action on n that leaves its memory alone, whatever becomes of the mount.
LEMMA DoneBooks ==
  ASSUME TypeOK, Books, NEW n \in Mounts, NEW op \in Ops \ {"park"}, <<n, op>> \in tick.todo,
         UNCHANGED <<disk, lag, parks, tried>>,
         tick'.mem = tick.mem, tick'.names = tick.names, tick'.parked = tick.parked,
         tick'.failed = tick.failed, tick'.todo = tick.todo \ {<<n, op>>}, Running',
         \A k \in Mounts : \/ owed'[k] = "none"
                           \/ owed'[k] = owed[k] /\ (mnt'[k] = "down" \/ mnt'[k] = mnt[k]),
         \A k \in Mounts \ {n} : owed'[k] = owed[k] /\ mnt'[k] = mnt[k]
  PROVE  Books'
<1> DEFINE g == tick.mem.mounts[n]
           E == {}
<1>1. /\ Owes(g) => g.parked = tried[n]
      /\ owed[n] # "none" => Owes(g) /\ mnt[n] = "down"
      /\ owed[n] \in {"none", "tick", "owed"}
  BY AtAction
<1>2. E \in SUBSET {n} /\ n \notin E
      /\ tick'.parked = tick.parked \cup E /\ tick'.failed = tick.failed \cup E
  OBVIOUS
<1>3. tick'.mem.mounts = [tick.mem.mounts EXCEPT ![n] = g]
  BY DEF TypeOK, GuardState
<1>4. /\ owed'[n] # "none" => Owes(g) /\ mnt'[n] = "down"
      /\ owed'[n] \in {"none", "tick", "owed"}
      /\ owed'[n] = "owed" => owed[n] = "owed"
  BY <1>1
<1>5. g.trips = tick.mem.mounts[n].trips
  OBVIOUS
<1> HIDE DEF g, E
<1> QED BY <1>1, <1>2, <1>3, <1>4, <1>5, ActionBooks

LEMMA RetryBooks ==
  ASSUME TypeOK, Books, NEW n \in Mounts, <<n, "remount">> \in tick.todo, tick' = Retry(n),
         UNCHANGED <<disk, lag, parks, tried>>,
         \A k \in Mounts : \/ owed'[k] = "none"
                           \/ owed'[k] = owed[k] /\ (mnt'[k] = "down" \/ mnt'[k] = mnt[k]),
         \A k \in Mounts \ {n} : owed'[k] = owed[k] /\ mnt'[k] = mnt[k]
  PROVE  Books'
<1> DEFINE g == tick.mem.mounts[n]
           m == Parked(n, lag)
           d == Done(n, "remount")
           f == Failed(n)
           E == {}
           F == {n}
<1>1. "remount" \in Ops /\ "remount" \in Ops \ {"park"}
  BY DEF Ops
<1>2. /\ owed[n] # "none" => Owes(g) /\ mnt[n] = "down"
      /\ owed[n] \in {"none", "tick", "owed"}
  BY <1>1, AtAction
<1>3. d \in Tick /\ d.mem = tick.mem
  BY DoneType
<1>4. f \in Tick /\ f.mem = tick.mem /\ f.names = tick.names /\ f.parked = tick.parked
      /\ f.failed = tick.failed \cup {n} /\ f.pc = "act" /\ f.todo = tick.todo \ {<<n, "remount">>}
  BY <1>3 DEF Failed, Done, Tick, TypeOK
<1>5. lag \in Age /\ lag \in Stamp /\ lag # NoTime
  BY TuningAssumption DEF TypeOK, Stamp, Age, NoTime
<1>6. m \in GuardMount
  BY <1>5, ParkedType
<1>7. m.trips = g.trips /\ m.parked = lag /\ m.reason = g.reason
  <2>1. g \in GuardMount
    BY MemType DEF TypeOK, Tick
  <2> QED BY <2>1 DEF Parked, GuardMount
<1>8. Owes(g) => Owes(m)
  BY <1>5, <1>7 DEF Owes
<1>9. tick'.mem.mounts = [tick.mem.mounts EXCEPT ![n] = m]
  <2> HIDE DEF m, f
  <2>1. Retry(n) = Remember(f, n, m)
    BY DEF Retry, f, m
  <2> QED BY <1>4, <1>6, <2>1, RememberType
<1>10. tick'.pc = f.pc /\ tick'.names = f.names /\ tick'.parked = f.parked
       /\ tick'.failed = f.failed /\ tick'.todo = f.todo
  <2> HIDE DEF m, f
  <2>1. Retry(n) = Remember(f, n, m)
    BY DEF Retry, f, m
  <2> QED BY <1>4, <2>1 DEF Remember, Tick
<1>11. /\ tick'.names = tick.names /\ tick'.todo = tick.todo \ {<<n, "remount">>}
       /\ tick'.parked = tick.parked \cup E /\ tick'.failed = tick.failed \cup F
       /\ Running'
  BY <1>4, <1>10 DEF Running
<1>12. E \in SUBSET {n} /\ F \in SUBSET {n} /\ n \notin E /\ n \in F
  OBVIOUS
<1>13. /\ owed'[n] # "none" => Owes(m) /\ mnt'[n] = "down"
       /\ owed'[n] \in {"none", "tick", "owed"}
       /\ owed'[n] = "owed" => owed[n] = "owed"
  BY <1>2, <1>8
<1> HIDE DEF m, f, d, E, F
<1> QED BY <1>1, <1>7, <1>9, <1>11, <1>12, <1>13, ActionBooks

\* SetMount in the words of the two lemmas above.
LEMMA SetMountFrame ==
  ASSUME TypeOK, NEW n \in Mounts, NEW to, SetMount(n, to)
  PROVE  /\ \A k \in Mounts : \/ owed'[k] = "none"
                              \/ owed'[k] = owed[k] /\ (mnt'[k] = "down" \/ mnt'[k] = mnt[k])
         /\ \A k \in Mounts \ {n} : owed'[k] = owed[k] /\ mnt'[k] = mnt[k]
BY DEF TypeOK, SetMount

LEMMA RemountBooks ==
  ASSUME TypeOK, Books, NEW n \in Mounts,
         RemountSkip(n) \/ RemountLaunch(n) \/ RemountEnd(n) \/ Warn(n),
         n \in tick.on => <<n, "remount">> \in tick.todo
  PROVE  Books'
<1>1. "remount" \in Ops \ {"park"} /\ "bench" \in Ops \ {"park"}
  BY DEF Ops
<1>2. tick \in Tick
  BY DEF TypeOK, Tick
<1>3. \A op \in Ops : /\ Done(n, op).mem = tick.mem /\ Done(n, op).names = tick.names
                      /\ Done(n, op).parked = tick.parked /\ Done(n, op).failed = tick.failed
                      /\ Done(n, op).todo = tick.todo \ {<<n, op>>}
                      /\ Done(n, op).pc = tick.pc /\ Done(n, op) \in Tick
  BY <1>2, DoneType DEF Done, Tick
<1>4. CASE RemountSkip(n)
  <2>1. UNCHANGED <<mnt, owed, disk, lag, parks, tried>> /\ <<n, "remount">> \in tick.todo
        /\ tick.pc = "act" /\ (tick' = Done(n, "remount") \/ tick' = Retry(n))
    BY <1>4 DEF RemountSkip, world, history
  <2>2. CASE tick' = Done(n, "remount")
    BY <1>1, <1>3, <2>1, <2>2, DoneBooks DEF Running
  <2>3. CASE tick' = Retry(n)
    BY <2>1, <2>3, RetryBooks
  <2> QED BY <2>1, <2>2, <2>3
<1>5. CASE Warn(n)
  <2>1. UNCHANGED <<mnt, owed, disk, lag, parks, tried>> /\ <<n, "bench">> \in tick.todo
        /\ tick.pc = "act" /\ tick' = Done(n, "bench")
    BY <1>5 DEF Warn, world, history
  <2> QED BY <1>1, <1>3, <2>1, DoneBooks DEF Running
<1>6. CASE RemountLaunch(n)
  <2>1. PICK to \in {"down", mnt[n]} : SetMount(n, to)
    BY <1>6 DEF RemountLaunch
  <2>2. to \in {"down", "up", "hung"}
    BY DEF TypeOK
  <2>3. /\ tick'.mem = tick.mem /\ tick'.names = tick.names /\ tick'.todo = tick.todo
        /\ tick'.parked = tick.parked /\ tick'.failed = tick.failed /\ Running' = Running
    BY <1>2, <1>6 DEF RemountLaunch, Tick, Running
  <2>4. UNCHANGED <<disk, lag, parks, tried>>
    BY <1>6 DEF RemountLaunch
  <2> QED BY <2>1, <2>2, <2>3, <2>4, SetMountBooks
<1>7. CASE RemountEnd(n)
  <2>1. PICK r \in Launched(n) :
          /\ SetMount(n, r[1])
          /\ tick' = IF r[2] THEN [Done(n, "remount") EXCEPT !.pc = "act", !.on = {}]
                             ELSE Retry(n)
    BY <1>7 DEF RemountEnd
  <2>2. UNCHANGED <<disk, lag, parks, tried>> /\ <<n, "remount">> \in tick.todo
    BY <1>7 DEF RemountEnd
  <2>3. CASE r[2] = TRUE
    <3> DEFINE t == [Done(n, "remount") EXCEPT !.pc = "act", !.on = {}]
    <3>1. tick' = t
      BY <2>1, <2>3
    <3>2. /\ t.mem = tick.mem /\ t.names = tick.names /\ t.parked = tick.parked
          /\ t.failed = tick.failed /\ t.todo = tick.todo \ {<<n, "remount">>} /\ t.pc = "act"
      BY <1>1, <1>3 DEF Tick
    <3> HIDE DEF t
    <3> QED BY <1>1, <2>1, <2>2, <3>1, <3>2, SetMountFrame, DoneBooks DEF Running
  <2>4. CASE r[2] = FALSE
    <3>1. tick' = Retry(n)
      BY <2>1, <2>4
    <3> QED BY <2>1, <2>2, <3>1, SetMountFrame, RetryBooks
  <2>5. r[2] \in BOOLEAN
    BY LaunchedType
  <2> QED BY <2>3, <2>4, <2>5
<1> QED BY <1>4, <1>5, <1>6, <1>7

\* A tick begins with the saved state, moved on by what it sampled.
LEMMA BeginBooks == TypeOK /\ Books /\ Idling /\ Begin => Books'
<1> SUFFICES ASSUME TypeOK, Books, Idling, Begin, NEW n \in Mounts
             PROVE  Debt(n)' /\ Ledger(n)' /\ Plan(n)'
  BY DEF Books
<1> PICK up \in SUBSET Mounts, inside \in SUBSET Mounts : BeginTick(up, inside)
  BY DEF Begin
<1> PICK scan \in BOOLEAN, busy \in SUBSET up :
       LET d == Decide(disk, registry, [up |-> up, held |-> inside, busy |-> busy,
                                        scan |-> scan, ticket |-> ticket])
       IN  tick' = [NoTick EXCEPT !.pc = "act", !.names = registry,
                                  !.mem = d.state, !.todo = d.actions]
  BY DEF BeginTick, Sample
<1> DEFINE obs == [up |-> up, held |-> inside, busy |-> busy, scan |-> scan, ticket |-> ticket]
           d == Decide(disk, registry, obs)
           e == Decided(disk, obs, n)
           m == disk.mounts[n]
<1>1. obs \in Observation /\ obs.up = up /\ disk \in GuardState /\ registry \in SUBSET Mounts
  BY DEF Observation, TypeOK
<1>2. /\ n \in registry => d.state.mounts[n] = e.mount
      /\ n \notin registry => ~Owes(d.state.mounts[n])
      /\ \A op \in Ops : <<n, op>> \in d.actions <=> n \in registry /\ e.op = op
  BY <1>1, DecideType, UnknownType
<1>3. /\ PruneTrips(m.trips) \subseteq e.mount.trips
      /\ n \notin up =>
           /\ e.op \in {"", "bench", "remount"}
           /\ e.mount.parked = m.parked /\ e.mount.reason = m.reason
      /\ n \in up =>
           /\ e.op \in {"", "park", "idle"}
           /\ Owes(e.mount) => e.op = "park" /\ e.mount.parked = 0
      /\ e.op = "park" => Owes(e.mount) /\ 0 \in e.mount.trips
      /\ e.op = "remount" =>
           /\ Owes(e.mount) /\ e.mount.parked >= Park
           /\ ~(Cardinality(PruneTrips(e.mount.trips)) >= TripLimit)
  BY <1>1, OneDecision
<1> HIDE DEF d, e, obs
<1>4. /\ tick'.pc = "act" /\ tick'.names = registry /\ tick'.mem = d.state
      /\ tick'.todo = d.actions /\ tick'.parked = {} /\ tick'.failed = {} /\ tick'.on = {}
  BY DEF NoTick, d, obs
<1>5. lag' = 0 /\ tick.pc = "off" /\ UNCHANGED <<mnt, disk, owed, parks, tried>>
  BY DEF BeginTick, world, history
<1>6. n \in up => mnt[n] # "down"
  <2>1. up = {k \in registry : mnt[k] # "down"} \/ up = {}
    BY DEF BeginTick
  <2> QED BY <2>1
<1>7. "park" \in Ops /\ "remount" \in Ops
  BY DEF Ops
<1>8. Debt(n) /\ Ledger(n)
  BY DEF Books
<1>9. Running' /\ ~Running
  BY <1>4, <1>5 DEF Running
<1>10. n \notin up => (Owes(e.mount) <=> Owes(m))
  BY <1>3 DEF Owes
<1>11. Debt(n)'
  BY <1>2, <1>3, <1>4, <1>5, <1>6, <1>8, <1>9, <1>10 DEF Debt
<1>12. Stamped(n)' <=> n \in registry /\ e.op = "park"
  BY <1>2, <1>4, <1>7 DEF Stamped
<1>13. PruneTrips(parks[n]) \subseteq PruneTrips(m.trips)
  BY <1>8 DEF Ledger, PruneTrips
<1>14. Ledger(n)'
  <2>1. ASSUME n \in registry, Owes(e.mount)
        PROVE  e.mount.parked = IF e.op = "park" THEN 0 ELSE tried[n]
    <3>1. CASE n \in up
      BY <1>3, <2>1, <3>1
    <3>2. CASE n \notin up
      <4>1. e.op # "park" /\ Owes(m) /\ e.mount.parked = m.parked
        BY <1>3, <1>10, <2>1, <3>2
      <4>2. tried[n] = m.parked
        BY <1>8, <4>1 DEF Ledger
      <4> QED BY <4>1, <4>2
    <3> QED BY <3>1, <3>2
  <2> QED BY <1>2, <1>3, <1>4, <1>5, <1>8, <1>9, <1>12, <1>13, <2>1 DEF Ledger
<1>15. Plan(n)'
  BY <1>2, <1>3, <1>4, <1>5, <1>7, <1>9 DEF Plan
<1> QED BY <1>11, <1>14, <1>15

LEMMA SaveBooks == TypeOK /\ Books /\ SaveTick => Books'
<1> SUFFICES ASSUME TypeOK, Books, SaveTick, NEW n \in Mounts
             PROVE  Debt(n)' /\ Ledger(n)' /\ Plan(n)'
  BY DEF Books
<1> DEFINE m == tick.mem.mounts[n]
<1>1. Debt(n) /\ Ledger(n)
  BY DEF Books
<1>2. /\ Running /\ tick' = NoTick /\ disk'.mounts[n] = m /\ tick.todo = {}
      /\ UNCHANGED <<mnt, lag>>
  BY DEF SaveTick, Running, world
<1>3. ~Running' /\ NoTick.todo = {}
  BY <1>2 DEF Running, NoTick
<1>4. /\ owed'[n] = IF n \notin tick.names THEN "none"
                    ELSE IF owed[n] = "tick" THEN "owed" ELSE owed[n]
      /\ parks'[n] = IF n \notin tick.names THEN {}
                     ELSE IF n \in tick.parked THEN parks[n] \cup {lag} ELSE parks[n]
      /\ tried'[n] = IF n \notin tick.names THEN NoTime
                     ELSE IF n \in tick.parked \cup tick.failed THEN lag ELSE tried[n]
  BY DEF SaveTick, Record
<1>5. owed[n] \in {"none", "tick", "owed"}
  BY DEF TypeOK
<1>6. Debt(n)'
  BY <1>1, <1>2, <1>3, <1>4, <1>5 DEF Debt
<1>7. Ledger(n)'
  <2>1. CASE n \notin tick.names
    <3>1. ~Owes(m)
      BY <2>1, <1>1, <1>2 DEF Ledger
    <3> QED BY <1>2, <1>3, <1>4, <2>1, <3>1 DEF Ledger, PruneTrips
  <2>2. CASE n \in tick.names
    <3>1. Stamped(n) <=> n \in tick.parked \cup tick.failed
      BY <1>2 DEF Stamped
    <3>2. Owes(m) => tried'[n] = m.parked
      BY <1>1, <1>2, <1>4, <2>2, <3>1 DEF Ledger
    <3>3. PruneTrips(parks'[n]) \subseteq m.trips
      BY <1>1, <1>2, <1>4, <2>2 DEF Ledger, PruneTrips
    <3> QED BY <1>2, <1>3, <3>2, <3>3 DEF Ledger
  <2> QED BY <2>1, <2>2
<1>8. Plan(n)'
  BY <1>2, <1>3 DEF Plan
<1> QED BY <1>6, <1>7, <1>8

LEMMA LoseBooks == TypeOK /\ Books /\ LoseTick => Books'
<1> SUFFICES ASSUME TypeOK, Books, LoseTick, NEW n \in Mounts
             PROVE  Debt(n)' /\ Ledger(n)' /\ Plan(n)'
  BY DEF Books
<1>1. Debt(n) /\ Ledger(n)
  BY DEF Books
<1>2. tick' = NoTick /\ UNCHANGED <<disk, parks, tried>>
  BY DEF LoseTick
<1>3. ~Running' /\ NoTick.todo = {}
  BY <1>2 DEF Running, NoTick
<1>4. owed'[n] = "none" \/ (owed'[n] = owed[n] /\ owed[n] # "tick" /\ mnt'[n] = mnt[n])
  BY DEF LoseTick
<1>5. Debt(n)'
  BY <1>1, <1>2, <1>3, <1>4 DEF Debt
<1>6. Ledger(n)'
  BY <1>1, <1>2, <1>3 DEF Ledger
<1>7. Plan(n)'
  BY <1>2, <1>3 DEF Plan
<1> QED BY <1>5, <1>6, <1>7

-----------------------------------------------------------------------------
(* The theorems. *)

LEMMA InvInit == Init => IInv
<1> SUFFICES ASSUME Init PROVE IInv
  OBVIOUS
<1>1. TypeOK
  BY TypeInit
<1>2. tick = NoTick /\ ~Running
  BY DEF Init, NoTick, Running
<1>3. NoTick.todo = {} /\ NoTick.on = {}
  BY DEF NoTick
<1>4. ASSUME NEW n \in Mounts PROVE Debt(n) /\ Ledger(n) /\ Plan(n)
  <2>1. disk.mounts[n] = Unknown /\ owed[n] = "none" /\ parks[n] = {}
    BY DEF Init, Empty
  <2>2. PruneTrips(parks[n]) = {}
    BY <2>1 DEF PruneTrips
  <2> QED BY <1>2, <1>3, <2>1, <2>2, UnknownType DEF Debt, Ledger, Plan
<1> QED BY <1>1, <1>2, <1>3, <1>4 DEF IInv, Books, Idling, Starting

LEMMA BooksStep == IInv /\ [Next]_vars => Books'
<1> SUFFICES ASSUME IInv, [Next]_vars PROVE Books'
  OBVIOUS
<1> USE DEF IInv
<1>0. \A n \in Mounts : mnt[n] = "down" \/ owed[n] = "none"
  BY DEF Books, Debt
<1>1. ASSUME NEW n \in Mounts, Owner(n) PROVE Books'
  <2>1. CASE OwnerMount(n) \/ OwnerSet(n)
    <3>1. PICK to \in {"down", "up", "hung"} : SetMount(n, to)
      BY <2>1 DEF OwnerMount, OwnerSet
    <3> QED BY <2>1, <3>1, SetMountBooks DEF OwnerMount, OwnerSet, Running
  <2>2. CASE OwnerUmount(n)
    <3>1. PICK r \in Umount(n) : SetMount(n, r[1])
      BY <2>2 DEF OwnerUmount
    <3>2. r[1] \in {"down", "up", "hung"}
      BY UmountType
    <3> QED BY <2>2, <3>1, <3>2, SetMountBooks DEF OwnerUmount, Running
  <2>3. CASE OwnerAdd(n) \/ OwnerRm(n) \/ OwnerEnter(n) \/ OwnerLeave(n)
    BY <1>0, <2>3, WorldBooks DEF OwnerAdd, OwnerRm, OwnerEnter, OwnerLeave, history
  <2> QED BY <1>1, <2>1, <2>2, <2>3 DEF Owner
<1>2. ASSUME NEW n \in Mounts, Endpoint(n) PROVE Books'
  <2>1. \A k \in Mounts : mnt'[k] = "down" \/ owed[k] = "none"
    BY <1>0, <1>2 DEF Endpoint, TypeOK
  <2> QED BY <1>2, <2>1, WorldBooks DEF Endpoint, history
<1>3. CASE Ticket
  BY <1>0, <1>3, WorldBooks DEF Ticket, history
<1>4. CASE Advance
  BY <1>4, AdvanceBooks
<1>5. ASSUME NEW n \in Mounts, Handle(n) \/ RemountEnd(n) PROVE Books'
  BY <1>5, TakeBooks, RemountBooks DEF Handle, Starting
<1>6. CASE Begin
  BY <1>6, BeginBooks
<1>7. CASE SaveTick
  BY <1>7, SaveBooks
<1>8. CASE LoseTick
  BY <1>8, LoseBooks
<1>9. CASE UNCHANGED vars
  BY <1>0, <1>9, WorldBooks DEF vars
<1> QED BY <1>1, <1>2, <1>3, <1>4, <1>5, <1>6, <1>7, <1>8, <1>9 DEF Next

LEMMA TickStep == IInv /\ [Next]_vars => Idling' /\ Starting'
<1> SUFFICES ASSUME IInv, [Next]_vars PROVE Idling' /\ Starting'
  OBVIOUS
<1>1. tick \in Tick /\ Idling /\ Starting /\ TypeOK
  BY DEF IInv, TypeOK, Tick
<1>2. NoTick.on = {} /\ NoTick.pc = "off"
  BY DEF NoTick
<1>3. CASE tick' = tick
  BY <1>1, <1>3 DEF Idling, Starting, Running
<1>4. CASE SaveTick \/ LoseTick
  BY <1>2, <1>4 DEF SaveTick, LoseTick, Idling, Starting, Running
<1>5. CASE Advance
  <2>1. CASE Running
    BY <1>1, <1>5, <2>1 DEF Advance, Tick, Idling, Starting, Running
  <2>2. CASE ~Running
    <3>1. OlderMount(Unknown) = Unknown
      <4>1. Older(NoTime) = NoTime /\ {Older(a) : a \in {}} = {}
        BY DEF Older
      <4>2. Unknown.active = NoTime /\ Unknown.parked = NoTime /\ Unknown.trips = {}
        BY DEF Unknown
      <4>3. OlderMount(Unknown) = [Unknown EXCEPT !.active = NoTime, !.parked = NoTime, !.trips = {}]
        BY <4>1, <4>2 DEF OlderMount
      <4> QED BY <4>3 DEF Unknown
    <3>2. [n \in Mounts |-> OlderMount(Empty.mounts[n])] = Empty.mounts
      BY <3>1 DEF Empty
    <3>3. OlderState(Empty) = Empty
      <4>1. OlderState(Empty) = [Empty EXCEPT !.mounts = Empty.mounts]
        BY <3>2 DEF OlderState
      <4> QED BY <4>1 DEF Empty
    <3> QED BY <1>1, <1>2, <1>5, <2>2, <3>3, SMTT(20) DEF Advance, Idling, Starting, Running, NoTick
  <2> QED BY <2>1, <2>2
<1>6. CASE Begin
  <2>1. tick'.pc = "act" /\ tick'.on = {}
    BY <1>6 DEF Begin, BeginTick, NoTick
  <2> QED BY <2>1 DEF Idling, Starting, Running
<1>7. ASSUME NEW n \in Mounts, Handle(n) \/ RemountEnd(n) PROVE Idling' /\ Starting'
  <2>1. tick.pc = "act" => tick.on = {}
    BY <1>1 DEF Starting
  <2>2. \A op : Done(n, op) \in Tick /\ Done(n, op).pc = tick.pc /\ Done(n, op).on = tick.on
    BY <1>1, DoneType DEF Done, Tick
  <2>3. Retry(n).pc = "act" /\ Retry(n).on = {}
    BY <1>1, DoneType DEF Retry, Failed, Remember, Tick
  <2>4. CASE \E op \in {"park", "idle"} : Take(n, op)
    <3>1. PICK op \in {"park", "idle"} : Take(n, op)
      BY <2>4
    <3>2. tick.pc = "act" /\ tick'.pc = tick.pc /\ tick'.on = tick.on
      <4> DEFINE d == Done(n, op)
      <4>1. \A x, m : /\ [d EXCEPT !.parked = x].pc = tick.pc
                      /\ [d EXCEPT !.parked = x].on = tick.on
                      /\ Remember(d, n, m).pc = tick.pc /\ Remember(d, n, m).on = tick.on
        BY <2>2 DEF Remember, Tick
      <4>2. tick.pc = "act" /\ \/ \E x : tick' = [d EXCEPT !.parked = x]
                               \/ \E m : tick' = Remember(d, n, m)
        BY <3>1 DEF Take
      <4> QED BY <4>1, <4>2
    <3> QED BY <2>1, <3>2 DEF Idling, Starting, Running
  <2>5. CASE RemountSkip(n) \/ Warn(n)
    <3>1. tick.pc = "act" /\ tick'.pc = "act" /\ tick'.on = {}
      BY <2>1, <2>2, <2>3, <2>5 DEF RemountSkip, Warn
    <3> QED BY <3>1 DEF Idling, Starting, Running
  <2>6. CASE RemountLaunch(n)
    BY <1>1, <2>6 DEF RemountLaunch, Tick, Idling, Starting, Running
  <2>7. CASE RemountEnd(n)
    <3>1. tick'.pc = "act" /\ tick'.on = {}
      BY <2>2, <2>3, <2>7 DEF RemountEnd, Tick
    <3> QED BY <3>1 DEF Idling, Starting, Running
  <2> QED BY <1>7, <2>4, <2>5, <2>6, <2>7 DEF Handle
<1>8. CASE UNCHANGED vars
  BY <1>3, <1>8 DEF vars
<1>9. ASSUME NEW n \in Mounts, Owner(n) \/ Endpoint(n) \/ Ticket PROVE tick' = tick
  BY <1>9 DEF Owner, OwnerMount, OwnerSet, OwnerUmount, OwnerAdd, OwnerRm, OwnerEnter,
              OwnerLeave, Endpoint, Ticket
<1>10. CASE Ticket
  BY <1>3, <1>10 DEF Ticket
<1> QED BY <1>3, <1>4, <1>5, <1>6, <1>7, <1>8, <1>9, <1>10 DEF Next

LEMMA Invariance == Spec => []IInv
<1>1. IInv /\ [Next]_vars => IInv'
  BY TypeStep, BooksStep, TickStep DEF IInv
<1> QED BY <1>1, InvInit, PTL DEF Spec

\* A mount the guard took down for the AV, and nobody brought up since, is in the saved
\* state as a mount that is owed a remount, whatever happens in between.
THEOREM DebtsAreRemembered == Spec => []OwedIsRemembered
<1>1. IInv => OwedIsRemembered
  BY DEF IInv, Books, Debt, Owes, OwedIsRemembered
<1> QED BY <1>1, Invariance, PTL

\* Only RemountLaunch starts sshfs, and only on a mount its plan names.
LEMMA LaunchPlanned ==
  ASSUME IInv, [Next]_vars, NEW n \in Mounts, Launches(n)
  PROVE  /\ Running /\ n \in tick.names
         /\ Owes(tick.mem.mounts[n]) /\ tick.mem.mounts[n].parked >= Park
         /\ tick.mem.mounts[n].parked = tried[n]
         /\ PruneTrips(parks[n]) \subseteq tick.mem.mounts[n].trips
         /\ ~(Cardinality(PruneTrips(tick.mem.mounts[n].trips)) >= TripLimit)
<1>1. tick \in Tick /\ n \in tick'.on /\ n \notin tick.on /\ TypeOK
  BY DEF IInv, TypeOK, Tick, Launches
<1>2. NoTick.on = {}
  BY DEF NoTick
<1>3. <<n, "remount">> \in tick.todo
  <2>1. ASSUME NEW k \in Mounts, RemountLaunch(k) PROVE <<n, "remount">> \in tick.todo
    BY <1>1, <2>1 DEF RemountLaunch, Tick
  <2>2. ASSUME NEW k \in Mounts, RemountEnd(k) \/ RemountSkip(k) \/ Warn(k) PROVE FALSE
    <3>1. \A op : Done(k, op) \in Tick /\ Done(k, op).on = tick.on
      BY <1>1, DoneType DEF Done, Tick
    <3>2. Retry(k).on = {}
      BY <1>1, DoneType DEF Retry, Failed, Remember, Tick
    <3> QED BY <1>1, <2>2, <3>1, <3>2 DEF RemountEnd, RemountSkip, Warn, Tick
  <2>3. ASSUME NEW k \in Mounts, NEW op \in {"park", "idle"}, Take(k, op) PROVE FALSE
    <3>1. Done(k, op) \in Tick /\ Done(k, op).on = tick.on
      BY <1>1, DoneType DEF Done, Tick
    <3>2. tick'.on = tick.on
      BY <2>3, <3>1 DEF Take, Remember, Tick
    <3> QED BY <1>1, <3>2
  <2>4. ASSUME NEW k \in Mounts, Owner(k) \/ Endpoint(k) PROVE tick' = tick
    BY <2>4 DEF Owner, OwnerMount, OwnerSet, OwnerUmount, OwnerAdd, OwnerRm, OwnerEnter,
                OwnerLeave, Endpoint
  <2>5. CASE Ticket \/ UNCHANGED vars
    BY <1>1, <2>5 DEF Ticket, vars
  <2>6. CASE Advance
    BY <1>1, <2>6 DEF Advance, Tick
  <2>7. CASE Begin \/ SaveTick \/ LoseTick
    BY <1>1, <1>2, <2>7 DEF Begin, BeginTick, SaveTick, LoseTick, NoTick
  <2> QED BY <1>1, <2>1, <2>2, <2>3, <2>4, <2>5, <2>6, <2>7 DEF Next, Handle
<1>4. Ledger(n) /\ Plan(n) /\ "remount" \in Ops /\ "park" \in Ops
  BY DEF IInv, Books, Ops
<1>5. ~Stamped(n)
  BY <1>3, <1>4 DEF Plan, Stamped
<1> QED BY <1>3, <1>4, <1>5 DEF Plan, Ledger

\* The guard never brings up a mount it parked TripLimit times within TripWindow.
THEOREM TripLimitHolds == Spec => NoCycling
<1>1. ASSUME IInv, [Next]_vars, NEW n \in Mounts, Launches(n)
      PROVE  Cardinality(PruneTrips(parks[n])) < TripLimit
  <2> DEFINE T == tick.mem.mounts[n].trips
  <2>1. PruneTrips(parks[n]) \subseteq T /\ ~(Cardinality(PruneTrips(T)) >= TripLimit)
    BY <1>1, LaunchPlanned
  <2>2. T \in SUBSET Age
    BY <1>1 DEF IInv, TypeOK, GuardState, GuardMount
  <2>3. PruneTrips(parks[n]) \in SUBSET PruneTrips(T)
    BY <2>1 DEF PruneTrips
  <2>4. IsFiniteSet(PruneTrips(T))
    BY <2>2, PrunedShrinks
  <2>5. /\ Cardinality(PruneTrips(parks[n])) <= Cardinality(PruneTrips(T))
        /\ Cardinality(PruneTrips(parks[n])) \in Nat /\ Cardinality(PruneTrips(T)) \in Nat
    BY <2>3, <2>4, FS_Subset, FS_CardinalityType
  <2> QED BY <2>1, <2>5, TuningAssumption
<1>2. IInv /\ [Next]_vars =>
        [\A n \in Mounts : Launches(n) => Cardinality(PruneTrips(parks[n])) < TripLimit]_vars
  BY <1>1
<1> QED BY <1>2, Invariance, PTL DEF Spec, NoCycling

\* A whole cooldown lies between an AV park or a failed remount and the next try.
THEOREM CooldownsHold == Spec => CooldownHolds
<1>1. IInv /\ [Next]_vars =>
        [\A n \in Mounts : Launches(n) /\ tried[n] # NoTime => tried[n] >= Park]_vars
  BY LaunchPlanned
<1> QED BY <1>1, Invariance, PTL DEF Spec, CooldownHolds
=============================================================================
