---------------------------- MODULE TunnelProofs ------------------------------
(***************************************************************************)
(* Proofs about Tunnel, for every set of tunnels, ports, adopters and      *)
(* walltimes: the type invariant, that every master that answers has a     *)
(* holder, a record or a reason, and that no tunnel that was reported up   *)
(* loses its record while its job is in the queue.                         *)
(***************************************************************************)
EXTENDS Tunnel, TLAPS

\* A mu at work knows its job and its socket.  Until it has submitted, the scheduler has
\* not heard of its job; a setup has no record and no clock yet; what a record of the same
\* tunnel says is what mu knows, but for a foreground record on reattach, whose socket
\* nobody answers any more.
MuKnows(t) ==
  ~Idle(t) =>
    /\ t \notin Adopters => mu[t].job = t
    /\ At(t, {"submit"}) => t \notin Adopters /\ job[t].st = "none"
    /\ ~At(t, {"submit"}) => job[mu[t].job].st # "none"
    /\ At(t, Setup) => ~Recorded(t) /\ age[t] = 0
    /\ At(t, {"hold"}) => t \in Foreground
    /\ mu[t].sock = IF t \in Foreground /\ ~At(t, Reattach) THEN t ELSE mu[t].port
    /\ Recorded(t) =>
         /\ rec[t].job = mu[t].job
         /\ \/ rec[t].sock = mu[t].sock
            \/ At(t, Reattach) /\ rec[t].sock = t /\ t \in Foreground /\ t \notin master

\* A record names a job that was submitted, and the socket of its port or of its process.
RecordKnows(t) ==
  Recorded(t) =>
    /\ t \notin Adopters => rec[t].job = t
    /\ job[rec[t].job].st # "none"
    /\ rec[t].sock = rec[t].port \/ (rec[t].sock = t /\ t \in Foreground)

\* The clock of a record never runs ahead of the scheduler's: a timed tunnel's job that
\* mu has seen running has been running at least as long.
ClockBehind(t) ==
  t \in Timed \ Requeues /\ (Recorded(t) \/ At(t, {"forward", "hold"} \cup Reattach)) =>
    /\ job[t].st \in {"running", "ended"}
    /\ job[t].st = "running" => age[t] <= job[t].age

\* A trusted tunnel has one job, the one its mu and its record name; without a record that
\* job is over, and it does not come back.
TrustKnows(r) ==
  /\ job[r[2]].st # "none"
  /\ ~Idle(r[1]) => mu[r[1]].job = r[2]
  /\ Recorded(r[1]) => rec[r[1]].job = r[2]
  /\ ~Recorded(r[1]) /\ r[1] \notin Timed \cap Requeues => job[r[2]].st = "ended"

IInv ==
  /\ TypeOK
  /\ MasterAccounted
  /\ \A t \in Tunnels : MuKnows(t) /\ RecordKnows(t) /\ ClockBehind(t)
  /\ \A r \in trusted : TrustKnows(r)

-----------------------------------------------------------------------------
(* Shapes.                                                                 *)

\* No forward, record or mu is None: it lacks their fields.
LEMMA NoneApart == None \notin Forward /\ None \notin Record /\ None \notin Mu
<1>1. DOMAIN None = {"port"}
  BY DEF None
<1>2. ASSUME NEW f \in Forward PROVE f # None
  <2>1. "job" \in DOMAIN f
    BY DEF Forward
  <2> QED BY <1>1, <2>1
<1>3. ASSUME NEW r \in Record PROVE r # None
  <2>1. "job" \in DOMAIN r
    BY DEF Record
  <2> QED BY <1>1, <2>1
<1>4. ASSUME NEW m \in Mu PROVE m # None
  <2>1. "job" \in DOMAIN m
    BY DEF Mu
  <2> QED BY <1>1, <2>1
<1> QED BY <1>2, <1>3, <1>4

\* What a recorded tunnel and a mu at work look like.
LEMMA Shapes ==
  ASSUME TypeOK, NEW t \in Tunnels
  PROVE  /\ Recorded(t) => /\ rec[t] \in Record
                           /\ rec[t].job \in Tunnels
                           /\ rec[t].port \in Ports
                           /\ rec[t].sock \in Socks
         /\ ~Idle(t) => /\ mu[t] \in Mu
                        /\ mu[t].pc \in {"hold"} \cup Setup \cup Reattach
                        /\ mu[t].job \in Tunnels
                        /\ mu[t].port \in Ports
                        /\ mu[t].sock \in Socks
<1>1. Recorded(t) => rec[t] \in Record
  BY DEF TypeOK, Recorded
<1>2. ~Idle(t) => mu[t] \in Mu
  BY DEF TypeOK, Idle
<1> QED BY <1>1, <1>2 DEF Record, Mu

\* The initial state.
LEMMA InvInit == Init => IInv
<1> SUFFICES ASSUME Init PROVE IInv
  OBVIOUS
<1>1. \A t \in Tunnels : Idle(t) /\ ~Recorded(t)
  BY DEF Init, Idle, Recorded
<1>2. TypeOK
  BY TunnelAssumption DEF Init, TypeOK
<1>3. MasterAccounted /\ \A r \in trusted : TrustKnows(r)
  BY DEF Init, MasterAccounted
<1>4. \A t \in Tunnels : MuKnows(t) /\ RecordKnows(t) /\ ClockBehind(t)
  BY <1>1 DEF MuKnows, RecordKnows, ClockBehind, At
<1> QED BY <1>2, <1>3, <1>4 DEF IInv

-----------------------------------------------------------------------------
(* The type invariant.                                                     *)

\* CloseMaster and Leave keep the types of what they change.
LEMMA SshTypes ==
  ASSUME TypeOK, NEW s \in Socks
  PROVE  /\ CloseMaster(s) => /\ master' \in SUBSET Socks
                              /\ fwd' \in [Socks -> Forward \cup {None}]
                              /\ loose' \in [Socks -> {"no", "cut", "pruned"}]
         /\ OpenMaster(s) => /\ master' \in SUBSET Socks
                             /\ fwd' \in [Socks -> Forward \cup {None}]
                             /\ loose' \in [Socks -> {"no", "cut", "pruned"}]
         /\ \A why \in {"cut", "pruned"} :
              Leave(s, why) => loose' \in [Socks -> {"no", "cut", "pruned"}]
<1> QED BY DEF TypeOK, CloseMaster, OpenMaster, Leave

\* The setup of a tunnel keeps every variable's type.
LEMMA SetupTypes ==
  ASSUME TypeOK, NEW t \in Tunnels,
         \/ \E p \in Ports : Open(t, p)
         \/ Submit(t) \/ Running(t) \/ GiveUp(t) \/ GoUp(t) \/ Release(t) \/ Killed(t)
  PROVE  TypeOK'
<1>1. /\ ~Idle(t) => mu[t] \in Mu /\ mu[t].job \in Tunnels /\ mu[t].port \in Ports
                     /\ mu[t].sock \in Socks
      /\ Recorded(t) => rec[t] \in Record /\ rec[t].sock \in Socks
  BY Shapes
<1>2. CASE \E p \in Ports : Open(t, p)
  <2>1. PICK p \in Ports : Open(t, p)
    BY <1>2
  <2>2. PICK j \in Tunnels :
          /\ mu' = [mu EXCEPT ![t] =
               [pc |-> IF t \in Adopters THEN "wait" ELSE "submit", job |-> j, port |-> p,
                sock |-> IF t \in Foreground THEN t ELSE p]]
          /\ OpenMaster(mu'[t].sock)
    BY <2>1 DEF Open
  <2> DEFINE m == [pc |-> IF t \in Adopters THEN "wait" ELSE "submit", job |-> j, port |-> p,
                   sock |-> IF t \in Foreground THEN t ELSE p]
  <2>3. m \in Mu /\ m.sock \in Socks
    BY TunnelAssumption DEF Mu, Setup, Socks
  <2>4. mu' = [mu EXCEPT ![t] = m]
    BY <2>2
  <2> HIDE DEF m
  <2>5. mu' \in [Tunnels -> Mu \cup {None}] /\ mu'[t] = m
    BY <2>3, <2>4 DEF TypeOK
  <2>6. OpenMaster(m.sock)
    BY <2>2, <2>5
  <2> QED BY <2>1, <2>3, <2>5, <2>6, SshTypes DEF Open, TypeOK, regVars
<1>3. CASE Submit(t)
  <2>1. ~Idle(t)
    BY <1>3 DEF Submit, At
  <2>2. job' \in [Tunnels -> [st: {"none", "queued", "running", "ended"}, age: 0 .. Wall]]
    BY <1>3 DEF Submit, TypeOK
  <2>3. mu' \in [Tunnels -> Mu \cup {None}]
    <3>1. CASE Goto(t, "wait")
      <4>1. [mu[t] EXCEPT !.pc = "wait"] \in Mu
        BY <1>1, <2>1 DEF Mu, Setup
      <4> QED BY <3>1, <4>1 DEF Goto, TypeOK
    <3>2. CASE Exit(t)
      BY <3>2 DEF Exit, TypeOK
    <3> QED BY <1>3, <3>1, <3>2 DEF Submit
  <2>4. CASE CloseMaster(mu[t].sock)
    BY <1>1, <1>3, <2>1, <2>2, <2>3, <2>4, SshTypes DEF Submit, TypeOK, regVars
  <2>5. CASE UNCHANGED <<sshVars, loose>>
    BY <1>3, <2>2, <2>3, <2>5 DEF Submit, TypeOK, regVars, sshVars
  <2> QED BY <1>3, <2>4, <2>5 DEF Submit
<1>4. CASE Running(t)
  <2>1. ~Idle(t)
    BY <1>4 DEF Running, At
  <2>2. [mu[t] EXCEPT !.pc = "forward"] \in Mu
    BY <1>1, <2>1 DEF Mu, Setup
  <2> QED BY <1>4, <2>2 DEF Running, Goto, TypeOK, sshVars, regVars
<1>5. CASE GiveUp(t)
  BY <1>1, <1>5, SshTypes DEF GiveUp, At, Exit, TypeOK, regVars
<1>6. CASE GoUp(t)
  <2>1. ~Idle(t)
    BY <1>6 DEF GoUp, At
  <2>2. master' \in SUBSET Socks /\ fwd' \in [Socks -> Forward \cup {None}]
    BY <1>1, <1>6, <2>1 DEF GoUp, AddForward, Forward, TypeOK
  <2>3. /\ rec' \in [Tunnels -> Record \cup {None}]
        /\ trusted' \in SUBSET (Tunnels \X Tunnels)
        /\ loose' \in [Socks -> {"no", "cut", "pruned"}]
    <3>1. [job |-> mu[t].job, port |-> mu[t].port, sock |-> mu[t].sock] \in Record
      BY <1>1, <2>1 DEF Record
    <3> QED BY <1>1, <1>6, <2>1, <3>1, SshTypes DEF GoUp, SaveTunnel, TypeOK
  <2>4. mu' \in [Tunnels -> Mu \cup {None}]
    <3>1. [mu[t] EXCEPT !.pc = "hold"] \in Mu
      BY <1>1, <2>1 DEF Mu
    <3> QED BY <1>6, <3>1 DEF GoUp, Goto, Exit, TypeOK
  <2> QED BY <1>6, <2>2, <2>3, <2>4 DEF GoUp, TypeOK
<1>7. CASE Release(t)
  BY <1>1, <1>7, SshTypes DEF Release, At, Exit, TypeOK
<1>8. CASE Killed(t)
  BY <1>1, <1>8, SshTypes DEF Killed, Exit, TypeOK, sshVars, regVars
<1> QED BY <1>2, <1>3, <1>4, <1>5, <1>6, <1>7, <1>8

\* So do ls, reattach and close.
LEMMA ManageTypes ==
  ASSUME TypeOK, NEW t \in Tunnels,
         \/ Ls(t) \/ StartReattach(t) \/ List(t) \/ Reforward(t)
         \/ \E keep \in BOOLEAN : Close(t, keep)
  PROVE  TypeOK'
<1>1. /\ ~Idle(t) => mu[t] \in Mu /\ mu[t].job \in Tunnels /\ mu[t].port \in Ports
                     /\ mu[t].sock \in Socks
      /\ Recorded(t) => rec[t] \in Record /\ rec[t].job \in Tunnels /\ rec[t].port \in Ports
                        /\ rec[t].sock \in Socks
  BY Shapes
<1>2. CASE Ls(t)
  BY <1>1, <1>2, SshTypes DEF Ls, Forget, TypeOK, sshVars
<1>3. CASE StartReattach(t)
  <2> DEFINE m == [pc |-> "list", job |-> rec[t].job, port |-> rec[t].port, sock |-> rec[t].port]
  <2>1. m \in Mu /\ rec[t].port \in Socks
    BY <1>1, <1>3 DEF StartReattach, Mu, Reattach, Socks
  <2>2. mu' = [mu EXCEPT ![t] = m]
    BY <1>3 DEF StartReattach
  <2> HIDE DEF m
  <2>3. mu' \in [Tunnels -> Mu \cup {None}]
    BY <2>1, <2>2 DEF TypeOK
  <2> QED BY <1>3, <2>1, <2>3, SshTypes DEF StartReattach, TypeOK, regVars
<1>4. CASE List(t)
  <2>1. ~Idle(t)
    BY <1>4 DEF List, At
  <2>2. CASE Goto(t, "reforward") /\ UNCHANGED <<sshVars, rec, loose>>
    <3>1. [mu[t] EXCEPT !.pc = "reforward"] \in Mu
      BY <1>1, <2>1 DEF Mu, Reattach
    <3> QED BY <1>4, <2>2, <3>1 DEF List, Goto, TypeOK, sshVars
  <2>3. CASE rec' = [rec EXCEPT ![t] = None] /\ CloseMaster(mu[t].sock) /\ Exit(t)
    BY <1>1, <1>4, <2>1, <2>3, SshTypes DEF List, Exit, TypeOK
  <2> QED BY <1>4, <2>2, <2>3 DEF List
<1>5. CASE Reforward(t)
  <2>1. ~Idle(t)
    BY <1>5 DEF Reforward, At
  <2>2. master' \in SUBSET Socks /\ fwd' \in [Socks -> Forward \cup {None}]
    BY <1>1, <1>5, <2>1 DEF Reforward, AddForward, Forward, TypeOK
  <2>3. [job |-> mu[t].job, port |-> mu[t].port, sock |-> mu[t].sock] \in Record
    BY <1>1, <2>1 DEF Record
  <2>4. /\ rec' \in [Tunnels -> Record \cup {None}]
        /\ trusted' \in SUBSET (Tunnels \X Tunnels)
        /\ loose' \in [Socks -> {"no", "cut", "pruned"}]
    BY <1>1, <1>5, <2>1, <2>3, SshTypes DEF Reforward, SaveTunnel, TypeOK
  <2> QED BY <1>5, <2>2, <2>4 DEF Reforward, Exit, TypeOK
<1>6. CASE \E keep \in BOOLEAN : Close(t, keep)
  <2>1. Recorded(t)
    BY <1>6 DEF Close
  <2>2. job' \in [Tunnels -> [st: {"none", "queued", "running", "ended"}, age: 0 .. Wall]]
    <3>1. [st |-> "ended", age |-> 0] \in [st: {"none", "queued", "running", "ended"}, age: 0 .. Wall]
      BY TunnelAssumption
    <3> QED BY <1>6, <3>1 DEF Close, TypeOK
  <2> QED BY <1>1, <1>6, <2>1, <2>2, SshTypes DEF Close, TypeOK
<1> QED BY <1>2, <1>3, <1>4, <1>5, <1>6

\* So do the scheduler, the network and the clock.
LEMMA WorldTypes ==
  ASSUME TypeOK,
         \/ \E j \in Tunnels : JobStarts(j) \/ JobEnds(j) \/ JobRequeued(j)
         \/ \E s \in Socks : MasterDies(s)
         \/ Advance
  PROVE  TypeOK'
<1> DEFINE JobState == [st: {"none", "queued", "running", "ended"}, age: 0 .. Wall]
<1>1. CASE \E j \in Tunnels : JobStarts(j) \/ JobEnds(j) \/ JobRequeued(j)
  <2>1. \A st \in {"queued", "running", "ended"} : [st |-> st, age |-> 0] \in JobState
    BY TunnelAssumption
  <2>2. job' \in [Tunnels -> JobState]
    BY <1>1, <2>1 DEF JobStarts, JobEnds, JobRequeued, TypeOK
  <2> QED BY <1>1, <2>2 DEF JobStarts, JobEnds, JobRequeued, TypeOK, sshVars, regVars
<1>2. CASE \E s \in Socks : MasterDies(s)
  BY <1>2, SshTypes DEF MasterDies, TypeOK, regVars
<1>3. CASE Advance
  <2>1. job' \in [Tunnels -> JobState]
    <3>1. ASSUME NEW j \in Tunnels, job[j].st = "running"
          PROVE  [job[j] EXCEPT !.age = job[j].age + 1] \in JobState
      BY <1>3, <3>1, TunnelAssumption DEF Advance, TypeOK
    <3> QED BY <1>3, <3>1 DEF Advance, TypeOK
  <2>2. age' \in [Tunnels -> 0 .. Wall + 1]
    BY <1>3, TunnelAssumption DEF Advance, TypeOK
  <2> QED BY <1>3, <2>1, <2>2 DEF Advance, TypeOK, sshVars
<1> QED BY <1>1, <1>2, <1>3

LEMMA TypeStep == TypeOK /\ [Next]_vars => TypeOK'
<1> SUFFICES ASSUME TypeOK, [Next]_vars PROVE TypeOK'
  OBVIOUS
<1>1. CASE UNCHANGED vars
  BY <1>1 DEF TypeOK, vars, sshVars, regVars
<1>2. CASE Next
  BY <1>2, SetupTypes, ManageTypes, WorldTypes DEF Next, Owner, Step
<1> QED BY <1>1, <1>2

\* Every variable keeps to its values, for every set of tunnels and ports and any walltime:
\* a record or a mu always names a tunnel, a port and a socket, and the clocks are bounded.
THEOREM TypeCorrect == Spec => []TypeOK
<1>1. Init => TypeOK
  BY InvInit DEF IInv
<1> QED BY <1>1, TypeStep, PTL DEF Spec

-----------------------------------------------------------------------------
(* What a step leaves alone.                                               *)

\* A step of one tunnel leaves the others' mu, record and clock as they are, and opens no
\* master named for another mu's process.
Apart(t) ==
  /\ mu'[t] = mu[t] /\ rec'[t] = rec[t] /\ age'[t] = age[t]
  /\ t \in Foreground /\ t \notin master => t \notin master'

\* The scheduler never forgets a job it took, and one that is over does not come back; only
\* a job that may be requeued leaves the running ones otherwise.
JobsGoOn ==
  /\ \A j \in Tunnels : job[j].st # "none" => job'[j].st # "none"
  /\ \A j \in Tunnels : job[j].st = "ended" => job'[j].st = "ended"
  /\ \A j \in Tunnels \ Requeues :
       job[j].st \in {"running", "ended"} =>
         /\ job'[j].st \in {"running", "ended"}
         /\ job'[j].st = "running" => job[j].st = "running" /\ job'[j].age = job[j].age

\* What a tunnel apart from the step knows stays true.
LEMMA ApartKnows ==
  ASSUME TypeOK, NEW t \in Tunnels, MuKnows(t), RecordKnows(t), ClockBehind(t),
         Apart(t), JobsGoOn,
         At(t, {"submit"}) => job'[t].st = job[t].st
  PROVE  MuKnows(t)' /\ RecordKnows(t)' /\ ClockBehind(t)'
<1>1. /\ ~Idle(t) => mu[t].job \in Tunnels
      /\ Recorded(t) => rec[t].job \in Tunnels
  BY Shapes
<1>2. /\ Idle(t)' <=> Idle(t)
      /\ Recorded(t)' <=> Recorded(t)
      /\ \A pcs : At(t, pcs)' <=> At(t, pcs)
  BY DEF Apart, Idle, Recorded, At
<1>3. MuKnows(t)'
  BY <1>1, <1>2 DEF MuKnows, Apart, JobsGoOn
<1>4. RecordKnows(t)'
  BY <1>1, <1>2 DEF RecordKnows, Apart, JobsGoOn
<1>5. ClockBehind(t)'
  BY <1>1, <1>2, TunnelAssumption DEF ClockBehind, Apart, JobsGoOn
<1> QED BY <1>3, <1>4, <1>5

\* The mu of t is at work with the socket s, or the record of t names it.
HeldBy(t, s) == (~Idle(t) /\ mu[t].sock = s) \/ (Recorded(t) /\ rec[t].sock = s)

\* A step of the tunnel t keeps the invariant if it leaves the others alone, and t knows
\* what it should, is trusted rightly, and lets go of no master that answers.
LEMMA OneTunnel ==
  ASSUME IInv, TypeOK', NEW t \in Tunnels,
         \A u \in Tunnels \ {t} : Apart(u) /\ (job[u].st = "none" => job'[u].st = "none"),
         JobsGoOn,
         MuKnows(t)', RecordKnows(t)', ClockBehind(t)',
         \A r \in trusted' : r \in trusted \/ r[1] = t,
         \A r \in trusted' : r[1] = t => TrustKnows(r)',
         \A s \in master' : s \in master \/ HeldBy(t, s)',
         \A s \in master' : loose[s] # "no" => loose'[s] # "no",
         \A s \in master' : HeldBy(t, s) => HeldBy(t, s)' \/ loose'[s] # "no"
  PROVE  IInv'
<1> USE DEF IInv
<1>1. ASSUME NEW u \in Tunnels \ {t}
      PROVE  MuKnows(u)' /\ RecordKnows(u)' /\ ClockBehind(u)'
  <2>1. At(u, {"submit"}) => job'[u].st = job[u].st
    BY DEF MuKnows, At
  <2> QED BY <2>1, ApartKnows
<1>2. ASSUME NEW r \in trusted' PROVE TrustKnows(r)'
  <2>1. CASE r[1] = t
    BY <2>1
  <2>2. CASE r[1] # t
    <3>1. r \in trusted /\ TrustKnows(r) /\ r[1] \in Tunnels \ {t} /\ r[2] \in Tunnels
      BY <2>2 DEF TypeOK
    <3>2. /\ Idle(r[1])' <=> Idle(r[1])
          /\ Recorded(r[1])' <=> Recorded(r[1])
          /\ mu'[r[1]] = mu[r[1]] /\ rec'[r[1]] = rec[r[1]]
      BY <3>1 DEF Apart, Idle, Recorded
    <3> QED BY <3>1, <3>2 DEF TrustKnows, JobsGoOn
  <2> QED BY <2>1, <2>2
<1>3. MasterAccounted'
  <2> SUFFICES ASSUME NEW s \in master' PROVE Held(s)' \/ loose'[s] # "no"
    BY DEF MasterAccounted
  <2>1. HeldBy(t, s)' => Held(s)'
    BY DEF HeldBy, Held
  <2>2. CASE s \in master /\ loose[s] = "no"
    <3>1. PICK u \in Tunnels : HeldBy(u, s)
      BY <2>2 DEF MasterAccounted, Held, HeldBy
    <3>2. CASE u # t
      BY <3>1, <3>2 DEF HeldBy, Held, Apart, Idle, Recorded
    <3> QED BY <2>1, <3>1, <3>2
  <2> QED BY <2>1, <2>2
<1> QED BY <1>1, <1>2, <1>3

-----------------------------------------------------------------------------
(* The steps of a setup.                                                   *)

LEMMA OpenStep ==
  ASSUME IInv, TypeOK', NEW t \in Tunnels, NEW p \in Ports, Open(t, p)
  PROVE  IInv'
<1> USE DEF IInv
<1>1. /\ Idle(t) /\ ~Recorded(t) /\ job[t].st = "none" /\ age[t] = 0
      /\ \A r \in trusted : r[1] # t
      /\ UNCHANGED <<job, rec, age, trusted>>
  BY DEF Open, regVars
<1>2. PICK j \in Tunnels :
        /\ IF t \in Adopters THEN job[j].st # "none" ELSE j = t
        /\ mu' = [mu EXCEPT ![t] =
             [pc |-> IF t \in Adopters THEN "wait" ELSE "submit", job |-> j, port |-> p,
              sock |-> IF t \in Foreground THEN t ELSE p]]
        /\ OpenMaster(mu'[t].sock)
  BY DEF Open
<1> DEFINE m == [pc |-> IF t \in Adopters THEN "wait" ELSE "submit", job |-> j, port |-> p,
                 sock |-> IF t \in Foreground THEN t ELSE p]
<1>3. /\ m.pc = (IF t \in Adopters THEN "wait" ELSE "submit")
      /\ m.job = j /\ m.port = p /\ m.sock = (IF t \in Foreground THEN t ELSE p)
      /\ m \in Mu
  BY TunnelAssumption DEF Mu, Setup, Socks
<1>4. mu' = [mu EXCEPT ![t] = m]
  BY <1>2
<1> HIDE DEF m
<1>5. mu'[t] = m /\ \A u \in Tunnels \ {t} : mu'[u] = mu[u]
  BY <1>4 DEF TypeOK
<1>6. master' = master \cup {m.sock} /\ loose' = loose
  BY <1>2, <1>5 DEF OpenMaster
<1>7. ~Idle(t)' /\ ~Recorded(t)' /\ \A pcs : At(t, pcs)' <=> m.pc \in pcs
  BY <1>1, <1>3, <1>5, NoneApart DEF Idle, Recorded, At
<1>8. \A u \in Tunnels \ {t} : Apart(u)
  BY <1>1, <1>3, <1>5, <1>6, TunnelAssumption DEF Apart
<1>9. JobsGoOn
  BY <1>1 DEF JobsGoOn
<1>10. MuKnows(t)' /\ RecordKnows(t)' /\ ClockBehind(t)'
  BY <1>1, <1>2, <1>3, <1>5, <1>7
     DEF MuKnows, RecordKnows, ClockBehind, Setup, Reattach
<1>11. \A s \in master' : s \in master \/ HeldBy(t, s)'
  BY <1>5, <1>6, <1>7 DEF HeldBy
<1>12. \A s \in master' : ~HeldBy(t, s)
  BY <1>1 DEF HeldBy
<1> QED BY <1>1, <1>6, <1>8, <1>9, <1>10, <1>11, <1>12, OneTunnel

LEMMA SubmitStep ==
  ASSUME IInv, TypeOK', NEW t \in Tunnels, Submit(t)
  PROVE  IInv'
<1> USE DEF IInv
<1>1. /\ At(t, {"submit"}) /\ ~Idle(t) /\ mu[t].pc = "submit" /\ mu[t] \in Mu
      /\ rec' = rec /\ age' = age /\ trusted' = trusted
  BY Shapes DEF Submit, At, regVars
<1>2. /\ t \notin Adopters /\ mu[t].job = t /\ job[t].st = "none" /\ ~Recorded(t) /\ age[t] = 0
      /\ mu[t].sock = IF t \in Foreground THEN t ELSE mu[t].port
  BY <1>1 DEF MuKnows, At, Setup, Reattach
<1>3. \A r \in trusted : r[1] # t
  BY <1>1, <1>2 DEF TrustKnows
<1>4. \A u \in Tunnels \ {t} : mu'[u] = mu[u] /\ job'[u] = job[u]
  BY DEF Submit, Goto, Exit, TypeOK
<1>5. master' \subseteq master /\ \A u \in Tunnels \ {t} : Apart(u)
  BY <1>1, <1>4 DEF Submit, CloseMaster, sshVars, Apart
<1>6. JobsGoOn
  BY <1>2, <1>4 DEF JobsGoOn
<1>7. CASE Goto(t, "wait") /\ UNCHANGED <<sshVars, loose>> /\ job'[t].st = "queued"
  <2>1. /\ mu'[t].pc = "wait" /\ mu'[t].job = t /\ mu'[t].sock = mu[t].sock
        /\ mu'[t].port = mu[t].port /\ mu'[t] \in Mu
    BY <1>1, <1>2, <1>7 DEF Goto, TypeOK, Mu, Setup
  <2>2. ~Idle(t)' /\ ~Recorded(t)' /\ \A pcs : At(t, pcs)' <=> "wait" \in pcs
    BY <1>1, <1>2, <2>1, NoneApart DEF Idle, Recorded, At
  <2>3. MuKnows(t)' /\ RecordKnows(t)' /\ ClockBehind(t)'
    BY <1>1, <1>2, <1>7, <2>1, <2>2
       DEF MuKnows, RecordKnows, ClockBehind, Setup, Reattach
  <2>4. \A s \in master' : HeldBy(t, s) => HeldBy(t, s)'
    BY <1>2, <2>1, <2>2 DEF HeldBy
  <2> QED BY <1>1, <1>3, <1>4, <1>5, <1>6, <1>7, <2>3, <2>4, OneTunnel DEF sshVars
<1>8. CASE Exit(t) /\ CloseMaster(mu[t].sock)
  <2>1. Idle(t)' /\ ~Recorded(t)' /\ \A pcs : ~At(t, pcs)'
    BY <1>1, <1>2, <1>8 DEF Exit, TypeOK, Idle, Recorded, At
  <2>2. MuKnows(t)' /\ RecordKnows(t)' /\ ClockBehind(t)'
    BY <2>1 DEF MuKnows, RecordKnows, ClockBehind
  <2>3. \A s \in master' : /\ loose'[s] = loose[s]
                           /\ ~HeldBy(t, s)
    BY <1>2, <1>8 DEF CloseMaster, HeldBy, TypeOK
  <2> QED BY <1>1, <1>3, <1>4, <1>5, <1>6, <2>2, <2>3, OneTunnel
<1>9. job'[t].st = "queued" \/ Exit(t)
  BY DEF Submit, TypeOK
<1> QED BY <1>7, <1>8, <1>9 DEF Submit, TypeOK

LEMMA RunningStep ==
  ASSUME IInv, TypeOK', NEW t \in Tunnels, Running(t)
  PROVE  IInv'
<1> USE DEF IInv
<1>1. /\ At(t, {"wait"}) /\ ~Idle(t) /\ mu[t].pc = "wait" /\ mu[t] \in Mu
      /\ job[mu[t].job].st = "running"
      /\ UNCHANGED <<job, master, fwd, rec, age, trusted, loose>>
  BY Shapes DEF Running, At, sshVars, regVars
<1>2. /\ t \notin Adopters => mu[t].job = t
      /\ ~Recorded(t) /\ age[t] = 0
      /\ mu[t].sock = IF t \in Foreground THEN t ELSE mu[t].port
  BY <1>1 DEF MuKnows, At, Setup, Reattach
<1>3. /\ mu'[t].pc = "forward" /\ mu'[t].job = mu[t].job /\ mu'[t].sock = mu[t].sock
      /\ mu'[t].port = mu[t].port /\ mu'[t] \in Mu
      /\ \A u \in Tunnels \ {t} : mu'[u] = mu[u]
  BY <1>1 DEF Running, Goto, TypeOK, Mu, Setup
<1>4. ~Idle(t)' /\ ~Recorded(t)' /\ \A pcs : At(t, pcs)' <=> "forward" \in pcs
  BY <1>1, <1>2, <1>3, NoneApart DEF Idle, Recorded, At
<1>5. \A u \in Tunnels \ {t} : Apart(u)
  BY <1>1, <1>3 DEF Apart
<1>6. JobsGoOn
  BY <1>1 DEF JobsGoOn
<1>7. MuKnows(t)' /\ RecordKnows(t)'
  BY <1>1, <1>2, <1>3, <1>4 DEF MuKnows, RecordKnows, Setup, Reattach
<1>8. ClockBehind(t)'
  BY <1>1, <1>2, TunnelAssumption DEF ClockBehind, TypeOK
<1>9. \A r \in trusted : r[1] = t => TrustKnows(r)'
  BY <1>1, <1>2, <1>3, <1>4 DEF TrustKnows
<1>10. \A s \in master' : HeldBy(t, s) => HeldBy(t, s)'
  BY <1>2, <1>3, <1>4 DEF HeldBy
<1> QED BY <1>1, <1>5, <1>6, <1>7, <1>8, <1>9, <1>10, OneTunnel

\* A mu that leaves, by itself or by force, without touching records: what its master's
\* socket was held by is no loss, because it is closed or said to be cut short.
LEMMA LeaveStep ==
  ASSUME IInv, TypeOK', NEW t \in Tunnels, ~Idle(t), Exit(t),
         UNCHANGED <<job, rec, age, trusted>>,
         CloseMaster(mu[t].sock) \/ (Leave(mu[t].sock, "cut") /\ UNCHANGED sshVars)
  PROVE  IInv'
<1> USE DEF IInv
<1>1. /\ mu'[t] = None
      /\ \A u \in Tunnels \ {t} : mu'[u] = mu[u]
  BY DEF Exit, TypeOK
<1>2. Idle(t)' /\ (Recorded(t)' <=> Recorded(t)) /\ \A pcs : ~At(t, pcs)'
  BY <1>1 DEF Idle, Recorded, At
<1>3. master' \subseteq master /\ \A u \in Tunnels \ {t} : Apart(u)
  BY <1>1 DEF CloseMaster, sshVars, Apart
<1>4. JobsGoOn
  BY DEF JobsGoOn
<1>5. MuKnows(t)' /\ RecordKnows(t)' /\ ClockBehind(t)'
  BY <1>2 DEF MuKnows, RecordKnows, ClockBehind
<1>6. \A r \in trusted : r[1] = t => TrustKnows(r)'
  BY <1>2 DEF TrustKnows
<1>7. \A s \in master' : loose[s] # "no" => loose'[s] # "no"
  BY DEF CloseMaster, Leave, TypeOK
<1>8. \A s \in master' : HeldBy(t, s) => HeldBy(t, s)' \/ loose'[s] # "no"
  BY <1>2, <1>3, Shapes DEF HeldBy, CloseMaster, Leave, sshVars, TypeOK
<1> QED BY <1>3, <1>4, <1>5, <1>6, <1>7, <1>8, OneTunnel

\* What a mu knows when the forward is to be asked for.
LEMMA SavedStep ==
  ASSUME IInv, TypeOK', NEW t \in Tunnels, ~Idle(t), ~At(t, {"submit"}),
         ~At(t, Reattach) => ~Recorded(t),
         t \in Timed \ Requeues =>
           /\ job[t].st \in {"running", "ended"}
           /\ job[t].st = "running" => age[t] <= job[t].age,
         SaveTunnel(t), master' = master, UNCHANGED <<job, age>>,
         \/ Exit(t)
         \/ /\ Goto(t, "hold") /\ t \in Foreground /\ mu[t].sock = t
  PROVE  IInv'
<1> USE DEF IInv
<1>1. /\ mu[t] \in Mu /\ mu[t].job \in Tunnels /\ mu[t].port \in Ports /\ mu[t].sock \in Socks
      /\ t \notin Adopters => mu[t].job = t
      /\ job[mu[t].job].st # "none"
      /\ mu[t].sock = mu[t].port \/ (mu[t].sock = t /\ t \in Foreground)
  BY Shapes DEF MuKnows
<1>2. /\ \A u \in Tunnels \ {t} : mu'[u] = mu[u] /\ rec'[u] = rec[u]
      /\ \/ mu'[t] = None
         \/ /\ t \in Foreground /\ mu[t].sock = t
            /\ mu'[t].pc = "hold" /\ mu'[t].job = mu[t].job /\ mu'[t].sock = mu[t].sock
            /\ mu'[t].port = mu[t].port /\ mu'[t] \in Mu
  BY <1>1 DEF Exit, Goto, SaveTunnel, TypeOK, Mu
<1>3. /\ Idle(t)' <=> mu'[t] = None
      /\ \A pcs : At(t, pcs)' <=> ~Idle(t)' /\ "hold" \in pcs
  BY <1>2 DEF Idle, At
<1>4. \/ /\ Recorded(t)' /\ rec'[t].job = mu[t].job /\ rec'[t].port = mu[t].port
         /\ rec'[t].sock = mu[t].sock /\ trusted' = trusted \cup {<<t, mu[t].job>>}
         /\ loose' = loose
      \/ /\ rec' = rec /\ trusted' = trusted
         /\ Leave(mu[t].sock, "cut")
  <2>1. CASE rec' = [rec EXCEPT ![t] =
                 [job |-> mu[t].job, port |-> mu[t].port, sock |-> mu[t].sock]]
    <3> DEFINE r == [job |-> mu[t].job, port |-> mu[t].port, sock |-> mu[t].sock]
    <3>1. r \in Record /\ r.job = mu[t].job /\ r.port = mu[t].port /\ r.sock = mu[t].sock
      BY <1>1 DEF Record
    <3> HIDE DEF r
    <3>2. rec'[t] = r
      BY <2>1 DEF r, TypeOK
    <3>3. Recorded(t)'
      BY <3>1, <3>2, NoneApart DEF Recorded
    <3>4. CASE Leave(mu[t].sock, "cut") /\ UNCHANGED <<rec, trusted>>
      BY <3>4
    <3>5. CASE trusted' = trusted \cup {<<t, mu[t].job>>} /\ UNCHANGED loose
      BY <3>1, <3>2, <3>3, <3>5
    <3> QED BY <3>4, <3>5 DEF SaveTunnel
  <2> QED BY <2>1 DEF SaveTunnel
<1>5. \A u \in Tunnels \ {t} : Apart(u)
  BY <1>2 DEF Apart
<1>6. JobsGoOn
  BY DEF JobsGoOn
<1>7. Recorded(t)' /\ ~Recorded(t) => rec'[t].sock = mu[t].sock
  BY <1>4 DEF Recorded
<1>8. MuKnows(t)' /\ RecordKnows(t)'
  <2>1. RecordKnows(t)'
    BY <1>1, <1>4 DEF RecordKnows, Recorded
  <2>2. MuKnows(t)'
    <3>1. CASE Idle(t)'
      BY <3>1 DEF MuKnows
    <3>2. CASE ~Idle(t)'
      <4>1. /\ mu'[t].job = mu[t].job /\ mu'[t].sock = t /\ t \in Foreground
            /\ mu[t].sock = t /\ \A pcs : At(t, pcs)' <=> "hold" \in pcs
        BY <1>2, <1>3, <3>2
      <4>2. Recorded(t)' => rec'[t].job = mu[t].job
        BY <1>4 DEF Recorded, MuKnows
      <4>3. Recorded(t)' => rec'[t].sock = t
        BY <1>4, <4>1, TunnelAssumption, Shapes DEF Recorded, MuKnows
      <4> QED BY <1>1, <4>1, <4>2, <4>3 DEF MuKnows, Setup, Reattach
    <3> QED BY <3>1, <3>2
  <2> QED BY <2>1, <2>2
<1>9. ClockBehind(t)'
  BY DEF ClockBehind
<1>10. \A r \in trusted' : r[1] = t => TrustKnows(r)'
  <2> SUFFICES ASSUME NEW r \in trusted', r[1] = t PROVE TrustKnows(r)'
    OBVIOUS
  <2>1. r[2] = mu[t].job
    BY <1>4 DEF TrustKnows
  <2>2. CASE Recorded(t)' /\ rec'[t].job = mu[t].job
    BY <1>1, <1>2, <1>3, <2>1, <2>2 DEF TrustKnows
  <2>3. CASE rec' = rec /\ trusted' = trusted
    BY <1>2, <1>3, <2>1, <2>3 DEF TrustKnows, Recorded
  <2> QED BY <1>4, <2>2, <2>3
<1>11. \A r \in trusted' : r \in trusted \/ r[1] = t
  BY <1>4
<1>12. \A s \in master' : loose[s] # "no" => loose'[s] # "no"
  BY <1>4 DEF Leave, TypeOK
<1>13. \A s \in master' : HeldBy(t, s) => HeldBy(t, s)' \/ loose'[s] # "no"
  <2> SUFFICES ASSUME NEW s \in master', HeldBy(t, s) PROVE HeldBy(t, s)' \/ loose'[s] # "no"
    OBVIOUS
  <2>1. CASE s = mu[t].sock
    BY <1>1, <1>4, <2>1 DEF HeldBy, Leave, TypeOK
  <2>2. CASE s # mu[t].sock
    BY <2>2 DEF HeldBy, MuKnows
  <2> QED BY <2>1, <2>2
<1> QED BY <1>5, <1>6, <1>8, <1>9, <1>10, <1>11, <1>12, <1>13, OneTunnel

LEMMA GoUpStep ==
  ASSUME IInv, TypeOK', NEW t \in Tunnels, GoUp(t)
  PROVE  IInv'
<1>1. /\ ~Idle(t) /\ mu[t].pc = "forward" /\ MuKnows(t) /\ ClockBehind(t)
      /\ SaveTunnel(t) /\ master' = master /\ UNCHANGED <<job, age>>
  BY DEF GoUp, At, AddForward, IInv
<1>2. /\ ~Recorded(t) /\ ~At(t, {"submit"})
      /\ mu[t].sock = IF t \in Foreground THEN t ELSE mu[t].port
  BY <1>1 DEF MuKnows, At, Setup, Reattach
<1>3. IF t \in Foreground THEN Goto(t, "hold") ELSE Exit(t)
  BY DEF GoUp
<1> QED BY <1>1, <1>2, <1>3, SavedStep DEF ClockBehind, At

LEMMA ReforwardStep ==
  ASSUME IInv, TypeOK', NEW t \in Tunnels, Reforward(t)
  PROVE  IInv'
<1>1. /\ ~Idle(t) /\ mu[t].pc = "reforward" /\ ClockBehind(t)
      /\ SaveTunnel(t) /\ master' = master /\ UNCHANGED <<job, age>> /\ Exit(t)
  BY DEF Reforward, At, AddForward, IInv
<1>2. At(t, Reattach) /\ ~At(t, {"submit"})
  BY <1>1 DEF At, Reattach
<1>3. At(t, {"forward", "hold"} \cup Reattach)
  BY <1>2 DEF At
<1> QED BY <1>1, <1>2, <1>3, SavedStep DEF ClockBehind

\* A record that is dropped while no mu is at work on its tunnel, or by the mu at work:
\* the master it named is closed, or said to be pruned, or not there.
LEMMA DroppedStep ==
  ASSUME IInv, TypeOK', NEW t \in Tunnels, UNCHANGED <<age>>, JobsGoOn,
         \A u \in Tunnels : job[u].st = "none" => job'[u].st = "none",
         rec' = [rec EXCEPT ![t] = None],
         mu' = mu \/ Exit(t),
         master' \subseteq master,
         \A s \in master' : loose[s] # "no" => loose'[s] # "no",
         \A s \in master' : HeldBy(t, s) => (mu' = mu /\ ~Idle(t) /\ mu[t].sock = s) \/ loose'[s] # "no",
         \/ trusted' = {r \in trusted : r[1] # t}
         \/ /\ trusted' = trusted /\ job' = job
            /\ t \in Timed \cap Requeues \/ (Recorded(t) => job[rec[t].job].st = "ended")
  PROVE  IInv'
<1> USE DEF IInv
<1>1. /\ rec'[t] = None
      /\ \A u \in Tunnels \ {t} : mu'[u] = mu[u] /\ rec'[u] = rec[u]
  BY DEF Exit, TypeOK
<1>2. /\ ~Recorded(t)'
      /\ Idle(t)' \/ (mu'[t] = mu[t] /\ ~Idle(t)' /\ ~Idle(t))
      /\ \A pcs : At(t, pcs)' => At(t, pcs) /\ mu'[t] = mu[t]
  BY <1>1 DEF Idle, At, Recorded, Exit, TypeOK
<1>3. \A u \in Tunnels \ {t} : Apart(u)
  BY <1>1 DEF Apart
<1>4. MuKnows(t)'
  <2>1. CASE Idle(t)'
    BY <2>1 DEF MuKnows
  <2>2. CASE mu'[t] = mu[t] /\ ~Idle(t)' /\ ~Idle(t)
    <3>1. \A pcs : At(t, pcs)' <=> At(t, pcs)
      BY <2>2 DEF At, Idle
    <3>2. mu[t].job \in Tunnels
      BY <2>2, Shapes
    <3> QED BY <1>2, <2>2, <3>1, <3>2 DEF MuKnows, JobsGoOn
  <2> QED BY <1>2, <2>1, <2>2
<1>5. RecordKnows(t)'
  BY <1>2 DEF RecordKnows
<1>6. ClockBehind(t)'
  BY <1>2, TunnelAssumption DEF ClockBehind, JobsGoOn
<1>7. \A r \in trusted' : r[1] = t => TrustKnows(r)'
  <2> SUFFICES ASSUME NEW r \in trusted', r[1] = t PROVE TrustKnows(r)'
    OBVIOUS
  <2>1. trusted' = trusted /\ TrustKnows(r)
    OBVIOUS
  <2>2. job' = job /\ (t \in Timed \cap Requeues \/ job[r[2]].st = "ended")
    BY <2>1 DEF TrustKnows
  <2> QED BY <1>2, <2>1, <2>2 DEF TrustKnows
<1>8. \A s \in master' : HeldBy(t, s) => HeldBy(t, s)' \/ loose'[s] # "no"
  BY <1>2 DEF HeldBy, Idle
<1> QED BY <1>3, <1>4, <1>5, <1>6, <1>7, <1>8, OneTunnel

LEMMA ReleaseStep ==
  ASSUME IInv, TypeOK', NEW t \in Tunnels, Release(t)
  PROVE  IInv'
<1> USE DEF IInv
<1>1. /\ ~Idle(t) /\ mu[t].pc = "hold" /\ CloseMaster(mu[t].sock) /\ Exit(t)
      /\ UNCHANGED <<job, age>> /\ mu[t].sock \in Socks
  BY Shapes DEF Release, At
<1>2. Recorded(t) => rec[t].sock = mu[t].sock
  BY <1>1 DEF MuKnows, At, Reattach
<1>3. \A s \in master' : ~HeldBy(t, s) /\ loose'[s] = loose[s] /\ s \in master
  BY <1>1, <1>2 DEF CloseMaster, HeldBy, TypeOK
<1>4. JobsGoOn
  BY <1>1 DEF JobsGoOn
<1> QED BY <1>1, <1>3, <1>4, DroppedStep DEF Release

LEMMA CloseStep ==
  ASSUME IInv, TypeOK', NEW t \in Tunnels, NEW keep \in BOOLEAN, Close(t, keep)
  PROVE  IInv'
<1> USE DEF IInv
<1>1. /\ Recorded(t) /\ CloseMaster(rec[t].sock) /\ UNCHANGED <<age, mu>>
      /\ rec[t].sock \in Socks /\ rec[t].job \in Tunnels
  BY Shapes DEF Close
<1>2. \/ job' = job
      \/ /\ job'[rec[t].job].st = "ended"
         /\ \A u \in Tunnels \ {rec[t].job} : job'[u] = job[u]
  BY <1>1 DEF Close, TypeOK
<1>3. JobsGoOn
  BY <1>1, <1>2 DEF JobsGoOn
<1>4. \A u \in Tunnels : job[u].st = "none" => job'[u].st = "none"
  BY <1>1, <1>2 DEF RecordKnows
<1>5. \A s \in master' : s # rec[t].sock /\ loose'[s] = loose[s] /\ s \in master
  BY <1>1 DEF CloseMaster, TypeOK
<1> QED BY <1>1, <1>3, <1>4, <1>5, DroppedStep DEF Close, HeldBy

\* A job that is not in the queue was submitted, so it is over.
LEMMA DeadIsEnded ==
  ASSUME TypeOK, NEW j \in Tunnels, ~Live(j), job[j].st # "none"
  PROVE  job[j].st = "ended"
<1> QED BY DEF TypeOK, Live

\* A timed tunnel that is out of its walltime has a job that is over, unless the scheduler
\* may start it again.
LEMMA ExpiredIsEnded ==
  ASSUME IInv, NEW t \in Tunnels, Recorded(t), Expired(t), t \notin Requeues
  PROVE  job[t].st = "ended" /\ rec[t].job = t
<1>1. ClockBehind(t) /\ RecordKnows(t) /\ TypeOK
  BY DEF IInv
<1> QED BY <1>1, TunnelAssumption DEF ClockBehind, RecordKnows, Expired, TypeOK

LEMMA LsStep ==
  ASSUME IInv, TypeOK', NEW t \in Tunnels, Ls(t)
  PROVE  IInv'
<1> USE DEF IInv
<1>1. /\ Recorded(t) /\ Leave(rec[t].sock, "pruned") /\ rec' = [rec EXCEPT ![t] = None]
      /\ UNCHANGED <<job, master, fwd, age, mu, trusted>>
      /\ rec[t].sock \in Socks /\ rec[t].job \in Tunnels
  BY Shapes DEF Ls, Forget, sshVars
<1>2. t \in Timed \cap Requeues \/ job[rec[t].job].st = "ended"
  <2>1. CASE ~Live(rec[t].job)
    BY <1>1, <2>1, DeadIsEnded DEF RecordKnows
  <2>2. CASE Expired(t)
    BY <1>1, <2>2, ExpiredIsEnded DEF Expired
  <2> QED BY <2>1, <2>2 DEF Ls
<1>3. JobsGoOn
  BY <1>1 DEF JobsGoOn
<1>4. \A s \in master' : /\ loose[s] # "no" => loose'[s] # "no"
                         /\ s = rec[t].sock => loose'[s] # "no"
  BY <1>1 DEF Leave, TypeOK
<1>5. \A s \in master' :
        HeldBy(t, s) => (mu' = mu /\ ~Idle(t) /\ mu[t].sock = s) \/ loose'[s] # "no"
  BY <1>1, <1>4 DEF HeldBy
<1> QED BY <1>1, <1>2, <1>3, <1>4, <1>5, DroppedStep

LEMMA ListStep ==
  ASSUME IInv, TypeOK', NEW t \in Tunnels, List(t)
  PROVE  IInv'
<1> USE DEF IInv
<1>1. /\ ~Idle(t) /\ mu[t].pc = "list" /\ At(t, Reattach) /\ mu[t] \in Mu
      /\ UNCHANGED <<job, age, trusted>> /\ mu[t].sock \in Socks /\ mu[t].job \in Tunnels
  BY Shapes DEF List, At, Reattach
<1>2. JobsGoOn
  BY <1>1 DEF JobsGoOn
<1>3. CASE /\ job[mu[t].job].st = "running" /\ Goto(t, "reforward")
           /\ UNCHANGED <<sshVars, rec, loose>>
  <2>1. /\ mu'[t].pc = "reforward" /\ mu'[t].job = mu[t].job /\ mu'[t].sock = mu[t].sock
        /\ mu'[t].port = mu[t].port /\ mu'[t] \in Mu
        /\ \A u \in Tunnels \ {t} : mu'[u] = mu[u]
    BY <1>1, <1>3 DEF Goto, TypeOK, Mu, Reattach
  <2>2. /\ ~Idle(t)' /\ (Recorded(t)' <=> Recorded(t))
        /\ \A pcs : At(t, pcs)' <=> "reforward" \in pcs
    BY <1>3, <2>1, NoneApart DEF Idle, Recorded, At
  <2>3. \A u \in Tunnels \ {t} : Apart(u)
    BY <1>1, <1>3, <2>1 DEF Apart, sshVars
  <2>4. MuKnows(t)' /\ RecordKnows(t)' /\ ClockBehind(t)'
    BY <1>1, <1>3, <2>1, <2>2
       DEF MuKnows, RecordKnows, ClockBehind, Setup, Reattach, At, sshVars
  <2>5. \A r \in trusted' : r[1] = t => TrustKnows(r)'
    BY <1>1, <1>3, <2>1, <2>2 DEF TrustKnows
  <2>6. \A s \in master' : HeldBy(t, s) => HeldBy(t, s)'
    BY <1>3, <2>1, <2>2 DEF HeldBy
  <2> QED BY <1>1, <1>2, <1>3, <2>3, <2>4, <2>5, <2>6, OneTunnel DEF sshVars
<1>4. CASE /\ ~Live(mu[t].job) /\ rec' = [rec EXCEPT ![t] = None]
           /\ CloseMaster(mu[t].sock) /\ Exit(t)
  <2>1. job[mu[t].job].st = "ended" /\ (Recorded(t) => rec[t].job = mu[t].job)
    BY <1>1, <1>4, DeadIsEnded DEF MuKnows, At
  <2>2. \A s \in master' : ~HeldBy(t, s) /\ loose'[s] = loose[s] /\ s \in master
    BY <1>1, <1>4 DEF CloseMaster, HeldBy, TypeOK, MuKnows
  <2> QED BY <1>1, <1>2, <1>4, <2>1, <2>2, DroppedStep
<1> QED BY <1>3, <1>4 DEF List

LEMMA StartReattachStep ==
  ASSUME IInv, TypeOK', NEW t \in Tunnels, StartReattach(t)
  PROVE  IInv'
<1> USE DEF IInv
<1>1. /\ Recorded(t) /\ Idle(t) /\ ~MasterAlive(t)
      /\ UNCHANGED <<job, rec, age, trusted, loose>> /\ master' = master \cup {rec[t].port}
      /\ rec[t] \in Record /\ rec[t].job \in Tunnels /\ rec[t].port \in Ports
  BY Shapes DEF StartReattach, OpenMaster, regVars
<1> DEFINE m == [pc |-> "list", job |-> rec[t].job, port |-> rec[t].port, sock |-> rec[t].port]
<1>2. m.pc = "list" /\ m.job = rec[t].job /\ m.port = rec[t].port /\ m.sock = rec[t].port /\ m \in Mu
  BY <1>1 DEF Mu, Reattach, Socks
<1>3. mu' = [mu EXCEPT ![t] = m]
  BY DEF StartReattach
<1> HIDE DEF m
<1>4. mu'[t] = m /\ \A u \in Tunnels \ {t} : mu'[u] = mu[u]
  BY <1>3 DEF TypeOK
<1>5. /\ ~Idle(t)' /\ Recorded(t)' /\ \A pcs : At(t, pcs)' <=> "list" \in pcs
  BY <1>1, <1>2, <1>4, NoneApart DEF Idle, Recorded, At
<1>6. \A u \in Tunnels \ {t} : Apart(u)
  BY <1>1, <1>4, TunnelAssumption DEF Apart
<1>7. JobsGoOn
  BY <1>1 DEF JobsGoOn
<1>8. MuKnows(t)'
  BY <1>1, <1>2, <1>4, <1>5, TunnelAssumption
     DEF MuKnows, RecordKnows, MasterAlive, Setup, Reattach
<1>9. RecordKnows(t)' /\ ClockBehind(t)'
  BY <1>1, <1>5 DEF RecordKnows, ClockBehind
<1>10. \A r \in trusted' : r[1] = t => TrustKnows(r)'
  BY <1>1, <1>2, <1>4, <1>5 DEF TrustKnows
<1>11. \A s \in master' : s \in master \/ HeldBy(t, s)'
  BY <1>1, <1>2, <1>4, <1>5 DEF HeldBy
<1>12. \A s \in master' : HeldBy(t, s) => HeldBy(t, s)'
  BY <1>1, <1>5 DEF HeldBy
<1> QED BY <1>1, <1>6, <1>7, <1>8, <1>9, <1>10, <1>11, <1>12, OneTunnel

-----------------------------------------------------------------------------
(* The world.                                                              *)

\* The scheduler: every tunnel is apart from its step.
LEMMA SchedulerStep ==
  ASSUME IInv, TypeOK', NEW j \in Tunnels, JobStarts(j) \/ JobEnds(j) \/ JobRequeued(j)
  PROVE  IInv'
<1> USE DEF IInv
<1>1. UNCHANGED <<master, fwd, rec, age, mu, trusted, loose>>
  BY DEF JobStarts, JobEnds, JobRequeued, sshVars, regVars
<1>2. /\ job[j].st # "none" /\ job[j].st # "ended" /\ job'[j].st # "none"
      /\ \A u \in Tunnels \ {j} : job'[u] = job[u]
      /\ j \notin Requeues /\ job[j].st = "running" => job'[j].st = "ended"
  BY DEF JobStarts, JobEnds, JobRequeued, Live, TypeOK
<1>3. JobsGoOn /\ \A u \in Tunnels : Apart(u) /\ (job[u].st = "none" => job'[u].st = "none")
  BY <1>1, <1>2 DEF JobsGoOn, Apart
<1>4. MuKnows(j)' /\ RecordKnows(j)' /\ ClockBehind(j)'
  BY <1>2, <1>3, ApartKnows DEF MuKnows, At
<1>5. \A r \in trusted' : r[1] = j => TrustKnows(r)'
  BY <1>1, <1>3 DEF TrustKnows, JobsGoOn, TypeOK, Idle, Recorded
<1>6. \A s \in master' : HeldBy(j, s) => HeldBy(j, s)'
  BY <1>1 DEF HeldBy, Idle, Recorded
<1> QED BY <1>1, <1>3, <1>4, <1>5, <1>6, OneTunnel

\* A master that dies is nobody's loss.
LEMMA MasterDiesStep ==
  ASSUME IInv, TypeOK', NEW s \in Socks, MasterDies(s)
  PROVE  IInv'
<1> USE DEF IInv
<1>1. /\ UNCHANGED <<job, rec, age, mu, trusted>> /\ master' = master \ {s}
      /\ \A r \in Socks \ {s} : loose'[r] = loose[r]
  BY DEF MasterDies, CloseMaster, regVars, TypeOK
<1>2. \A t \in Tunnels : MuKnows(t)' /\ RecordKnows(t)' /\ ClockBehind(t)'
  BY <1>1 DEF MuKnows, RecordKnows, ClockBehind, Idle, At, Recorded
<1>3. \A r \in trusted' : TrustKnows(r)'
  BY <1>1 DEF TrustKnows, Idle, Recorded
<1>4. MasterAccounted'
  BY <1>1 DEF MasterAccounted, Held, Idle, Recorded, TypeOK
<1> QED BY <1>2, <1>3, <1>4

\* A tick: the clocks of the records and of the running jobs advance together.
LEMMA AdvanceStep ==
  ASSUME IInv, TypeOK', Advance
  PROVE  IInv'
<1> USE DEF IInv
<1>1. UNCHANGED <<master, fwd, rec, mu, trusted, loose>>
  BY DEF Advance, sshVars
<1>2. /\ \A j \in Tunnels : job'[j].st = job[j].st
      /\ \A j \in Tunnels : job[j].st = "running" => job'[j].age = job[j].age + 1
  <2>1. \A j \in Tunnels : job[j] \in [st: {"none", "queued", "running", "ended"}, age: 0 .. Wall]
    BY DEF TypeOK
  <2> QED BY <2>1 DEF Advance
<1>3. \A t \in Tunnels :
        /\ age'[t] \in {age[t], age[t] + 1}
        /\ ~Recorded(t) /\ ~At(t, Reattach) => age'[t] = age[t]
  BY DEF Advance
<1>4. /\ \A t \in Tunnels : (Recorded(t)' <=> Recorded(t)) /\ (Idle(t)' <=> Idle(t))
      /\ \A t \in Tunnels : \A pcs : At(t, pcs)' <=> At(t, pcs)
  BY <1>1 DEF Recorded, Idle, At
<1>5. ASSUME NEW t \in Tunnels PROVE MuKnows(t)'
  <2>1. At(t, Setup) => ~At(t, Reattach)
    BY DEF At, Setup, Reattach
  <2>2. ~Idle(t) => mu[t].job \in Tunnels
    BY Shapes
  <2> QED BY <1>1, <1>2, <1>3, <1>4, <2>1, <2>2 DEF MuKnows
<1>6. ASSUME NEW t \in Tunnels PROVE RecordKnows(t)'
  <2>1. Recorded(t) => rec[t].job \in Tunnels
    BY Shapes
  <2> QED BY <1>1, <1>2, <1>4, <2>1 DEF RecordKnows
<1>7. ASSUME NEW t \in Tunnels PROVE ClockBehind(t)'
  <2>1. age[t] \in Nat /\ job[t].age \in Nat
    BY TunnelAssumption DEF TypeOK
  <2> QED BY <1>2, <1>3, <1>4, <2>1, TunnelAssumption DEF ClockBehind
<1>8. \A r \in trusted' : TrustKnows(r)'
  BY <1>1, <1>2, <1>4 DEF TrustKnows, TypeOK
<1>9. MasterAccounted'
  BY <1>1 DEF MasterAccounted, Held, Idle, Recorded
<1> QED BY <1>5, <1>6, <1>7, <1>8, <1>9

-----------------------------------------------------------------------------

LEMMA InvNext == IInv /\ [Next]_vars => IInv'
<1> SUFFICES ASSUME IInv, [Next]_vars PROVE IInv'
  OBVIOUS
<1>1. TypeOK'
  BY TypeStep DEF IInv
<1>2. CASE UNCHANGED vars
  <2>1. UNCHANGED <<job, master, fwd, rec, age, mu, trusted, loose>>
    BY <1>2 DEF vars, sshVars, regVars
  <2>2. \A t \in Tunnels : MuKnows(t)' /\ RecordKnows(t)' /\ ClockBehind(t)'
    BY <2>1 DEF IInv, MuKnows, RecordKnows, ClockBehind, Idle, At, Recorded
  <2>3. \A r \in trusted' : TrustKnows(r)'
    BY <2>1 DEF IInv, TrustKnows, Idle, Recorded
  <2>4. MasterAccounted'
    BY <2>1 DEF IInv, MasterAccounted, Held, Idle, Recorded
  <2> QED BY <1>1, <2>2, <2>3, <2>4 DEF IInv
<1>3. ASSUME NEW t \in Tunnels, Owner(t) PROVE IInv'
  BY <1>1, <1>3, OpenStep, LsStep, StartReattachStep, CloseStep DEF Owner
<1>4. ASSUME NEW t \in Tunnels, Step(t) PROVE IInv'
  <2>1. ASSUME GiveUp(t) \/ Killed(t) PROVE IInv'
    BY <1>1, <2>1, LeaveStep DEF GiveUp, Killed, At, regVars, sshVars
  <2> QED BY <1>1, <1>4, <2>1, SubmitStep, RunningStep, GoUpStep, ReleaseStep, ListStep,
             ReforwardStep DEF Step
<1>5. ASSUME NEW j \in Tunnels, JobStarts(j) \/ JobEnds(j) \/ JobRequeued(j) PROVE IInv'
  BY <1>1, <1>5, SchedulerStep
<1>6. ASSUME NEW s \in Socks, MasterDies(s) PROVE IInv'
  BY <1>1, <1>6, MasterDiesStep
<1>7. ASSUME Advance PROVE IInv'
  BY <1>1, <1>7, AdvanceStep
<1> QED BY <1>2, <1>3, <1>4, <1>5, <1>6, <1>7 DEF Next

LEMMA Invariance == Spec => []IInv
<1> QED BY InvInit, InvNext, PTL DEF Spec

\* A master that answers is held by a mu at work or named by a record, unless a mu was cut
\* short or the record went with its job: no failed setup and no failed reattach, however
\* it interleaves with ls, close and the other tunnels, leaves a port that nobody has a
\* handle on (the keepMux defers of jobTunnel and reattachTunnel).
THEOREM MastersAccounted == Spec => []MasterAccounted
<1>1. IInv => MasterAccounted
  BY DEF IInv
<1> QED BY <1>1, Invariance, PTL

\* What the registry promises the tunnel of r: while its job is in the queue it has its
\* record.  (The promise a requeue breaks for a tunnel with a walltime.)
Kept(r) == r[1] \notin Timed \cap Requeues /\ Live(r[2]) => Recorded(r[1])

\* A tunnel that was reported up and recorded keeps its record for as long as its job is in
\* the queue, whatever the other tunnels' jobs do, if it has no walltime or its own job is
\* not put back in the queue: its clock, started when mu saw the job running, cannot run
\* out before the scheduler's (expired, splitByMaster, reattachTunnel).
THEOREM TrustedIsKept == Spec => [](\A r \in trusted : Kept(r))
<1>1. IInv => \A r \in trusted : Kept(r)
  BY DEF IInv, Kept, TrustKnows, Live
<1> QED BY <1>1, Invariance, PTL

\* Where no job with a walltime is put back in the queue, no tunnel at all is stranded.
THEOREM NoneStranded ==
  ASSUME Timed \cap Requeues = {}
  PROVE  Spec => []NothingStranded
<1>1. IInv => NothingStranded
  BY DEF IInv, NothingStranded, TrustKnows, Live
<1> QED BY <1>1, Invariance, PTL

=============================================================================
