------------------------- MODULE StagedScriptsProofs --------------------------
(***************************************************************************)
(* Proofs about StagedScripts, for every set of handles and of processes:  *)
(* the type invariant, that no sweep takes the script of a job in the      *)
(* queue, and that a record is only forgotten when its copy is gone.       *)
(***************************************************************************)
EXTENDS StagedScripts, TLAPS

Process == [pc: {"off", "save", "load", "list", "rm", "forget"},
            push: SUBSET Handles, group: SUBSET Handles, dead: SUBSET Handles]

\* What a process carries from one step to the next stays true of the queue, because a job
\* that has left it does not come back: its push was submitted, its records were saved
\* after a submit, and its dead have ended.  Once removed, a dead copy stays gone.
Carried(p) ==
  /\ \A h \in mu[p].push : job[h] # "none"
  /\ mu[p].group \subseteq known
  /\ mu[p].dead \subseteq known
  /\ \A h \in mu[p].dead : job[h] = "ended"
  /\ At(p, "forget") => mu[p].dead \cap script = {}

IInv ==
  /\ TypeOK
  /\ LiveKeepsScript
  /\ ForgottenIsGone
  /\ recs \subseteq known
  /\ \A h \in known : job[h] # "none"
  /\ \A p \in Procs : Carried(p)

LEMMA InvInit == Init => IInv
<1> SUFFICES ASSUME Init PROVE IInv
  OBVIOUS
<1>1. \A p \in Procs : mu[p] = Off
  BY DEF Init
<1>2. TypeOK
  BY <1>1 DEF Init, TypeOK, Off
<1>3. \A p \in Procs : Carried(p)
  BY <1>1 DEF Carried, At, Off
<1> QED BY <1>2, <1>3 DEF Init, IInv, LiveKeepsScript, ForgottenIsGone

-----------------------------------------------------------------------------
(* The steps.  A step moves one process and leaves the others as they are. *)

\* A process that does not move carries what it carried, as long as no job it knows comes
\* back and no ended job gets its script again.
LEMMA OthersCarry ==
  ASSUME NEW p \in Procs, Carried(p), mu'[p] = mu[p], known \subseteq known',
         \A h \in Handles : job[h] # "none" => job'[h] # "none",
         \A h \in Handles : job[h] = "ended" => job'[h] = "ended",
         \A h \in Handles : job[h] = "ended" /\ h \notin script => h \notin script',
         TypeOK
  PROVE  Carried(p)'
<1>1. mu[p] \in Process
  BY DEF TypeOK, Process
<1> QED BY <1>1 DEF Carried, At, Process

LEMMA SubStep ==
  ASSUME IInv, NEW p \in Procs, NEW h \in Handles, Sub(p, h)
  PROVE  IInv'
<1>1. /\ TypeOK /\ job \in [Handles -> {"none", "live", "ended"}] /\ job[h] = "none"
      /\ mu \in [Procs -> Process] /\ h \notin known /\ mu[p] = mu[p]
      /\ script' = script \cup {h} /\ recs' = recs /\ known' = known
  BY DEF IInv, TypeOK, Process, Sub
<1>2. PICK st \in {"none", "live"} : job' = [job EXCEPT ![h] = st]
  BY DEF Sub
<1>3. /\ job' \in [Handles -> {"none", "live", "ended"}]
      /\ \A k \in Handles : k # h => job'[k] = job[k]
      /\ \A k \in Handles : job[k] # "none" => job'[k] = job[k]
  BY <1>1, <1>2
<1> DEFINE m == [Off EXCEPT !.pc = "save", !.push = {h}]
<1>5. m \in Process /\ m.pc = "save" /\ m.push = {h} /\ m.group = {} /\ m.dead = {}
  BY DEF Off, Process
<1>4. (mu' = [mu EXCEPT ![p] = m] /\ job'[h] = "live") \/ mu' = mu
  BY <1>1 DEF Sub
<1> HIDE DEF m
<1>6. TypeOK'
  <2>1. /\ mu' \in [Procs -> Process]
        /\ \A q \in Procs : mu'[q].dead # {} <=> mu'[q].pc \in {"rm", "forget"}
    BY <1>1, <1>4, <1>5 DEF TypeOK, Process
  <2> QED BY <1>1, <1>3, <2>1 DEF TypeOK, Process
<1>7. LiveKeepsScript' /\ ForgottenIsGone' /\ (\A k \in known' : job'[k] # "none")
  BY <1>1, <1>3 DEF IInv, LiveKeepsScript, ForgottenIsGone, TypeOK
<1>8. ASSUME NEW q \in Procs PROVE Carried(q)'
  <2>1. CASE mu'[q] = mu[q]
    BY <1>1, <1>3, <2>1, OthersCarry DEF IInv
  <2>2. CASE mu'[q] # mu[q]
    BY <1>1, <1>4, <1>5, <2>2 DEF Carried, At
  <2> QED BY <2>1, <2>2
<1> QED BY <1>1, <1>6, <1>7, <1>8 DEF IInv

LEMMA SaveStep ==
  ASSUME IInv, NEW p \in Procs, Save(p)
  PROVE  IInv'
<1>1. /\ TypeOK /\ mu \in [Procs -> Process] /\ job' = job /\ script' = script
      /\ mu[p].pc = "save" /\ mu[p].push \subseteq Handles /\ mu[p].dead = {} /\ Carried(p)
  BY DEF IInv, TypeOK, Process, Save, At
<1>2. PICK saved \in {{}, mu[p].push} : recs' = recs \cup saved /\ known' = known \cup saved
  BY DEF Save
<1>3. /\ mu' = [mu EXCEPT ![p].pc = "load", ![p].push = {}]
      /\ mu'[p] = [mu[p] EXCEPT !.pc = "load", !.push = {}]
      /\ \A q \in Procs : q # p => mu'[q] = mu[q]
  BY <1>1 DEF Save
<1>4. /\ mu'[p] \in Process /\ mu'[p].pc = "load" /\ mu'[p].push = {}
      /\ mu'[p].group = mu[p].group /\ mu'[p].dead = {}
  BY <1>1, <1>3, ZenonT(30) DEF Process
<1>5. TypeOK'
  <2>1. mu' \in [Procs -> Process]
    BY <1>1, <1>3, <1>4
  <2> QED BY <1>1, <1>2, <1>3, <1>4, <2>1 DEF TypeOK, Process
<1>6. ASSUME NEW q \in Procs PROVE Carried(q)'
  <2>1. CASE q = p
    BY <1>1, <1>2, <1>4, <2>1 DEF Carried, At
  <2>2. CASE q # p
    BY <1>1, <1>2, <1>3, <2>2, OthersCarry DEF IInv
  <2> QED BY <2>1, <2>2
<1> QED BY <1>1, <1>2, <1>5, <1>6 DEF IInv, LiveKeepsScript, ForgottenIsGone, Carried

\* The steps of a sweep that only read.
LEMMA ReadStep ==
  ASSUME IInv, NEW p \in Procs, Clean(p) \/ Load(p) \/ List(p) \/ Stop(p)
  PROVE  IInv'
<1>1. /\ TypeOK /\ mu \in [Procs -> Process] /\ Carried(p) /\ recs \subseteq known
      /\ recs \subseteq Handles
      /\ UNCHANGED <<job, script, recs, known>>
  BY DEF IInv, TypeOK, Process, Clean, Load, List, Stop
<1>2. ASSUME NEW m \in Process, mu' = [mu EXCEPT ![p] = m],
             m.push = {}, m.group \subseteq known, m.dead \subseteq known,
             \A h \in m.dead : job[h] = "ended", m.pc # "forget",
             m.dead # {} <=> m.pc = "rm"
      PROVE  IInv'
  <2>1. mu' \in [Procs -> Process] /\ mu'[p] = m /\ \A q \in Procs : q # p => mu'[q] = mu[q]
    BY <1>1, <1>2
  <2>2. TypeOK'
    BY <1>1, <1>2, <2>1 DEF TypeOK, Process
  <2>3. ASSUME NEW q \in Procs PROVE Carried(q)'
    <3>1. CASE q = p
      BY <1>1, <1>2, <2>1, <3>1 DEF Carried, At
    <3>2. CASE q # p
      BY <1>1, <2>1, <3>2, OthersCarry DEF IInv
    <3> QED BY <3>1, <3>2
  <2> QED BY <1>1, <2>2, <2>3 DEF IInv, LiveKeepsScript, ForgottenIsGone
<1>3. Off \in Process /\ Off.push = {} /\ Off.group = {} /\ Off.dead = {} /\ Off.pc = "off"
  BY DEF Off, Process
<1>4. CASE Clean(p)
  <2>1. mu[p].pc = "off" /\ mu[p].dead = {}
    BY <1>1, <1>4 DEF Clean, At, TypeOK
  <2> DEFINE m == [mu[p] EXCEPT !.pc = "load"]
  <2>2. mu' = [mu EXCEPT ![p] = m] /\ m \in Process /\ m.pc = "load" /\ m.dead = {}
        /\ m.group = mu[p].group /\ m.push = mu[p].push
    BY <1>1, <1>4, <2>1 DEF Clean, Process
  <2>3. mu' \in [Procs -> Process] /\ mu'[p] = m /\ \A q \in Procs : q # p => mu'[q] = mu[q]
    BY <1>1, <2>2
  <2>4. TypeOK'
    BY <1>1, <2>2, <2>3 DEF TypeOK, Process
  <2>5. ASSUME NEW q \in Procs PROVE Carried(q)'
    <3>1. CASE q = p
      BY <1>1, <2>2, <2>3, <3>1 DEF Carried, At
    <3>2. CASE q # p
      BY <1>1, <2>3, <3>2, OthersCarry DEF IInv
    <3> QED BY <3>1, <3>2
  <2> QED BY <1>1, <2>4, <2>5 DEF IInv, LiveKeepsScript, ForgottenIsGone
<1>5. CASE Stop(p)
  BY <1>2, <1>3, <1>5 DEF Stop, Exit
<1>6. CASE Load(p)
  <2>1. CASE recs = {}
    BY <1>2, <1>3, <1>6, <2>1 DEF Load
  <2>2. CASE recs # {}
    <3> DEFINE m == [Off EXCEPT !.pc = "list", !.group = recs]
    <3>1. m \in Process /\ m.push = {} /\ m.group = recs /\ m.dead = {} /\ m.pc = "list"
      BY <1>1 DEF Off, Process
    <3>2. mu' = [mu EXCEPT ![p] = m]
      BY <1>6, <2>2 DEF Load
    <3> QED BY <1>1, <1>2, <3>1, <3>2
  <2> QED BY <2>1, <2>2
<1>7. CASE List(p)
  <2>1. CASE Gone(p) = {}
    BY <1>2, <1>3, <1>7, <2>1 DEF List
  <2>2. CASE Gone(p) # {}
    <3> DEFINE m == [Off EXCEPT !.pc = "rm", !.dead = Gone(p)]
    <3>1. Gone(p) \subseteq known /\ Gone(p) \subseteq Handles
      BY <1>1 DEF Gone, Carried, Process
    <3>2. \A h \in Gone(p) : job[h] = "ended"
      BY <1>1, <3>1 DEF IInv, Gone, TypeOK
    <3>3. m \in Process /\ m.push = {} /\ m.group = {} /\ m.dead = Gone(p) /\ m.pc = "rm"
      BY <3>1 DEF Off, Process
    <3>4. mu' = [mu EXCEPT ![p] = m]
      BY <1>7, <2>2 DEF List
    <3> QED BY <1>2, <2>2, <3>1, <3>2, <3>3, <3>4
  <2> QED BY <2>1, <2>2
<1> QED BY <1>4, <1>5, <1>6, <1>7

\* The copies of ended jobs, some or all, leave the cluster.
LEMMA RemoveStep ==
  ASSUME IInv, NEW p \in Procs, Remove(p) \/ RemoveFails(p)
  PROVE  IInv'
<1>1. /\ TypeOK /\ mu \in [Procs -> Process] /\ Carried(p)
      /\ mu[p].pc = "rm" /\ mu[p].dead # {} /\ UNCHANGED <<job, recs, known>>
  BY DEF IInv, TypeOK, Process, Remove, RemoveFails, At
<1>2. PICK some \in SUBSET mu[p].dead : script' = script \ some /\ (Remove(p) => some = mu[p].dead)
  BY DEF Remove, RemoveFails
<1>3. \A h \in some : job[h] = "ended"
  BY <1>1, <1>2 DEF Carried
<1>4. PICK m \in Process :
        /\ mu' = [mu EXCEPT ![p] = m]
        /\ \/ m = Off
           \/ /\ some = mu[p].dead /\ m.pc = "forget"
              /\ m.push = mu[p].push /\ m.group = mu[p].group /\ m.dead = mu[p].dead
  <2>1. CASE Remove(p)
    <3> DEFINE m == [mu[p] EXCEPT !.pc = "forget"]
    <3>1. m \in Process /\ m.pc = "forget" /\ m.push = mu[p].push /\ m.group = mu[p].group
          /\ m.dead = mu[p].dead
      BY <1>1 DEF Process
    <3>2. mu' = [mu EXCEPT ![p] = m]
      BY <1>1, <2>1 DEF Remove
    <3> QED BY <1>2, <2>1, <3>1, <3>2
  <2>2. CASE RemoveFails(p)
    BY <2>2 DEF RemoveFails, Exit, Off, Process
  <2> QED BY <2>1, <2>2
<1>5. mu' \in [Procs -> Process] /\ mu'[p] = m /\ \A q \in Procs : q # p => mu'[q] = mu[q]
  BY <1>1, <1>4
<1>6. Off.pc = "off" /\ Off.push = {} /\ Off.group = {} /\ Off.dead = {}
  BY DEF Off
<1>7. TypeOK'
  BY <1>1, <1>2, <1>4, <1>5, <1>6 DEF TypeOK, Process
<1>8. ASSUME NEW q \in Procs PROVE Carried(q)'
  <2>1. CASE q = p
    <3>1. CASE m = Off
      BY <1>1, <1>5, <1>6, <2>1, <3>1 DEF Carried, At
    <3>2. CASE m # Off
      BY <1>1, <1>2, <1>4, <1>5, <2>1, <3>2 DEF Carried, At
    <3> QED BY <3>1, <3>2
  <2>2. CASE q # p
    BY <1>1, <1>2, <1>5, <2>2, OthersCarry DEF IInv
  <2> QED BY <2>1, <2>2
<1>9. LiveKeepsScript' /\ ForgottenIsGone'
  BY <1>1, <1>2, <1>3 DEF IInv, LiveKeepsScript, ForgottenIsGone
<1> QED BY <1>1, <1>7, <1>8, <1>9 DEF IInv

LEMMA ForgetStep ==
  ASSUME IInv, NEW p \in Procs, Forget(p)
  PROVE  IInv'
<1>1. /\ TypeOK /\ mu \in [Procs -> Process] /\ Carried(p)
      /\ mu[p].pc = "forget" /\ UNCHANGED <<job, script, known>>
  BY DEF IInv, TypeOK, Process, Forget, At
<1>2. PICK h \in mu[p].dead :
        /\ recs' = recs \ {h}
        /\ mu' = [mu EXCEPT ![p].dead = @ \ {h},
                            ![p].pc = IF mu[p].dead = {h} THEN "off" ELSE "forget"]
  BY <1>1 DEF Forget
<1>3. h \notin script
  BY <1>1, <1>2 DEF Carried, At
<1> DEFINE m == [mu[p] EXCEPT !.dead = @ \ {h},
                              !.pc = IF mu[p].dead = {h} THEN "off" ELSE "forget"]
<1>4. /\ m \in Process /\ m.push = mu[p].push /\ m.group = mu[p].group
      /\ m.dead = mu[p].dead \ {h}
      /\ m.pc = IF mu[p].dead = {h} THEN "off" ELSE "forget"
  BY <1>1, <1>2 DEF Process
<1>5. mu' \in [Procs -> Process] /\ mu'[p] = m /\ \A q \in Procs : q # p => mu'[q] = mu[q]
  BY <1>1, <1>2, <1>4
<1> HIDE DEF m
<1>7. TypeOK'
  <2>1. m.dead # {} <=> m.pc \in {"rm", "forget"}
    BY <1>2, <1>4
  <2> QED BY <1>1, <1>2, <1>5, <2>1 DEF TypeOK, Process
<1>8. ASSUME NEW q \in Procs PROVE Carried(q)'
  <2>1. CASE q = p
    BY <1>1, <1>4, <1>5, <2>1 DEF Carried, At
  <2>2. CASE q # p
    BY <1>1, <1>5, <2>2, OthersCarry DEF IInv
  <2> QED BY <2>1, <2>2
<1> QED BY <1>1, <1>2, <1>3, <1>7, <1>8 DEF IInv, LiveKeepsScript, ForgottenIsGone

LEMMA JobEndsStep ==
  ASSUME IInv, NEW h \in Handles, JobEnds(h)
  PROVE  IInv'
<1>1. /\ TypeOK /\ job' = [job EXCEPT ![h] = "ended"] /\ UNCHANGED <<script, recs, mu, known>>
  BY DEF IInv, JobEnds
<1>2. TypeOK'
  BY <1>1 DEF TypeOK
<1>3. \A q \in Procs : Carried(q)'
  BY <1>1, OthersCarry DEF IInv, TypeOK
<1> QED BY <1>1, <1>2, <1>3 DEF IInv, LiveKeepsScript, ForgottenIsGone, TypeOK

LEMMA Invariance == Spec => []IInv
<1>1. IInv /\ [Next]_vars => IInv'
  <2> SUFFICES ASSUME IInv, [Next]_vars PROVE IInv'
    OBVIOUS
  <2>1. CASE UNCHANGED vars
    BY <2>1 DEF vars, IInv, TypeOK, LiveKeepsScript, ForgottenIsGone, Carried, At
  <2>2. CASE Next
    BY <2>2, SubStep, SaveStep, ReadStep, RemoveStep, ForgetStep, JobEndsStep DEF Next, Sweep
  <2> QED BY <2>1, <2>2
<1> QED BY <1>1, InvInit, PTL DEF Spec

-----------------------------------------------------------------------------

\* Every reachable state is well formed: a sweep goes on to remove or to forget only with
\* something to do it to.
THEOREM Typed == Spec => []TypeOK
<1>1. IInv => TypeOK
  BY DEF IInv
<1> QED BY <1>1, Invariance, PTL

\* However many sweeps and submits interleave, a job in the queue keeps the script it was
\* submitted with (sweepStagedOn).
THEOREM ScriptsOutliveJobs == Spec => []LiveKeepsScript
<1>1. IInv => LiveKeepsScript
  BY DEF IInv
<1> QED BY <1>1, Invariance, PTL

\* No failed or interrupted sweep forgets a copy that is still on the cluster.
THEOREM NoPhantoms == Spec => []ForgottenIsGone
<1>1. IInv => ForgottenIsGone
  BY DEF IInv
<1> QED BY <1>1, Invariance, PTL
=============================================================================
