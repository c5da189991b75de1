----------------------------- MODULE StagedScripts -----------------------------
(***************************************************************************)
(* mu job sub pushes a local script to a cluster and submits the copy; the *)
(* staged registry remembers it until a sweep, run by a later sub or by mu *)
(* job clean, finds that its job has left the queue                        *)
(* (internal/cli/job.go, jobstage.go, stagereg.go).  One cluster, one      *)
(* registry, several mu at once.                                           *)
(***************************************************************************)
EXTENDS Integers, FiniteSets

CONSTANTS
  Handles,  \* mu handles, one per push: the script's name, and here its job's too
  Procs     \* mu processes

VARIABLES
  job,      \* the scheduler's queue: "none" before the submit, "live", "ended"
  script,   \* the staged copies on the cluster
  recs,     \* the records in the registry
  mu,       \* each process: where it is, the handle it pushed, the records it loaded,
            \* the dead ones among them
  known     \* history: the handles that were ever recorded

vars == <<job, script, recs, mu, known>>

Off == [pc |-> "off", push |-> {}, group |-> {}, dead |-> {}]

TypeOK ==
  /\ job \in [Handles -> {"none", "live", "ended"}]
  /\ script \in SUBSET Handles
  /\ recs \in SUBSET Handles
  /\ mu \in [Procs -> [pc: {"off", "save", "load", "list", "rm", "forget"},
                       push: SUBSET Handles, group: SUBSET Handles, dead: SUBSET Handles]]
  /\ \A p \in Procs : mu[p].dead # {} <=> mu[p].pc \in {"rm", "forget"}
  /\ known \in SUBSET Handles

Init ==
  /\ job = [h \in Handles |-> "none"]
  /\ script = {}
  /\ recs = {}
  /\ mu = [p \in Procs |-> Off]
  /\ known = {}

At(p, pc) == mu[p].pc = pc
Exit(p)   == mu' = [mu EXCEPT ![p] = Off]

-----------------------------------------------------------------------------
(* mu job sub.                                                             *)

\* A handle is random and taken to be fresh.  One remote call, stage && submit.  It may
\* break anywhere: before the submit or after it, and the answer may not parse.  Only a job
\* id makes a record.
Sub(p, h) ==
  /\ At(p, "off") /\ job[h] = "none" /\ h \notin script
  /\ \A q \in Procs : h \notin mu[q].push
  /\ \/ /\ script' = script \cup {h}
        /\ job' = [job EXCEPT ![h] = "live"]
        /\ mu' = [mu EXCEPT ![p] = [Off EXCEPT !.pc = "save", !.push = {h}]]
     \/ /\ script' = script \cup {h}
        /\ \E st \in {"none", "live"} : job' = [job EXCEPT ![h] = st]
        /\ UNCHANGED mu
  /\ UNCHANGED <<recs, known>>

\* A record that cannot be written costs a warning.  The sweep comes next.
Save(p) ==
  /\ At(p, "save")
  /\ \E saved \in {{}, mu[p].push} :
       /\ recs' = recs \cup saved
       /\ known' = known \cup saved
  /\ mu' = [mu EXCEPT ![p].pc = "load", ![p].push = {}]
  /\ UNCHANGED <<job, script>>

-----------------------------------------------------------------------------
(* sweepStagedOn.                                                          *)

\* mu job clean starts with the sweep.
Clean(p) ==
  /\ At(p, "off")
  /\ mu' = [mu EXCEPT ![p].pc = "load"]
  /\ UNCHANGED <<job, script, recs, known>>

\* loadStaged, before the queue is asked.
Load(p) ==
  /\ At(p, "load")
  /\ mu' = [mu EXCEPT ![p] = IF recs = {} THEN Off
                             ELSE [Off EXCEPT !.pc = "list", !.group = recs]]
  /\ UNCHANGED <<job, script, recs, known>>

Gone(p) == {h \in mu[p].group : job[h] # "live"}

\* Mutants: a sweep with nothing dead goes on to the rm; the records are read once the
\* listing is in; the queue is asked for each job, and one that left it fails the call.
ListGoesOn(p) ==
  /\ At(p, "list")
  /\ mu' = [mu EXCEPT ![p] = [Off EXCEPT !.pc = "rm", !.dead = Gone(p)]]
  /\ UNCHANGED <<job, script, recs, known>>

ListThenLoad(p) ==
  /\ \/ /\ At(p, "list") /\ mu[p].dead = {}
        /\ mu' = [mu EXCEPT ![p].dead = {h \in Handles : job[h] # "live"}]
     \/ /\ At(p, "list") /\ mu[p].dead # {}
        /\ mu' = [mu EXCEPT ![p] = [Off EXCEPT !.pc = "rm", !.dead = recs \cap mu[p].dead]]
  /\ UNCHANGED <<job, script, recs, known>>

AskForEach(p) ==
  /\ At(p, "list") /\ Gone(p) = {}
  /\ Exit(p)
  /\ UNCHANGED <<job, script, recs, known>>

\* The listing worked.
List(p) ==
  /\ At(p, "list")
  /\ mu' = [mu EXCEPT ![p] = IF Gone(p) = {} THEN Off
                             ELSE [Off EXCEPT !.pc = "rm", !.dead = Gone(p)]]
  /\ UNCHANGED <<job, script, recs, known>>

\* All dead copies in one rm -f.
Remove(p) ==
  /\ At(p, "rm")
  /\ script' = script \ mu[p].dead
  /\ mu' = [mu EXCEPT ![p].pc = "forget"]
  /\ UNCHANGED <<job, recs, known>>

\* Mutant: the records go whatever became of the copies.
RemoveFailsForgets(p) ==
  /\ At(p, "rm")
  /\ \E some \in SUBSET mu[p].dead : script' = script \ some
  /\ mu' = [mu EXCEPT ![p].pc = "forget"]
  /\ UNCHANGED <<job, recs, known>>

\* The connection breaks before, in or after the rm: nothing is forgotten.
RemoveFails(p) ==
  /\ At(p, "rm")
  /\ \E some \in SUBSET mu[p].dead : script' = script \ some
  /\ Exit(p)
  /\ UNCHANGED <<job, recs, known>>

\* One record after another.
Forget(p) ==
  /\ At(p, "forget")
  /\ \E h \in mu[p].dead :
       /\ recs' = recs \ {h}
       /\ mu' = [mu EXCEPT ![p].dead = @ \ {h},
                           ![p].pc = IF mu[p].dead = {h} THEN "off" ELSE "forget"]
  /\ UNCHANGED <<job, script, known>>

\* No ticket or no listing ends the sweep; so does a kill, at any point.
Stop(p) ==
  /\ ~At(p, "off")
  /\ Exit(p)
  /\ UNCHANGED <<job, script, recs, known>>

-----------------------------------------------------------------------------

\* The job ends, is cancelled or killed.
JobEnds(h) ==
  /\ job[h] = "live"
  /\ job' = [job EXCEPT ![h] = "ended"]
  /\ UNCHANGED <<script, recs, mu, known>>

Sweep(p) == Load(p) \/ List(p) \/ Remove(p) \/ RemoveFails(p) \/ Forget(p)

Next ==
  \/ \E p \in Procs :
       (\E h \in Handles : Sub(p, h)) \/ Save(p) \/ Clean(p) \/ Sweep(p) \/ Stop(p)
  \/ \E h \in Handles : JobEnds(h)

Spec == Init /\ [][Next]_vars

\* The owner goes on submitting or cleaning on this cluster, and a call that is made again
\* and again works at some time.
Fairness ==
  \A p \in Procs :
    /\ WF_vars(Clean(p)) /\ WF_vars(Save(p))
    /\ SF_vars(Load(p)) /\ SF_vars(List(p)) /\ SF_vars(Remove(p)) /\ SF_vars(Forget(p))

FairSpec == Spec /\ Fairness

-----------------------------------------------------------------------------

\* A job in the queue keeps the script it was submitted with, whichever sweeps run beside
\* the submit and however old the records and listings they hold are (sweepStagedOn: "a job
\* still in the listing keeps its script").
LiveKeepsScript == \A h \in Handles : job[h] = "live" => h \in script

\* A recorded copy is forgotten only once it is off the cluster: no failed or interrupted
\* removal leaves a file nobody will reap (sweepStagedOn: "a lost record beats a phantom").
ForgottenIsGone == known \cap script \subseteq recs

\* A recorded copy whose job has ended is reaped (stagereg.go: "nothing would ever remove
\* that copy").
EndedIsReaped ==
  \A h \in Handles : (h \in known /\ job[h] = "ended") ~> (h \notin script /\ h \notin recs)
=============================================================================
