------------------------------- MODULE JobPrep -------------------------------
(***************************************************************************)
(* The preamble of a job script, eval "$(mu job env)"; eval "$(mu job      *)
(* prep)", over requeues, crashes and jobs that submit their successor     *)
(* from inside (internal/job/job.go, prep.go, internal/cli/job.go).  The   *)
(* authored case directory is edited and committed meanwhile.  A directory *)
(* is a path: the case is <<>>, and <submitdir>_<id> is the path of        *)
(* <submitdir> with the id appended.                                       *)
(***************************************************************************)
EXTENDS Naturals, Sequences, FiniteSets

CONSTANTS
  Jobs,      \* the scheduler's jobs, each task of an array one of them
  Base,      \* the digits each one's id begins with, the same for the tasks of an array
  Index,     \* each one's index in its array, 0 for none
  First,     \* the digits of those submitted from a login shell; the others from inside a job
  Inputs,    \* files of the case directory that copyTree does not skip
  MaxEdits,  \* bound on the edits of each input
  MaxKills   \* bound on the kills and requeues

None    == "none"
RunToml == "run.toml"
Ids     == {Base[j] : j \in Jobs}
Indices == {Index[j] : j \in Jobs} \cup {0}

ASSUME PrepAssumption ==
  /\ None \notin Jobs \cup Ids /\ RunToml \notin Inputs
  /\ Index \in [Jobs -> Nat]
  /\ \A i, j \in Jobs : i # j /\ Base[i] = Base[j] => Index[i] # Index[j] /\ Index[i] # 0
  /\ MaxEdits \in Nat /\ MaxKills \in Nat

VARIABLES
  case,      \* the case directory: the edit each input holds
  head,      \* what the last commit holds
  dir,       \* the run directories there are
  env,       \* each job's MU_JOBID, MU_ARRAY_INDEX and MU_SUBMIT_DIR
  given,     \* the same at its submission
  origin,    \* the directory it was submitted from, which the scheduler tells it
  pc,        \* where its script is
  cwd,       \* where its prep sent it
  todo,      \* what its prep has yet to copy
  kills,
  lost,      \* history: jobs whose mu job env failed
  muted,     \* history: jobs whose mu was killed before it could print
  strays,    \* history: run directories a job took for its own by another's MU_*
  doubtful   \* history: those whose case was edited between copy and record, or whose git
             \* status failed

vars == <<case, head, dir, env, given, origin, pc, cwd, todo, kills, lost, muted, strays, doubtful>>

Keys    == [id: Ids, idx: Indices]
NoKey   == [id |-> None, idx |-> 0]
Nowhere == <<NoKey>>
Unset   == [id |-> None, idx |-> 0, at |-> Nowhere]
Places  == DOMAIN dir \cup {<<>>}

\* A file holds an edit, nothing, or the job's own content, output or restart file.
Absent   == MaxEdits + 1
Written  == MaxEdits + 2
Edits    == 0 .. MaxEdits
Nothing  == [f \in Inputs |-> Absent]
NoToml   == [st |-> "none", commit |-> Nothing, says |-> "nothing"]
NewDir   == [files |-> Nothing, snap |-> Nothing, toml |-> NoToml]

Toml     == [st: {"none", "torn", "whole"}, commit: [Inputs -> 0 .. Written],
             says: {"nothing", "clean", "dirty"}]
Dir      == [files: [Inputs -> 0 .. Written], snap: [Inputs -> 0 .. Written], toml: Toml]

Prep == {"look", "copy", "walk", "record", "fill", "print"}

TypeOK ==
  /\ case \in [Inputs -> Edits \cup {Written}] /\ head \in [Inputs -> Edits \cup {Written}]
  /\ DOMAIN dir \subseteq Seq(Keys) \ {<<>>} /\ dir \in [DOMAIN dir -> Dir]
  /\ env \in [Jobs -> [id: Jobs \cup {None}, idx: Indices, at: Places \cup {Nowhere}]]
  /\ given \in [Jobs -> [id: Jobs \cup {None}, idx: Indices, at: Places \cup {Nowhere}]]
  /\ origin \in [Jobs -> Places]
  /\ pc \in [Jobs -> {"unborn", "queued", "env", "compute", "ended"} \cup Prep]
  /\ cwd \in [Jobs -> DOMAIN dir \cup {Nowhere}]
  /\ \A j \in Jobs : cwd[j] # Nowhere => pc[j] = "compute"
  /\ todo \in [Jobs -> SUBSET (Inputs \cup {RunToml})]
  /\ kills \in 0 .. MaxKills
  /\ lost \subseteq Jobs /\ muted \subseteq Jobs
  /\ strays \subseteq Seq(Keys) /\ doubtful \subseteq Seq(Keys)

Init ==
  /\ case = [f \in Inputs |-> 0] /\ head = case
  /\ dir = [d \in {} |-> NewDir]
  /\ env = [j \in Jobs |-> Unset] /\ given = env
  /\ origin = [j \in Jobs |-> <<>>]
  /\ pc = [j \in Jobs |-> IF Base[j] = First THEN "queued" ELSE "unborn"]
  /\ cwd = [j \in Jobs |-> Nowhere]
  /\ todo = [j \in Jobs |-> {}]
  /\ kills = 0 /\ lost = {} /\ muted = {} /\ strays = {} /\ doubtful = {}

-----------------------------------------------------------------------------

\* The working directory of a script: where prep sent it, or else that of its submission.
Where(j) == IF cwd[j] # Nowhere THEN cwd[j] ELSE origin[j]

\* A job, or an array, is submitted by a script: its environment and its directory go along.
Chain(p, b) ==
  LET born == {j \in Jobs : Base[j] = b} IN
  /\ pc[p] = "compute" /\ \A j \in born : pc[j] = "unborn"
  /\ given'  = [j \in Jobs |-> IF j \in born THEN env[p] ELSE given[j]]
  /\ origin' = [j \in Jobs |-> IF j \in born THEN Where(p) ELSE origin[j]]
  /\ pc'     = [j \in Jobs |-> IF j \in born THEN "queued" ELSE pc[j]]
  /\ UNCHANGED <<case, head, dir, env, cwd, todo, kills, lost, muted, strays, doubtful>>

Start(j) ==
  /\ pc[j] = "queued"
  /\ pc' = [pc EXCEPT ![j] = "env"]
  /\ env' = [env EXCEPT ![j] = given[j]]
  /\ lost' = lost \ {j} /\ muted' = muted \ {j}
  /\ UNCHANGED <<case, head, dir, given, origin, cwd, todo, kills, strays, doubtful>>

\* Env exports each variable of varMap the scheduler has a value for, and unsets none.
Exported(j) == [id  |-> j,
                idx |-> IF Index[j] # 0 THEN Index[j] ELSE env[j].idx,
                at  |-> origin[j]]

\* Mutant: the tasks of an array are told apart by their job id.
JobContextBase(j) ==
  [at  |-> IF env[j].at # Nowhere THEN env[j].at ELSE origin[j],
   key |-> [id |-> IF env[j].id # None THEN Base[env[j].id] ELSE Base[j], idx |-> 0]]

\* MU_* first, the scheduler's own variables for what is not set; the id is cut to the digits
\* it begins with, and an array index added.
JobContext(j) ==
  [at  |-> IF env[j].at # Nowhere THEN env[j].at ELSE origin[j],
   key |-> [id  |-> IF env[j].id # None THEN Base[env[j].id] ELSE Base[j],
            idx |-> IF env[j].idx # 0 THEN env[j].idx ELSE Index[j]]]

RunDir(j) == Append(JobContext(j).at, JobContext(j).key)

\* The ids that are the job's own.
OwnIds(j) == {k \in Keys : k.id = Base[j] /\ (Index[j] # 0 => k.idx = Index[j])}

\* It fails whole when the node list cannot be expanded or written; the script goes on.
Env(j) ==
  /\ pc[j] = "env"
  /\ \/ env' = [env EXCEPT ![j] = Exported(j)] /\ UNCHANGED <<lost, strays>>
     \/ /\ lost' = lost \cup {j} /\ UNCHANGED env
        /\ strays' = strays \cup {d \in {RunDir(j)} : JobContext(j).key \notin OwnIds(j)}
  /\ pc' = [pc EXCEPT ![j] = "look"]
  /\ UNCHANGED <<case, head, dir, given, origin, cwd, todo, kills, muted, doubtful>>

\* Mutant: a requeue copies again.
LookNever(j) ==
  /\ pc[j] = "look"
  /\ pc' = [pc EXCEPT ![j] = "copy"]
  /\ UNCHANGED <<case, head, dir, env, given, origin, cwd, todo, kills, lost, muted, strays, doubtful>>

Look(j) ==
  /\ pc[j] = "look"
  /\ pc' = [pc EXCEPT ![j] = IF RunDir(j) \in DOMAIN dir THEN "record" ELSE "copy"]
  /\ UNCHANGED <<case, head, dir, env, given, origin, cwd, todo, kills, lost, muted, strays, doubtful>>

\* What a directory holds; the case has no run.toml, a run directory may.
FilesOf(d)  == IF d = <<>> THEN case ELSE dir[d].files
TomlOf(d) == IF d = <<>> THEN NoToml ELSE dir[d].toml

\* copyTree makes the directory and lists the other, ...
Copy(j) ==
  LET at == JobContext(j).at IN
  /\ pc[j] = "copy"
  /\ pc' = [pc EXCEPT ![j] = "walk"]
  /\ dir' = [d \in DOMAIN dir \cup {RunDir(j)} |-> IF d \in DOMAIN dir THEN dir[d] ELSE NewDir]
  /\ todo' = [todo EXCEPT ![j] = {f \in Inputs : FilesOf(at)[f] # Absent}
                                   \cup {f \in {RunToml} : TomlOf(at).st # "none"}]
  /\ UNCHANGED <<case, head, env, given, origin, cwd, kills, lost, muted, strays, doubtful>>

\* ... then truncates and fills one file after another.
Walk(j) ==
  LET d == RunDir(j)  at == JobContext(j).at IN
  /\ pc[j] = "walk"
  /\ \/ \E f \in todo[j] :
          /\ todo' = [todo EXCEPT ![j] = @ \ {f}]
          /\ dir' = IF f = RunToml THEN [dir EXCEPT ![d].toml = TomlOf(at)]
                    ELSE [dir EXCEPT ![d].files[f] = FilesOf(at)[f], ![d].snap[f] = FilesOf(at)[f]]
          /\ UNCHANGED pc
     \/ /\ todo[j] = {}
        /\ pc' = [pc EXCEPT ![j] = "record"]
        /\ UNCHANGED <<dir, todo>>
  /\ UNCHANGED <<case, head, env, given, origin, cwd, kills, lost, muted, strays, doubtful>>

\* A read or a write fails: mu prints exit 1, the job dies and leaves what was copied.
Abort(j) ==
  /\ pc[j] \in Prep \ {"look", "print"}
  /\ pc' = [pc EXCEPT ![j] = "ended"] /\ todo' = [todo EXCEPT ![j] = {}]
  /\ UNCHANGED <<case, head, dir, env, given, origin, cwd, kills, lost, muted, strays, doubtful>>

\* run.toml is only written if there is none, in place: created empty, then filled.
Record(j) ==
  /\ pc[j] = "record"
  /\ IF TomlOf(RunDir(j)).st = "none"
       THEN /\ dir' = [dir EXCEPT ![RunDir(j)].toml.st = "torn"]
            /\ pc' = [pc EXCEPT ![j] = "fill"]
       ELSE /\ pc' = [pc EXCEPT ![j] = "print"]
            /\ UNCHANGED dir
  /\ UNCHANGED <<case, head, env, given, origin, cwd, todo, kills, lost, muted, strays, doubtful>>

\* Mutant: dirty is forgotten.
RunTOMLClean(at, git) ==
  [st     |-> "whole",
   commit |-> IF git = "absent" THEN Nothing ELSE head,
   says   |-> IF git = "absent" THEN "nothing" ELSE "clean"]

\* The commit, and whether the directory differs from it, as they are now.  Without git there
\* is neither; a git status that fails, or a run directory git ignores, passes for clean.
RunTOML(at, git) ==
  [st     |-> "whole",
   commit |-> IF git = "absent" THEN Nothing ELSE head,
   says   |-> CASE git = "absent" -> "nothing"
                [] git = "answers" /\ (at = <<>> => case # head) -> "dirty"
                [] OTHER -> "clean"]

Fill(j) ==
  /\ pc[j] = "fill"
  /\ pc' = [pc EXCEPT ![j] = "print"]
  /\ \E git \in {"answers", "blind", "absent"} :
       /\ dir' = [dir EXCEPT ![RunDir(j)].toml = RunTOML(JobContext(j).at, git)]
       /\ doubtful' = doubtful \cup {d \in {RunDir(j)} : git = "blind"}
  /\ UNCHANGED <<case, head, env, given, origin, cwd, todo, kills, lost, muted, strays>>

\* The snippet's cd, evaluated by the script.
Snippet(j) ==
  /\ pc[j] = "print"
  /\ pc' = [pc EXCEPT ![j] = "compute"]
  /\ cwd' = [cwd EXCEPT ![j] = RunDir(j)]
  /\ UNCHANGED <<case, head, dir, env, given, origin, todo, kills, lost, muted, strays, doubtful>>

\* mu alone is killed (memory, a signal): nothing is printed, and the script goes on where
\* it was, in the directory it was submitted from.
MuKilled(j) ==
  /\ pc[j] \in Prep /\ kills < MaxKills
  /\ kills' = kills + 1
  /\ pc' = [pc EXCEPT ![j] = "compute"]
  /\ muted' = muted \cup {j} /\ todo' = [todo EXCEPT ![j] = {}]
  /\ UNCHANGED <<case, head, dir, env, given, origin, cwd, lost, strays, doubtful>>

\* The job's node dies or the job is preempted, and the scheduler puts it back.
Requeue(j) ==
  /\ pc[j] \in Prep \cup {"env", "compute"} /\ kills < MaxKills
  /\ kills' = kills + 1
  /\ pc' = [pc EXCEPT ![j] = "queued"]
  /\ cwd' = [cwd EXCEPT ![j] = Nowhere] /\ todo' = [todo EXCEPT ![j] = {}]
  /\ UNCHANGED <<case, head, dir, env, given, origin, lost, muted, strays, doubtful>>

-----------------------------------------------------------------------------

\* Directories whose copy has begun and whose record is not there.
Open == {d \in DOMAIN dir : dir[d].toml.st # "whole"}

Compute(j) ==
  /\ pc[j] = "compute"
  /\ \E f \in Inputs :
       IF Where(j) = <<>>
         THEN /\ case[f] # Written /\ case' = [case EXCEPT ![f] = Written]
              /\ doubtful' = doubtful \cup Open /\ UNCHANGED dir
         ELSE dir' = [dir EXCEPT ![Where(j)].files[f] = Written] /\ UNCHANGED <<case, doubtful>>
  /\ UNCHANGED <<head, env, given, origin, pc, cwd, todo, kills, lost, muted, strays>>

Ends(j) ==
  /\ pc[j] = "compute"
  /\ pc' = [pc EXCEPT ![j] = "ended"] /\ cwd' = [cwd EXCEPT ![j] = Nowhere]
  /\ UNCHANGED <<case, head, dir, env, given, origin, todo, kills, lost, muted, strays, doubtful>>

Edit(f) ==
  /\ case[f] < MaxEdits
  /\ case' = [case EXCEPT ![f] = @ + 1]
  /\ doubtful' = doubtful \cup Open
  /\ UNCHANGED <<head, dir, env, given, origin, pc, cwd, todo, kills, lost, muted, strays>>

Commit ==
  /\ head # case
  /\ head' = case
  /\ doubtful' = doubtful \cup Open
  /\ UNCHANGED <<case, dir, env, given, origin, pc, cwd, todo, kills, lost, muted, strays>>

Next ==
  \/ \E p \in Jobs, b \in Ids : Chain(p, b)
  \/ \E j \in Jobs :
       \/ Start(j) \/ Env(j) \/ Look(j) \/ Copy(j) \/ Walk(j) \/ Abort(j) \/ Record(j) \/ Fill(j)
       \/ Snippet(j) \/ MuKilled(j) \/ Requeue(j) \/ Compute(j) \/ Ends(j)
  \/ \E f \in Inputs : Edit(f)
  \/ Commit

Spec == Init /\ [][Next]_vars

-----------------------------------------------------------------------------

\* What a job has written into a run directory no prep changes, nor the first whole record
\* there, unless a job was led there by the environment of another (prep.go: "re-copying would
\* clobber run state with pristine inputs", "preserving the original record").
PrepKeeps ==
  [][\A d \in DOMAIN dir \ strays :
       /\ \A f \in Inputs : dir[d].files[f] = Written => dir'[d].files[f] = Written
       /\ dir[d].toml.st = "whole" => dir'[d].toml = dir[d].toml]_vars

\* Two jobs, tasks of one array among them, compute in one directory only if the environment
\* one of them inherited from the job that submitted it was never put right, or its mu died
\* without a word; and only such a death leaves a job in the directory it was submitted from
\* (prep.go: "gives each job its own throwaway copy", "so parallel indices can't share a run
\* dir", "a failed prep must kill the job, never let it compute in the submit dir").
OwnRunDir ==
  /\ \A i, j \in Jobs : i # j /\ pc[i] = "compute" /\ pc[j] = "compute" /\ Where(i) = Where(j) =>
       {i, j} \cap (lost \cup muted) # {}
  /\ \A j \in Jobs : pc[j] = "compute" /\ cwd[j] = Nowhere => j \in muted

\* The record of a run prepared from the case names, if it says clean, the commit the run's
\* inputs were copied from, however many attempts it took, unless the case was edited, or
\* committed, between the two, or git status failed, or a job was led there by the environment
\* of another.  A run prepared from another's directory keeps the other's record.
CleanRecordIsTrue ==
  \A d \in DOMAIN dir \ (doubtful \cup strays) :
    Len(d) = 1 /\ dir[d].toml.st = "whole" /\ dir[d].toml.says = "clean" =>
      \A f \in Inputs : dir[d].snap[f] \in {Absent, dir[d].toml.commit[f]}
=============================================================================
