---------------------------- MODULE JobPrepProofs -----------------------------
(***************************************************************************)
(* Proofs about JobPrep, for any number of jobs, arrays of them, inputs,   *)
(* edits and kills: jobs compute in directories of their own, no later     *)
(* attempt's prep changes what a run has written or recorded, and a clean  *)
(* record names the commit the run's inputs came from.                     *)
(***************************************************************************)
EXTENDS JobPrep, SequenceTheorems, TLAPS

\* A job whose script is past mu job env.
Placed(j) == pc[j] \in Prep \cup {"compute"}

\* A placed job has an id of its own, or env failed it and its directory is known to be
\* another's.
Led == \A j \in Jobs : Placed(j) /\ JobContext(j).key \notin OwnIds(j) =>
  j \in lost /\ RunDir(j) \in strays

\* A job computes where its prep sent it; without a word from prep it stays where it was.
Sent == \A j \in Jobs :
  /\ cwd[j] # Nowhere => cwd[j] = RunDir(j)
  /\ pc[j] = "compute" /\ cwd[j] = Nowhere => j \in muted

\* Past the copy's start there is a directory; one file list is worked off, by a copy.
Made == \A j \in Jobs :
  /\ pc[j] \in {"walk", "record", "fill", "print"} => RunDir(j) \in DOMAIN dir
  /\ pc[j] # "walk" => todo[j] = {}

\* Until a record is filled there is none.
Filling == \A j \in Jobs : pc[j] = "fill" /\ RunDir(j) \notin strays =>
  dir[RunDir(j)].toml.st = "torn"

\* A job that copies into its own directory makes it, ...
Making == \A j \in Jobs : pc[j] = "copy" /\ RunDir(j) \notin strays => RunDir(j) \notin DOMAIN dir

\* ... and is the first to put anything there: no job was submitted from it.
Untouched(j) ==
  /\ \A i \in Jobs : origin[i] # RunDir(j)
  /\ \A f \in todo[j] \ {RunToml} : dir[RunDir(j)].files[f] # Written
  /\ RunToml \in todo[j] \/ JobContext(j).at = <<>> => dir[RunDir(j)].toml.st = "none"

Walking == \A j \in Jobs : pc[j] = "walk" /\ RunDir(j) \notin strays => Untouched(j)

\* Until the record is made, what was copied from the case is what the case has.
FreshIn(d) == dir[d].toml.st # "whole" => \A f \in Inputs : dir[d].snap[f] \in {Absent, case[f]}

CleanIn(d) == dir[d].toml.st = "whole" /\ dir[d].toml.says = "clean" =>
  \A f \in Inputs : dir[d].snap[f] \in {Absent, dir[d].toml.commit[f]}

Traced == \A d \in DOMAIN dir \ (doubtful \cup strays) : Len(d) = 1 => FreshIn(d) /\ CleanIn(d)

IInv == TypeOK /\ Led /\ Sent /\ Made /\ Filling /\ Making /\ Walking /\ Traced

-----------------------------------------------------------------------------

(* A job's directory.                                                      *)

LEMMA Codes == /\ Absent \in 0 .. Written /\ Written \in 0 .. Written /\ Absent # Written
               /\ 0 \in Edits /\ Edits \subseteq 0 .. Written
               /\ Nothing \in [Inputs -> 0 .. Written] /\ NoToml \in Toml /\ NewDir \in Dir
<1>1. /\ Absent \in 0 .. Written /\ Written \in 0 .. Written /\ Absent # Written
      /\ 0 \in Edits /\ Edits \subseteq 0 .. Written
  BY PrepAssumption DEF Absent, Written, Edits
<1>2. Nothing \in [Inputs -> 0 .. Written]
  BY <1>1 DEF Nothing
<1>3. NoToml \in Toml
  BY <1>2 DEF NoToml, Toml
<1> QED BY <1>1, <1>2, <1>3 DEF NewDir, Dir

LEMMA NowhereIsNone == Nowhere \notin Seq(Keys) /\ Nowhere # <<>>
<1>1. NoKey \notin Keys
  BY PrepAssumption DEF NoKey, Keys
<1>2. ASSUME Nowhere \in Seq(Keys) PROVE FALSE
  <2>1. Nowhere[1] = NoKey /\ Len(Nowhere) = 1
    BY DEF Nowhere
  <2>2. Nowhere[1] \in Keys
    BY <1>2, <2>1, ElementOfSeq
  <2> QED BY <1>1, <2>1, <2>2
<1> QED BY <1>2 DEF Nowhere

LEMMA Contexts ==
  ASSUME TypeOK, NEW j \in Jobs
  PROVE  /\ JobContext(j).key \in Keys /\ JobContext(j).at \in Places /\ JobContext(j).at \in Seq(Keys)
         /\ RunDir(j) \in Seq(Keys) /\ RunDir(j) # <<>> /\ RunDir(j) # Nowhere
         /\ Len(RunDir(j)) = 1 => JobContext(j).at = <<>>
<1>1. JobContext(j).key \in Keys
  BY PrepAssumption DEF TypeOK, JobContext, Keys, Ids, Indices
<1>2. JobContext(j).at \in Places
  BY DEF TypeOK, JobContext, Places
<1>3. JobContext(j).at \in Seq(Keys)
  BY <1>2, EmptySeq DEF TypeOK, Places
<1>4. /\ RunDir(j) \in Seq(Keys) /\ RunDir(j) # <<>>
      /\ Len(RunDir(j)) = Len(JobContext(j).at) + 1
  BY <1>1, <1>3, AppendProperties DEF RunDir
<1> QED BY <1>1, <1>2, <1>3, <1>4, NowhereIsNone, EmptySeq

\* What a directory that is there is.
LEMMA Dirs ==
  ASSUME TypeOK, NEW d \in DOMAIN dir
  PROVE  /\ dir[d] \in Dir /\ dir[d].toml \in Toml /\ d \in Seq(Keys) /\ d # <<>> /\ d \in Places
         /\ dir[d].files \in [Inputs -> 0 .. Written] /\ dir[d].snap \in [Inputs -> 0 .. Written]
<1>1. dir[d] \in Dir /\ d \in Seq(Keys) /\ d # <<>> /\ d \in Places
  BY DEF TypeOK, Places
<1> QED BY <1>1 DEF Dir

\* Two jobs of one directory: one of them is lost, and the directory is a stray.
LEMMA SharedIsStray ==
  ASSUME TypeOK, Led, NEW i \in Jobs, NEW j \in Jobs, i # j, Placed(i), Placed(j),
         RunDir(i) = RunDir(j)
  PROVE  {i, j} \cap lost # {} /\ RunDir(j) \in strays
<1>1. JobContext(i).key = JobContext(j).key
  BY Contexts, AppendInjective DEF RunDir
<1>2. ~(JobContext(i).key \in OwnIds(i) /\ JobContext(j).key \in OwnIds(j))
  BY <1>1, PrepAssumption DEF OwnIds
<1> QED BY <1>2 DEF Led

\* Nobody is submitted from, or computes in, a directory a job copies into, strays apart.
LEMMA NobodyThere ==
  ASSUME IInv, NEW i \in Jobs, NEW j \in Jobs, pc[i] = "compute", pc[j] = "walk",
         RunDir(j) \notin strays
  PROVE  Where(i) # RunDir(j)
<1>1. CASE cwd[i] # Nowhere
  BY <1>1, SharedIsStray DEF IInv, Sent, Where, Placed, Prep
<1>2. CASE cwd[i] = Nowhere
  BY <1>2 DEF IInv, Walking, Untouched, Where
<1> QED BY <1>1, <1>2

LEMMA InvInit == Init => IInv
<1> SUFFICES ASSUME Init PROVE IInv
  OBVIOUS
<1>1. \A j \in Jobs : pc[j] \in {"queued", "unborn"} /\ cwd[j] = Nowhere /\ todo[j] = {}
  BY DEF Init
<1>2. DOMAIN dir = {} /\ dir \in [DOMAIN dir -> Dir]
  BY DEF Init
<1>3. env \in [Jobs -> [id: Jobs \cup {None}, idx: Indices, at: Places \cup {Nowhere}]]
  BY DEF Init, Unset, Indices
<1>4. TypeOK
  BY <1>1, <1>2, <1>3, Codes, PrepAssumption DEF Init, TypeOK, Places
<1>5. Led /\ Sent /\ Made /\ Filling /\ Making /\ Walking /\ Traced
  BY <1>1, <1>2 DEF Led, Placed, Prep, Sent, Made, Filling, Making, Walking, Traced
<1> QED BY <1>4, <1>5 DEF IInv

-----------------------------------------------------------------------------
(* The invariant, step by step.                                            *)

\* While env and origin stay, so do the directories.
LEMMA SameDirs ==
  ASSUME NEW i \in Jobs, env'[i] = env[i], origin'[i] = origin[i]
  PROVE  JobContext(i)' = JobContext(i) /\ RunDir(i)' = RunDir(i)
<1> QED BY DEF JobContext, RunDir

\* A script goes on, or is stopped: no directory, environment or input changes.
LEMMA Turn ==
  ASSUME IInv, NEW j \in Jobs, TypeOK',
         UNCHANGED <<case, dir, env, origin, lost, strays, doubtful>>,
         \A i \in Jobs \ {j} : pc'[i] = pc[i] /\ cwd'[i] = cwd[i] /\ todo'[i] = todo[i],
         Placed(j)' => Placed(j), pc'[j] \notin {"fill", "walk"}, muted \subseteq muted',
         todo'[j] = {},
         cwd'[j] # Nowhere => cwd'[j] = RunDir(j),
         pc'[j] = "compute" /\ cwd'[j] = Nowhere => j \in muted',
         pc'[j] \in {"record", "print"} => RunDir(j) \in DOMAIN dir,
         pc'[j] = "copy" => RunDir(j) \notin DOMAIN dir
  PROVE  IInv'
<1>1. \A i \in Jobs : JobContext(i)' = JobContext(i) /\ RunDir(i)' = RunDir(i) /\ OwnIds(i)' = OwnIds(i)
  BY SameDirs DEF OwnIds
<1>2. Led' /\ Sent' /\ Made'
  BY <1>1 DEF IInv, Led, Placed, Sent, Made
<1>3. Filling' /\ Making' /\ Walking' /\ Traced'
  BY <1>1 DEF IInv, Filling, Making, Walking, Untouched, Traced, FreshIn, CleanIn
<1> QED BY <1>2, <1>3 DEF IInv

\* What IInv says of one job's script.
LEMMA OfJob ==
  ASSUME IInv, NEW j \in Jobs
  PROVE  /\ pc[j] # "compute" => cwd[j] = Nowhere
         /\ pc[j] # "walk" => todo[j] = {}
         /\ pc[j] \in {"walk", "record", "fill", "print"} => RunDir(j) \in DOMAIN dir
<1> QED BY DEF IInv, TypeOK, Made

LEMMA LookStep ==
  ASSUME IInv, NEW j \in Jobs, Look(j)
  PROVE  IInv'
<1>1. /\ UNCHANGED <<case, head, dir, env, given, origin, cwd, todo, kills, lost, muted, strays, doubtful>>
      /\ pc[j] = "look" /\ pc' = [pc EXCEPT ![j] = IF RunDir(j) \in DOMAIN dir THEN "record" ELSE "copy"]
  BY DEF Look
<1>2. /\ pc' \in [Jobs -> {"unborn", "queued", "env", "compute", "ended"} \cup Prep]
      /\ pc'[j] = (IF RunDir(j) \in DOMAIN dir THEN "record" ELSE "copy")
      /\ \A i \in Jobs \ {j} : pc'[i] = pc[i]
  BY <1>1 DEF IInv, TypeOK, Prep
<1>3. cwd[j] = Nowhere /\ todo[j] = {}
  BY <1>1, OfJob
<1>4. TypeOK'
  BY <1>1, <1>2, <1>3 DEF IInv, TypeOK, Places
<1>5. Placed(j)
  BY <1>1 DEF Placed, Prep
<1> QED BY <1>1, <1>2, <1>3, <1>4, <1>5, Turn

LEMMA StopStep ==
  ASSUME IInv, NEW j \in Jobs, Abort(j) \/ MuKilled(j) \/ Requeue(j) \/ Ends(j)
  PROVE  IInv'
<1>1. /\ UNCHANGED <<case, head, dir, env, given, origin, lost, strays, doubtful>>
      /\ pc' \in [Jobs -> {"unborn", "queued", "env", "compute", "ended"} \cup Prep]
      /\ pc'[j] \in {"queued", "compute", "ended"} /\ \A i \in Jobs \ {j} : pc'[i] = pc[i]
      /\ todo' \in [Jobs -> SUBSET (Inputs \cup {RunToml})]
      /\ todo'[j] = {} /\ \A i \in Jobs \ {j} : todo'[i] = todo[i]
      /\ cwd' \in [Jobs -> DOMAIN dir \cup {Nowhere}]
      /\ cwd'[j] = Nowhere /\ \A i \in Jobs \ {j} : cwd'[i] = cwd[i]
      /\ kills' \in 0 .. MaxKills /\ muted \subseteq muted' /\ muted' \subseteq Jobs
      /\ pc'[j] = "compute" => j \in muted' /\ Placed(j)
  <2>1. CASE Abort(j)
    BY <2>1, OfJob DEF IInv, TypeOK, Abort, Prep
  <2>2. CASE MuKilled(j)
    BY <2>2, OfJob, PrepAssumption DEF IInv, TypeOK, MuKilled, Prep, Placed
  <2>3. CASE Requeue(j)
    BY <2>3, PrepAssumption DEF IInv, TypeOK, Requeue, Prep
  <2>4. CASE Ends(j)
    BY <2>4, OfJob DEF IInv, TypeOK, Ends, Prep
  <2> QED BY <2>1, <2>2, <2>3, <2>4
<1>2. TypeOK'
  BY <1>1 DEF IInv, TypeOK, Places
<1>3. Placed(j)' => Placed(j)
  BY <1>1 DEF Placed, Prep
<1> QED BY <1>1, <1>2, <1>3, Turn

LEMMA SnippetStep ==
  ASSUME IInv, NEW j \in Jobs, Snippet(j)
  PROVE  IInv'
<1>1. RunDir(j) \in DOMAIN dir /\ RunDir(j) # Nowhere /\ todo[j] = {}
  BY Contexts, OfJob DEF IInv, Snippet
<1>2. /\ UNCHANGED <<case, head, dir, env, given, origin, todo, kills, lost, muted, strays, doubtful>>
      /\ pc[j] = "print"
      /\ pc' \in [Jobs -> {"unborn", "queued", "env", "compute", "ended"} \cup Prep]
      /\ pc'[j] = "compute" /\ \A i \in Jobs \ {j} : pc'[i] = pc[i]
      /\ cwd' \in [Jobs -> DOMAIN dir \cup {Nowhere}]
      /\ cwd'[j] = RunDir(j) /\ \A i \in Jobs \ {j} : cwd'[i] = cwd[i]
  BY <1>1 DEF IInv, TypeOK, Snippet, Prep
<1>3. TypeOK'
  BY <1>2 DEF IInv, TypeOK, Places
<1>4. Placed(j)
  BY <1>2 DEF Placed, Prep
<1> QED BY <1>1, <1>2, <1>3, <1>4, Turn

\* A job, or an array, is born in the directory of its parent.
LEMMA ChainStep ==
  ASSUME IInv, NEW p \in Jobs, NEW b \in Ids, Chain(p, b)
  PROVE  IInv'
<1> DEFINE born == {j \in Jobs : Base[j] = b}
<1>1. /\ UNCHANGED <<case, head, dir, env, cwd, todo, kills, lost, muted, strays, doubtful>>
      /\ pc[p] = "compute" /\ \A j \in born : pc[j] = "unborn"
      /\ \A j \in born : given'[j] = env[p] /\ origin'[j] = Where(p) /\ pc'[j] = "queued"
      /\ \A j \in Jobs \ born : given'[j] = given[j] /\ origin'[j] = origin[j] /\ pc'[j] = pc[j]
      /\ Places' = Places
  BY DEF Chain, Places
<1>2. Where(p) \in Places
  BY DEF IInv, TypeOK, Where, Places
<1>3. TypeOK'
  <2>1. given' \in [Jobs -> [id: Jobs \cup {None}, idx: Indices, at: Places \cup {Nowhere}]]
    BY <1>1 DEF Chain, IInv, TypeOK
  <2>2. origin' \in [Jobs -> Places]
    BY <1>1, <1>2 DEF Chain, IInv, TypeOK
  <2>3. pc' \in [Jobs -> {"unborn", "queued", "env", "compute", "ended"} \cup Prep]
    BY <1>1 DEF Chain, IInv, TypeOK
  <2>4. \A j \in Jobs : cwd'[j] # Nowhere => pc'[j] = "compute"
    BY <1>1 DEF IInv, TypeOK
  <2> QED BY <1>1, <2>1, <2>2, <2>3, <2>4 DEF IInv, TypeOK
<1>4. \A j \in Jobs \ born : JobContext(j)' = JobContext(j) /\ RunDir(j)' = RunDir(j)
  BY <1>1, SameDirs
<1>5. \A j \in born : pc'[j] = "queued" /\ cwd[j] = Nowhere /\ todo[j] = {}
  BY <1>1 DEF IInv, TypeOK, Made
<1> HIDE DEF born
<1>6. Led' /\ Sent' /\ Made' /\ Filling' /\ Making'
  <2>1. Led'
    BY <1>1, <1>4, <1>5 DEF IInv, Led, Placed, Prep, OwnIds
  <2>2. Sent'
    BY <1>1, <1>4, <1>5 DEF IInv, Sent
  <2>3. Made'
    BY <1>1, <1>4, <1>5 DEF IInv, Made
  <2> QED BY <1>1, <1>4, <1>5, <2>1, <2>2, <2>3 DEF IInv, Filling, Making
<1>7. Walking'
  <2>1. ASSUME NEW j \in Jobs, pc'[j] = "walk", RunDir(j)' \notin strays'
        PROVE  Untouched(j)'
    <3>1. j \notin born /\ pc[j] = "walk" /\ RunDir(j) \notin strays /\ RunDir(j)' = RunDir(j)
      BY <1>1, <1>4, <1>5, <2>1
    <3>2. Untouched(j) /\ Where(p) # RunDir(j)
      BY <1>1, <3>1, NobodyThere DEF IInv, Walking
    <3>3. \A i \in Jobs : origin'[i] # RunDir(j)
      BY <1>1, <3>2 DEF Untouched
    <3> QED BY <1>1, <1>4, <3>1, <3>2, <3>3 DEF Untouched
  <2> QED BY <2>1 DEF Walking
<1>8. Traced'
  BY <1>1 DEF IInv, Traced, FreshIn, CleanIn
<1> QED BY <1>3, <1>6, <1>7, <1>8 DEF IInv

\* The environment of one job changes, while it is not placed or by its own mu job env.
LEMMA EnvTurn ==
  ASSUME IInv, NEW j \in Jobs, TypeOK', UNCHANGED <<case, dir, origin, cwd, todo, doubtful>>,
         pc[j] \in {"queued", "env"}, pc'[j] \in {"env", "look"},
         \A i \in Jobs \ {j} : pc'[i] = pc[i] /\ env'[i] = env[i]
                               /\ (i \in lost => i \in lost') /\ (i \in muted => i \in muted'),
         strays \subseteq strays',
         pc'[j] = "look" /\ JobContext(j)'.key \notin OwnIds(j) => j \in lost' /\ RunDir(j)' \in strays'
  PROVE  IInv'
<1>1. /\ \A i \in Jobs \ {j} : JobContext(i)' = JobContext(i) /\ RunDir(i)' = RunDir(i)
      /\ \A i \in Jobs : OwnIds(i)' = OwnIds(i)
  BY SameDirs DEF OwnIds
<1>2. Led'
  BY <1>1 DEF IInv, Led, Placed, Prep
<1>3. Sent'
  BY <1>1, OfJob DEF IInv, Sent
<1>4. Made'
  BY <1>1 DEF IInv, Made
<1>5. Filling' /\ Making'
  BY <1>1 DEF IInv, Filling, Making
<1>6. Walking'
  BY <1>1 DEF IInv, Walking, Untouched
<1>7. Traced'
  BY DEF IInv, Traced, FreshIn, CleanIn
<1> QED BY <1>2, <1>3, <1>4, <1>5, <1>6, <1>7 DEF IInv

LEMMA StartStep ==
  ASSUME IInv, NEW j \in Jobs, Start(j)
  PROVE  IInv'
<1>1. /\ UNCHANGED <<case, head, dir, given, origin, cwd, todo, kills, strays, doubtful>>
      /\ pc[j] = "queued" /\ pc'[j] = "env" /\ lost' = lost \ {j} /\ muted' = muted \ {j}
      /\ \A i \in Jobs \ {j} : pc'[i] = pc[i] /\ env'[i] = env[i]
  BY DEF IInv, TypeOK, Start
<1>2. TypeOK'
  <2>1. Places' = Places
    BY <1>1 DEF Places
  <2>2. /\ pc' \in [Jobs -> {"unborn", "queued", "env", "compute", "ended"} \cup Prep]
        /\ env' \in [Jobs -> [id: Jobs \cup {None}, idx: Indices, at: Places \cup {Nowhere}]]
    BY DEF IInv, TypeOK, Start
  <2>3. cwd[j] = Nowhere
    BY <1>1, OfJob
  <2> QED BY <1>1, <2>1, <2>2, <2>3 DEF IInv, TypeOK
<1> QED BY <1>1, <1>2, EnvTurn

LEMMA EnvStep ==
  ASSUME IInv, NEW j \in Jobs, Env(j)
  PROVE  IInv'
<1>1. /\ UNCHANGED <<case, head, dir, given, origin, cwd, todo, kills, muted, doubtful>>
      /\ pc[j] = "env" /\ pc'[j] = "look" /\ \A i \in Jobs \ {j} : pc'[i] = pc[i]
      /\ pc' \in [Jobs -> {"unborn", "queued", "env", "compute", "ended"} \cup Prep]
      /\ Places' = Places /\ cwd[j] = Nowhere
  BY OfJob DEF Env, IInv, TypeOK, Prep, Places
<1>2. CASE env' = [env EXCEPT ![j] = Exported(j)] /\ UNCHANGED <<lost, strays>>
  <2>1. Exported(j) \in [id: Jobs \cup {None}, idx: Indices, at: Places \cup {Nowhere}]
    BY DEF IInv, TypeOK, Exported, Indices
  <2>2. env' \in [Jobs -> [id: Jobs \cup {None}, idx: Indices, at: Places \cup {Nowhere}]]
    BY <1>2, <2>1 DEF IInv, TypeOK
  <2>3. env'[j] = Exported(j) /\ \A i \in Jobs \ {j} : env'[i] = env[i]
    BY <1>2 DEF IInv, TypeOK
  <2>4. TypeOK'
    BY <1>1, <1>2, <2>2 DEF IInv, TypeOK
  <2>5. j # None /\ j \in Jobs
    BY PrepAssumption
  <2>6. JobContext(j)'.key = [id |-> Base[j], idx |-> IF env'[j].idx # 0 THEN env'[j].idx ELSE Index[j]]
    BY <2>3, <2>5 DEF JobContext, Exported
  <2>7. Index[j] # 0 => env'[j].idx = Index[j]
    BY <2>3 DEF Exported
  <2>8. JobContext(j)'.key \in Keys
    <3>1. env'[j].idx \in Indices
      BY <2>2
    <3> QED BY <2>6, <3>1 DEF Keys, Ids, Indices
  <2>9. JobContext(j)'.key \in OwnIds(j)
    BY <2>6, <2>7, <2>8 DEF OwnIds
  <2> QED BY <1>1, <1>2, <2>3, <2>4, <2>9, EnvTurn
<1>3. CASE /\ lost' = lost \cup {j} /\ UNCHANGED env
           /\ strays' = strays \cup {d \in {RunDir(j)} : JobContext(j).key \notin OwnIds(j)}
  <2>1. JobContext(j)' = JobContext(j) /\ RunDir(j)' = RunDir(j) /\ RunDir(j) \in Seq(Keys)
    BY <1>1, <1>3, SameDirs, Contexts DEF IInv
  <2>2. TypeOK'
    BY <1>1, <1>3, <2>1 DEF IInv, TypeOK
  <2> QED BY <1>1, <1>3, <2>1, <2>2, EnvTurn
<1> QED BY <1>2, <1>3 DEF Env

\* The directory of the copy is made, and the files to copy are listed.
LEMMA CopyStep ==
  ASSUME IInv, NEW j \in Jobs, Copy(j)
  PROVE  IInv'
<1> DEFINE k == RunDir(j)
           at == JobContext(j).at
<1>1. /\ UNCHANGED <<case, head, env, given, origin, cwd, kills, lost, muted, strays, doubtful>>
      /\ pc[j] = "copy" /\ pc'[j] = "walk" /\ \A i \in Jobs \ {j} : pc'[i] = pc[i]
      /\ pc' \in [Jobs -> {"unborn", "queued", "env", "compute", "ended"} \cup Prep]
      /\ todo' \in [Jobs -> SUBSET (Inputs \cup {RunToml})] /\ \A i \in Jobs \ {j} : todo'[i] = todo[i]
      /\ todo'[j] = {f \in Inputs : FilesOf(at)[f] # Absent} \cup {f \in {RunToml} : TomlOf(at).st # "none"}
      /\ cwd[j] = Nowhere
  BY OfJob DEF Copy, IInv, TypeOK, Prep
<1>2. /\ k \in Seq(Keys) /\ k # <<>> /\ k # Nowhere /\ at \in Places
      /\ \A i \in Jobs : JobContext(i)' = JobContext(i) /\ RunDir(i)' = RunDir(i) /\ OwnIds(i)' = OwnIds(i)
  BY <1>1, Contexts, SameDirs DEF IInv, OwnIds
<1>3. /\ DOMAIN dir' = DOMAIN dir \cup {k} /\ dir' \in [DOMAIN dir' -> Dir]
      /\ \A d \in DOMAIN dir : dir'[d] = dir[d]
      /\ k \notin DOMAIN dir => dir'[k] = NewDir
  <2>1. dir' = [d \in DOMAIN dir \cup {k} |-> IF d \in DOMAIN dir THEN dir[d] ELSE NewDir]
    BY DEF Copy
  <2> QED BY <2>1, Codes DEF IInv, TypeOK
<1> HIDE DEF k, at
<1>4. TypeOK'
  <2>1. Places \subseteq Places'
    BY <1>3 DEF Places
  <2>2. /\ env \in [Jobs -> [id: Jobs \cup {None}, idx: Indices, at: Places' \cup {Nowhere}]]
        /\ given \in [Jobs -> [id: Jobs \cup {None}, idx: Indices, at: Places' \cup {Nowhere}]]
    BY <2>1 DEF IInv, TypeOK
  <2>3. origin \in [Jobs -> Places'] /\ cwd \in [Jobs -> DOMAIN dir' \cup {Nowhere}]
    BY <1>3, <2>1 DEF IInv, TypeOK
  <2> QED BY <1>1, <1>2, <1>3, <2>2, <2>3 DEF IInv, TypeOK
<1>5. Led' /\ Sent'
  BY <1>1, <1>2 DEF IInv, Led, Sent, Placed, Prep
<1>6. Made'
  BY <1>1, <1>2, <1>3 DEF IInv, Made, k
<1>7. Filling'
  BY <1>1, <1>2, <1>3 DEF IInv, Filling, Made
<1>8. \A i \in Jobs \ {j} : Placed(i) /\ RunDir(i) = k => k \in strays
  <2>1. Placed(j)
    BY <1>1 DEF Placed, Prep
  <2> QED BY <2>1, SharedIsStray DEF IInv, k
<1>9. Making'
  BY <1>1, <1>2, <1>3, <1>8 DEF IInv, Making, Placed, Prep
<1>10. Walking'
  <2>1. ASSUME NEW i \in Jobs \ {j}, pc[i] = "walk", RunDir(i) \notin strays
        PROVE  Untouched(i)'
    <3>1. Untouched(i) /\ RunDir(i) \in DOMAIN dir
      BY <2>1, OfJob DEF IInv, Walking
    <3> QED BY <1>1, <1>2, <1>3, <3>1 DEF Untouched
  <2>2. ASSUME k \notin strays
        PROVE  Untouched(j)'
    <3>1. k \notin DOMAIN dir
      BY <1>1, <2>2 DEF IInv, Making, k
    <3>2. dir'[k] = NewDir /\ \A f \in Inputs : NewDir.files[f] # Written
      BY <1>3, <3>1, Codes DEF NewDir, Nothing
    <3>3. NewDir.toml.st = "none"
      BY DEF NewDir, NoToml
    <3>4. \A i \in Jobs : origin[i] # k
      BY <1>2, <3>1 DEF IInv, TypeOK, Places
    <3>5. \A f \in todo'[j] \ {RunToml} : f \in Inputs
      BY <1>1
    <3>6. RunDir(j)' = k
      BY <1>2 DEF k
    <3>7. \A f \in todo'[j] \ {RunToml} : dir'[k].files[f] # Written
      BY <3>2, <3>5
    <3> QED BY <1>1, <3>2, <3>3, <3>4, <3>6, <3>7 DEF Untouched
  <2> QED BY <1>1, <1>2, <2>1, <2>2 DEF Walking, k
<1>11. Traced'
  <2>1. ASSUME NEW d \in DOMAIN dir', d \notin doubtful \cup strays, Len(d) = 1
        PROVE  FreshIn(d)' /\ CleanIn(d)'
    <3>1. CASE d \in DOMAIN dir
      BY <1>1, <1>3, <2>1, <3>1 DEF IInv, Traced, FreshIn, CleanIn
    <3>2. CASE d \notin DOMAIN dir
      <4>1. dir'[d] = NewDir
        BY <1>3, <3>2
      <4>2. NewDir.toml.st = "none" /\ \A f \in Inputs : NewDir.snap[f] = Absent
        BY DEF NewDir, NoToml, Nothing
      <4> QED BY <4>1, <4>2 DEF FreshIn, CleanIn
    <3> QED BY <3>1, <3>2
  <2> QED BY <1>1, <2>1 DEF Traced
<1> QED BY <1>4, <1>5, <1>6, <1>7, <1>9, <1>10, <1>11 DEF IInv

\* One directory changes: the job's own, as its prep goes on, or the one it computes in.
LEMMA DirTurn ==
  ASSUME IInv, TypeOK', NEW j \in Jobs, NEW k \in DOMAIN dir, DOMAIN dir' = DOMAIN dir,
         \A d \in DOMAIN dir \ {k} : dir'[d] = dir[d],
         UNCHANGED <<case, env, origin, cwd, lost, muted, strays>>, doubtful \subseteq doubtful',
         \A i \in Jobs \ {j} : pc'[i] = pc[i] /\ todo'[i] = todo[i],
         Placed(j), pc'[j] = pc[j] \/ (pc[j] # "compute" /\ pc'[j] \in {"walk", "record", "fill", "print"}),
         pc[j] # "compute" => RunDir(j) = k,
         pc'[j] # "walk" => todo'[j] = {},
         \A i \in Jobs \ {j} : pc[i] = "walk" => RunDir(i) # k \/ RunDir(i) \in strays,
         \A i \in Jobs \ {j} : pc[i] = "fill" /\ RunDir(i) = k =>
            RunDir(i) \in strays \/ dir'[k].toml = dir[k].toml,
         pc'[j] = "fill" => dir'[k].toml.st = "torn",
         pc'[j] # "copy",
         pc'[j] = "walk" /\ k \notin strays => Untouched(j)',
         k \notin doubtful' \cup strays /\ Len(k) = 1 => FreshIn(k)' /\ CleanIn(k)'
  PROVE  IInv'
<1>1. \A i \in Jobs : JobContext(i)' = JobContext(i) /\ RunDir(i)' = RunDir(i) /\ OwnIds(i)' = OwnIds(i)
  BY SameDirs DEF OwnIds
<1>2. Led' /\ Sent'
  BY <1>1 DEF IInv, Led, Sent, Placed, Prep
<1>3. Made'
  <2>1. \A i \in Jobs : pc'[i] \in {"walk", "record", "fill", "print"} => RunDir(i) \in DOMAIN dir
    BY OfJob
  <2> QED BY <1>1, <2>1 DEF IInv, Made
<1>4. Filling'
  <2>1. ASSUME NEW i \in Jobs, pc'[i] = "fill", RunDir(i) \notin strays
        PROVE  dir'[RunDir(i)].toml.st = "torn"
    <3>1. CASE i = j
      BY <2>1, <3>1
    <3>2. CASE i # j
      <4>1. pc[i] = "fill" /\ RunDir(i) \in DOMAIN dir /\ dir[RunDir(i)].toml.st = "torn"
        BY <2>1, <3>2, OfJob DEF IInv, Filling
      <4> QED BY <2>1, <3>2, <4>1
    <3> QED BY <3>1, <3>2
  <2> QED BY <1>1, <2>1 DEF Filling
<1>5. Making'
  BY <1>1 DEF IInv, Making
<1>6. Walking'
  <2>1. ASSUME NEW i \in Jobs \ {j}, pc[i] = "walk", RunDir(i) \notin strays
        PROVE  Untouched(i)'
    <3>1. Untouched(i) /\ RunDir(i) \in DOMAIN dir /\ RunDir(i) # k
      BY <2>1, OfJob DEF IInv, Walking
    <3>2. dir'[RunDir(i)] = dir[RunDir(i)]
      BY <3>1
    <3> QED BY <1>1, <3>1, <3>2 DEF Untouched
  <2>2. pc'[j] = "walk" => RunDir(j) = k
    OBVIOUS
  <2> QED BY <1>1, <2>1, <2>2 DEF Walking
<1>7. Traced'
  <2>1. ASSUME NEW d \in DOMAIN dir, d \notin doubtful' \cup strays, Len(d) = 1, d # k
        PROVE  FreshIn(d)' /\ CleanIn(d)'
    <3>1. FreshIn(d) /\ CleanIn(d) /\ dir'[d] = dir[d]
      BY <2>1 DEF IInv, Traced
    <3> QED BY <3>1 DEF FreshIn, CleanIn
  <2> QED BY <2>1 DEF Traced
<1> QED BY <1>2, <1>3, <1>4, <1>5, <1>6, <1>7 DEF IInv

\* Nobody else walks or fills where a job's prep is, strays apart.
LEMMA Alone ==
  ASSUME IInv, NEW i \in Jobs, NEW j \in Jobs, i # j, pc[i] \in {"walk", "fill"}, Placed(j),
         RunDir(i) = RunDir(j)
  PROVE  RunDir(i) \in strays
<1>1. Placed(i)
  BY DEF Placed, Prep
<1> QED BY <1>1, SharedIsStray DEF IInv

\* What a new record, or a new file, makes of a directory.
LEMMA TomlMoves ==
  ASSUME TypeOK, NEW k \in DOMAIN dir, NEW t \in Toml, dir' = [dir EXCEPT ![k].toml = t]
  PROVE  /\ DOMAIN dir' = DOMAIN dir /\ dir' \in [DOMAIN dir' -> Dir]
         /\ dir'[k].toml = t /\ dir'[k].files = dir[k].files /\ dir'[k].snap = dir[k].snap
         /\ \A d \in DOMAIN dir \ {k} : dir'[d] = dir[d]
<1> DEFINE e == [dir[k] EXCEPT !.toml = t]
<1>1. /\ e \in Dir /\ e.toml = t /\ e.files = dir[k].files /\ e.snap = dir[k].snap
  BY Dirs DEF Dir
<1>2. dir' = [dir EXCEPT ![k] = e]
  OBVIOUS
<1> HIDE DEF e
<1> QED BY <1>1, <1>2 DEF TypeOK

LEMMA FileMoves ==
  ASSUME TypeOK, NEW k \in DOMAIN dir, NEW f \in Inputs, NEW v \in 0 .. Written,
         dir' = [dir EXCEPT ![k].files[f] = v, ![k].snap[f] = v]
  PROVE  /\ DOMAIN dir' = DOMAIN dir /\ dir' \in [DOMAIN dir' -> Dir]
         /\ dir'[k].toml = dir[k].toml
         /\ dir'[k].files = [dir[k].files EXCEPT ![f] = v]
         /\ dir'[k].snap = [dir[k].snap EXCEPT ![f] = v]
         /\ \A d \in DOMAIN dir \ {k} : dir'[d] = dir[d]
<1> DEFINE e == [dir[k] EXCEPT !.files = [dir[k].files EXCEPT ![f] = v],
                               !.snap = [dir[k].snap EXCEPT ![f] = v]]
<1>1. /\ e \in Dir /\ e.toml = dir[k].toml /\ e.files = [dir[k].files EXCEPT ![f] = v]
      /\ e.snap = [dir[k].snap EXCEPT ![f] = v]
  BY Dirs DEF Dir
<1>2. dir' = [dir EXCEPT ![k] = e]
  BY Dirs DEF Dir
<1> HIDE DEF e
<1> QED BY <1>1, <1>2 DEF TypeOK

\* What a directory has to give.
LEMMA Sources ==
  ASSUME TypeOK, NEW d \in Places
  PROVE  FilesOf(d) \in [Inputs -> 0 .. Written] /\ TomlOf(d) \in Toml
<1> QED BY Dirs, Codes DEF FilesOf, TomlOf, Places, TypeOK

\* The walk comes to its end, or one file, or the record of the other directory, is copied.
LEMMA WalkStep ==
  ASSUME IInv, NEW j \in Jobs, Walk(j)
  PROVE  IInv'
<1> DEFINE at == JobContext(j).at
<1>0. PICK k \in Seq(Keys) : k = RunDir(j)
  BY Contexts DEF IInv
<1>1. /\ UNCHANGED <<case, head, env, given, origin, cwd, kills, lost, muted, strays, doubtful>>
      /\ pc[j] = "walk" /\ Placed(j) /\ cwd[j] = Nowhere
  BY OfJob DEF Walk, Placed, Prep
<1>2. /\ k \in DOMAIN dir /\ at \in Places /\ JobContext(j)' = JobContext(j) /\ RunDir(j)' = k
      /\ FilesOf(at) \in [Inputs -> 0 .. Written] /\ TomlOf(at) \in Toml
      /\ Len(k) = 1 => at = <<>>
  BY <1>0, <1>1, OfJob, Contexts, Sources, SameDirs DEF IInv
<1>3. k \notin strays => Untouched(j)
  BY <1>0, <1>1 DEF IInv, Walking
<1>4. \A i \in Jobs \ {j} : pc[i] \in {"walk", "fill"} => RunDir(i) # k \/ RunDir(i) \in strays
  BY <1>0, <1>1, Alone
<1>5. CASE todo[j] = {} /\ pc' = [pc EXCEPT ![j] = "record"] /\ UNCHANGED <<dir, todo>>
  <2>1. /\ pc' \in [Jobs -> {"unborn", "queued", "env", "compute", "ended"} \cup Prep]
        /\ pc'[j] = "record" /\ \A i \in Jobs \ {j} : pc'[i] = pc[i]
    BY <1>5 DEF IInv, TypeOK, Prep
  <2>2. TypeOK'
    BY <1>1, <1>5, <2>1 DEF IInv, TypeOK, Places
  <2> QED BY <1>0, <1>1, <1>2, <1>5, <2>1, <2>2, Turn
<1>6. ASSUME NEW f \in todo[j], todo' = [todo EXCEPT ![j] = @ \ {f}], UNCHANGED pc,
             dir' = IF f = RunToml THEN [dir EXCEPT ![k].toml = TomlOf(at)]
                    ELSE [dir EXCEPT ![k].files[f] = FilesOf(at)[f], ![k].snap[f] = FilesOf(at)[f]]
      PROVE  IInv'
  <2>1. /\ todo' \in [Jobs -> SUBSET (Inputs \cup {RunToml})] /\ todo'[j] = todo[j] \ {f}
        /\ \A i \in Jobs \ {j} : todo'[i] = todo[i]
        /\ todo[j] \subseteq Inputs \cup {RunToml}
    BY <1>6 DEF IInv, TypeOK
  <2> HIDE DEF at
  <2>2. /\ DOMAIN dir' = DOMAIN dir /\ dir' \in [DOMAIN dir' -> Dir]
        /\ \A d \in DOMAIN dir \ {k} : dir'[d] = dir[d]
        /\ f # RunToml => /\ f \in Inputs /\ dir'[k].toml = dir[k].toml
                          /\ dir'[k].files = [dir[k].files EXCEPT ![f] = FilesOf(at)[f]]
                          /\ dir'[k].snap = [dir[k].snap EXCEPT ![f] = FilesOf(at)[f]]
        /\ f = RunToml => /\ dir'[k].toml = TomlOf(at)
                          /\ dir'[k].files = dir[k].files /\ dir'[k].snap = dir[k].snap
    <3>1. CASE f = RunToml
      BY <1>2, <1>6, <3>1, TomlMoves DEF IInv
    <3>2. CASE f # RunToml
      <4>1. f \in Inputs /\ FilesOf(at)[f] \in 0 .. Written
        BY <1>2, <2>1, <3>2
      <4>2. dir' = [dir EXCEPT ![k].files[f] = FilesOf(at)[f], ![k].snap[f] = FilesOf(at)[f]]
        BY <1>6, <3>2
      <4>3. /\ DOMAIN dir' = DOMAIN dir /\ dir' \in [DOMAIN dir' -> Dir]
            /\ dir'[k].toml = dir[k].toml
            /\ dir'[k].files = [dir[k].files EXCEPT ![f] = FilesOf(at)[f]]
            /\ dir'[k].snap = [dir[k].snap EXCEPT ![f] = FilesOf(at)[f]]
            /\ \A d \in DOMAIN dir \ {k} : dir'[d] = dir[d]
        <5> DEFINE v == FilesOf(at)[f]
        <5>1. v \in 0 .. Written /\ dir' = [dir EXCEPT ![k].files[f] = v, ![k].snap[f] = v]
          BY <4>1, <4>2
        <5> HIDE DEF v
        <5>2. /\ DOMAIN dir' = DOMAIN dir /\ dir' \in [DOMAIN dir' -> Dir]
              /\ dir'[k].toml = dir[k].toml
              /\ dir'[k].files = [dir[k].files EXCEPT ![f] = v]
              /\ dir'[k].snap = [dir[k].snap EXCEPT ![f] = v]
              /\ \A d \in DOMAIN dir \ {k} : dir'[d] = dir[d]
          BY <1>2, <4>1, <5>1, FileMoves DEF IInv
        <5> QED BY <5>2 DEF v
      <4> QED BY <3>2, <4>1, <4>3
    <3> QED BY <3>1, <3>2
  <2>3. TypeOK'
    BY <1>1, <1>6, <2>1, <2>2 DEF IInv, TypeOK, Places
  <2>4. dir[k] \in Dir /\ dir[k].files \in [Inputs -> 0 .. Written] /\ dir[k].snap \in [Inputs -> 0 .. Written]
    BY <1>2, Dirs DEF IInv
  <2>5. at = <<>> => TomlOf(at).st = "none" /\ FilesOf(at) = case
    BY DEF TomlOf, FilesOf, NoToml
  <2>6. ASSUME k \notin strays
        PROVE  Untouched(j)'
    <3>1. /\ \A i \in Jobs : origin[i] # k
          /\ \A g \in todo[j] \ {RunToml} : dir[k].files[g] # Written
          /\ RunToml \in todo[j] \/ at = <<>> => dir[k].toml.st = "none"
      BY <1>0, <1>3, <2>6 DEF Untouched, at
    <3>2. \A g \in todo'[j] \ {RunToml} : dir'[k].files[g] = dir[k].files[g]
      <4>1. \A g \in todo'[j] \ {RunToml} : g # f /\ g \in Inputs
        BY <2>1
      <4> QED BY <2>2, <2>4, <4>1
    <3>3. RunToml \in todo'[j] \/ at = <<>> => dir'[k].toml.st = "none"
      BY <2>1, <2>2, <2>5, <3>1
    <3>4. RunDir(j)' = k /\ JobContext(j)'.at = at
      BY <1>2 DEF at
    <3> QED BY <1>1, <2>1, <3>1, <3>2, <3>3, <3>4 DEF Untouched
  <2>7. ASSUME k \notin doubtful \cup strays, Len(k) = 1
        PROVE  FreshIn(k)' /\ CleanIn(k)'
    <3>1. at = <<>> /\ dir[k].toml.st = "none"
      BY <1>0, <1>2, <1>3, <2>7 DEF Untouched, at
    <3>2. dir'[k].toml.st = "none"
      BY <2>2, <2>5, <3>1
    <3>3. \A g \in Inputs : dir[k].snap[g] \in {Absent, case[g]}
      BY <1>2, <2>7, <3>1 DEF IInv, Traced, FreshIn
    <3>4. \A g \in Inputs : dir'[k].snap[g] \in {dir[k].snap[g], case[g]}
      BY <2>2, <2>4, <2>5, <3>1
    <3> QED BY <1>1, <3>2, <3>3, <3>4 DEF FreshIn, CleanIn
  <2>8. k = RunDir(j) /\ pc'[j] = "walk" /\ \A i \in Jobs : pc'[i] = pc[i]
    BY <1>0, <1>1, <1>6
  <2>9. \A i \in Jobs \ {j} : pc[i] \in {"walk", "fill"} => RunDir(i) # k \/ RunDir(i) \in strays
    BY <1>4
  <2>10. k \in DOMAIN dir
    BY <1>2
  <2> QED BY <1>1, <2>1, <2>2, <2>3, <2>6, <2>7, <2>8, <2>9, <2>10, DirTurn
<1> QED BY <1>0, <1>5, <1>6 DEF Walk

\* A record is begun, or made: in the directory of the job, which is there.
LEMMA RecordTurn ==
  ASSUME IInv, NEW j \in Jobs, NEW t \in Toml, dir' = [dir EXCEPT ![RunDir(j)].toml = t],
         \/ pc[j] = "record" /\ dir[RunDir(j)].toml.st = "none"
              /\ pc' = [pc EXCEPT ![j] = "fill"] /\ t.st = "torn"
         \/ pc[j] = "fill" /\ pc' = [pc EXCEPT ![j] = "print"],
         UNCHANGED <<case, head, env, given, origin, cwd, todo, kills, lost, muted, strays>>,
         doubtful \subseteq doubtful', doubtful' \subseteq Seq(Keys),
         RunDir(j) \notin doubtful' /\ JobContext(j).at = <<>> /\ t.st = "whole" /\ t.says = "clean" =>
            t.commit = case
  PROVE  IInv'
<1>0. PICK k \in Seq(Keys) : k = RunDir(j)
  BY Contexts DEF IInv
<1>1. /\ Placed(j) /\ cwd[j] = Nowhere /\ todo[j] = {} /\ pc[j] \in {"record", "fill"}
      /\ k \in DOMAIN dir /\ RunDir(j)' = k
      /\ Len(k) = 1 => JobContext(j).at = <<>>
  BY <1>0, OfJob, Contexts, SameDirs DEF Placed, Prep, IInv
<1>2. /\ pc' \in [Jobs -> {"unborn", "queued", "env", "compute", "ended"} \cup Prep]
      /\ pc'[j] \in {"fill", "print"} /\ \A i \in Jobs \ {j} : pc'[i] = pc[i]
      /\ pc'[j] = "fill" => t.st = "torn"
  BY DEF IInv, TypeOK, Prep
<1>3. \A i \in Jobs \ {j} : pc[i] \in {"walk", "fill"} => RunDir(i) # k \/ RunDir(i) \in strays
  BY <1>0, <1>1, Alone
<1>4. /\ DOMAIN dir' = DOMAIN dir /\ dir' \in [DOMAIN dir' -> Dir]
      /\ dir'[k].toml = t /\ dir'[k].snap = dir[k].snap
      /\ \A d \in DOMAIN dir \ {k} : dir'[d] = dir[d]
  BY <1>0, <1>1, TomlMoves DEF IInv
<1>5. TypeOK'
  BY <1>1, <1>2, <1>4 DEF IInv, TypeOK, Places
<1>6. ASSUME k \notin doubtful' \cup strays, Len(k) = 1
      PROVE  FreshIn(k)' /\ CleanIn(k)'
  <2>1. FreshIn(k) /\ dir[k].toml.st # "whole"
    <3>1. pc[j] = "fill" => dir[k].toml.st = "torn"
      BY <1>0, <1>6 DEF IInv, Filling
    <3> QED BY <1>0, <1>1, <1>6, <3>1 DEF IInv, Traced
  <2>2. \A f \in Inputs : dir'[k].snap[f] \in {Absent, case[f]}
    BY <1>4, <2>1 DEF FreshIn
  <2> QED BY <1>0, <1>1, <1>4, <1>6, <2>2 DEF FreshIn, CleanIn
<1> QED BY <1>0, <1>1, <1>2, <1>3, <1>4, <1>5, <1>6, DirTurn

LEMMA RecordStep ==
  ASSUME IInv, NEW j \in Jobs, Record(j)
  PROVE  IInv'
<1> DEFINE k == RunDir(j)
           t == [dir[k].toml EXCEPT !.st = "torn"]
<1>1. /\ pc[j] = "record" /\ k \in DOMAIN dir /\ dir[k].toml \in Toml /\ TomlOf(k) = dir[k].toml
      /\ cwd[j] = Nowhere /\ todo[j] = {} /\ Placed(j)
      /\ UNCHANGED <<case, head, env, given, origin, cwd, todo, kills, lost, muted, strays, doubtful>>
  BY OfJob, Dirs, Contexts DEF IInv, Record, TomlOf, Placed, Prep
<1>2. CASE dir[k].toml.st = "none"
  <2>1. dir' = [dir EXCEPT ![k].toml.st = "torn"] /\ pc' = [pc EXCEPT ![j] = "fill"]
    BY <1>1, <1>2 DEF Record
  <2>2. t \in Toml /\ t.st = "torn"
    BY <1>1 DEF Toml
  <2>3. dir' = [dir EXCEPT ![k].toml = t]
    BY <1>1, <2>1 DEF IInv, TypeOK
  <2>4. doubtful \subseteq Seq(Keys)
    BY DEF IInv, TypeOK
  <2> HIDE DEF t
  <2> QED BY <1>1, <1>2, <2>1, <2>2, <2>3, <2>4, RecordTurn
<1>3. CASE dir[k].toml.st # "none"
  <2>1. pc' = [pc EXCEPT ![j] = "print"] /\ UNCHANGED dir
    BY <1>1, <1>3 DEF Record
  <2>2. /\ pc' \in [Jobs -> {"unborn", "queued", "env", "compute", "ended"} \cup Prep]
        /\ pc'[j] = "print" /\ \A i \in Jobs \ {j} : pc'[i] = pc[i]
    BY <2>1 DEF IInv, TypeOK, Prep
  <2>3. TypeOK'
    BY <1>1, <2>1, <2>2 DEF IInv, TypeOK, Places
  <2> QED BY <1>1, <2>1, <2>2, <2>3, Turn
<1> QED BY <1>2, <1>3

LEMMA FillStep ==
  ASSUME IInv, NEW j \in Jobs, Fill(j)
  PROVE  IInv'
<1> DEFINE k == RunDir(j)
           at == JobContext(j).at
<1>1. PICK git \in {"answers", "blind", "absent"} :
        /\ dir' = [dir EXCEPT ![k].toml = RunTOML(at, git)]
        /\ doubtful' = doubtful \cup {d \in {k} : git = "blind"}
  BY DEF Fill
<1>2. /\ pc[j] = "fill" /\ pc' = [pc EXCEPT ![j] = "print"]
      /\ UNCHANGED <<case, head, env, given, origin, cwd, todo, kills, lost, muted, strays>>
      /\ k \in Seq(Keys) /\ doubtful' \subseteq Seq(Keys) /\ doubtful \subseteq doubtful'
  BY <1>1, Contexts DEF Fill, IInv, TypeOK
<1>3. RunTOML(at, git) \in Toml
  <2>1. head \in [Inputs -> 0 .. Written]
    BY Codes DEF IInv, TypeOK
  <2> QED BY <2>1, Codes DEF RunTOML, Toml
<1>4. ASSUME k \notin doubtful', at = <<>>, RunTOML(at, git).says = "clean"
      PROVE  RunTOML(at, git).commit = case
  <2>1. git # "blind"
    BY <1>1, <1>4
  <2> QED BY <1>4, <2>1 DEF RunTOML
<1> HIDE DEF at
<1>5. at = JobContext(j).at
  BY DEF at
<1> QED BY <1>1, <1>2, <1>3, <1>4, <1>5, RecordTurn

\* The case or its commit changes: every directory whose record is open is in doubt.
LEMMA CaseTurn ==
  ASSUME IInv, TypeOK', UNCHANGED <<dir, env, origin, pc, cwd, todo, lost, muted, strays>>,
         doubtful' = doubtful \cup Open
  PROVE  IInv'
<1>1. \A i \in Jobs : JobContext(i)' = JobContext(i) /\ RunDir(i)' = RunDir(i) /\ OwnIds(i)' = OwnIds(i)
  BY SameDirs DEF OwnIds
<1>2. Led' /\ Sent' /\ Made' /\ Filling' /\ Making' /\ Walking'
  BY <1>1 DEF IInv, Led, Placed, Sent, Made, Filling, Making, Walking, Untouched
<1>3. Traced'
  BY DEF IInv, Traced, FreshIn, CleanIn, Open
<1> QED BY <1>2, <1>3 DEF IInv

LEMMA ComputeStep ==
  ASSUME IInv, NEW j \in Jobs, Compute(j)
  PROVE  IInv'
<1>1. PICK f \in Inputs :
        IF Where(j) = <<>>
          THEN case' = [case EXCEPT ![f] = Written] /\ doubtful' = doubtful \cup Open /\ UNCHANGED dir
          ELSE dir' = [dir EXCEPT ![Where(j)].files[f] = Written] /\ UNCHANGED <<case, doubtful>>
  BY DEF Compute
<1>2. /\ pc[j] = "compute" /\ todo[j] = {} /\ Placed(j)
      /\ UNCHANGED <<head, env, given, origin, pc, cwd, todo, kills, lost, muted, strays>>
  BY OfJob DEF Compute, Placed
<1>3. CASE Where(j) = <<>>
  <2>1. Open \subseteq Seq(Keys)
    BY DEF IInv, TypeOK, Open
  <2>2. TypeOK'
    BY <1>1, <1>2, <1>3, <2>1 DEF IInv, TypeOK, Places
  <2> QED BY <1>1, <1>2, <1>3, <2>2, CaseTurn
<1>4. CASE Where(j) # <<>>
  <2>1. PICK k \in DOMAIN dir : k = Where(j)
    BY <1>4 DEF IInv, TypeOK, Where, Places
  <2>2. dir' = [dir EXCEPT ![k].files[f] = Written] /\ UNCHANGED <<case, doubtful>>
    BY <1>1, <1>4, <2>1
  <2>3. /\ DOMAIN dir' = DOMAIN dir /\ dir' \in [DOMAIN dir' -> Dir]
        /\ dir'[k].toml = dir[k].toml /\ dir'[k].snap = dir[k].snap
        /\ \A d \in DOMAIN dir \ {k} : dir'[d] = dir[d]
    <3> DEFINE e == [dir[k] EXCEPT !.files = [dir[k].files EXCEPT ![f] = Written]]
    <3>1. e \in Dir /\ e.toml = dir[k].toml /\ e.snap = dir[k].snap
      BY Dirs, Codes DEF IInv, Dir
    <3>2. dir' = [dir EXCEPT ![k] = e]
      BY <2>2
    <3> HIDE DEF e
    <3> QED BY <3>1, <3>2 DEF IInv, TypeOK
  <2>4. TypeOK'
    BY <1>2, <2>2, <2>3 DEF IInv, TypeOK, Places
  <2>5. \A i \in Jobs \ {j} : pc[i] = "walk" => RunDir(i) # k \/ RunDir(i) \in strays
    BY <1>2, <2>1, NobodyThere
  <2>6. ASSUME k \notin doubtful' \cup strays, Len(k) = 1
        PROVE  FreshIn(k)' /\ CleanIn(k)'
    BY <2>2, <2>3, <2>6 DEF IInv, Traced, FreshIn, CleanIn
  <2>7. /\ \A i \in Jobs \ {j} : pc'[i] = pc[i] /\ todo'[i] = todo[i]
        /\ Placed(j) /\ pc'[j] = pc[j] /\ pc[j] = "compute" /\ todo'[j] = {}
    BY <1>2
  <2>8. pc'[j] # "walk" /\ pc'[j] # "fill" /\ pc'[j] # "copy"
    BY <2>7
  <2>9. UNCHANGED <<case, env, origin, cwd, lost, muted, strays>> /\ doubtful \subseteq doubtful'
    BY <1>2, <2>2
  <2>10. /\ DOMAIN dir' = DOMAIN dir /\ \A d \in DOMAIN dir \ {k} : dir'[d] = dir[d]
         /\ \A i \in Jobs \ {j} : pc[i] = "fill" /\ RunDir(i) = k =>
              RunDir(i) \in strays \/ dir'[k].toml = dir[k].toml
    BY <2>3
  <2> QED BY <2>1, <2>4, <2>5, <2>6, <2>7, <2>8, <2>9, <2>10, DirTurn
<1> QED BY <1>3, <1>4

LEMMA OwnerStep ==
  ASSUME IInv, (\E f \in Inputs : Edit(f)) \/ Commit
  PROVE  IInv'
<1>1. Open \subseteq Seq(Keys)
  BY DEF IInv, TypeOK, Open
<1>2. CASE \E f \in Inputs : Edit(f)
  <2>1. PICK f \in Inputs : Edit(f)
    BY <1>2
  <2>2. case[f] + 1 \in Edits
    <3>1. case[f] \in Edits \cup {Written} /\ case[f] < MaxEdits
      BY <2>1 DEF IInv, TypeOK, Edit
    <3> QED BY <3>1, PrepAssumption DEF Edits, Written
  <2>3. TypeOK'
    BY <1>1, <2>1, <2>2 DEF IInv, TypeOK, Edit, Places
  <2> QED BY <2>1, <2>3, CaseTurn DEF Edit
<1>3. CASE Commit
  <2>1. TypeOK'
    BY <1>1, <1>3 DEF IInv, TypeOK, Commit, Places
  <2> QED BY <1>3, <2>1, CaseTurn DEF Commit
<1> QED BY <1>2, <1>3

LEMMA InvNext == IInv /\ [Next]_vars => IInv'
<1> SUFFICES ASSUME IInv, [Next]_vars PROVE IInv'
  OBVIOUS
<1>1. CASE UNCHANGED vars
  <2>1. \A i \in Jobs : JobContext(i)' = JobContext(i) /\ RunDir(i)' = RunDir(i) /\ OwnIds(i)' = OwnIds(i)
    BY <1>1, SameDirs DEF vars, OwnIds
  <2>2. TypeOK'
    BY <1>1 DEF vars, IInv, TypeOK, Places
  <2>3. Led' /\ Sent' /\ Made' /\ Filling' /\ Making' /\ Walking' /\ Traced'
    BY <1>1, <2>1 DEF vars, IInv, Led, Placed, Sent, Made, Filling, Making, Walking, Untouched,
       Traced, FreshIn, CleanIn
  <2> QED BY <2>2, <2>3 DEF IInv
<1>2. CASE \E p \in Jobs, b \in Ids : Chain(p, b)
  BY <1>2, ChainStep
<1>3. CASE \E j \in Jobs :
             \/ Start(j) \/ Env(j) \/ Look(j) \/ Copy(j) \/ Walk(j) \/ Abort(j) \/ Record(j) \/ Fill(j)
             \/ Snippet(j) \/ MuKilled(j) \/ Requeue(j) \/ Compute(j) \/ Ends(j)
  BY <1>3, StartStep, EnvStep, LookStep, CopyStep, WalkStep, StopStep, RecordStep, FillStep,
     SnippetStep, ComputeStep
<1>4. CASE (\E f \in Inputs : Edit(f)) \/ Commit
  BY <1>4, OwnerStep
<1> QED BY <1>1, <1>2, <1>3, <1>4 DEF Next

\* The invariant holds in every run.
THEOREM Invariance == Spec => []IInv
<1> QED BY InvInit, InvNext, PTL DEF Spec

-----------------------------------------------------------------------------

\* Two jobs, tasks of one array included, compute in one directory only if mu job env failed
\* one of them or its mu died without a word, and only such a death leaves a job where it was
\* submitted from (prep.go, jobContext and Prep).
THEOREM JobsComputeApart == Spec => []OwnRunDir
<1>1. IInv => OwnRunDir
  <2> SUFFICES ASSUME IInv PROVE OwnRunDir
    OBVIOUS
  <2>1. ASSUME NEW i \in Jobs, NEW j \in Jobs, i # j, pc[i] = "compute", pc[j] = "compute",
               Where(i) = Where(j), i \notin muted, j \notin muted
        PROVE  {i, j} \cap lost # {}
    <3>1. RunDir(i) = RunDir(j)
      BY <2>1 DEF IInv, Sent, Where
    <3> QED BY <2>1, <3>1, SharedIsStray DEF IInv, Placed
  <2>2. \A j \in Jobs : pc[j] = "compute" /\ cwd[j] = Nowhere => j \in muted
    BY DEF IInv, Sent
  <2> QED BY <2>1, <2>2 DEF OwnRunDir
<1> QED BY <1>1, Invariance, PTL

\* The clean record of a run prepared from the case names the commit its inputs were copied
\* from (prep.go, runTOML).
THEOREM CleanRecordsAreTrue == Spec => []CleanRecordIsTrue
<1>1. IInv => CleanRecordIsTrue
  BY DEF IInv, Traced, CleanIn, CleanRecordIsTrue
<1> QED BY <1>1, Invariance, PTL

\* What a step leaves of a directory.
LEMMA Keeps ==
  ASSUME IInv, [Next]_vars, NEW k \in DOMAIN dir \ strays
  PROVE  /\ \A f \in Inputs : dir[k].files[f] = Written => dir'[k].files[f] = Written
         /\ dir[k].toml.st = "whole" => dir'[k].toml = dir[k].toml
<1> DEFINE Kept == /\ \A f \in Inputs : dir[k].files[f] = Written => dir'[k].files[f] = Written
                   /\ dir[k].toml.st = "whole" => dir'[k].toml = dir[k].toml
<1>1. dir'[k] = dir[k] => Kept
  OBVIOUS
<1>2. ASSUME NEW j \in Jobs, Walk(j)
      PROVE  Kept
  <2>1. pc[j] = "walk" /\ RunDir(j) \in DOMAIN dir /\ todo[j] \subseteq Inputs \cup {RunToml}
    BY <1>2, OfJob DEF Walk, IInv, TypeOK
  <2>2. PICK c \in DOMAIN dir : c = RunDir(j)
    BY <2>1
  <2>3. c = k => Untouched(j)
    BY <2>1, <2>2 DEF IInv, Walking
  <2>4. PICK src \in Places : src = JobContext(j).at
    BY Contexts DEF IInv
  <2>5. FilesOf(src) \in [Inputs -> 0 .. Written] /\ TomlOf(src) \in Toml
    BY Sources DEF IInv
  <2>6. CASE UNCHANGED dir
    BY <1>1, <2>6
  <2>7. CASE RunToml \in todo[j] /\ dir' = [dir EXCEPT ![c].toml = TomlOf(src)]
    <3>1. /\ dir'[c].files = dir[c].files /\ \A d \in DOMAIN dir \ {c} : dir'[d] = dir[d]
      BY <2>5, <2>7, TomlMoves DEF IInv
    <3>2. c = k => dir[c].toml.st = "none"
      BY <2>2, <2>3, <2>7 DEF Untouched
    <3> QED BY <3>1, <3>2
  <2>8. ASSUME NEW f \in Inputs, f \in todo[j], f # RunToml,
               dir' = [dir EXCEPT ![c].files[f] = FilesOf(src)[f], ![c].snap[f] = FilesOf(src)[f]]
        PROVE  Kept
    <3> DEFINE v == FilesOf(src)[f]
    <3>1. TypeOK /\ c \in DOMAIN dir /\ v \in 0 .. Written
          /\ dir' = [dir EXCEPT ![c].files[f] = v, ![c].snap[f] = v]
      BY <2>2, <2>5, <2>8 DEF IInv
    <3> HIDE DEF v, Kept
    <3>2. /\ DOMAIN dir' = DOMAIN dir /\ dir' \in [DOMAIN dir' -> Dir]
          /\ dir'[c].toml = dir[c].toml
          /\ dir'[c].files = [dir[c].files EXCEPT ![f] = v]
          /\ dir'[c].snap = [dir[c].snap EXCEPT ![f] = v]
          /\ \A d \in DOMAIN dir \ {c} : dir'[d] = dir[d]
      BY <2>8, <3>1, FileMoves
    <3>3. c = k => dir[c].files[f] # Written
      BY <2>2, <2>3, <2>8 DEF Untouched
    <3>4. dir[c].files \in [Inputs -> 0 .. Written]
      BY <3>1, Dirs
    <3> QED BY <3>2, <3>3, <3>4 DEF Kept
  <2>9. \/ UNCHANGED dir
        \/ RunToml \in todo[j] /\ dir' = [dir EXCEPT ![c].toml = TomlOf(src)]
        \/ \E f \in Inputs : f \in todo[j] /\ f # RunToml
             /\ dir' = [dir EXCEPT ![c].files[f] = FilesOf(src)[f], ![c].snap[f] = FilesOf(src)[f]]
    BY <1>2, <2>1, <2>2, <2>4 DEF Walk
  <2> QED BY <2>6, <2>7, <2>8, <2>9
<1>3. ASSUME NEW j \in Jobs, Copy(j)
      PROVE  Kept
  BY <1>1, <1>3 DEF Copy
<1>4. ASSUME NEW j \in Jobs, Record(j) \/ Fill(j)
      PROVE  Kept
  <2>1. RunDir(j) \in DOMAIN dir /\ RunDir(j) # <<>>
    BY <1>4, OfJob, Contexts DEF Record, Fill, IInv
  <2>2. PICK c \in DOMAIN dir : c = RunDir(j)
    BY <2>1
  <2>3. CASE UNCHANGED dir
    BY <1>1, <2>3
  <2>4. CASE \E t \in {RunTOML(JobContext(j).at, git) : git \in {"answers", "blind", "absent"}}
                       \cup {[dir[c].toml EXCEPT !.st = "torn"]} :
               dir' = [dir EXCEPT ![c].toml = t] /\ (c = k => dir[c].toml.st # "whole")
    <3>1. PICK t : dir' = [dir EXCEPT ![c].toml = t] /\ (c = k => dir[c].toml.st # "whole")
      BY <2>4
    <3>2. dir[c] \in Dir
      BY Dirs DEF IInv
    <3>3. dir'[c].files = dir[c].files /\ \A d \in DOMAIN dir \ {c} : dir'[d] = dir[d]
      BY <3>1, <3>2 DEF IInv, TypeOK, Dir
    <3> QED BY <3>1, <3>3
  <2>5. CASE Record(j) /\ ~ UNCHANGED dir
    <3>1. TomlOf(c) = dir[c].toml /\ dir' = [dir EXCEPT ![c].toml.st = "torn"]
      BY <2>1, <2>2, <2>5 DEF Record, TomlOf
    <3>2. dir[c].toml.st = "none"
      BY <2>2, <2>5, <3>1 DEF Record
    <3>3. dir' = [dir EXCEPT ![c].toml = [dir[c].toml EXCEPT !.st = "torn"]]
      BY <3>1
    <3> QED BY <2>4, <3>2, <3>3
  <2>6. CASE Fill(j)
    <3>1. c = k => dir[c].toml.st = "torn"
      BY <2>2, <2>6 DEF Fill, IInv, Filling
    <3>2. \E git \in {"answers", "blind", "absent"} :
            dir' = [dir EXCEPT ![c].toml = RunTOML(JobContext(j).at, git)]
      BY <2>2, <2>6 DEF Fill
    <3> QED BY <2>4, <3>1, <3>2
  <2> QED BY <1>4, <2>3, <2>5, <2>6
<1>5. ASSUME NEW j \in Jobs, Compute(j)
      PROVE  Kept
  <2>1. CASE UNCHANGED dir
    BY <1>1, <2>1
  <2>2. CASE ~ UNCHANGED dir
    <3> DEFINE c == Where(j)
    <3>1. PICK f \in Inputs : dir' = [dir EXCEPT ![c].files[f] = Written]
      BY <1>5, <2>2 DEF Compute
    <3> HIDE DEF c
    <3>2. CASE c # k
      BY <3>1, <3>2 DEF IInv, TypeOK
    <3>3. CASE c = k
      <4>1. dir[k] \in Dir /\ dir[k].files \in [Inputs -> 0 .. Written]
        BY Dirs DEF IInv
      <4>2. dir'[k].toml = dir[k].toml /\ dir'[k].files = [dir[k].files EXCEPT ![f] = Written]
        BY <3>1, <3>3, <4>1 DEF IInv, TypeOK, Dir
      <4> QED BY <4>1, <4>2
    <3> QED BY <3>2, <3>3
  <2> QED BY <2>1, <2>2
<1>6. CASE UNCHANGED dir
  BY <1>1, <1>6
<1>7. \/ UNCHANGED dir
      \/ \E j \in Jobs : Walk(j) \/ Copy(j) \/ Record(j) \/ Fill(j) \/ Compute(j)
  BY DEF Next, vars, Chain, Start, Env, Look, Abort, Snippet, MuKilled, Requeue, Ends, Edit, Commit
<1>8. CASE \E j \in Jobs : Walk(j) \/ Copy(j) \/ Record(j) \/ Fill(j) \/ Compute(j)
  <2>1. PICK j \in Jobs : Walk(j) \/ Copy(j) \/ Record(j) \/ Fill(j) \/ Compute(j)
    BY <1>8
  <2> QED BY <1>2, <1>3, <1>4, <1>5, <2>1
<1>9. Kept
  BY <1>6, <1>7, <1>8
<1> QED BY <1>9

\* No prep changes what a job has written into a run directory, nor the first whole record
\* there, strays apart (prep.go, Prep).
THEOREM PrepsKeep == Spec => PrepKeeps
<1>1. IInv /\ [Next]_vars =>
        [\A d \in DOMAIN dir \ strays :
           /\ \A f \in Inputs : dir[d].files[f] = Written => dir'[d].files[f] = Written
           /\ dir[d].toml.st = "whole" => dir'[d].toml = dir[d].toml]_vars
  BY Keeps
<1> QED BY <1>1, Invariance, PTL DEF Spec, PrepKeeps

=============================================================================
