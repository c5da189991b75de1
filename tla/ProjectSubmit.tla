---------------------------- MODULE ProjectSubmit ----------------------------
(***************************************************************************)
(* mu project submit and mu project clone (internal/cli/project.go,        *)
(* projectclone.go, internal/project/project.go): a case is stamped with   *)
(* the laptop's commit, brought into $WORKDIR staging, by rsync or through *)
(* the node's clone, and submitted; a job that starts takes the inputs and *)
(* the stamp it finds there.  Versions of the case are numbers, 0 none.    *)
(***************************************************************************)
EXTENDS Naturals, FiniteSets

CONSTANTS
  Node,      \* the node submitted to
  Marks,     \* what .mu-node markers the case's directory and its root may carry
  MaxMoves,  \* bound on the edits, commits and checkouts of the two owners
  MaxSubmits \* bound on the submits

VARIABLES
  laptop,   \* the committed and the working version, and the versions in the history
  clone,    \* the node's clone: what its branch and its tree are at, whether it is checked
            \* out, and the versions of its untracked files
  stage,    \* the staged case: the versions its files are from, those of them the last staging
            \* left or brought along beside the case's, the stamp, and whether it is in doubt
  marks,    \* the markers, the case's directory first
  op,       \* the submit under way
  queued,   \* jobs submitted that have not started
  runs,     \* what each started job recorded and ran
  moves, submits

vars == <<laptop, clone, stage, marks, op, queued, runs, moves, submits>>

NoStamp == [commit |-> 0, dirty |-> TRUE]
Idle    == [phase |-> "idle", clean |-> FALSE, keep |-> FALSE, stamp |-> NoStamp, at |-> 0,
            doubt |-> FALSE]

\* Affinity: the nearest marker; an empty one is an error.
Affinity(m) == IF m[1] # "" THEN m[1] ELSE m[2]
Locked(m)   == Affinity(m) \notin {"", Node}

\* Mutant: any commit makes a clean stamp.
StampClean(l, told) == [commit |-> l.head, dirty |-> l.head = 0]

\* NewStamp: without a commit, or with uncommitted edits, the record is dirty; a git status
\* that fails tells of none.
Stamp(l, told) == [commit |-> l.head, dirty |-> l.head = 0 \/ (told /\ l.tree # l.head)]

-----------------------------------------------------------------------------
(* The owners, on the laptop and on the node.                              *)

Move == moves < MaxMoves /\ moves' = moves + 1

EditCase ==
  /\ Move
  /\ laptop' = [laptop EXCEPT !.tree = moves']
  /\ UNCHANGED <<clone, stage, marks, op, queued, runs, submits>>

CommitCase ==
  /\ laptop.tree # laptop.head /\ Move
  /\ laptop' = [laptop EXCEPT !.head = laptop.tree, !.past = @ \cup {laptop.tree}]
  /\ UNCHANGED <<clone, stage, marks, op, queued, runs, submits>>

EditClone ==
  /\ clone.ready /\ Move
  /\ \/ clone' = [clone EXCEPT !.tree = moves']
     \/ clone' = [clone EXCEPT !.untracked = @ \cup {moves'}]
  /\ UNCHANGED <<laptop, stage, marks, op, queued, runs, submits>>

CommitClone ==
  /\ clone.ready /\ clone.on /\ clone.tree # clone.head /\ Move
  /\ clone' = [clone EXCEPT !.head = clone.tree]
  /\ UNCHANGED <<laptop, stage, marks, op, queued, runs, submits>>

\* Another branch is checked out on the node.
Checkout ==
  /\ clone.ready /\ clone.on /\ clone.tree = clone.head /\ Move
  /\ clone' = [clone EXCEPT !.on = FALSE, !.tree = moves']
  /\ UNCHANGED <<laptop, stage, marks, op, queued, runs, submits>>

-----------------------------------------------------------------------------
(* git, on the node: a push goes into a clean checkout of the branch, past *)
(* one of another branch, and where there is nothing to send it succeeds   *)
(* without a look at the checkout.                                         *)

Fast(c) == c.head \in laptop.past \cup {0}

\* updateInstead, which untracked files do not stop.
Receive(c, new) ==
  CASE c.head = new -> {c}
    [] c.head # new /\ (~Fast(c) \/ (c.on /\ c.tree # c.head)) -> {}
    [] OTHER -> {[c EXCEPT !.head = new, !.tree = IF c.on THEN new ELSE @]}

\* What a push leaves as it is: the tree of another branch, and a dirty one nothing is sent to.
LeftAsIs(c) == ~c.on \/ (c.head = laptop.head /\ c.tree # c.head)

NoClone == [ready |-> FALSE, head |-> 0, tree |-> 0, on |-> TRUE, untracked |-> {}]

\* projectClone: an existing repository keeps what it has; the push may be refused.
ProjectClone ==
  /\ op.phase = "idle" /\ laptop.head # 0
  /\ \/ ~clone.ready /\ clone' = [clone EXCEPT !.ready = TRUE]   \* the push failed
     \/ clone' \in Receive([clone EXCEPT !.ready = TRUE], laptop.head)
  /\ clone' # clone
  /\ UNCHANGED <<laptop, stage, marks, op, queued, runs, moves, submits>>

-----------------------------------------------------------------------------
(* projectSubmit.                                                          *)

Begin(clean, force, keep, told) ==
  /\ op.phase = "idle" /\ submits < MaxSubmits
  /\ submits' = submits + 1
  /\ Affinity(marks) # "bad" /\ (Locked(marks) => force)
  /\ LET stamp == Stamp(laptop, told)
     IN /\ clean => ~stamp.dirty
        /\ op' = [phase |-> "confirm", clean |-> clean, keep |-> keep, stamp |-> stamp,
                  at |-> moves, doubt |-> stamp # Stamp(laptop, TRUE)]
  /\ UNCHANGED <<laptop, clone, stage, marks, queued, runs, moves>>

\* Declined, no ticket, or a leg that fails: what has been done stays.
Stop ==
  /\ op.phase # "idle" /\ op' = Idle
  /\ UNCHANGED <<laptop, clone, stage, marks, queued, runs, moves, submits>>

\* The stage becomes the case of one version, what is brought along beside it and, with
\* --keep-extra, what it had.
Staged(tree, along) ==
  LET extras == along \cup (IF op.keep THEN stage.versions ELSE {})
  IN /\ stage' = [stage EXCEPT !.versions = {tree} \cup extras, !.extras = extras, !.doubt = TRUE]
     /\ op' = [op EXCEPT !.phase = "submit"]

\* A staging that fails half way.
Mixed(tree, along) ==
  /\ stage' = [stage EXCEPT !.versions = @ \cup along \cup {tree}, !.doubt = TRUE]
  /\ op' = Idle

\* Iterate: the working tree by rsync.
Rsync ==
  /\ op.phase = "confirm" /\ ~op.clean
  /\ Staged(laptop.tree, {}) \/ Mixed(laptop.tree, {})
  /\ UNCHANGED <<laptop, clone, marks, queued, runs, moves, submits>>

\* Clean: the node's branch is fetched and must be an ancestor, then the branch is pushed.
Push ==
  /\ op.phase = "confirm" /\ op.clean
  /\ clone.head \in laptop.past
  /\ clone' \in Receive(clone, laptop.head)
  /\ op' = [op EXCEPT !.phase = "copy", !.doubt = @ \/ LeftAsIs(clone)]
  /\ UNCHANGED <<laptop, stage, marks, queued, runs, moves, submits>>

\* The copy on the node, from the clone's tree as it is.
Copy ==
  /\ op.phase = "copy"
  /\ Staged(clone.tree, clone.untracked) \/ Mixed(clone.tree, clone.untracked)
  /\ UNCHANGED <<laptop, clone, marks, queued, runs, moves, submits>>

\* One remote line writes the stamp and submits; the submit may be refused.
Submit ==
  /\ op.phase = "submit"
  /\ stage' = [stage EXCEPT !.stamp = op.stamp, !.doubt = op.doubt \/ op.at # moves]
  /\ \E ok \in BOOLEAN : queued' = IF ok THEN queued + 1 ELSE queued
  /\ op' = Idle
  /\ UNCHANGED <<laptop, clone, marks, runs, moves, submits>>

\* mu job prep on the node: the inputs are copied and the stamp read.
JobStarts ==
  /\ queued > 0 /\ queued' = queued - 1
  /\ runs' = runs \cup {stage}
  /\ UNCHANGED <<laptop, clone, stage, marks, op, moves, submits>>

Init ==
  /\ laptop = [head |-> 0, tree |-> 0, past |-> {}]
  /\ clone = NoClone
  /\ stage = [versions |-> {}, extras |-> {}, stamp |-> NoStamp, doubt |-> FALSE]
  /\ marks \in Marks
  /\ op = Idle /\ queued = 0 /\ runs = {} /\ moves = 0 /\ submits = 0

Next ==
  \/ EditCase \/ CommitCase \/ EditClone \/ CommitClone \/ Checkout
  \/ ProjectClone
  \/ \E clean, force, keep, told \in BOOLEAN : Begin(clean, force, keep, told)
  \/ Stop \/ Rsync \/ Push \/ Copy \/ Submit \/ JobStarts

Spec == Init /\ [][Next]_vars

-----------------------------------------------------------------------------

TypeOK ==
  /\ laptop.past \cup {laptop.tree, clone.head, clone.tree} \cup clone.untracked \subseteq 0 .. MaxMoves
  /\ stage.versions \cup stage.extras \subseteq 0 .. MaxMoves
  /\ op.phase \in {"idle", "confirm", "copy", "submit"}
  /\ queued + Cardinality(runs) <= MaxSubmits

\* A job recorded with a clean commit ran that commit's files, and beside them only what
\* --keep-extra left in the stage and untracked files of the node's clone, whichever way and
\* however often the case was staged before the job started (project.go, Stamp; prep.go,
\* runTOML).  In doubt are the submits under which an owner moved on, whose git status failed,
\* or whose push left the clone's tree as it is, and the jobs that start between a later
\* submit's files and its stamp.
RecordedCommitIsRun ==
  \A r \in runs : ~r.doubt /\ ~r.stamp.dirty =>
    /\ r.stamp.commit \in r.versions
    /\ r.versions \subseteq {r.stamp.commit} \cup r.extras
=============================================================================
