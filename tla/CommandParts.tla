----------------------------- MODULE CommandParts -----------------------------
(***************************************************************************)
(* Single commands of mu, side by side: the sidecar of a job (job watch),  *)
(* setup sync and project submit.                                          *)
(***************************************************************************)
EXTENDS Integers, Sequences, FiniteSets

CONSTANTS
  Pcts, StallTicks, MaxLogLines,                   \* the sidecar
  MaxSyncEdits, MaxWork, MaxSyncs,                 \* the sync of configurations
  Node, Marks, MaxMoves, MaxSubmits                \* project submits

VARIABLES trees, watchPc, count, log, from, numbers, markers

Watch == INSTANCE JobWatch WITH pc <- watchPc, MaxLines <- MaxLogLines

VARIABLES confs, confBak, repo, syncOp, edits, work, syncs

Config == INSTANCE ConfigSync WITH
  conf <- confs, bak <- confBak, op <- syncOp, MaxEdits <- MaxSyncEdits

VARIABLES laptop, clone, stage, marks, projectOp, queued, runs, moves, submits

Project == INSTANCE ProjectSubmit WITH op <- projectOp

\* A run of unchanged reads is one read at least (internal/job/watch.go, StallTicks).
ASSUME WatchAssumption == StallTicks \in Nat \ {0}
=============================================================================
