------------------------------ MODULE ScreenParts ------------------------------
(***************************************************************************)
(* The parts of mu that show tables, fill forms and read screens, side by  *)
(* side: the queue picker, the submit form, the fan-out over the fleet,    *)
(* the edit panel and the harness of an interactive allocation.            *)
(***************************************************************************)
EXTENDS Integers, Sequences, FiniteSets

CONSTANTS
  ListOrder, Filters, ListHeights, MaxChanges,         \* the queue picker
  Queues, Gpu, DebugQueue, DebugLike, Listings, Confs, Walls, Counts, Default,
  MaxFormEdits,                                    \* the submit form
  Defs, Fleets, JobIds,                            \* the fan-out
  PanelRows, PanelOpen, Words, Bad, Members, PanelHeights, MaxRows, \* the edit panel
  HarnessRuns, Raggeds, Dirs, Given, MaxOwner      \* the harness

VARIABLES queue, queueChanges, ui, flight, pickMu, meant, gone, killed

Pick == INSTANCE QueuePick WITH
  changes <- queueChanges, mu <- pickMu, Order <- ListOrder, Heights <- ListHeights

VARIABLES sites, qos, ask, listed, cache, form, subOp, listChanges, failed

Form == INSTANCE SubmitForm WITH
  conf <- sites, live <- listed, op <- subOp, changes <- listChanges,
  Literal <- DebugQueue, MaxEdits <- MaxFormEdits

VARIABLES fleet, queues, targets, fanPc, hook, results, done, main

Fan == INSTANCE Collate WITH pc <- fanPc, Ids <- JobIds

VARIABLES value, expanded, marked, cursor, top, height, sub, toggled, state

Panels == INSTANCE Panel WITH
  Rows <- PanelRows, Open0 <- PanelOpen, Options <- Members, Heights <- PanelHeights

VARIABLES Ragged, alive, anchor, pane, screen, runMu, used, did, quiet

Shell == INSTANCE Harness WITH live <- alive, mu <- runMu, Runs <- HarnessRuns

\* What the five need to know of the machine, of the clusters' definitions, of the tree and of
\* the runs.
ASSUME ScreenAssumption ==
  /\ Pick!PickAssumption /\ Form!FormAssumption /\ Fan!DefsAssumption /\ Panels!PanelAssumption
  /\ Shell!HarnessAssumption
=============================================================================
