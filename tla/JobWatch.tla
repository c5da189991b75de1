------------------------------- MODULE JobWatch -------------------------------
(***************************************************************************)
(* mu job watch, the sidecar of a job: it runs the model's progress hook   *)
(* every tick and appends what it learns to the run directory's            *)
(* .mu/progress, over stops, failed writes and requeues                    *)
(* (internal/job/watch.go, internal/hooks/hooks.go).                       *)
(***************************************************************************)
EXTENDS Naturals, Sequences, SequencesExt

CONSTANTS
  Pcts,        \* values of the pct key
  StallTicks,
  MaxLines     \* bound on the log

VARIABLES
  trees,   \* the checkouts a hook may be found in: the run dir's own, its counterpart's
  pc,      \* the watch: "off", "tick", "judge"
  count,   \* its counters
  log,     \* .mu/progress
  from,    \* history: the lines that were there when this watch started
  numbers, \* history: the numbers it has judged
  markers  \* history: the markers it has written

vars == <<trees, pc, count, log, from, numbers, markers>>

NoPct == 100      \* a failure, no pct key, or no number under it
Snapshot(p) == [event |-> "", pct |-> p]
Event(e)    == [event |-> e, pct |-> NoPct]
Fresh == [last |-> NoPct, have |-> FALSE, unchanged |-> 0, stalled |-> FALSE]

-----------------------------------------------------------------------------
(* hooks.go.                                                               *)

\* Where the run lies decides the model; each base may be a checkout, have the model's hooks
\* directory, and in it an executable progress.
Tree == {"none", "checkout", "hooks", "progress"}

\* The first base with a hooks directory is the one asked, whether or not it has this hook.
Dir(ts) == IF ts[1] \in {"hooks", "progress"} THEN 1
           ELSE IF ts[2] \in {"hooks", "progress"} THEN 2 ELSE 0

Find(ts) == Dir(ts) # 0 /\ ts[Dir(ts)] = "progress"

\* What running a script can come to: its exit (0, 2 or another), in time or not, its
\* output one flat object with a number under pct, or not.
Runs == [exit: {0, 1, 2}, late: BOOLEAN, out: Pcts \cup {NoPct}]

\* A timeout and a failure are not parsed, a warning is.
Exec(x) == IF x.late \/ x.exit = 1 THEN NoPct ELSE x.out

-----------------------------------------------------------------------------
(* watch.go.                                                               *)

Init ==
  /\ trees \in [{1, 2} -> Tree]
  /\ pc = "off" /\ count = Fresh /\ log = <<>> /\ from = 0
  /\ numbers = <<>> /\ markers = <<>>

\* A watch knows nothing of the one before it.
Anew == count' = Fresh /\ from' = Len(log) /\ numbers' = <<>> /\ markers' = <<>>

\* Off by configuration, or no hook: a silent end.
Start ==
  /\ pc = "off"
  /\ Find(trees)
  /\ pc' = "tick" /\ Anew
  /\ UNCHANGED <<trees, log>>

\* The owner's checkouts move between two starts.
Checkout == pc = "off" /\ \E t \in Tree, i \in {1, 2} : trees' = [trees EXCEPT ![i] = t]
            /\ UNCHANGED <<pc, count, log, from, numbers, markers>>

Dies == pc' = "off" /\ Anew

\* One write per line.
Tick ==
  /\ pc = "tick" /\ Len(log) < MaxLines
  /\ \E x \in Runs : log' = Append(log, Snapshot(Exec(x)))
  /\ pc' = "judge"
  /\ UNCHANGED <<trees, count, from, numbers, markers>>

\* pct against the last one, and the marker that follows from it.
Unmoved(p) == count.have /\ p = count.last
Marker(p) ==
  IF Unmoved(p) THEN IF count.unchanged + 1 >= StallTicks /\ ~count.stalled THEN "stall" ELSE ""
  ELSE IF count.stalled THEN "resumed" ELSE ""

\* Mutant: the run length is not reset by movement.
CountedOn(p) ==
  IF Unmoved(p)
    THEN [count EXCEPT !.unchanged = @ + 1, !.stalled = @ \/ count.unchanged + 1 >= StallTicks]
    ELSE [count EXCEPT !.last = p, !.have = TRUE, !.stalled = FALSE]

Counted(p) ==
  IF Unmoved(p)
    THEN [count EXCEPT !.unchanged = @ + 1, !.stalled = @ \/ count.unchanged + 1 >= StallTicks]
    ELSE [last |-> p, have |-> TRUE, unchanged |-> 0, stalled |-> FALSE]

Judge ==
  /\ pc = "judge"
  /\ pc' = "tick"
  /\ LET p == Last(log).pct
         m == Marker(p)
     IN \/ /\ p \notin Pcts
           /\ UNCHANGED <<count, log, numbers, markers>>
        \/ /\ p \in Pcts
           /\ count' = Counted(p) /\ numbers' = Append(numbers, p)
           /\ IF m = "" THEN UNCHANGED <<log, markers>>
              ELSE log' = Append(log, Event(m)) /\ markers' = Append(markers, m)
  /\ UNCHANGED <<trees, from>>

\* A write that fails ends the watch, so does the preamble's trap, so does a requeue's kill:
\* at any point, the marker may be missing.
Stop ==
  /\ pc # "off"
  /\ Dies
  /\ UNCHANGED <<trees, log>>

Next == Start \/ Checkout \/ Tick \/ Judge \/ Stop

Spec == Init /\ [][Next]_vars

-----------------------------------------------------------------------------

IsPct(l) == l.event = "" /\ l.pct \in Pcts
Mine == SubSeq(log, from + 1, Len(log))
Judged == IF pc = "judge" THEN Front(Mine) ELSE Mine

TypeOK ==
  /\ trees \in [{1, 2} -> Tree] /\ pc \in {"off", "tick", "judge"}
  /\ count \in [last: Pcts \cup {NoPct}, have: BOOLEAN, unchanged: 0 .. MaxLines, stalled: BOOLEAN]
  /\ log \in Seq([event: {"", "stall", "resumed"}, pct: Pcts \cup {NoPct}])
  /\ from \in 0 .. Len(log)
  \* The histories are the log, read by what wrote each line.
  /\ LET s == SelectSeq(Judged, IsPct) IN numbers = [i \in DOMAIN s |-> s[i].pct]
  /\ LET s == SelectSeq(Mine, LAMBDA l : l.event # "") IN markers = [i \in DOMAIN s |-> s[i].event]

Stalls == INSTANCE StallDetector WITH read <- numbers, said <- markers

\* A watch says stall after StallTicks unchanged numbers in a row and not before, once, and
\* resumed when they move, whatever failed, absent or odd readings lie between; a stop at
\* any point only cuts the log short (watch.go: "how many consecutive unchanged-pct ticks
\* flag a stall", "a failing hook neither extends nor resets a run").
StallsAreEarned == Stalls!Spec
=============================================================================
