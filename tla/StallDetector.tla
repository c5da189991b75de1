---------------------------- MODULE StallDetector ----------------------------
(***************************************************************************)
(* What mu job watch promises of a progress log, without its counters: it  *)
(* says stall when the last StallTicks + 1 numbers it read are one, and    *)
(* resumed when they stop being one.                                       *)
(***************************************************************************)
EXTENDS Naturals, Sequences

CONSTANTS Pcts, StallTicks

VARIABLES
  read,  \* the numbers the watch has read
  said   \* the markers it has written

Quiet(s) ==
  /\ Len(s) > StallTicks
  /\ \A i \in Len(s) - StallTicks .. Len(s) : s[i] = s[Len(s)]

Init == read = <<>> /\ said = <<>>

Read(p) ==
  /\ read' = Append(read, p)
  /\ said' = IF Quiet(read) <=> Quiet(read') THEN said
             ELSE Append(said, IF Quiet(read') THEN "stall" ELSE "resumed")

\* A watch that starts knows nothing of the one before it.
Restart == read' = <<>> /\ said' = <<>>

Next == Restart \/ \E p \in Pcts : Read(p)

Spec == Init /\ [][Next]_<<read, said>>
=============================================================================
