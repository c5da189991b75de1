------------------------------- MODULE AllocView -------------------------------
(***************************************************************************)
(* What mu shows of an interactive allocation (internal/cli/allocview.go): *)
(* one pty carries the login noise, the scheduler's narration and then the *)
(* shell, in chunks that end anywhere.  A line is two halves, the second   *)
(* with its newline.                                                       *)
(***************************************************************************)
EXTENDS Naturals, Sequences, SequencesExt, FiniteSetsExt

CONSTANTS
  MaxLines  \* bound on the lines of the stream

VARIABLES
  stream,  \* the lines to come: their kinds; never changes
  pos,     \* halves that have arrived
  buf, held, phase, said,  \* the view's fields
  spin,    \* the queued spinner turns
  house,   \* the house lines mu has printed
  out,     \* the halves passed through
  ended

vars == <<stream, pos, buf, held, phase, said, spin, house, out, ended>>

\* A line of the scheduler; of the shell, or of the login before it; one that begins as the
\* scheduler's could; one the noise filter knows.
Tags  == {"queued", "granted", "configuring", "ready", "error", "other"}
Kinds == Tags \cup {"text", "alike", "noise"}

Half(n) == [line |-> (n + 1) \div 2, end |-> n % 2 = 0]
KindOf(h) == stream[h.line]

Init ==
  /\ stream \in UNION {[1 .. n -> Kinds] : n \in 1 .. MaxLines}
  /\ pos = 0 /\ buf = <<>> /\ held = <<>> /\ phase = "hold" /\ said = FALSE
  /\ spin = FALSE /\ house = <<>> /\ out = <<>> /\ ended = FALSE

View == [buf |-> buf, held |-> held, phase |-> phase, said |-> said, spin |-> spin,
         house |-> house, out |-> out]

\* salloc: queued starts the spinner, once; granted says nothing; an error is printed over
\* the turning spinner, whatever else is said stops it first.
Salloc(v, tag) ==
  CASE tag = "queued"  -> IF v.said THEN v ELSE [v EXCEPT !.said = TRUE, !.spin = TRUE]
    [] tag = "granted" -> v
    [] tag = "error"   -> [v EXCEPT !.house = Append(@, tag)]
    [] OTHER -> [v EXCEPT !.spin = FALSE, !.house = Append(@, tag)]

\* A whole line.  What is left of one whose first half was passed on is text, whatever it
\* began as.
Kind(hs) == IF Len(hs) = 2 THEN KindOf(hs[1]) ELSE "text"

Line(v, hs) ==
  IF Kind(hs) \in Tags
    THEN Salloc([v EXCEPT !.phase = "alloc", !.held = <<>>], Kind(hs))
  ELSE IF v.phase = "hold" THEN [v EXCEPT !.held = @ \o hs]
  ELSE IF Kind(hs) = "noise" THEN [v EXCEPT !.phase = "pass", !.spin = FALSE]
  ELSE [v EXCEPT !.phase = "pass", !.spin = FALSE, !.out = @ \o hs]

MaybeSalloc(b) == KindOf(b[1]) \in Tags \cup {"alike"} /\ ~b[1].end

\* The lines a chunk completes, then the partial line, which must not wait for a newline
\* once it cannot be the scheduler's; the spinner is left as it is.
Arrive(v, h) ==
  LET b == Append(v.buf, h) IN
  IF h.end THEN Line([v EXCEPT !.buf = <<>>], b) ELSE [v EXCEPT !.buf = b]

Release(v) ==
  IF v.buf # <<>> /\ v.phase # "hold" /\ ~MaybeSalloc(v.buf)
    THEN [v EXCEPT !.phase = "pass", !.out = @ \o v.buf, !.buf = <<>>]
    ELSE v

Become(v) ==
  /\ buf' = v.buf /\ held' = v.held /\ phase' = v.phase /\ said' = v.said
  /\ spin' = v.spin /\ house' = v.house /\ out' = v.out

Write ==
  /\ ~ended
  /\ \E n \in 1 .. 2 * Len(stream) - pos :
       /\ Become(Release(FoldLeft(Arrive, View, [i \in 1 .. n |-> Half(pos + i)])))
       /\ pos' = pos + n
  /\ UNCHANGED <<stream, ended>>

\* Mutant: what is held goes with the session.
FlushForgets ==
  /\ ~ended /\ ended' = TRUE
  /\ spin' = FALSE /\ out' = out \o buf
  /\ buf' = <<>> /\ held' = <<>>
  /\ UNCHANGED <<stream, pos, phase, said, house>>

\* flush: the session is over, wherever the stream stands.
Flush ==
  /\ ~ended /\ ended' = TRUE
  /\ spin' = FALSE
  /\ out' = out \o (IF phase = "hold" THEN held ELSE buf)
  /\ buf' = <<>> /\ held' = <<>>
  /\ UNCHANGED <<stream, pos, phase, said, house>>

Next == Write \/ Flush

Spec == Init /\ [][Next]_vars

-----------------------------------------------------------------------------

TypeOK ==
  /\ pos \in 0 .. 2 * Len(stream) /\ phase \in {"hold", "alloc", "pass"}
  /\ Len(buf) <= 1 /\ (held # <<>> => phase = "hold")
  /\ spin => said

Arrived(S(_)) == SelectSeq([n \in 1 .. pos |-> Half(n)], S)
Whole(h) == 2 * h.line <= pos
FirstTag == Min({n \in DOMAIN stream : stream[n] \in Tags} \cup {MaxLines + 1})

\* The first half of a noise line that came alone is passed on.
Payload(h) == h.line > FirstTag /\ KindOf(h) \in {"text", "alike"}

\* Once the scheduler has spoken, every line of the shell comes through once and in order,
\* cut wherever the chunks were cut; no line of the scheduler's narration does raw, unless
\* the session ended in the middle of it, and no login chatter; a session that ends before
\* still shows every whole line it was sent, in order (allocview.go: "Silence is the one
\* thing this must never produce"), whatever it does with a last line without a newline.
EveryLineOnce ==
  /\ SelectSeq(out \o buf, Payload) = Arrived(Payload) \/ (ended /\ phase = "hold")
  /\ phase # "hold" => \A i \in DOMAIN out :
       /\ out[i].line > FirstTag
       /\ KindOf(out[i]) \notin Tags \/ (ended /\ out[i] = Half(pos))
  /\ ended /\ phase = "hold" =>
       SelectSeq(out, Whole) = Arrived(Whole)
=============================================================================
