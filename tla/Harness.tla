-------------------------------- MODULE Harness --------------------------------
(***************************************************************************)
(* mu job harness (internal/cli/jobharness.go, launchHarness in            *)
(* jobtunnel.go): mu processes type commands into one shared tmux pane,    *)
(* each followed by an echo of a fresh tag, and read their output and exit *)
(* code back off the screen, while the owner types in the pane himself,    *)
(* programs read what was typed for the shell, commands hang, and the      *)
(* allocation ends and is opened again.                                    *)
(***************************************************************************)
EXTENDS Places, Sequences

CONSTANTS
  Runs,     \* mu job harness run processes, strings
  Raggeds,  \* the sets of runs whose command leaves a quote open that are tried
  Dirs,     \* directories the shell may be in
  Given,    \* those a --dir names
  MaxOwner  \* bound on the owner's lines and half lines, on C-c and on the ends

VARIABLES
  Ragged,  \* those that do in this behaviour
  live,    \* the tmux session is there
  anchor,  \* the session's anchor file
  pane,    \* the shell in it
  screen,  \* what capture-pane reads: its rows with their history
  mu,      \* the processes
  used,    \* how many of these there have been
  did,     \* history: the directory in which each tag's command printed
  quiet    \* history: the tags typed at a clean prompt whose echo was never scrolled away

\* Processes are told from the owner, directories from none.
HarnessAssumption ==
  /\ "owner" \notin Runs /\ Raggeds \subseteq SUBSET Runs
  /\ Dirs # {} /\ Given \subseteq Dirs /\ {"none", "words"} \cap Dirs = {}

vars == <<Ragged, live, anchor, pane, screen, mu, used, did, quiet>>

None  == "none"
Slashed == "words"  \* a line that begins with a slash, taken for a directory
Tag(r, w) == [who |-> r, what |-> w]
Owner     == Tag("owner", "cmd")
Tags      == [who: Runs, what: {"pwd", "cmd"}]
OpensQuote(t) == t.who \in Ragged /\ t.what = "cmd"

\* now: the commands of the running list that have yet to print; ran: all of them; last: the
\* tag it ends with; open: the ragged command a continuation prompt waits on.
Fresh(d) == [at |-> "prompt", now |-> <<>>, ran |-> <<>>, last |-> Owner, open |-> <<>>,
             typed |-> <<>>, half |-> FALSE, pwd |-> d]

Echo(t, v)    == [k |-> "echo", by |-> t, val |-> v, code |-> <<>>]
Printed(t, d) == [k |-> "out", by |-> t, val |-> d, code |-> <<>>]
Mark(t, ran)  == [k |-> "mark", by |-> t, val |-> None, code |-> ran]

New == [pc |-> "new", dir |-> None, probed |-> FALSE, out |-> <<>>, rc |-> <<>>]

Init ==
  /\ Ragged \in Raggeds
  /\ live = FALSE /\ anchor = None /\ screen = <<>>
  /\ pane = Fresh(CHOOSE d \in Dirs : TRUE)
  /\ mu = [r \in Runs |-> New]
  /\ used = 0
  /\ did = [t \in Tags |-> None] /\ quiet = {}

-----------------------------------------------------------------------------
(* The shell in the pane, external: p with its rows s.                     *)

Is(p, s) == pane' = p /\ screen' = s

\* The shell reads a line: at its prompt a command, inside a quote text, unless it closes it.
Reads(p, t) ==
  LET list == Append(p.open, t) IN
  CASE OpensQuote(t) /\ p.open = <<>> -> [p EXCEPT !.at = "more", !.open = <<t>>]
    [] ~OpensQuote(t) /\ p.open # <<>> -> p
    [] OTHER -> [p EXCEPT !.at = "busy", !.now = list, !.ran = list, !.last = t, !.open = <<>>]

\* A line and Enter reach the pane, which echoes them.  What is typed while a command runs
\* waits; what is typed behind the owner's half line is rejected together with it.
Enter(t, v) ==
  /\ screen' = Append(screen, Echo(t, v))
  /\ pane' = IF pane.at = "busy" \/ pane.typed # <<>> THEN [pane EXCEPT !.typed = Append(@, t)]
             ELSE IF pane.at = "prompt" /\ pane.half THEN [pane EXCEPT !.half = FALSE]
             ELSE Reads(pane, t)

\* From p with rows s, the shell goes on to what was typed ahead.
GoesOn(p, s) ==
  Is(Reads([p EXCEPT !.typed = Tail(@)], Head(p.typed)), Append(s, Echo(Head(p.typed), None)))

\* Inside a quote that was itself typed ahead.
ReadsOn ==
  /\ live /\ pane.at = "more" /\ pane.typed # <<>> /\ GoesOn(pane, screen)
  /\ UNCHANGED <<live, anchor, mu, used, did, quiet>>

\* The running command prints, in the anchor it was given or in the shell's directory; a
\* flood of output leaves nothing older in the history.
Prints ==
  /\ live /\ pane.at = "busy" /\ pane.now # <<>>
  /\ LET t   == Head(pane.now)
         row == Printed(t, IF t.what = "cmd" /\ t # Owner THEN mu[t.who].dir ELSE pane.pwd)
     IN /\ pane' = [pane EXCEPT !.now = Tail(@)]
        /\ \/ screen' = Append(screen, row) /\ UNCHANGED quiet
           \/ screen' = <<row>> /\ quiet' = {}
           \/ t.what = "cmd" /\ UNCHANGED <<screen, quiet>>
        /\ did' = IF t # Owner /\ screen' # screen THEN [did EXCEPT ![t] = row.val] ELSE did
  /\ UNCHANGED <<live, anchor, mu, used>>

\* The list ends with its echo, the owner's with none and perhaps elsewhere.
Finishes ==
  /\ live /\ pane.at = "busy" /\ pane.now = <<>>
  /\ \E d \in (IF pane.last = Owner THEN Dirs ELSE {pane.pwd}) :
       LET p == [pane EXCEPT !.at = "prompt", !.ran = <<>>, !.last = Owner, !.pwd = d]
           s == IF pane.last = Owner THEN screen ELSE Append(screen, Mark(pane.last, pane.ran))
       IN IF pane.typed = <<>> THEN Is(p, s) ELSE GoesOn(p, s)
  /\ UNCHANGED <<live, anchor, mu, used, did, quiet>>

\* The running program reads what was typed for the shell: a prompt, a pager.
Eats ==
  /\ live /\ pane.at = "busy" /\ pane.typed # <<>>
  /\ pane' = [pane EXCEPT !.typed = Tail(@)]
  /\ UNCHANGED <<live, anchor, screen, mu, used, did, quiet>>

\* A line of his that waits stands on the screen without a prompt before it, and may read as
\* an absolute path does.
OwnerTypes ==
  /\ live /\ used < MaxOwner
  /\ used' = used + 1
  /\ \/ ~pane.half /\ Is([pane EXCEPT !.half = TRUE], screen)
     \/ ~pane.half /\ \E v \in {None, Slashed} : (v = Slashed => pane.at = "busy") /\ Enter(Owner, v)
  /\ UNCHANGED <<live, anchor, mu, did, quiet>>

\* mu job harness key C-c, or the owner's: the list dies with its echo, and what was typed
\* ahead with it.
Key ==
  /\ live /\ used < MaxOwner
  /\ used' = used + 1
  /\ Is(Fresh(pane.pwd), screen)
  /\ UNCHANGED <<live, anchor, mu, did, quiet>>

\* The allocation ends and the pane closes; the anchor file stays.
Ends ==
  /\ live /\ used < MaxOwner
  /\ used' = used + 1
  /\ live' = FALSE /\ Is(Fresh(pane.pwd), <<>>) /\ quiet' = {}
  /\ UNCHANGED <<anchor, mu, did>>

-----------------------------------------------------------------------------
(* launchHarness: no session, then the anchor, then tmux.                  *)

\* Two opens at once would both pass the check; tmux refuses the second name, but its
\* anchor stands, as from a --dir of a run.
Open ==
  /\ ~live /\ live' = TRUE
  /\ anchor' \in Given \cup {anchor}
  /\ UNCHANGED <<pane, screen, mu, used, did, quiet>>

-----------------------------------------------------------------------------
(* mu job harness run.                                                     *)

Now(r) == Tag(r, IF mu[r].probed /\ mu[r].dir = None THEN "pwd" ELSE "cmd")
Goes(r, pc) == mu' = [mu EXCEPT ![r].pc = pc]
RunLeaves == UNCHANGED <<live, used, did>>

\* harnessAnchor: --dir, written; else the stored anchor; else the pane is asked.
Anchor(r) ==
  /\ mu[r].pc = "new" /\ live
  /\ \/ \E d \in Given : anchor' = d /\ mu' = [mu EXCEPT ![r].pc = "flush", ![r].dir = d]
     \/ /\ anchor # None /\ UNCHANGED anchor
        /\ mu' = [mu EXCEPT ![r].pc = "flush", ![r].dir = anchor]
     \/ /\ anchor = None /\ UNCHANGED anchor
        /\ mu' = [mu EXCEPT ![r].pc = "flush", ![r].probed = TRUE]
  /\ RunLeaves /\ UNCHANGED <<pane, screen, quiet>>

\* C-u; an error of this send is ignored.
Flush(r) ==
  /\ mu[r].pc = "flush" /\ Goes(r, "send")
  /\ Is([pane EXCEPT !.half = FALSE], screen)
  /\ RunLeaves /\ UNCHANGED <<anchor, quiet>>

Send(r) ==
  /\ mu[r].pc = "send"
  /\ IF live
       THEN /\ Enter(Now(r), None) /\ Goes(r, "wait")
            /\ quiet' = IF pane.at = "prompt" /\ ~pane.half THEN quiet \cup {Now(r)} ELSE quiet
       ELSE Goes(r, "failed") /\ UNCHANGED <<pane, screen, quiet>>
  /\ RunLeaves /\ UNCHANGED anchor

\* Mutant: one tag for all.
MarkedAny(t) == {i \in DOMAIN screen : screen[i].k = "mark"}

Marked(t) == {i \in DOMAIN screen : screen[i].k = "mark" /\ screen[i].by = t}

\* The rows that show the typed line, and those from the first of them to row n.
Echoed(t)     == {i \in DOMAIN screen : screen[i].k = "echo" /\ screen[i].by = t}
Between(t, n) == {i \in DOMAIN screen : Least(Echoed(t)) < i /\ i < n}

\* Mutant: to the end of the screen.
SliceToEnd(t) == IF Echoed(t) = {} THEN <<>> ELSE Kept(screen, Between(t, Len(screen) + 1))

\* harnessSlice: up to the first row with the tag's exit code.
Slice(t) == IF Echoed(t) = {} THEN <<>> ELSE Kept(screen, Between(t, Least(Marked(t))))

\* harnessPanePwd takes the last line whatever it is, and refuses one without a slash first.
PwdOf(out) == IF out = <<>> THEN None ELSE out[Len(out)].val

Poll(r) ==
  /\ mu[r].pc = "wait" /\ Marked(Now(r)) # {}
  /\ LET out == Slice(Now(r))
         rc  == screen[Least(Marked(Now(r)))].code
     IN IF Now(r).what = "cmd"
          THEN /\ mu' = [mu EXCEPT ![r].pc = "done", ![r].out = out, ![r].rc = rc]
               /\ UNCHANGED anchor
        ELSE IF PwdOf(out) = None THEN Goes(r, "failed") /\ UNCHANGED anchor
        ELSE /\ anchor' = PwdOf(out)
             /\ mu' = [mu EXCEPT ![r].pc = "flush", ![r].dir = PwdOf(out)]
  /\ RunLeaves /\ UNCHANGED <<pane, screen, quiet>>

Timeout(r) ==
  /\ mu[r].pc = "wait" /\ Marked(Now(r)) = {}
  /\ Goes(r, "failed")
  /\ RunLeaves /\ UNCHANGED <<anchor, pane, screen, quiet>>

Next ==
  \/ ReadsOn \/ Prints \/ Finishes \/ Eats \/ OwnerTypes \/ Key \/ Ends \/ Open
  \/ \E r \in Runs : Anchor(r) \/ Flush(r) \/ Send(r) \/ Poll(r) \/ Timeout(r)

Spec == Init /\ [][Next /\ UNCHANGED Ragged]_vars

-----------------------------------------------------------------------------

TypeOK ==
  /\ live \in BOOLEAN /\ anchor \in Dirs \cup {None, Slashed}
  /\ pane.at \in {"prompt", "busy", "more"} /\ (pane.at = "more" <=> pane.open # <<>>)
  /\ \A r \in Runs : /\ mu[r].pc \in {"new", "flush", "send", "wait", "done", "failed"}
                     /\ mu[r].pc = "done" => mu[r].dir \in Dirs \cup {Slashed} /\ mu[r].rc # <<>>
  /\ ~live => screen = <<>>
  /\ quiet \subseteq Tags

\* The exit code a run passes through is its own command's, whoever else drives the pane,
\* hangs in it or has timed out before; or of the list that a command with an open quote
\* and this one made together (jobharness.go: "Send a command to the pane, wait, print its
\* output, and pass through its exit code").
RcIsOwn ==
  \A r \in Runs : mu[r].pc = "done" =>
    \/ mu[r].rc = <<Tag(r, "cmd")>>
    \/ r \in Ragged /\ \E o \in Ragged \ {r} : mu[r].rc = <<Tag(o, "cmd"), Tag(r, "cmd")>>

Outputs(rows) == {i \in DOMAIN rows : rows[i].k = "out"}

\* Of a command typed at a clean prompt, run prints all of its output and no other
\* command's, whatever lines it prints besides that others typed ahead meanwhile; and a run
\* that pins the session to a directory does so to the one the shell was in when it answered,
\* though older commands print, the owner changes directory and the question was typed ahead.
SliceIsOwn ==
  \A r \in Runs : LET t == Tag(r, "cmd") IN
    /\ mu[r].pc = "done" /\ t \in quiet =>
         IF did[t] = None
           THEN Outputs(mu[r].out) = {}
           ELSE \E i \in DOMAIN mu[r].out :
                  Outputs(mu[r].out) = {i} /\ mu[r].out[i] = Printed(t, did[t])
    /\ mu[r].probed /\ mu[r].dir \in Dirs => mu[r].dir = did[Tag(r, "pwd")]
=============================================================================
