-------------------------------- MODULE Panel --------------------------------
(***************************************************************************)
(* The edit panel under mu config -i (internal/render/editor.go) and its   *)
(* sub-editor of lists and sets (internal/render/collection.go): a tree    *)
(* that folds, a window over it that scrolls, leaves edited in place, and  *)
(* the changes and marks reported on save.                                 *)
(***************************************************************************)
EXTENDS Places, Sequences, FiniteSetsExt, Functions

CONSTANTS
  Rows,     \* the tree flattened: [kind, kids, action]; kind is section, text, enum, list or set
  Open0,    \* what each leaf holds when the panel opens: a sequence of names
  Words,    \* what may be typed into a text leaf or a list's row
  Bad,      \* the one of them no text leaf may hold
  Options,  \* what an enum cycles through, and the universe of a set
  Heights,  \* the terminal's heights
  MaxRows   \* bound on a list's rows

VARIABLES
  value,     \* leaf -> its value
  expanded,  \* the sections that are unfolded
  marked,    \* the sections armed for their action
  cursor, top, height,
  sub,       \* the sub-editor: closed, or its rows, cursor and mode
  toggled,   \* history: what was checked or unchecked in the sub-editor since it opened
  state      \* open, saved or cancelled

vars == <<value, expanded, marked, cursor, top, height, sub, toggled, state>>

R        == DOMAIN Rows
Sections == {i \in R : Rows[i].kind = "section"}
Leaves   == R \ Sections

\* The tree has a row, and a set's members, as its literal is read, are not blank.
PanelAssumption ==
  /\ Rows \in Seq([kind: {"section", "text", "enum", "list", "set"}, kids: Nat, action: BOOLEAN])
  /\ Rows # <<>> /\ Heights \subseteq Int /\ Words \subseteq STRING
  /\ Options \in Seq(STRING \ {""}) /\ DOMAIN Open0 = Leaves
  /\ \A i \in Leaves :
       /\ Rows[i].kind = "list" => Open0[i] \in Seq(STRING)
       /\ Rows[i].kind = "set" => Open0[i] \in Seq(STRING \ {""})

\* A section's rows follow it; a row is shown unless a section it is in is folded.
Under(j)    == j + 1 .. j + Rows[j].kids
Shown(open) == R \ UNION {Under(j) : j \in Sections \ open}

Invalid(i, val) == Rows[i].kind = "text" /\ val[i] = <<Bad>>

-----------------------------------------------------------------------------
(* The window.                                                             *)

Page(h) == IF h - 4 > 1 THEN h - 4 ELSE 1

\* A row with a complaint takes two lines.
Lines(is, val) == Cardinality(is) + Cardinality({i \in is : Invalid(i, val)})

\* windowEnd: the rows from the top-th visible one that fit, at least the first.
Window(t, h, open, val) ==
  LET shown == Shown(open)
      below == {i \in shown : Cardinality({j \in shown : j < i}) >= t}
      first == Min(below)
  IN {i \in below : i = first \/ Lines({j \in below : j <= i}, val) <= Page(h)}

Place(c, open) == Cardinality({i \in Shown(open) : i < c})

\* Mutant: rows are counted, whatever they say.
ClampCounted(t, c, h, open, val) ==
  Max({0} \cup {Min({t, Place(c, open)}), Place(c, open) - Page(h) + 1})

\* clampScroll: the least scroll that keeps the cursor in the window.
Clamp(t, c, h, open, val) ==
  LET at == Place(c, open)
  IN Min({s \in Min({t, at}) .. at : c \in Window(s, h, open, val)})

Then(c, open, val) ==
  /\ cursor' = c /\ expanded' = open /\ value' = val
  /\ top' = Clamp(top, c, height, open, val)

Key == state = "open" /\ sub.kind = "closed" /\ UNCHANGED <<height, state>>

-----------------------------------------------------------------------------

\* up and down, pgup and pgdown: n visible rows on, as far as there are any.
Step(n, dir) ==
  LET to == Max({0, Min({Place(cursor, expanded) + dir * n, Cardinality(Shown(expanded)) - 1})})
  IN CHOOSE i \in Shown(expanded) : Place(i, expanded) = to

Move ==
  /\ Key /\ UNCHANGED <<marked, sub, toggled>>
  /\ \E c \in {Step(n, d) : n \in {1, Page(height)}, d \in {1, -1}}
             \cup {Min(Shown(expanded)), Max(Shown(expanded))} :
       Then(c, expanded, value)

Fold ==
  /\ Key /\ cursor \in Sections /\ UNCHANGED <<marked, sub, toggled>>
  /\ \E open \in {expanded \cup {cursor}, expanded \ {cursor}} : Then(cursor, open, value)

\* ctrl+x.
Mark ==
  /\ Key /\ Rows[cursor].kind = "section" /\ Rows[cursor].action
  /\ marked' = IF cursor \in marked THEN marked \ {cursor} ELSE marked \cup {cursor}
  /\ UNCHANGED <<sub, toggled>> /\ Then(cursor, expanded, value)

\* cycleOption: a value that is not one of the options starts over.
Cycle(v, dir) ==
  LET at == {k \in DOMAIN Options : v = <<Options[k]>>}
  IN IF at = {} THEN <<Options[1]>>
     ELSE <<Options[((Min(at) - 1 + dir + Len(Options)) % Len(Options)) + 1]>>

Edit ==
  /\ Key /\ UNCHANGED <<marked, sub, toggled>>
  /\ \/ /\ Rows[cursor].kind = "text"
        /\ \E w \in Words : Then(cursor, expanded, [value EXCEPT ![cursor] = <<w>>])
     \/ /\ Rows[cursor].kind = "enum"
        /\ \E d \in {1, -1} : Then(cursor, expanded, [value EXCEPT ![cursor] = Cycle(@, d)])

Resize ==
  /\ state = "open"
  /\ \E h \in Heights :
       height' = h /\ top' = Clamp(top, cursor, h, expanded, value)
  /\ UNCHANGED <<value, expanded, marked, cursor, sub, toggled, state>>

-----------------------------------------------------------------------------
(* The sub-editor.  A row is a name and whether it is checked; "" is blank.*)

Closed == [kind |-> "closed", rows |-> <<>>, at |-> 1, editing |-> FALSE]

Row(v, on) == [v |-> v, on |-> on]

\* Mutant: only the universe is offered.
UniverseOnly(v) == [k \in DOMAIN Options |-> Row(Options[k], Options[k] \in Range(v))]

\* The places of the names of v that are not among those seen, each name once.
News(v, seen) == {k \in DOMAIN v : v[k] \notin seen /\ \A h \in 1 .. k - 1 : v[h] # v[k]}

\* newCollEditor, a set: the universe, then what the leaf holds beyond it.
SetRows(v) ==
  LET own  == Kept(Options, News(Options, {}))
      rest == Kept(v, News(v, Range(Options)))
  IN [k \in DOMAIN own |-> Row(own[k], own[k] \in Range(v))] \o [k \in DOMAIN rest |-> Row(rest[k], TRUE)]

ListRows(v) == [k \in DOMAIN v |-> Row(v[k], TRUE)]

OpenSub ==
  /\ Key /\ Rows[cursor].kind \in {"list", "set"}
  /\ LET v == value[cursor] IN
     sub' = [kind |-> Rows[cursor].kind, at |-> 1, editing |-> FALSE,
             rows |-> IF Rows[cursor].kind = "set" THEN SetRows(v) ELSE ListRows(v)]
  /\ toggled' = {}
  /\ UNCHANGED <<value, expanded, marked, cursor, top>>

InSub(kind) == state = "open" /\ sub.kind = kind
               /\ UNCHANGED <<value, expanded, marked, cursor, top, height, state>>

Last == Len(sub.rows)

SubMove ==
  /\ (InSub("set") \/ InSub("list")) /\ ~sub.editing
  /\ \E at \in {sub.at - 1, sub.at + 1} :
       /\ at \in 1 .. IF sub.kind = "set" THEN Last ELSE Last + 1
       /\ sub' = [sub EXCEPT !.at = at]
  /\ UNCHANGED toggled

Toggle ==
  /\ InSub("set") /\ sub.at <= Last
  /\ sub' = [sub EXCEPT !.rows[sub.at].on = ~@]
  /\ toggled' = LET v == sub.rows[sub.at].v IN
                IF v \in toggled THEN toggled \ {v} ELSE toggled \cup {v}

\* "a", or enter on the row past the last.
AddRow ==
  /\ InSub("list") /\ ~sub.editing /\ Last < MaxRows
  /\ sub' = [sub EXCEPT !.rows = Append(@, Row("", TRUE)), !.at = Last + 1, !.editing = TRUE]
  /\ UNCHANGED toggled

\* The cursor stays where it was, on the next row or the one past the last.
DelRow ==
  /\ InSub("list") /\ ~sub.editing /\ sub.at <= Last
  /\ sub' = [sub EXCEPT !.rows = SubSeq(@, 1, sub.at - 1) \o SubSeq(@, sub.at + 1, Last)]
  /\ UNCHANGED toggled

TypeRow ==
  /\ InSub("list")
  /\ \/ ~sub.editing /\ sub.at <= Last /\ sub' = [sub EXCEPT !.editing = TRUE]
     \/ sub.editing /\ sub' = [sub EXCEPT !.editing = FALSE]
     \/ /\ sub.editing
        /\ \E w \in (Words \ {Bad}) \cup {""} : sub' = [sub EXCEPT !.rows[sub.at].v = w]
  /\ UNCHANGED toggled

\* literal: the checked rows that are not blank.
Literal == Kept([k \in DOMAIN sub.rows |-> sub.rows[k].v],
                {k \in DOMAIN sub.rows : sub.rows[k].on /\ sub.rows[k].v # ""})

SubDone ==
  /\ state = "open" /\ sub.kind # "closed"
  /\ sub' = Closed
  /\ Then(cursor, expanded, [value EXCEPT ![cursor] = Literal])
  /\ toggled' = {}
  /\ UNCHANGED <<marked, height, state>>

SubCancel ==
  /\ (InSub("set") \/ InSub("list")) /\ ~sub.editing
  /\ sub' = Closed /\ toggled' = {}

-----------------------------------------------------------------------------

\* Refused while a leaf is invalid: what hides the first is unfolded, and the cursor goes there.
Save ==
  /\ state = "open" /\ sub.kind = "closed"
  /\ LET wrong == {i \in Leaves : Invalid(i, value)} IN
     \/ wrong = {} /\ state' = "saved" /\ UNCHANGED <<value, expanded, cursor, top>>
     \/ /\ wrong # {} /\ state' = state
        /\ LET at == Min(wrong) IN
           Then(at, expanded \cup {j \in Sections : at \in Under(j)}, value)
  /\ UNCHANGED <<marked, height, sub, toggled>>

Esc ==
  /\ state = "open" /\ sub.kind = "closed" /\ state' = "cancelled"
  /\ UNCHANGED <<value, expanded, marked, cursor, top, height, sub, toggled>>

\* An enum without a value opens on its first option.
AtOpen == [i \in Leaves |-> IF Rows[i].kind = "enum" /\ Open0[i] = <<>> THEN <<Options[1]>>
                            ELSE Open0[i]]

Init ==
  /\ value = AtOpen
  /\ expanded = {} /\ marked = {} /\ cursor = 1 /\ top = 0 /\ height \in Heights
  /\ sub = Closed /\ toggled = {} /\ state = "open"

Next ==
  \/ Move \/ Fold \/ Mark \/ Edit \/ Resize
  \/ OpenSub \/ SubMove \/ Toggle \/ AddRow \/ DelRow \/ TypeRow \/ SubDone \/ SubCancel
  \/ Save \/ Esc

Spec == Init /\ [][Next]_vars

-----------------------------------------------------------------------------

\* changes and actions: what the caller is given on save.
Changes == {i \in Leaves : value[i] # AtOpen[i]}

TypeOK ==
  /\ cursor \in R /\ top \in 0 .. Cardinality(R) - 1 /\ expanded \cup marked \subseteq Sections
  /\ sub.at \in 1 .. Last + 1
  /\ sub.editing => sub.at <= Last

\* The cursor's row is on the screen after every key, fold, complaint and resize (editor.go,
\* clampScroll and windowEnd: a complaint takes a line of its own).
CursorOnScreen == cursor \in Window(top, height, expanded, value)

\* Closing a set's sub-editor changes the members that were toggled and no others, a member
\* that has left the universe included (collection.go, newCollEditor: "so a stale name isn't
\* silently dropped"); leaving it without saving changes nothing.
SetChangesAsToggled ==
  [][sub.kind = "set" /\ sub'.kind = "closed" /\ value' # value =>
       Range(value'[cursor]) = (Range(value[cursor]) \ toggled)
                               \cup (toggled \ Range(value[cursor]))]_vars
=============================================================================
