------------------------------ MODULE QueuePick ------------------------------
(***************************************************************************)
(* mstat -i and mdel: the live picker of internal/render/select.go over    *)
(* the queues of several clusters, and the cancel it feeds                 *)
(* (internal/cli/mdel.go), while jobs are submitted, end, and clusters     *)
(* cannot be reached.                                                      *)
(***************************************************************************)
EXTENDS Integers, Sequences, FiniteSets, FiniteSetsExt, Functions

CONSTANTS
  Order,      \* the jobs, [cl, num], as a collation lists them
  Filters,    \* what the filter box may hold: the set of jobs a text matches
  Heights,    \* heights of the terminal
  MaxChanges  \* bound on submits and ends

AllJobs  == Range(Order)
Clusters == {j.cl : j \in AllJobs}

\* A listing is a sequence, a terminal has a number of lines.
PickAssumption == Order \in Seq(AllJobs) /\ Heights \subseteq Int

VARIABLES
  queue,    \* the jobs in the queues
  changes,  \* how often that has changed
  ui,       \* selectModel; squeezed is history: it was last scrolled under the filter box
  flight,   \* fetches under way: the rows each has seen
  mu,       \* the command around the picker
  meant,    \* history: the jobs the owner marked, or named
  gone,     \* history: jobs that ended by themselves
  killed    \* the jobs a cancel reached

vars == <<queue, changes, ui, flight, mu, meant, gone, killed>>

All == "all"

\* Mutant: rows are keyed by the id alone.
RowIDShort(j) == [cl |-> All, num |-> j.num]

\* Rows are keyed by cluster and id: ids may be the same on two clusters.
RowID(j) == j

\* The rows shown, by their places in the listing; the cursor counts them from the top.
Visible(u)  == {i \in DOMAIN Order : Order[i] \in u.rows \cap u.filter /\ u.facet \in {All, Order[i].cl}}
Shown(u)    == Cardinality(Visible(u))
Place(u, i) == Cardinality({h \in Visible(u) : h < i})
At(u)       == {i \in Visible(u) : Place(u, i) = u.cursor}

PageSize(u) ==
  LET p    == u.height - (IF u.filtering THEN 6 ELSE 5)
      n    == Shown(u)
      half == IF n > 0 /\ n < Max({p \div 2, 3}) THEN n ELSE Max({p \div 2, 3})
  IN Max({1, IF half < p /\ p - half - 1 >= 3 THEN half ELSE p})

\* Mutant: the cursor may leave the page at its bottom.
ClampScrollUp(u) == IF u.cursor < u.top THEN [u EXCEPT !.top = u.cursor] ELSE u

ClampScroll(u) ==
  [u EXCEPT !.squeezed = u.filtering,
            !.top = CASE u.cursor < @ -> u.cursor
                      [] u.cursor >= @ + PageSize(u) -> u.cursor - PageSize(u) + 1
                      [] OTHER -> @]

\* Mutant: the cursor stays where it was.
RecomputeStays(u) == [u EXCEPT !.top = 0]

\* recompute: a new filter, facet or list puts the cursor on the first row.
Recompute(u) == [u EXCEPT !.cursor = 0, !.top = 0, !.squeezed = FALSE]

\* applyRows: new rows, the cursor stays with its job if that is still shown.
ApplyRows(u, f) ==
  LET new   == Recompute([u EXCEPT !.rows = f])
      still == At(u) \cap Visible(new)
  IN ClampScroll(IF still = {} THEN new ELSE [new EXCEPT !.cursor = Place(new, CHOOSE i \in still : TRUE)])

\* The picker as it opens over the rows of a listing.
Opened(rows, h) ==
  [rows |-> rows, filter |-> AllJobs, facet |-> All, filtering |-> FALSE, cursor |-> 0, top |-> 0,
   selected |-> {}, overlay |-> "none", height |-> h, squeezed |-> FALSE]

Init ==
  /\ queue \in {s \in SUBSET AllJobs : Cardinality(s) = Cardinality(AllJobs) - 1}
  /\ changes = 0 /\ flight = {}
  /\ \E h \in Heights : ui = Opened(queue, h)
  /\ mu = [pc |-> "pick", matched |-> {}, left |-> {}, failed |-> {}]
  /\ meant = {} /\ gone = {} /\ killed = {}

-----------------------------------------------------------------------------

QueueChanges ==
  /\ changes < MaxChanges /\ changes' = changes + 1
  /\ \E j \in AllJobs :
       IF j \in queue THEN queue' = queue \ {j} /\ gone' = gone \cup {j}
       ELSE j \notin gone \cup killed /\ queue' = queue \cup {j} /\ UNCHANGED gone
  /\ UNCHANGED <<ui, flight, mu, meant, killed>>

\* What a listing answers: the clusters that can be reached.
Snapshots == {{j \in queue : j.cl \in up} : up \in SUBSET Clusters}

Ui(u) == ui' = u
UiLeaves == UNCHANGED <<queue, changes, gone, killed, mu>>
InList   == mu.pc = "pick" /\ ui.overlay = "none" /\ ~ui.filtering
Quiet    == InList /\ UNCHANGED <<flight, meant>> /\ UiLeaves

\* A tick starts a fetch off the loop, unless one is out; its answer lands some time later,
\* and is dropped under the filter box or an overlay.
Tick ==
  /\ InList /\ flight = {}
  /\ \E s \in Snapshots : flight' = {s}
  /\ UNCHANGED <<ui, meant>> /\ UiLeaves

Rows ==
  /\ mu.pc = "pick"
  /\ \E f \in flight :
       /\ flight' = flight \ {f}
       /\ Ui(IF ui.overlay = "none" /\ ~ui.filtering THEN ApplyRows(ui, f) ELSE ui)
  /\ UNCHANGED meant /\ UiLeaves

Resize ==
  /\ mu.pc = "pick"
  /\ \E h \in Heights \ {ui.height} : Ui(ClampScroll([ui EXCEPT !.height = h]))
  /\ UNCHANGED <<flight, meant>> /\ UiLeaves

Move ==
  /\ Quiet
  /\ \E c \in {ui.cursor - 1, ui.cursor + 1} \cap 0 .. Shown(ui) - 1 :
       Ui(ClampScroll([ui EXCEPT !.cursor = c]))

Mark ==
  /\ InList
  /\ \E i \in At(ui) :
       LET j   == Order[i]
           off == RowID(j) \in ui.selected
       IN /\ Ui([ui EXCEPT !.selected = IF off THEN @ \ {RowID(j)} ELSE @ \cup {RowID(j)}])
          /\ meant' = IF off THEN meant \ {j} ELSE meant \cup {j}
  /\ UNCHANGED flight /\ UiLeaves

\* a: every row shown, or none of them.
MarkAll ==
  /\ InList
  /\ LET shown == {Order[i] : i \in Visible(ui)}
         ids   == {RowID(j) : j \in shown}
     IN IF ids \subseteq ui.selected
          THEN Ui([ui EXCEPT !.selected = @ \ ids]) /\ meant' = meant \ shown
          ELSE Ui([ui EXCEPT !.selected = @ \cup ids]) /\ meant' = meant \cup shown
  /\ UNCHANGED flight /\ UiLeaves

Slash == Quiet /\ Ui([ui EXCEPT !.filtering = TRUE])

FilterKey ==
  /\ mu.pc = "pick" /\ ui.filtering /\ ui.overlay = "none"
  /\ \/ Ui([ui EXCEPT !.filtering = FALSE])
     \/ Ui(Recompute([ui EXCEPT !.filtering = FALSE, !.filter = AllJobs]))
     \/ \E f \in Filters : Ui(Recompute([ui EXCEPT !.filter = f]))
  /\ UNCHANGED <<flight, meant>> /\ UiLeaves

\* The clusters as sorted.
Rank == CHOOSE r \in [Clusters -> 1 .. Cardinality(Clusters)] : IsInjective(r)

\* f: all, the clusters that have rows one after another, all again.
Facet ==
  /\ Quiet
  /\ LET vals == {j.cl : j \in ui.rows}
         next == IF ui.facet \in vals THEN {c \in vals : Rank[c] > Rank[ui.facet]} ELSE vals
     IN \E c \in IF next = {} THEN {All} ELSE {c \in next : \A d \in next : Rank[c] <= Rank[d]} :
          Ui(ClampScroll(Recompute([ui EXCEPT !.facet = c])))

\* i: the card is fetched off the loop, keys wait for it; the next one dismisses it.
Inspect == Quiet /\ Visible(ui) # {} /\ Ui([ui EXCEPT !.overlay = "loading"])

Overlay ==
  /\ mu.pc = "pick" /\ ui.overlay # "none"
  /\ Ui([ui EXCEPT !.overlay = IF @ = "loading" THEN "card" ELSE "none"])
  /\ UNCHANGED <<flight, meant>> /\ UiLeaves

-----------------------------------------------------------------------------

MuLeaves == UNCHANGED <<changes, ui, meant, gone>>
Pc(pc)   == mu' = [mu EXCEPT !.pc = pc]

\* Enter takes the marked rows that are listed; none are nothing selected.
Enter ==
  /\ InList
  /\ LET ids == {RowID(j) : j \in ui.rows} \cap ui.selected IN
     mu' = [mu EXCEPT !.pc = IF ids = {} THEN "aborted" ELSE "resolve",
                      !.matched = {j \in AllJobs : RowID(j) \in ids}]
  /\ flight' = {}
  /\ MuLeaves /\ UNCHANGED <<queue, killed>>

Quit ==
  /\ InList /\ Pc("aborted") /\ flight' = {}
  /\ MuLeaves /\ UNCHANGED <<queue, killed>>

\* The picks are looked up again; those of a cluster that does not answer are dropped.
Resolve ==
  /\ mu.pc = "resolve"
  /\ \E s \in Snapshots :
       mu' = [mu EXCEPT !.matched = @ \cap s,
                        !.pc = IF mu.matched \cap s = {} THEN "aborted" ELSE "confirm"]
  /\ MuLeaves /\ UNCHANGED <<queue, killed, flight>>

\* mdel: the jobs of one cluster that the selectors match, without the picker.
Mdel ==
  /\ InList /\ ui.selected = {} /\ flight = {} /\ changes = 0
  /\ \E c \in Clusters, f \in Filters :
       LET named == {j \in queue \cap f : j.cl = c} IN
       /\ mu' = [mu EXCEPT !.matched = named, !.pc = IF named = {} THEN "aborted" ELSE "confirm"]
       /\ meant' = named
  /\ UNCHANGED <<queue, changes, ui, flight, gone, killed>>

ClustersOf(js) == {j.cl : j \in js}

Confirm ==
  /\ mu.pc = "confirm"
  /\ \/ Pc("aborted")
     \/ mu' = [mu EXCEPT !.pc = "cancel", !.left = ClustersOf(mu.matched)]
  /\ MuLeaves /\ UNCHANGED <<queue, killed, flight>>

\* One batched cancel for each cluster; it may fail before or after it took effect, and a
\* cluster that fails does not keep the others, whichever order they come in.
Cancel ==
  /\ mu.pc = "cancel"
  /\ \E c \in mu.left :
       LET hits == {j \in mu.matched \cap queue : j.cl = c}
           hit  == queue' = queue \ hits /\ killed' = killed \cup hits
       IN \/ hit /\ mu' = [mu EXCEPT !.left = @ \ {c}]
          \/ /\ hit \/ UNCHANGED <<queue, killed>>
             /\ mu' = [mu EXCEPT !.left = @ \ {c}, !.failed = @ \cup {c}]
  /\ MuLeaves /\ UNCHANGED flight

Report ==
  /\ mu.pc = "cancel" /\ mu.left = {} /\ Pc("done")
  /\ MuLeaves /\ UNCHANGED <<queue, killed, flight>>

Next ==
  \/ QueueChanges \/ Tick \/ Rows \/ Resize \/ Move \/ Mark \/ MarkAll \/ Slash \/ FilterKey
  \/ Facet \/ Inspect \/ Overlay \/ Enter \/ Quit \/ Resolve \/ Mdel \/ Confirm \/ Cancel
  \/ Report

Spec == Init /\ [][Next]_vars

-----------------------------------------------------------------------------

TypeOK ==
  /\ queue \subseteq AllJobs /\ queue \cap (gone \cup killed) = {}
  /\ ui.rows \subseteq AllJobs /\ ui.facet \in Clusters \cup {All}
  /\ ui.cursor = 0 \/ ui.cursor < Shown(ui)
  /\ mu.pc \in {"pick", "resolve", "confirm", "cancel", "done", "aborted"}
  /\ Cardinality(flight) <= 1

\* Whatever is refreshed, filtered, faceted or resized, the row the next key acts on is on
\* the screen (select.go, clampScroll).  The filter box, which opens without scrolling, may
\* cover it until it closes; and if the terminal was resized under the box, closing it by
\* enter leaves the list as it was scrolled for the other page.
CursorIsDrawn ==
  mu.pc = "pick" /\ ~ui.filtering /\ ~ui.squeezed =>
    ui.top <= ui.cursor /\ ui.cursor < ui.top + PageSize(ui)

\* A job is cancelled only if the owner marked that very job while it was shown, or named
\* it, across refreshes, filters and clusters whose ids collide; and when the command reports,
\* every job it asked about is cancelled, has ended, or is on a cluster it reports as failed
\* (mdel.go: "a failed cluster degrades to its own error line, the rest still cancel").
CancelIsMeant ==
  /\ killed \subseteq meant
  /\ mu.pc = "done" => \A j \in mu.matched : j \in killed \cup gone \/ j.cl \in mu.failed
=============================================================================
