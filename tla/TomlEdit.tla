------------------------------- MODULE TomlEdit -------------------------------
(***************************************************************************)
(* mu config -i: the panel's edits of config.toml, carried out line by     *)
(* line on the text (internal/tomledit/tomledit.go, buildTree,             *)
(* applyChanges and decommissionNode in internal/cli/config.go), against   *)
(* what the file says when it is read as TOML.                             *)
(***************************************************************************)
EXTENDS Naturals, Sequences, SequencesExt, FiniteSets, FiniteSetsExt

CONSTANTS
  Files,    \* the lines of the config.toml an owner may start from
  Edits,    \* what the owner may type: [at, key, v], at the last name of a leaf's identity
  MaxSaves  \* bound on the saves

VARIABLES
  file,   \* config.toml: its lines
  bak,    \* config.toml.bak
  asked,  \* what the last save was asked for: the leaves typed and the node retired
  saves

vars == <<file, bak, asked, saves>>

\* A line is a header, an assignment, one with nothing behind its =, which is not TOML, one
\* that is commented out, other text, or blank; a value is a sequence of names.
Head1(h)     == [k |-> "head", n |-> h, v |-> <<>>]
Assign(n, v) == [k |-> "set", n |-> n, v |-> v]
Bare(n)      == [k |-> "bare", n |-> n, v |-> <<>>]
Blank        == [k |-> "blank", n |-> "", v |-> <<>>]
Live         == {"set", "bare"}

Root == ""

\* Parse: the tables, each with its first line and the line after its last; the root is 1.
Parse(lines) ==
  LET heads == SelectSeq([i \in DOMAIN lines |-> i], LAMBDA i : lines[i].k = "head")
      starts == <<1>> \o heads
  IN [lines |-> lines,
      tables |-> [i \in DOMAIN starts |->
        [header |-> IF i = 1 THEN Root ELSE lines[starts[i]].n, start |-> starts[i],
         end |-> IF i = Len(starts) THEN Len(lines) + 1 ELSE starts[i + 1]]]]

LinesOf(d, i, key, ks) ==
  {j \in d.tables[i].start .. d.tables[i].end - 1 : d.lines[j].k \in ks /\ d.lines[j].n = key}

Tables(d, path) == {i \in DOMAIN d.tables : d.tables[i].header = path}

Value(d, i, key) ==
  LET live == LinesOf(d, i, key, Live) IN IF live = {} THEN <<>> ELSE d.lines[Min(live)].v

NameOf(d, i) == IF Value(d, i, "name") = <<>> THEN "" ELSE Value(d, i, "name")[1]

\* The nearest cluster above a node block.
Owner(d, i) ==
  LET above == {j \in Tables(d, "cluster") : j < i}
  IN IF d.tables[i].header = "cluster.node" /\ above # {} THEN Max(above) ELSE 0

NodeBlocks(d, c) == {i \in DOMAIN d.tables : Owner(d, i) = c}

\* insert: after the table's last line that is not blank; every span below moves down one, the
\* root's own too when the line goes in front of it.
Insert(d, i, line) ==
  LET t    == d.tables[i]
      last == Max({t.start} \cup {j \in t.start + 1 .. t.end - 1 : d.lines[j].k # "blank"})
      at   == IF i = 1 /\ last = 1 /\ d.lines[1].k = "blank" THEN 0 ELSE last
      Down(n) == IF n > at THEN n + 1 ELSE n
  IN [lines  |-> InsertAt(d.lines, at + 1, line),
      tables |-> [j \in DOMAIN d.tables |-> [d.tables[j] EXCEPT !.start = Down(@), !.end = Down(@)]]]

\* Set: the live line, else the placeholder, else a new line.
Set(d, i, line) ==
  LET live == LinesOf(d, i, line.n, Live)
      note == LinesOf(d, i, line.n, {"note"})
      at   == Min(IF live # {} THEN live ELSE note)
  IN IF live \cup note = {} THEN Insert(d, i, line) ELSE [d EXCEPT !.lines[at] = line]

\* InsertTable: behind the owner's node blocks, before the blank lines there.
InsertTable(d, c, name) ==
  LET end == Max({d.tables[i].end : i \in NodeBlocks(d, c) \cup {c}})
      at  == Max({j \in 1 .. end - 1 : d.lines[j].k # "blank"})
  IN Parse(SubSeq(d.lines, 1, at)
           \o <<Blank, Head1("cluster.node"), Assign("name", <<name>>)>>
           \o SubSeq(d.lines, at + 1, Len(d.lines)))

DeleteTable(d, i) ==
  LET t   == d.tables[i]
      cut == SubSeq(d.lines, 1, t.start - 1) \o SubSeq(d.lines, t.end, Len(d.lines))
      two == t.start > 1 /\ t.start <= Len(cut) /\ cut[t.start - 1] = Blank /\ cut[t.start] = Blank
  IN Parse(IF two THEN SubSeq(cut, 1, t.start - 1) \o SubSeq(cut, t.start + 1, Len(cut)) ELSE cut)

-----------------------------------------------------------------------------
(* The panel.  A leaf is an identity, which names a table, and a key; its  *)
(* target is the table's index, or none for a node without a block.        *)

Id(d, i) ==
  CASE d.tables[i].header = "cluster" -> <<"cluster", NameOf(d, i)>>
    [] d.tables[i].header = "cluster.node" -> <<"node", NameOf(d, Owner(d, i)), NameOf(d, i)>>
    [] OTHER -> <<d.tables[i].header>>

Unconfigured(d, c) == Range(Value(d, c, "nodes")) \ {NameOf(d, i) : i \in NodeBlocks(d, c)}

Leaf(id, key, table) == [id |-> id, key |-> key, table |-> table]

RootKeys    == {"hpc_user", "fleet"}
ClusterKeys == {"account", "cores_per_node", "nodes"}
NodeKeys    == {"account", "cores_per_node"}
Quoted      == {"hpc_user", "account"}

\* buildTree.
Leaves(d) ==
  LET clusters == Tables(d, "cluster") IN
  {Leaf(<<Root>>, k, 1) : k \in RootKeys}
  \cup {Leaf(Id(d, c), k, c) : c \in clusters, k \in ClusterKeys}
  \cup {Leaf(Id(d, i), k, i) : i \in UNION {NodeBlocks(d, c) : c \in clusters}, k \in NodeKeys}
  \cup UNION {{Leaf(<<"node", NameOf(d, c), n>>, k, 0) : n \in Unconfigured(d, c), k \in NodeKeys}
              : c \in clusters}

\* What a leaf shows: a node's key is its cluster's unless it has its own.
Shown(d, leaf) ==
  LET own == leaf.table # 0 /\ LinesOf(d, leaf.table, leaf.key, Live) # {}
      c   == CHOOSE i \in Tables(d, "cluster") : NameOf(d, i) = leaf.id[2]
  IN IF own THEN Value(d, leaf.table, leaf.key)
     ELSE IF leaf.id[1] = "node" THEN Value(d, c, leaf.key) ELSE <<>>

Changes(d) ==
  {[leaf |-> p[1], v |-> p[2].v] :
     p \in {q \in Leaves(d) \X Edits : /\ q[2].key = q[1].key /\ q[2].at = q[1].id[Len(q[1].id)]
                                     /\ q[2].v # Shown(d, q[1])}}

\* rawValue: quotes go around a string, also an empty one, and around nothing else.
RawLine(ch) ==
  IF ch.v = <<>> /\ ch.leaf.key \notin Quoted THEN Bare(ch.leaf.key) ELSE Assign(ch.leaf.key, ch.v)

Write(d, ch) == Set(d, ch.leaf.table, RawLine(ch))

\* The first edit of a node without a block creates it, under its cluster by name; the next
\* one finds it.
Create(d, ch) ==
  LET c    == CHOOSE i \in Tables(d, "cluster") : NameOf(d, i) = ch.leaf.id[2]
      mine == {i \in NodeBlocks(d, c) : NameOf(d, i) = ch.leaf.id[3]}
      new  == IF mine = {} THEN InsertTable(d, c, ch.leaf.id[3]) ELSE d
  IN Set(new, IF mine = {} THEN Max(NodeBlocks(new, c)) ELSE Max(mine), RawLine(ch))

\* Mutant: in the order they were typed, though a new block renumbers the tables.
ApplyInOrder(d, chs) ==
  FoldLeft(LAMBDA e, ch : IF ch.leaf.table = 0 THEN Create(e, ch) ELSE Write(e, ch), d, chs)

\* applyChanges: the tables that are there first, while their indices hold.
ApplyChanges(d, chs) ==
  FoldLeft(Create, FoldLeft(Write, d, SelectSeq(chs, LAMBDA ch : ch.leaf.table # 0)),
           SelectSeq(chs, LAMBDA ch : ch.leaf.table = 0))

\* decommissionNode: the first cluster that lists the node.
Decommission(d, n) ==
  LET lists == {c \in Tables(d, "cluster") : n \in Range(Value(d, c, "nodes"))}
      c     == Min(lists)
      named == {i \in NodeBlocks(d, c) : NameOf(d, i) = n}
      less  == IF named = {} THEN d ELSE DeleteTable(d, Min(named))
      left  == Set(less, c, Assign("nodes", SelectSeq(Value(less, c, "nodes"), LAMBDA m : m # n)))
  IN IF lists = {} THEN d
     ELSE Set(left, c, Assign("decommissioned", Append(Value(left, c, "decommissioned"), n)))

\* One pass of the panel over the file as it is read: up to two leaves typed in some order,
\* perhaps a node retired, then written over the file, the backup first.
Panel ==
  /\ saves < MaxSaves
  /\ LET d == Parse(file) IN
     \E a, b \in Changes(d) :
     \E retired \in {""} \cup UNION {Range(Value(d, c, "nodes")) : c \in Tables(d, "cluster")} :
       LET chs == IF a.leaf = b.leaf THEN <<a>> ELSE <<a, b>>
           new == ApplyChanges(d, chs)
       IN /\ file' = IF retired = "" THEN new.lines ELSE Decommission(new, retired).lines
          /\ asked' = [changes |-> chs, retired |-> retired]
          /\ file' # file
  /\ bak' = file
  /\ saves' = saves + 1

\* The owner takes the backup back.
Undo == file # bak /\ file' = bak /\ UNCHANGED <<bak, asked, saves>>

Init ==
  /\ file \in Files
  /\ bak = file
  /\ asked = [changes |-> <<>>, retired |-> ""]
  /\ saves = 0

Next == Panel \/ Undo

Spec == Init /\ [][Next]_vars

-----------------------------------------------------------------------------

\* What a text says: each key of each table by the table's identity; and the lines on which a
\* reader of TOML fails.
Says(lines) ==
  LET d == Parse(lines)
  IN UNION {{[id |-> Id(d, i), key |-> lines[j].n, v |-> lines[j].v] :
               j \in {l \in d.tables[i].start .. d.tables[i].end - 1 : lines[l].k \in Live}}
            : i \in DOMAIN d.tables}

Broken(lines) == {l \in Range(lines) : l.k = "bare"}

\* The same edits on what the file says: a key takes its value, a node that is written to is
\* in its table by name, a retired node's table goes and its name changes lists.
Put(m, id, key, v) ==
  {s \in m : s.id # id \/ s.key # key} \cup {[id |-> id, key |-> key, v |-> v]}

Typed(m, ch) ==
  Put(IF ch.leaf.table = 0 THEN Put(m, ch.leaf.id, "name", <<ch.leaf.id[3]>>) ELSE m,
      ch.leaf.id, ch.leaf.key, ch.v)

Listed(m, id, key) == UNION {Range(s.v) : s \in {t \in m : t.id = id /\ t.key = key}}

Retire(m, n) ==
  {s \in m : s.id[1] # "node" \/ s.id[3] # n \/ n \notin Listed(m, <<"cluster", s.id[2]>>, "nodes")}

Asked(m, a) == Retire(FoldLeft(Typed, m, a.changes), a.retired)

\* The decommission alone rewrites these two.
IsList(s) == s.key \in {"nodes", "decommissioned"}

\* No table is doubled or renamed by an edit, and no key is set twice in one.
TypeOK ==
  /\ \A s, t \in Says(file) : s.id = t.id /\ s.key = t.key => s = t
  /\ LET d == Parse(file) IN \A i, j \in DOMAIN d.tables : Id(d, i) = Id(d, j) => i = j
  /\ saves \in 0 .. MaxSaves

\* A root key that is new to a file whose first line is a header has nowhere to go.
NoRoot(a) ==
  file[1].k = "head" /\ \E i \in DOMAIN a.changes : a.changes[i].leaf.id = <<Root>>

\* The keys without quotes that were emptied.
Emptied(a) == {Bare(ch.leaf.key) : ch \in {c \in Range(a.changes) : RawLine(c).k = "bare"}}

\* A save says what was typed and nothing else, whatever lines the new keys and tables
\* push down and whichever order the leaves were typed in (applyChanges and the text surgery
\* of tomledit.go), and a retired node leaves one list for the other, its table gone.  No save
\* makes the file unreadable but one that empties a list, a map or a number.
SaveSaysWhatWasAsked ==
  [][saves' > saves /\ ~NoRoot(asked') =>
       LET want == Asked(Says(file), asked')
           now  == Says(file')
       IN
       /\ {s \in now : ~IsList(s)} = {s \in want : ~IsList(s)}
       /\ \A s \in want : s.key = "nodes" =>
            Listed(now, s.id, "nodes") = Range(s.v) \ {asked'.retired}
       /\ \A s \in now : s.key = "decommissioned" =>
            Range(s.v) \ Listed(want, s.id, "decommissioned")
              = Listed(want, s.id, "nodes") \cap {asked'.retired}
       /\ Broken(file') \subseteq Broken(file) \cup Emptied(asked')]_vars
=============================================================================
