-------------------------- MODULE ProjectSyncProofs ---------------------------
(***************************************************************************)
(* Proofs about ProjectSync, for every set of machines, files and datasets *)
(* and any number of edits: the type invariant, that pushes only add, that *)
(* pulls only renew, that prunes keep to what they listed, and that the    *)
(* manifests of tiers nobody narrows say what is staged.                   *)
(***************************************************************************)
EXTENDS ProjectSync, TLAPS

Listed(h) == mu[h].new \cup mu[h].upd
Pushes    == {"push", "force"}
Pulls     == {"pull", "pullforce"}

\* No version is newer than the last edit.
Past == /\ \A h \in Hosts, p \in Paths : local[h][p] <= time
        /\ \A p \in Paths : remote[p] <= time

\* Undisturbed commands run one at a time.
Sole == ~spoiled => \A h, k \in Hosts : Busy(h) /\ Busy(k) => h = k

\* The scopes of a command: a prune has only simulations/data and its subtrees, a pull only
\* results/; what rsync goes through is of its scope; only a save holds a manifest.
Scoped(h) ==
  /\ At(h, "off") => mu[h] = Off
  /\ At(h, "off") <=> Op(h) = ""
  /\ At(h, "confirm") => mu[h].done = {}
  /\ mu[h].pc \in {"confirm", "next", "record"} => mu[h].scope = {}
  /\ mu[h].pc \in {"rsync", "save"} => mu[h].scope # {}
  /\ mu[h].pc \in {"record", "save"} => Op(h) \notin Pulls
  /\ At(h, "rsync") => mu[h].todo \subseteq mu[h].scope
  /\ {} \notin mu[h].left \cup mu[h].done
  /\ mu[h].scope \notin mu[h].left \cup mu[h].done
  /\ mu[h].left \cap mu[h].done = {}
  /\ Op(h) \in Pulls => /\ mu[h].left \subseteq {Results} /\ mu[h].scope \in {Results, {}}
                        /\ mu[h].done = {} /\ Listed(h) \subseteq Results
  /\ Op(h) \notin Pulls => /\ mu[h].left \subseteq Scopes
                           /\ mu[h].pc \in {"rsync", "save"} => mu[h].scope \in Scopes
  /\ Op(h) = "prune" =>
       /\ \A s \in mu[h].left \cup mu[h].done \cup {mu[h].scope} : s \subseteq Sim
       /\ mu[h].upd = {}

\* Left alone, a prune has listed what it will find, in tiers that are not empty here.
PruneKnows(h) ==
  ~spoiled /\ Op(h) = "prune" =>
    /\ \A s \in mu[h].left : There(s) \ Here(h, s) \subseteq mu[h].new /\ Here(h, s) # {}
    /\ At(h, "rsync") => mu[h].todo \subseteq mu[h].new /\ Here(h, mu[h].scope) # {}

\* A manifest names files of its own scope only.
OwnFiles ==
  /\ \A s \in Scopes, p \in Shared : manifest[s][p] # None => p \in s
  /\ \A h \in Hosts, p \in Shared : At(h, "save") /\ mu[h].mem[p] # None => p \in mu[h].scope

IInv ==
  /\ TypeOK
  /\ Past
  /\ Sole
  /\ \A h \in Hosts : Scoped(h) /\ PruneKnows(h)
  /\ OwnFiles

\* What a command makes of a file it listed, and whether it has done so.
Goal(h, p) == IF Op(h) = "prune" THEN None ELSE local[h][p]
Moving(h, s, p) ==
  \/ s \in mu[h].done
  \/ mu[h].scope = s /\ (At(h, "save") \/ (At(h, "rsync") /\ p \notin mu[h].todo))

\* The books of a command left alone: files it did not list, or has not moved, are as the
\* manifest has them; what it moved and has not recorded is as it meant; what it is about
\* to save is what is staged; and its listing still holds for the files it has not moved.
FileBooks(h, s, p) ==
  /\ p \notin Listed(h) \/ ~Moving(h, s, p) => manifest[s][p] = remote[p]
  /\ p \in Listed(h) /\ Moving(h, s, p) => remote[p] = Goal(h, p)
  /\ p \in Listed(h) /\ Op(h) \in Pushes => local[h][p] # None
  /\ At(h, "save") /\ mu[h].scope = s => mu[h].mem[p] = remote[p]
  /\ s \in mu[h].left \/ (At(h, "rsync") /\ mu[h].scope = s /\ p \in mu[h].todo) =>
       /\ Op(h) \in Pushes /\ local[h][p] # None /\ remote[p] = None => p \in Listed(h)
       /\ Op(h) = "push" /\ p \in Listed(h) => remote[p] = None
       /\ Op(h) = "force" /\ p \notin Listed(h) /\ local[h][p] # None
            => remote[p] = local[h][p]
       /\ Op(h) = "prune" /\ p \in Listed(h) => local[h][p] = None /\ remote[p] # None

Books(h) == ~spoiled /\ Busy(h) => \A s \in Scopes : \A p \in s : FileBooks(h, s, p)

\* With nobody at work, every manifest has exactly what is staged.
Even ==
  ~spoiled /\ (\A h \in Hosts : ~Busy(h)) =>
    \A s \in Scopes : \A p \in s : manifest[s][p] = remote[p]

LInv == IInv /\ Even /\ \A h \in Hosts : Books(h)

-----------------------------------------------------------------------------
(* The type invariant.                                                     *)

LEMMA OffFields ==
  /\ Off.pc = "off" /\ Off.op = "" /\ Off.new = {} /\ Off.upd = {} /\ Off.left = {}
  /\ Off.done = {} /\ Off.scope = {} /\ Off.todo = {} /\ Off.mem = [p \in Shared |-> None]
<1> QED BY DEF Off

LEMMA OffType == Off \in Mu /\ Off.mem \in [Shared -> Version]
<1>1. None \in Version
  BY SyncAssumption DEF None, Version
<1>2. [p \in Shared |-> None] \in [Shared -> Version]
  BY <1>1
<1> QED BY <1>2 DEF Off, Mu

\* The fields of a mu.
LEMMA MuFields ==
  ASSUME TypeOK, NEW h \in Hosts
  PROVE  /\ mu[h] \in Mu
         /\ mu[h].pc \in {"off", "confirm", "next", "rsync", "record", "save"}
         /\ mu[h].op \in {"", "push", "force", "pull", "pullforce", "prune"}
         /\ mu[h].new \subseteq Paths /\ mu[h].upd \subseteq Paths
         /\ mu[h].left \subseteq Scopes \cup {Results} /\ mu[h].done \subseteq Scopes
         /\ mu[h].scope \in Scopes \cup {Results, {}}
         /\ mu[h].todo \subseteq Paths
         /\ mu[h].mem \in [Shared -> Version]
<1> QED BY DEF TypeOK, Mu

LEMMA ScopesArePaths == \A s \in Scopes \cup {Results, {}} : s \subseteq Paths
<1> QED BY SyncAssumption DEF Scopes, Tiers, Paths, Shared

\* What the plan of a command leaves.
Planned(h, op, left) ==
  [Off EXCEPT !.pc = "confirm", !.op = op, !.left = left,
              !.new = UNION {New(h, op, s) : s \in left},
              !.upd = UNION {Upd(h, op, s) : s \in left}]

LEMMA MovesInScope ==
  ASSUME NEW h \in Hosts, NEW op \in Pushes \cup Pulls \cup {"prune"},
         NEW s \in Scopes \cup {Results}
  PROVE  New(h, op, s) \subseteq s /\ Upd(h, op, s) \subseteq s
<1> QED BY DEF New, Upd, Here, There, Differ, Pushes, Pulls

LEMMA PlannedFields ==
  ASSUME NEW h \in Hosts, NEW op \in Pushes \cup Pulls \cup {"prune"},
         NEW left \in SUBSET (Scopes \cup {Results})
  PROVE  LET m == Planned(h, op, left) IN
         /\ m \in Mu
         /\ m.pc = "confirm" /\ m.op = op /\ m.left = left
         /\ m.new = UNION {New(h, op, s) : s \in left}
         /\ m.upd = UNION {Upd(h, op, s) : s \in left}
         /\ m.done = {} /\ m.scope = {} /\ m.todo = {} /\ m.mem = Off.mem
<1>1. \A s \in left : New(h, op, s) \subseteq Paths /\ Upd(h, op, s) \subseteq Paths
  BY MovesInScope, ScopesArePaths
<1>2. /\ UNION {New(h, op, s) : s \in left} \subseteq Paths
      /\ UNION {Upd(h, op, s) : s \in left} \subseteq Paths
  BY <1>1
<1>3. op \in {"", "push", "force", "pull", "pullforce", "prune"}
  BY DEF Pushes, Pulls
<1> QED BY <1>2, <1>3, OffType DEF Planned, Off, Mu

\* The facts about a mu that a step moves from one place to another.
LEMMA Moves1 ==
  ASSUME TypeOK, NEW h \in Hosts, NEW m, mu' = [mu EXCEPT ![h] = m], m \in Mu
  PROVE  /\ mu' \in [Hosts -> Mu] /\ mu'[h] = m
         /\ \A g \in Hosts \ {h} : mu'[g] = mu[g]
<1> QED BY DEF TypeOK

\* What the plan, the confirmation and the refusal do to a mu.
LEMMA PlanMoves ==
  ASSUME TypeOK, NEW h \in Hosts, NEW op \in Pushes \cup Pulls \cup {"prune"},
         NEW sel \in SUBSET (Scopes \cup {Results}), Plan(h, op, sel)
  PROVE  \E left \in SUBSET sel :
           /\ mu' = [mu EXCEPT ![h] = Planned(h, op, left)]
           /\ \A s \in left : Moves(h, op, s) # {} /\ (op = "prune" => Here(h, s) # {})
<1> DEFINE left == {s \in sel : Moves(h, op, s) # {} /\ (op = "prune" => Here(h, s) # {})}
<1>1. mu' = [mu EXCEPT ![h] = Planned(h, op, left)]
  BY DEF Plan, Planned
<1> QED BY <1>1, ZenonT(30)

\* A mu that keeps all but what is named.
Same(h, fields) ==
  /\ "op" \in fields => mu'[h].op = mu[h].op
  /\ "listed" \in fields => mu'[h].new = mu[h].new /\ mu'[h].upd = mu[h].upd
  /\ "left" \in fields => mu'[h].left = mu[h].left
  /\ "done" \in fields => mu'[h].done = mu[h].done
  /\ "scope" \in fields => mu'[h].scope = mu[h].scope
  /\ "todo" \in fields => mu'[h].todo = mu[h].todo
  /\ "mem" \in fields => mu'[h].mem = mu[h].mem

\* The mu of h moves, to a mu, and no other.
OnlyMu(h) == /\ mu' \in [Hosts -> Mu]
             /\ \A g \in Hosts \ {h} : mu'[g] = mu[g]

LEMMA GotoMoves ==
  ASSUME TypeOK, NEW h \in Hosts, NEW pc \in {"next", "record"}, Goto(h, pc)
  PROVE  /\ OnlyMu(h) /\ mu'[h].pc = pc
         /\ Same(h, {"op", "listed", "left", "done", "scope", "todo", "mem"})
<1>1. [mu[h] EXCEPT !.pc = pc] \in Mu
  BY MuFields DEF Mu
<1> QED BY <1>1, MuFields DEF Goto, TypeOK, OnlyMu, Same, Mu

LEMMA ExitMoves ==
  ASSUME TypeOK, NEW h \in Hosts, Exit(h)
  PROVE  OnlyMu(h) /\ mu'[h] = Off
<1> QED BY OffType DEF Exit, TypeOK, OnlyMu

LEMMA BeginMoves ==
  ASSUME TypeOK, NEW h \in Hosts, NEW s \in Scopes \cup {Results}, Begin(h, s)
  PROVE  /\ OnlyMu(h) /\ Same(h, {"op", "listed", "done", "mem"})
         /\ mu'[h].pc = "rsync" /\ mu'[h].scope = s /\ mu'[h].left = mu[h].left \ {s}
         /\ Op(h) \in Pushes => mu'[h].todo = Here(h, s)
         /\ Op(h) = "prune" => mu'[h].todo = There(s) \ Here(h, s)
         /\ Op(h) \notin Pushes \cup {"prune"} => mu'[h].todo = There(s)
<1> DEFINE todo == CASE Op(h) \in {"push", "force"} -> Here(h, s)
                     [] Op(h) = "prune"             -> There(s) \ Here(h, s)
                     [] OTHER                       -> There(s)
           left == mu[h].left \ {s}
           m == [mu[h] EXCEPT !.pc = "rsync", !.scope = s, !.left = left, !.todo = todo]
<1>1. /\ Op(h) \in Pushes => todo = Here(h, s)
      /\ Op(h) = "prune" => todo = There(s) \ Here(h, s)
      /\ Op(h) \notin Pushes \cup {"prune"} => todo = There(s)
  BY DEF Pushes
<1>2. Here(h, s) \subseteq Paths /\ There(s) \subseteq Paths
  BY ScopesArePaths DEF Here, There
<1>3. todo \subseteq Paths /\ left \subseteq Scopes \cup {Results}
  BY <1>1, <1>2, MuFields
<1>4. mu' = [mu EXCEPT ![h].pc = "rsync", ![h].scope = s, ![h].left = left, ![h].todo = todo]
  BY DEF Begin
<1> HIDE DEF todo, left
<1>5. mu' = [mu EXCEPT ![h] = m]
  BY <1>4 DEF TypeOK
<1>6. /\ m \in Mu /\ m.pc = "rsync" /\ m.scope = s /\ m.left = left /\ m.todo = todo
      /\ m.op = mu[h].op /\ m.new = mu[h].new /\ m.upd = mu[h].upd /\ m.done = mu[h].done
      /\ m.mem = mu[h].mem
  BY <1>3, MuFields DEF Mu
<1> HIDE DEF m
<1>7. mu'[h] = m /\ OnlyMu(h)
  BY <1>5, <1>6 DEF TypeOK, OnlyMu
<1> QED BY <1>1, <1>6, <1>7 DEF left, Same

LEMMA SeenMoves ==
  ASSUME TypeOK, NEW h \in Hosts, NEW p \in Paths, mu' = [mu EXCEPT ![h] = Seen(h, p)]
  PROVE  /\ OnlyMu(h) /\ Same(h, {"op", "listed", "left", "done", "scope", "mem"})
         /\ mu'[h].pc = mu[h].pc /\ mu'[h].todo = mu[h].todo \ {p}
<1> DEFINE m == Seen(h, p)
<1>1. /\ m \in Mu /\ m.pc = mu[h].pc /\ m.scope = mu[h].scope /\ m.left = mu[h].left
      /\ m.todo = mu[h].todo \ {p}
      /\ m.op = mu[h].op /\ m.new = mu[h].new /\ m.upd = mu[h].upd /\ m.done = mu[h].done
      /\ m.mem = mu[h].mem
  BY MuFields DEF Mu, Seen
<1> HIDE DEF m
<1>2. mu'[h] = m /\ OnlyMu(h)
  BY <1>1, Moves1 DEF m, OnlyMu
<1> QED BY <1>1, <1>2 DEF Same

LEMMA MovedMoves ==
  ASSUME TypeOK, NEW h \in Hosts, Scoped(h), Moved(h)
  PROVE  /\ OnlyMu(h)
         /\ Op(h) \in Pulls => mu'[h] = Off
         /\ Op(h) \notin Pulls =>
              /\ Same(h, {"op", "listed", "left", "todo", "mem"})
              /\ mu'[h].scope = {} /\ mu'[h].done = mu[h].done \cup {mu[h].scope}
              /\ mu'[h].pc = IF Op(h) = "prune" \/ mu[h].left = {} THEN "record" ELSE "next"
<1> DEFINE done == mu[h].done \cup {mu[h].scope}
           m(pc) == [[mu[h] EXCEPT !.done = done, !.scope = {}] EXCEPT !.pc = pc]
<1>1. CASE Op(h) \in Pulls
  <2>1. mu' = [mu EXCEPT ![h] = Off]
    BY <1>1 DEF Moved, Pulls
  <2> QED BY <1>1, <2>1, Moves1, OffType DEF OnlyMu
<1>2. CASE Op(h) \notin Pulls
  <2> DEFINE pc == IF Op(h) = "prune" \/ mu[h].left = {} THEN "record" ELSE "next"
  <2>1. done \subseteq Scopes
    BY <1>2, MuFields DEF Moved, Scoped, At
  <2>2. mu' = [mu EXCEPT ![h] = m(pc)]
    BY <1>2 DEF Moved, Pulls
  <2> HIDE DEF done
  <2>3. /\ m(pc) \in Mu /\ m(pc).pc = pc /\ m(pc).scope = {} /\ m(pc).done = done
        /\ m(pc).left = mu[h].left /\ m(pc).todo = mu[h].todo
        /\ m(pc).op = mu[h].op /\ m(pc).new = mu[h].new /\ m(pc).upd = mu[h].upd
        /\ m(pc).mem = mu[h].mem
    BY <2>1, MuFields DEF Mu
  <2> HIDE DEF m, pc
  <2>4. mu'[h] = m(pc) /\ OnlyMu(h)
    BY <2>2, <2>3, Moves1 DEF OnlyMu
  <2> QED BY <1>2, <2>3, <2>4 DEF done, pc, Same
<1> QED BY <1>1, <1>2

\* After a scope is recorded: to the next to record, the next to move, or off.
LEMMA OnwardMoves ==
  ASSUME TypeOK, NEW h \in Hosts, NEW m \in Mu, mu' = [mu EXCEPT ![h] = Onward(h, m)]
  PROVE  /\ OnlyMu(h)
         /\ m.done = {} /\ m.left = {} => mu'[h] = Off
         /\ m.done # {} \/ m.left # {} =>
              /\ mu'[h].pc = IF m.done # {} THEN "record" ELSE "next"
              /\ mu'[h].op = m.op /\ mu'[h].new = m.new /\ mu'[h].upd = m.upd
              /\ mu'[h].left = m.left /\ mu'[h].done = m.done /\ mu'[h].scope = m.scope
              /\ mu'[h].todo = m.todo /\ mu'[h].mem = m.mem
<1>1. CASE m.done = {} /\ m.left = {}
  <2>1. Onward(h, m) = Off
    BY <1>1 DEF Onward
  <2> QED BY <1>1, <2>1, Moves1, OffType DEF OnlyMu
<1>2. CASE m.done # {} \/ m.left # {}
  <2> DEFINE pc == IF m.done # {} THEN "record" ELSE "next"
             r == [m EXCEPT !.pc = pc]
  <2>1. Onward(h, m) = r
    BY <1>2 DEF Onward
  <2>2. /\ r \in Mu /\ r.pc = pc /\ r.scope = m.scope /\ r.done = m.done /\ r.left = m.left
        /\ r.todo = m.todo /\ r.op = m.op /\ r.new = m.new /\ r.upd = m.upd /\ r.mem = m.mem
    BY DEF Mu
  <2> HIDE DEF r, pc
  <2>3. mu'[h] = r /\ OnlyMu(h)
    BY <2>1, <2>2, Moves1 DEF OnlyMu
  <2> QED BY <1>2, <2>2, <2>3 DEF pc
<1> QED BY <1>1, <1>2

\* A manifest read and merged is a manifest.
LEMMA MergedType ==
  ASSUME TypeOK, NEW h \in Hosts, NEW s \in Scopes, NEW read \in [Shared -> Version]
  PROVE  /\ Merged(h, s, read) \in [Shared -> Version]
         /\ \A p \in Shared :
              /\ p \in Entries(h, s) => Merged(h, s, read)[p] = local[h][p]
              /\ p \notin Entries(h, s) =>
                   Merged(h, s, read)[p] = IF Op(h) = "prune" /\ p \in mu[h].new THEN None
                                           ELSE read[p]
<1>1. ASSUME NEW p \in Shared PROVE local[h][p] \in Version /\ read[p] \in Version
  BY DEF TypeOK, Paths
<1>2. None \in Version
  BY SyncAssumption DEF None, Version
<1> DEFINE new(p) == CASE p \in Entries(h, s)                  -> local[h][p]
                       [] Op(h) = "prune" /\ p \in mu[h].new   -> None
                       [] OTHER                                -> read[p]
<1>3. ASSUME NEW p \in Shared
      PROVE  /\ p \in Entries(h, s) => new(p) = local[h][p]
             /\ p \notin Entries(h, s) =>
                  new(p) = IF Op(h) = "prune" /\ p \in mu[h].new THEN None ELSE read[p]
             /\ new(p) \in Version
  <2>1. CASE p \in Entries(h, s)
    <3>1. Op(h) # "prune"
      BY <2>1 DEF Entries
    <3> QED BY <1>1, <2>1, <3>1
  <2>2. CASE p \notin Entries(h, s)
    BY <1>1, <1>2, <2>2
  <2> QED BY <2>1, <2>2
<1>4. Merged(h, s, read) = [p \in Shared |-> new(p)]
  BY DEF Merged
<1> HIDE DEF new
<1> QED BY <1>3, <1>4

LEMMA RecordMoves ==
  ASSUME TypeOK, NEW h \in Hosts, NEW s \in Scopes, Record(h, s)
  PROVE  OnlyMu(h) /\ \E read \in [Shared -> Version] :
           /\ read \in {manifest[s], [p \in Shared |-> None]}
           /\ spoiled' = (spoiled \/ read # manifest[s])
           /\ LET done == mu[h].done \ {s}
                  empty == IF Op(h) = "prune" THEN \A p \in Shared : read[p] = None
                                              ELSE Entries(h, s) = {}
              IN /\ empty /\ done = {} /\ mu[h].left = {} => mu'[h] = Off
                 /\ empty /\ (done # {} \/ mu[h].left # {}) =>
                      /\ Same(h, {"op", "listed", "left", "scope", "todo", "mem"})
                      /\ mu'[h].done = done
                      /\ mu'[h].pc = IF done # {} THEN "record" ELSE "next"
                 /\ ~empty =>
                      /\ Same(h, {"op", "listed", "left", "todo"})
                      /\ mu'[h].done = done /\ mu'[h].pc = "save" /\ mu'[h].scope = s
                      /\ mu'[h].mem = Merged(h, s, read)
<1> DEFINE done == mu[h].done \ {s}
           m == [mu[h] EXCEPT !.done = done]
           empty(read) == IF Op(h) = "prune" THEN \A p \in Shared : read[p] = None
                                             ELSE Entries(h, s) = {}
<1>1. PICK read \in {manifest[s], [p \in Shared |-> None]} :
        /\ spoiled' = (spoiled \/ read # manifest[s])
        /\ mu' = [mu EXCEPT ![h] =
             IF empty(read) THEN Onward(h, m)
             ELSE [m EXCEPT !.pc = "save", !.scope = s, !.mem = Merged(h, s, read)]]
  BY DEF Record
<1>2. read \in [Shared -> Version]
  <2>1. None \in Version
    BY SyncAssumption DEF None, Version
  <2>2. manifest[s] \in [Shared -> Version] /\ [p \in Shared |-> None] \in [Shared -> Version]
    BY <2>1 DEF TypeOK
  <2> QED BY <2>2
<1>3. /\ m \in Mu /\ m.pc = mu[h].pc /\ m.scope = mu[h].scope /\ m.done = done
      /\ m.left = mu[h].left /\ m.todo = mu[h].todo /\ m.op = mu[h].op
      /\ m.new = mu[h].new /\ m.upd = mu[h].upd /\ m.mem = mu[h].mem
  BY MuFields DEF Mu
<1> HIDE DEF m, done
<1>4. CASE empty(read)
  <2>1. mu' = [mu EXCEPT ![h] = Onward(h, m)]
    BY <1>1, <1>4
  <2>2. /\ OnlyMu(h)
        /\ done = {} /\ mu[h].left = {} => mu'[h] = Off
        /\ done # {} \/ mu[h].left # {} =>
             /\ Same(h, {"op", "listed", "left", "scope", "todo", "mem"})
             /\ mu'[h].done = done
             /\ mu'[h].pc = IF done # {} THEN "record" ELSE "next"
    <3>1. /\ OnlyMu(h)
          /\ m.done = {} /\ m.left = {} => mu'[h] = Off
          /\ m.done # {} \/ m.left # {} =>
               /\ mu'[h].pc = IF m.done # {} THEN "record" ELSE "next"
               /\ mu'[h].op = m.op /\ mu'[h].new = m.new /\ mu'[h].upd = m.upd
               /\ mu'[h].left = m.left /\ mu'[h].done = m.done /\ mu'[h].scope = m.scope
               /\ mu'[h].todo = m.todo /\ mu'[h].mem = m.mem
      BY <1>3, <2>1, OnwardMoves
    <3> QED BY <1>3, <3>1 DEF Same
  <2> HIDE DEF empty
  <2>3. \/ empty(read) = TRUE
    BY <1>4
  <2> QED BY <1>1, <1>2, <1>4, <2>2 DEF empty, done
<1>5. CASE ~empty(read)
  <2> DEFINE r == [m EXCEPT !.pc = "save", !.scope = s, !.mem = Merged(h, s, read)]
  <2>1. mu' = [mu EXCEPT ![h] = r]
    BY <1>1, <1>5
  <2>2. Merged(h, s, read) \in [Shared -> Version]
    BY <1>2, MergedType
  <2>3. /\ r \in Mu /\ r.pc = "save" /\ r.scope = s /\ r.done = done
        /\ r.left = mu[h].left /\ r.todo = mu[h].todo /\ r.op = mu[h].op
        /\ r.new = mu[h].new /\ r.upd = mu[h].upd /\ r.mem = Merged(h, s, read)
    BY <1>3, <2>2 DEF Mu
  <2> HIDE DEF r
  <2>4. mu'[h] = r /\ OnlyMu(h)
    BY <2>1, <2>3, Moves1 DEF OnlyMu
  <2>5. /\ Same(h, {"op", "listed", "left", "todo"})
        /\ mu'[h].done = done /\ mu'[h].pc = "save" /\ mu'[h].scope = s
        /\ mu'[h].mem = Merged(h, s, read)
    BY <2>3, <2>4 DEF Same
  <2> QED BY <1>1, <1>2, <1>5, <2>4, <2>5 DEF done
<1> QED BY <1>4, <1>5

LEMMA SaveMoves ==
  ASSUME TypeOK, NEW h \in Hosts, Save(h)
  PROVE  /\ OnlyMu(h)
         /\ mu[h].done = {} /\ mu[h].left = {} => mu'[h] = Off
         /\ mu[h].done # {} \/ mu[h].left # {} =>
              /\ Same(h, {"op", "listed", "left", "done", "todo"})
              /\ mu'[h].pc = IF mu[h].done # {} THEN "record" ELSE "next"
              /\ mu'[h].scope = {} /\ mu'[h].mem = Off.mem
<1> DEFINE m == [mu[h] EXCEPT !.scope = {}, !.mem = Off.mem]
<1>1. mu' = [mu EXCEPT ![h] = Onward(h, m)]
  BY DEF Save
<1>2. /\ m \in Mu /\ m.pc = mu[h].pc /\ m.scope = {} /\ m.done = mu[h].done
      /\ m.left = mu[h].left /\ m.todo = mu[h].todo /\ m.op = mu[h].op
      /\ m.new = mu[h].new /\ m.upd = mu[h].upd /\ m.mem = Off.mem
  BY MuFields, OffType DEF Mu
<1> HIDE DEF m
<1>3. /\ OnlyMu(h)
      /\ m.done = {} /\ m.left = {} => mu'[h] = Off
      /\ m.done # {} \/ m.left # {} =>
           /\ mu'[h].pc = IF m.done # {} THEN "record" ELSE "next"
           /\ mu'[h].op = m.op /\ mu'[h].new = m.new /\ mu'[h].upd = m.upd
           /\ mu'[h].left = m.left /\ mu'[h].done = m.done /\ mu'[h].scope = m.scope
           /\ mu'[h].todo = m.todo /\ mu'[h].mem = m.mem
  BY <1>1, <1>2, OnwardMoves
<1> QED BY <1>2, <1>3 DEF Same

-----------------------------------------------------------------------------
(* The invariant, step by step.                                            *)

\* A mu that is off.
LEMMA OffScoped ==
  ASSUME NEW h \in Hosts, mu'[h] = Off
  PROVE  /\ Scoped(h)' /\ PruneKnows(h)' /\ ~At(h, "save")' /\ ~Busy(h)' /\ Op(h)' = ""
<1>1. /\ mu'[h].pc = "off" /\ mu'[h].op = "" /\ mu'[h].new = {} /\ mu'[h].upd = {}
      /\ mu'[h].left = {} /\ mu'[h].done = {} /\ mu'[h].scope = {} /\ mu'[h].todo = {}
  BY OffFields
<1> QED BY <1>1 DEF Scoped, PruneKnows, At, Op, Busy, Pulls

LEMMA InvInit == Init => LInv
<1> SUFFICES ASSUME Init PROVE LInv
  OBVIOUS
<1>1. None \in Version /\ None = 0 /\ 0 \in Version
  BY SyncAssumption DEF None, Version
<1>2. TypeOK
  BY <1>1, OffType DEF Init, TypeOK
<1>3. ASSUME NEW h \in Hosts PROVE Scoped(h) /\ PruneKnows(h) /\ ~Busy(h) /\ ~At(h, "save")
  <2>1. mu[h] = Off
    BY DEF Init
  <2>2. /\ mu[h].pc = "off" /\ mu[h].op = "" /\ mu[h].new = {} /\ mu[h].upd = {}
        /\ mu[h].left = {} /\ mu[h].done = {} /\ mu[h].scope = {} /\ mu[h].todo = {}
    BY <2>1, OffFields
  <2> QED BY <2>1, <2>2 DEF Scoped, PruneKnows, At, Op, Busy, Pulls
<1>4. Past /\ OwnFiles /\ Sole
  BY <1>1, <1>3 DEF Init, Past, OwnFiles, Sole
<1>5. Even
  <2>1. \A s \in Scopes : s \subseteq Shared
    BY SyncAssumption DEF Scopes, Tiers, Shared
  <2>2. \A s \in Scopes, p \in Shared : manifest[s][p] = remote[p]
    BY <1>1 DEF Init, Paths
  <2> QED BY <2>1, <2>2 DEF Even
<1> QED BY <1>2, <1>3, <1>4, <1>5 DEF IInv, LInv, Books

\* A step of the command of h keeps the invariant if it keeps to what a command may do: it
\* spoils what it overlaps, moves versions about, and leaves its own mu in order.
LEMMA CommandStep ==
  ASSUME IInv, NEW h \in Hosts, OnlyMu(h), time' = time,
         local' \in [Hosts -> [Paths -> Version]], remote' \in [Paths -> Version],
         manifest' \in [Scopes -> [Shared -> Version]], spoiled' \in BOOLEAN,
         Past', spoiled => spoiled',
         \A g \in Hosts \ {h} : Busy(g) => spoiled',
         Scoped(h)', PruneKnows(h)',
         \A s \in Scopes, p \in Shared : manifest'[s][p] # None => p \in s,
         At(h, "save")' => \A p \in Shared : mu'[h].mem[p] # None => p \in mu'[h].scope
  PROVE  IInv'
<1>1. TypeOK'
  BY DEF IInv, TypeOK, OnlyMu
<1>2. \A g \in Hosts \ {h} : mu'[g] = mu[g] /\ (Busy(g)' <=> Busy(g))
  BY DEF OnlyMu, Busy, At
<1>3. Sole'
  BY <1>2 DEF Sole
<1>4. ASSUME NEW g \in Hosts \ {h} PROVE Scoped(g)' /\ PruneKnows(g)'
  <2>1. Scoped(g)'
    BY <1>2 DEF IInv, Scoped, At, Op, Listed
  <2>2. Op(g)' = "prune" => Busy(g)
    BY <1>2 DEF IInv, Scoped, Op, Busy
  <2> QED BY <2>1, <2>2 DEF PruneKnows
<1>5. OwnFiles'
  BY <1>2 DEF IInv, OwnFiles, At
<1> QED BY <1>1, <1>3, <1>4, <1>5 DEF IInv

\* A command at work that does not overlap another, or is spoiled.
LEMMA Alone ==
  ASSUME IInv, NEW h \in Hosts, Busy(h), spoiled => spoiled'
  PROVE  \A g \in Hosts \ {h} : Busy(g) => spoiled'
<1> QED BY DEF IInv, Sole

LEMMA ScopeOfSelection ==
  ASSUME NEW op \in Pushes \cup Pulls \cup {"prune"}, NEW sel \in SUBSET (Scopes \cup {Results}),
         Selectable(op, sel)
  PROVE  /\ op \in Pulls => sel = {Results}
         /\ op \notin Pulls => sel \subseteq Scopes
         /\ op = "prune" => \A s \in sel : s \subseteq Sim
<1>1. CASE op \in Pulls
  BY <1>1 DEF Selectable, Pulls
<1>2. CASE op \in Pushes
  BY <1>2 DEF Selectable, Pulls, Pushes, Scopes
<1>3. CASE op = "prune"
  BY <1>3, SyncAssumption DEF Selectable, Pulls, Scopes, Tiers
<1> QED BY <1>1, <1>2, <1>3

LEMMA PlanStep ==
  ASSUME IInv, NEW h \in Hosts, NEW op \in Pushes \cup Pulls \cup {"prune"},
         NEW sel \in SUBSET (Scopes \cup {Results}), Plan(h, op, sel)
  PROVE  IInv'
<1>1. TypeOK /\ UNCHANGED <<local, remote, manifest, time>> /\ Selectable(op, sel)
      /\ spoiled' = (spoiled \/ \E g \in Hosts \ {h} : Busy(g))
  BY DEF IInv, Plan
<1>2. PICK left \in SUBSET sel :
        /\ mu' = [mu EXCEPT ![h] = Planned(h, op, left)]
        /\ \A s \in left : Moves(h, op, s) # {} /\ (op = "prune" => Here(h, s) # {})
  BY <1>1, PlanMoves
<1>3. LET m == Planned(h, op, left) IN
      /\ m \in Mu
      /\ m.pc = "confirm" /\ m.op = op /\ m.left = left
      /\ m.new = UNION {New(h, op, s) : s \in left}
      /\ m.upd = UNION {Upd(h, op, s) : s \in left}
      /\ m.done = {} /\ m.scope = {} /\ m.todo = {} /\ m.mem = Off.mem
  BY PlannedFields
<1>4. /\ OnlyMu(h) /\ mu'[h].pc = "confirm" /\ mu'[h].op = op /\ mu'[h].left = left
      /\ mu'[h].new = UNION {New(h, op, s) : s \in left}
      /\ mu'[h].upd = UNION {Upd(h, op, s) : s \in left}
      /\ mu'[h].done = {} /\ mu'[h].scope = {} /\ mu'[h].todo = {}
  BY <1>1, <1>2, <1>3, Moves1 DEF OnlyMu
<1>5. \A s \in left : New(h, op, s) \subseteq s /\ Upd(h, op, s) \subseteq s
  BY MovesInScope
<1>6. {} \notin left
  BY <1>2, <1>5 DEF Moves
<1>7. Scoped(h)'
  <2>1. op \in Pulls => mu'[h].new \cup mu'[h].upd \subseteq Results /\ left \subseteq {Results}
    BY <1>1, <1>4, <1>5, ScopeOfSelection
  <2>2. op = "prune" => mu'[h].upd = {}
    BY <1>4 DEF Upd
  <2>3. op \notin Pulls => left \subseteq Scopes
    BY <1>1, ScopeOfSelection
  <2>4. op = "prune" => \A s \in left : s \subseteq Sim
    BY <1>1, ScopeOfSelection
  <2>5. op # ""
    BY DEF Pushes, Pulls
  <2>6. /\ ~At(h, "off")' /\ Op(h)' = op /\ ~At(h, "rsync")'
        /\ mu'[h].pc \notin {"rsync", "save", "record"}
        /\ Listed(h)' = mu'[h].new \cup mu'[h].upd
    BY <1>4 DEF At, Op, Listed
  <2>7. op \in Pulls => /\ mu'[h].left \subseteq {Results} /\ mu'[h].scope \in {Results, {}}
                        /\ mu'[h].done = {} /\ Listed(h)' \subseteq Results
    BY <1>4, <2>1, <2>6
  <2>8. op \notin Pulls => mu'[h].left \subseteq Scopes
    BY <1>4, <2>3
  <2>9. op = "prune" =>
          /\ \A s \in mu'[h].left \cup mu'[h].done \cup {mu'[h].scope} : s \subseteq Sim
          /\ mu'[h].upd = {}
    BY <1>4, <2>2, <2>4
  <2>10. {} \notin mu'[h].left \cup mu'[h].done /\ mu'[h].scope \notin mu'[h].left \cup mu'[h].done
    BY <1>4, <1>6
  <2> QED BY <1>4, <2>5, <2>6, <2>7, <2>8, <2>9, <2>10 DEF Scoped, At
<1>8. PruneKnows(h)'
  <2> SUFFICES ASSUME op = "prune", NEW s \in left
               PROVE  There(s) \ Here(h, s) \subseteq mu'[h].new /\ Here(h, s) # {}
    BY <1>1, <1>4 DEF PruneKnows, At, Op, There, Here
  <2>1. New(h, op, s) = There(s) \ Here(h, s)
    BY DEF New
  <2> QED BY <1>2, <1>4, <2>1
<1>9. ~At(h, "save")'
  BY <1>4 DEF At
<1>10. /\ spoiled' \in BOOLEAN /\ (spoiled => spoiled')
       /\ \A g \in Hosts \ {h} : Busy(g) => spoiled'
  BY <1>1
<1> QED BY <1>1, <1>4, <1>7, <1>8, <1>9, <1>10, CommandStep DEF IInv, TypeOK, Past, OwnFiles

LEMMA ConfirmStep ==
  ASSUME IInv, NEW h \in Hosts, Confirm(h)
  PROVE  IInv'
<1>1. /\ TypeOK /\ Scoped(h) /\ PruneKnows(h) /\ mu[h].pc = "confirm" /\ Busy(h)
      /\ UNCHANGED <<local, remote, manifest, time, spoiled>>
  BY DEF IInv, Confirm, At, Busy
<1>2. /\ OnlyMu(h) /\ mu'[h].pc = "next"
      /\ Same(h, {"op", "listed", "left", "done", "scope", "todo", "mem"})
  BY <1>1, GotoMoves DEF Confirm
<1>3. Scoped(h)'
  BY <1>1, <1>2 DEF Scoped, Same, At, Op, Listed
<1>4. PruneKnows(h)'
  BY <1>1, <1>2 DEF PruneKnows, Same, At, Op, There, Here
<1>5. ~At(h, "save")'
  BY <1>2 DEF At
<1> QED BY <1>1, <1>2, <1>3, <1>4, <1>5, Alone, CommandStep DEF IInv, TypeOK, Past, OwnFiles

\* A command that is over, at the prompt or by a failure.
LEMMA OverStep ==
  ASSUME IInv, NEW h \in Hosts, Abort(h) \/ Fail(h)
  PROVE  IInv'
<1>1. /\ TypeOK /\ Busy(h) /\ Exit(h) /\ UNCHANGED <<local, remote, manifest, time>>
      /\ spoiled' \in BOOLEAN /\ (spoiled => spoiled')
  BY DEF IInv, Abort, Fail, At, Busy, TypeOK
<1>2. OnlyMu(h) /\ mu'[h] = Off
  BY <1>1, ExitMoves
<1>3. Scoped(h)' /\ PruneKnows(h)' /\ ~At(h, "save")'
  BY <1>2, OffScoped
<1> QED BY <1>1, <1>2, <1>3, Alone, CommandStep DEF IInv, TypeOK, Past, OwnFiles

LEMMA BeginStep ==
  ASSUME IInv, NEW h \in Hosts, NEW s \in Scopes \cup {Results}, Begin(h, s)
  PROVE  IInv'
<1>1. /\ TypeOK /\ Scoped(h) /\ PruneKnows(h) /\ mu[h].pc = "next" /\ Busy(h) /\ s \in mu[h].left
      /\ UNCHANGED <<local, remote, manifest, time, spoiled>>
  BY DEF IInv, Begin, At, Busy
<1>2. /\ OnlyMu(h) /\ Same(h, {"op", "listed", "done", "mem"})
      /\ mu'[h].pc = "rsync" /\ mu'[h].scope = s /\ mu'[h].left = mu[h].left \ {s}
      /\ Op(h) = "prune" => mu'[h].todo = There(s) \ Here(h, s)
      /\ mu'[h].todo \subseteq s
  BY <1>1, BeginMoves DEF Here, There
<1>3. Scoped(h)'
  BY <1>1, <1>2 DEF Scoped, Same, At, Op, Listed
<1>4. PruneKnows(h)'
  BY <1>1, <1>2 DEF PruneKnows, Same, At, Op, There, Here
<1>5. ~At(h, "save")'
  BY <1>2 DEF At
<1> QED BY <1>1, <1>2, <1>3, <1>4, <1>5, Alone, CommandStep DEF IInv, TypeOK, Past, OwnFiles

\* What stays of a mu whose rsync has looked at one more file.
LEMMA SeenScoped ==
  ASSUME IInv, NEW h \in Hosts, NEW p \in Paths, At(h, "rsync"),
         mu' = [mu EXCEPT ![h] = Seen(h, p)]
  PROVE  /\ OnlyMu(h) /\ Busy(h) /\ Scoped(h)' /\ ~At(h, "save")'
         /\ Same(h, {"op", "listed", "left", "done", "scope", "mem"})
         /\ mu'[h].pc = "rsync" /\ mu'[h].todo = mu[h].todo \ {p}
<1>1. /\ OnlyMu(h) /\ Same(h, {"op", "listed", "left", "done", "scope", "mem"})
      /\ mu'[h].pc = "rsync" /\ mu'[h].todo = mu[h].todo \ {p}
  BY SeenMoves DEF IInv, At
<1>2. Scoped(h) /\ mu[h].pc = "rsync"
  BY DEF IInv, At
<1>3. Scoped(h)'
  BY <1>1, <1>2 DEF Scoped, Same, At, Op, Listed
<1> QED BY <1>1, <1>2, <1>3 DEF At, Busy

\* What a transfer writes at the cluster: a version that is here, or that is there.
LEMMA SendWrites ==
  ASSUME TypeOK, NEW h \in Hosts, NEW p \in Paths, Send(h, p)
  PROVE  /\ remote' \in [Paths -> Version]
         /\ remote'[p] = IF Op(h) = "force" \/ remote[p] = None THEN local[h][p] ELSE remote[p]
         /\ \A q \in Paths \ {p} : remote'[q] = remote[q]
<1> QED BY DEF Send, TypeOK

LEMMA SendStep ==
  ASSUME IInv, NEW h \in Hosts, NEW p \in Paths, Send(h, p)
  PROVE  IInv'
<1>1. /\ TypeOK /\ Past /\ At(h, "rsync") /\ Op(h) \in Pushes
      /\ UNCHANGED <<local, manifest, time, spoiled>> /\ mu' = [mu EXCEPT ![h] = Seen(h, p)]
  BY DEF IInv, Send, Pushes
<1>2. /\ OnlyMu(h) /\ Busy(h) /\ Scoped(h)' /\ ~At(h, "save")'
      /\ Same(h, {"op", "listed", "left", "done", "scope", "mem"})
  BY <1>1, SeenScoped
<1>3. Past'
  BY <1>1, SendWrites DEF Past, TypeOK
<1>4. PruneKnows(h)'
  BY <1>1, <1>2 DEF PruneKnows, Same, Op, Pushes
<1> QED BY <1>1, <1>2, <1>3, <1>4, SendWrites, Alone, CommandStep DEF IInv, TypeOK, OwnFiles

\* What a transfer writes here.
LEMMA FetchWrites ==
  ASSUME TypeOK, NEW h \in Hosts, NEW p \in Paths, Fetch(h, p)
  PROVE  /\ local' \in [Hosts -> [Paths -> Version]]
         /\ local'[h][p] = IF Op(h) = "pullforce" \/ local[h][p] < remote[p] THEN remote[p]
                           ELSE local[h][p]
         /\ \A g \in Hosts, q \in Paths : g # h \/ q # p => local'[g][q] = local[g][q]
<1> QED BY DEF Fetch, TypeOK

LEMMA FetchStep ==
  ASSUME IInv, NEW h \in Hosts, NEW p \in Paths, Fetch(h, p)
  PROVE  IInv'
<1>1. /\ TypeOK /\ Past /\ At(h, "rsync") /\ Op(h) \in Pulls
      /\ UNCHANGED <<remote, manifest, time, spoiled>> /\ mu' = [mu EXCEPT ![h] = Seen(h, p)]
  BY DEF IInv, Fetch, Pulls
<1>2. /\ OnlyMu(h) /\ Busy(h) /\ Scoped(h)' /\ ~At(h, "save")'
      /\ Same(h, {"op", "listed", "left", "done", "scope", "mem"})
  BY <1>1, SeenScoped
<1>3. Past'
  BY <1>1, FetchWrites DEF Past, TypeOK
<1>4. PruneKnows(h)'
  BY <1>1, <1>2 DEF PruneKnows, Same, Op, Pulls
<1> QED BY <1>1, <1>2, <1>3, <1>4, FetchWrites, Alone, CommandStep DEF IInv, TypeOK, OwnFiles

LEMMA RemoveStep ==
  ASSUME IInv, NEW h \in Hosts, NEW p \in Paths, Remove(h, p)
  PROVE  IInv'
<1>1. /\ TypeOK /\ Past /\ PruneKnows(h) /\ At(h, "rsync") /\ mu[h].pc = "rsync"
      /\ Op(h) = "prune"
      /\ UNCHANGED <<local, manifest, time, spoiled>> /\ mu' = [mu EXCEPT ![h] = Seen(h, p)]
  BY DEF IInv, Remove, At
<1>2. /\ OnlyMu(h) /\ Busy(h) /\ Scoped(h)' /\ ~At(h, "save")'
      /\ Same(h, {"op", "listed", "left", "done", "scope", "mem"})
      /\ mu'[h].pc = "rsync" /\ mu'[h].todo = mu[h].todo \ {p}
  BY <1>1, SeenScoped
<1>3. /\ remote' \in [Paths -> Version] /\ remote'[p] = None
      /\ \A q \in Paths \ {p} : remote'[q] = remote[q]
  <2>1. None \in Version
    BY SyncAssumption DEF None, Version
  <2> QED BY <2>1 DEF Remove, IInv, TypeOK
<1>4. Past'
  BY <1>1, <1>3, SyncAssumption DEF Past, TypeOK, None, Version
<1>5. PruneKnows(h)'
  <2>1. \A s \in Scopes \cup {Results, {}} :
          /\ There(s)' \subseteq There(s) /\ Here(h, s)' = Here(h, s)
    BY <1>1, <1>3, ScopesArePaths DEF There, Here
  <2>2. /\ mu'[h].left = mu[h].left /\ mu'[h].new = mu[h].new /\ mu'[h].scope = mu[h].scope
        /\ Op(h)' = Op(h)
    BY <1>2 DEF Same, Op
  <2>3. ASSUME ~spoiled, NEW s \in mu[h].left
        PROVE  There(s)' \ Here(h, s)' \subseteq mu[h].new /\ Here(h, s)' # {}
    <3>1. There(s)' \subseteq There(s) /\ Here(h, s)' = Here(h, s)
      BY <1>1, <2>1, MuFields
    <3>2. There(s) \ Here(h, s) \subseteq mu[h].new /\ Here(h, s) # {}
      BY <1>1, <2>3 DEF PruneKnows
    <3> QED BY <3>1, <3>2
  <2>4. ASSUME ~spoiled
        PROVE  mu[h].todo \ {p} \subseteq mu[h].new /\ Here(h, mu[h].scope)' # {}
    <3>1. Here(h, mu[h].scope)' = Here(h, mu[h].scope)
      BY <1>1, <2>2 DEF Here
    <3>2. mu[h].todo \subseteq mu[h].new /\ Here(h, mu[h].scope) # {}
      BY <1>1, <2>4 DEF PruneKnows
    <3> QED BY <3>1, <3>2
  <2> QED BY <1>1, <1>2, <2>2, <2>3, <2>4 DEF PruneKnows, There, Here
<1> QED BY <1>1, <1>2, <1>3, <1>4, <1>5, Alone, CommandStep DEF IInv, TypeOK, OwnFiles

LEMMA MovedStep ==
  ASSUME IInv, NEW h \in Hosts, Moved(h)
  PROVE  IInv'
<1>1. /\ TypeOK /\ Scoped(h) /\ PruneKnows(h) /\ mu[h].pc = "rsync" /\ Busy(h)
      /\ UNCHANGED <<local, remote, manifest, time, spoiled>>
  BY DEF IInv, Moved, At, Busy
<1>2. /\ OnlyMu(h)
      /\ Op(h) \in Pulls => mu'[h] = Off
      /\ Op(h) \notin Pulls =>
           /\ Same(h, {"op", "listed", "left", "todo", "mem"})
           /\ mu'[h].scope = {} /\ mu'[h].done = mu[h].done \cup {mu[h].scope}
           /\ mu'[h].pc = IF Op(h) = "prune" \/ mu[h].left = {} THEN "record" ELSE "next"
  BY <1>1, MovedMoves
<1>3. Scoped(h)' /\ PruneKnows(h)' /\ ~At(h, "save")'
  <2>1. CASE Op(h) \in Pulls
    BY <1>2, <2>1, OffScoped
  <2>2. CASE Op(h) \notin Pulls
    <3>1. mu'[h].pc \in {"record", "next"} /\ Op(h)' = Op(h) /\ Listed(h)' = Listed(h)
      BY <1>2, <2>2 DEF Same, Op, Listed
    <3>2. Scoped(h)'
      BY <1>1, <1>2, <2>2, <3>1, ZenonT(30) DEF Scoped, Same, At
    <3>3. PruneKnows(h)'
      BY <1>1, <1>2, <2>2, <3>1 DEF PruneKnows, Same, At, There, Here
    <3> QED BY <3>1, <3>2, <3>3 DEF At
  <2> QED BY <2>1, <2>2
<1> QED BY <1>1, <1>2, <1>3, Alone, CommandStep DEF IInv, TypeOK, Past, OwnFiles

LEMMA RecordStep ==
  ASSUME IInv, NEW h \in Hosts, NEW s \in Scopes, Record(h, s)
  PROVE  IInv'
<1>1. /\ TypeOK /\ Scoped(h) /\ PruneKnows(h) /\ mu[h].pc = "record" /\ Busy(h)
      /\ s \in mu[h].done /\ OwnFiles
      /\ UNCHANGED <<local, remote, manifest, time>>
  BY DEF IInv, Record, At, Busy
<1> DEFINE done == mu[h].done \ {s}
           Ended   == done = {} /\ mu[h].left = {} /\ mu'[h] = Off
           Skipped == /\ Same(h, {"op", "listed", "left", "scope", "todo", "mem"})
                      /\ mu'[h].done = done
                      /\ mu'[h].pc = IF done # {} THEN "record" ELSE "next"
           Kept(read) == /\ Same(h, {"op", "listed", "left", "todo"})
                         /\ mu'[h].done = done /\ mu'[h].pc = "save" /\ mu'[h].scope = s
                         /\ mu'[h].mem = Merged(h, s, read)
<1>2. OnlyMu(h)
  BY <1>1, RecordMoves
<1>3. PICK read \in [Shared -> Version] :
        /\ read \in {manifest[s], [p \in Shared |-> None]}
        /\ spoiled' = (spoiled \/ read # manifest[s])
        /\ Ended \/ Skipped \/ Kept(read)
  BY <1>1, RecordMoves
<1>4. spoiled' \in BOOLEAN /\ (spoiled => spoiled')
  BY <1>3
<1>5. CASE Ended
  BY <1>1, <1>2, <1>4, <1>5, OffScoped, Alone, CommandStep DEF IInv, TypeOK, Past, OwnFiles
<1>6. CASE Skipped
  <2>1. mu'[h].pc \in {"record", "next"} /\ Op(h)' = Op(h) /\ Listed(h)' = Listed(h)
    BY <1>6 DEF Same, Op, Listed
  <2>2. Scoped(h)'
    BY <1>1, <1>6, <2>1 DEF Scoped, Same, At
  <2>3. PruneKnows(h)'
    BY <1>1, <1>4, <1>6, <2>1 DEF PruneKnows, Same, At, There, Here
  <2>4. ~At(h, "save")'
    BY <2>1 DEF At
  <2> QED BY <1>1, <1>2, <1>4, <2>2, <2>3, <2>4, Alone, CommandStep
          DEF IInv, TypeOK, Past, OwnFiles
<1>7. CASE Kept(read)
  <2>1. mu'[h].pc = "save" /\ Op(h)' = Op(h) /\ Listed(h)' = Listed(h)
    BY <1>7 DEF Same, Op, Listed
  <2>2. Scoped(h)'
    <3>1. /\ mu'[h].left = mu[h].left /\ mu'[h].done = mu[h].done \ {s} /\ mu'[h].scope = s
          /\ mu'[h].upd = mu[h].upd
      BY <1>7 DEF Same
    <3>2. Op(h) \notin Pulls /\ Op(h) # "" /\ s # {} /\ s \notin mu[h].left
      BY <1>1 DEF Scoped, At
    <3>3. Op(h) = "prune" =>
            /\ \A r \in mu'[h].left \cup mu'[h].done \cup {mu'[h].scope} : r \subseteq Sim
            /\ mu'[h].upd = {}
      BY <1>1, <3>1 DEF Scoped
    <3>4. /\ {} \notin mu'[h].left \cup mu'[h].done
          /\ mu'[h].scope \notin mu'[h].left \cup mu'[h].done
          /\ mu'[h].left \cap mu'[h].done = {} /\ mu'[h].left \subseteq Scopes
          /\ mu'[h].scope \in Scopes /\ mu'[h].scope # {}
      BY <1>1, <3>1, <3>2 DEF Scoped
    <3> QED BY <2>1, <3>2, <3>3, <3>4 DEF Scoped, At
  <2>3. PruneKnows(h)'
    BY <1>1, <1>4, <1>7, <2>1 DEF PruneKnows, Same, At, There, Here
  <2>4. \A p \in Shared : mu'[h].mem[p] # None => p \in mu'[h].scope
    <3>1. \A p \in Shared : read[p] # None => p \in s
      BY <1>1, <1>3 DEF OwnFiles
    <3>2. Entries(h, s) \subseteq s
      BY DEF Entries, Here
    <3> QED BY <1>1, <1>7, <3>1, <3>2, MergedType
  <2> QED BY <1>1, <1>2, <1>4, <2>2, <2>3, <2>4, Alone, CommandStep
          DEF IInv, TypeOK, Past, OwnFiles
<1> QED BY <1>3, <1>5, <1>6, <1>7

LEMMA SaveStep ==
  ASSUME IInv, NEW h \in Hosts, Save(h)
  PROVE  IInv'
<1>1. /\ TypeOK /\ Scoped(h) /\ PruneKnows(h) /\ mu[h].pc = "save" /\ At(h, "save") /\ Busy(h)
      /\ OwnFiles /\ UNCHANGED <<local, remote, time>>
  BY DEF IInv, Save, At, Busy
<1>2. /\ OnlyMu(h)
      /\ mu[h].done = {} /\ mu[h].left = {} => mu'[h] = Off
      /\ mu[h].done # {} \/ mu[h].left # {} =>
           /\ Same(h, {"op", "listed", "left", "done", "todo"})
           /\ mu'[h].pc = IF mu[h].done # {} THEN "record" ELSE "next"
           /\ mu'[h].scope = {} /\ mu'[h].mem = Off.mem
  BY <1>1, SaveMoves
<1>3. spoiled' \in BOOLEAN /\ (spoiled => spoiled')
  BY <1>1 DEF Save, TypeOK
<1>4. Scoped(h)' /\ PruneKnows(h)' /\ ~At(h, "save")'
  <2>1. CASE mu[h].done = {} /\ mu[h].left = {}
    BY <1>2, <2>1, OffScoped
  <2>2. CASE mu[h].done # {} \/ mu[h].left # {}
    <3>1. mu'[h].pc \in {"record", "next"} /\ Op(h)' = Op(h) /\ Listed(h)' = Listed(h)
      BY <1>2, <2>2 DEF Same, Op, Listed
    <3>2. Scoped(h)'
      BY <1>1, <1>2, <2>2, <3>1 DEF Scoped, Same, At
    <3>3. PruneKnows(h)'
      BY <1>1, <1>2, <1>3, <2>2, <3>1 DEF PruneKnows, Same, At, There, Here
    <3> QED BY <3>1, <3>2, <3>3 DEF At
  <2> QED BY <2>1, <2>2
<1>5. /\ manifest' \in [Scopes -> [Shared -> Version]]
      /\ \A s \in Scopes, p \in Shared : manifest'[s][p] # None => p \in s
  <2>1. /\ mu[h].scope \in Scopes /\ mu[h].mem \in [Shared -> Version]
        /\ \A p \in Shared : mu[h].mem[p] # None => p \in mu[h].scope
    BY <1>1, MuFields DEF Scoped, OwnFiles
  <2>2. /\ manifest \in [Scopes -> [Shared -> Version]]
        /\ \A s \in Scopes, p \in Shared : manifest[s][p] # None => p \in s
    BY <1>1 DEF TypeOK, OwnFiles
  <2>3. CASE manifest' = [manifest EXCEPT ![mu[h].scope] = mu[h].mem]
    <3>1. /\ manifest'[mu[h].scope] = mu[h].mem
          /\ \A s \in Scopes \ {mu[h].scope} : manifest'[s] = manifest[s]
          /\ manifest' \in [Scopes -> [Shared -> Version]]
      BY <2>1, <2>2, <2>3
    <3> QED BY <2>1, <2>2, <3>1
  <2> QED BY <2>2, <2>3 DEF Save
<1> QED BY <1>1, <1>2, <1>3, <1>4, <1>5, Alone, CommandStep DEF IInv, TypeOK, Past, OwnFiles

\* What an edit, a deletion or a job changes belongs to no command: only what a prune knows of
\* the files can be disturbed.
LEMMA OutsideStep ==
  ASSUME IInv, UNCHANGED <<manifest, mu>>, spoiled' \in BOOLEAN, spoiled => spoiled',
         local' \in [Hosts -> [Paths -> Version]], remote' \in [Paths -> Version],
         time' \in Version, Past', \A h \in Hosts : PruneKnows(h)'
  PROVE  IInv'
<1>1. TypeOK' /\ OwnFiles'
  BY DEF IInv, TypeOK, OwnFiles, At
<1>2. Sole'
  BY DEF IInv, Sole, Busy, At
<1>3. \A h \in Hosts : Scoped(h)'
  BY DEF IInv, Scoped, At, Op, Listed
<1> QED BY <1>1, <1>2, <1>3 DEF IInv

\* A prune whose own machine and the cluster's shared data are left alone.
LEMMA PruneUndisturbed ==
  ASSUME IInv, UNCHANGED mu, spoiled => spoiled', NEW h \in Hosts, ~spoiled' => local'[h] = local[h],
         \A p \in Shared : remote'[p] = remote[p]
  PROVE  PruneKnows(h)'
<1> SUFFICES ASSUME ~spoiled', Op(h) = "prune" PROVE PruneKnows(h)'
  BY DEF PruneKnows, Op
<1>1. /\ Scoped(h) /\ PruneKnows(h) /\ ~spoiled /\ local'[h] = local[h]
  BY DEF IInv
<1>2. \A s \in mu[h].left \cup {mu[h].scope} : s \subseteq Shared
  BY <1>1 DEF Scoped, Shared
<1>3. \A s \in mu[h].left \cup {mu[h].scope} : There(s)' = There(s) /\ Here(h, s)' = Here(h, s)
  BY <1>1, <1>2 DEF There, Here
<1>4. Here(h, mu[h].scope)' = Here(h, mu[h].scope)
  BY <1>1 DEF Here
<1> QED BY <1>1, <1>3, <1>4 DEF PruneKnows, At, Op

LEMMA EditStep ==
  ASSUME IInv, NEW h \in Hosts, NEW p \in Paths, Edit(h, p)
  PROVE  IInv'
<1>1. /\ TypeOK /\ Past /\ time < MaxTime /\ time' = time + 1
      /\ local' = [local EXCEPT ![h][p] = time'] /\ spoiled' = (spoiled \/ Busy(h))
      /\ UNCHANGED <<remote, manifest, mu>>
  BY DEF IInv, Edit
<1>2. time' \in Version /\ time \in Nat
  BY <1>1, SyncAssumption DEF TypeOK, Version
<1>3. /\ local' \in [Hosts -> [Paths -> Version]] /\ local'[h][p] = time'
      /\ \A g \in Hosts, q \in Paths : g # h \/ q # p => local'[g][q] = local[g][q]
      /\ \A g \in Hosts \ {h} : local'[g] = local[g]
  BY <1>1, <1>2 DEF TypeOK
<1>4. remote' \in [Paths -> Version]
  BY <1>1 DEF TypeOK
<1>5. Past'
  <2>1. ASSUME NEW g \in Hosts, NEW q \in Paths PROVE local'[g][q] <= time'
    BY <1>1, <1>2, <1>3, SyncAssumption DEF Past, TypeOK, Version
  <2>2. ASSUME NEW q \in Paths PROVE remote'[q] <= time'
    BY <1>1, <1>2, SyncAssumption DEF Past, TypeOK, Version
  <2> QED BY <2>1, <2>2 DEF Past
<1>6. ASSUME NEW g \in Hosts PROVE PruneKnows(g)'
  <2>1. CASE g = h /\ ~spoiled' /\ Op(g) = "prune"
    BY <1>1, <2>1 DEF IInv, Scoped, Busy
  <2>2. CASE g = h /\ (spoiled' \/ Op(g) # "prune")
    BY <1>1, <2>2 DEF PruneKnows, Op
  <2>3. CASE g # h
    BY <1>1, <1>3, <2>3, PruneUndisturbed
  <2> QED BY <2>1, <2>2, <2>3
<1> QED BY <1>1, <1>2, <1>3, <1>4, <1>5, <1>6, OutsideStep DEF TypeOK

LEMMA DeleteStep ==
  ASSUME IInv, NEW h \in Hosts, NEW p \in Paths, Delete(h, p)
  PROVE  IInv'
<1>1. /\ TypeOK /\ Past /\ local' = [local EXCEPT ![h][p] = None]
      /\ spoiled' = (spoiled \/ Busy(h)) /\ UNCHANGED <<remote, manifest, mu, time>>
  BY DEF IInv, Delete
<1>2. None \in Version /\ None = 0 /\ time \in Nat
  BY <1>1, SyncAssumption DEF TypeOK, Version, None
<1>3. /\ local' \in [Hosts -> [Paths -> Version]] /\ local'[h][p] = None
      /\ \A g \in Hosts, q \in Paths : g # h \/ q # p => local'[g][q] = local[g][q]
      /\ \A g \in Hosts \ {h} : local'[g] = local[g]
  BY <1>1, <1>2 DEF TypeOK
<1>4. remote' \in [Paths -> Version] /\ time' \in Version
  BY <1>1 DEF TypeOK
<1>5. Past'
  BY <1>1, <1>2, <1>3 DEF Past
<1>6. ASSUME NEW g \in Hosts PROVE PruneKnows(g)'
  <2>1. CASE g = h /\ ~spoiled' /\ Op(g) = "prune"
    BY <1>1, <2>1 DEF IInv, Scoped, Busy
  <2>2. CASE g = h /\ (spoiled' \/ Op(g) # "prune")
    BY <1>1, <2>2 DEF PruneKnows, Op
  <2>3. CASE g # h
    BY <1>1, <1>3, <2>3, PruneUndisturbed
  <2> QED BY <2>1, <2>2, <2>3
<1> QED BY <1>1, <1>3, <1>4, <1>5, <1>6, OutsideStep DEF TypeOK

LEMMA JobWritesStep ==
  ASSUME IInv, NEW p \in Results, JobWrites(p)
  PROVE  IInv'
<1>1. /\ TypeOK /\ Past /\ time < MaxTime /\ time' = time + 1
      /\ remote' = [remote EXCEPT ![p] = time'] /\ UNCHANGED <<local, manifest, mu, spoiled>>
  BY DEF IInv, JobWrites
<1>2. time' \in Version /\ time \in Nat
  BY <1>1, SyncAssumption DEF TypeOK, Version
<1>3. /\ remote' \in [Paths -> Version] /\ p \in Paths /\ remote'[p] = time'
      /\ \A q \in Paths \ {p} : remote'[q] = remote[q]
  BY <1>1, <1>2 DEF TypeOK, Paths
<1>4. \A q \in Shared : remote'[q] = remote[q]
  BY <1>3, SyncAssumption DEF Shared, Paths
<1>5. Past'
  <2>1. ASSUME NEW g \in Hosts, NEW q \in Paths PROVE local'[g][q] <= time'
    BY <1>1, <1>2, SyncAssumption DEF Past, TypeOK, Version
  <2>2. ASSUME NEW q \in Paths PROVE remote'[q] <= time'
    BY <1>1, <1>2, <1>3, SyncAssumption DEF Past, TypeOK, Version
  <2> QED BY <2>1, <2>2 DEF Past
<1>6. \A g \in Hosts : PruneKnows(g)'
  BY <1>1, <1>4, PruneUndisturbed
<1> QED BY <1>1, <1>2, <1>3, <1>5, <1>6, OutsideStep DEF TypeOK

\* A command begins.
LEMMA StartStep ==
  ASSUME IInv, NEW h \in Hosts, Start(h)
  PROVE  IInv'
<1>1. CASE \E op \in {"push", "force", "prune"}, sel \in SUBSET Scopes : Plan(h, op, sel)
  BY <1>1, PlanStep DEF Pushes
<1>2. CASE \E op \in {"pull", "pullforce"} : Plan(h, op, {Results})
  BY <1>2, PlanStep DEF Pulls
<1> QED BY <1>1, <1>2 DEF Start

LEMMA InvNext == IInv /\ [Next]_vars => IInv'
<1> SUFFICES ASSUME IInv, [Next]_vars PROVE IInv'
  OBVIOUS
<1>1. CASE UNCHANGED vars
  <2>1. \A h \in Hosts : PruneKnows(h)'
    BY <1>1, PruneUndisturbed DEF vars
  <2> QED BY <1>1, <2>1, OutsideStep DEF vars, IInv, TypeOK, Past
<1>2. CASE \E h \in Hosts : Start(h)
  BY <1>2, StartStep
<1>3. CASE \E h \in Hosts : Step(h)
  BY <1>3, ConfirmStep, OverStep, MovedStep, SaveStep, BeginStep, RecordStep, SendStep, FetchStep,
     RemoveStep DEF Step
<1>4. CASE \E h \in Hosts, p \in Paths : Edit(h, p) \/ Delete(h, p)
  BY <1>4, EditStep, DeleteStep
<1>5. CASE \E p \in Results : JobWrites(p)
  BY <1>5, JobWritesStep
<1> QED BY <1>1, <1>2, <1>3, <1>4, <1>5 DEF Next

\* The invariant holds in every run, whatever the datasets.
THEOREM Invariance == Spec => []IInv
<1>1. Init => IInv
  BY InvInit DEF LInv
<1> QED BY <1>1, InvNext, PTL DEF Spec

\* The variables keep their types: versions are edits that have happened, a command's lists
\* are files, its scopes tiers, datasets or results/.
THEOREM TypeCorrect == Spec => []TypeOK
<1>1. IInv => TypeOK
  BY DEF IInv
<1> QED BY <1>1, Invariance, PTL

-----------------------------------------------------------------------------
(* What a step may never do.                                               *)

\* Who writes the cluster's shared files: a transfer of h, or a prune of h.
LEMMA WhoWrites ==
  ASSUME IInv, [Next]_vars, NEW p \in Shared, remote'[p] # remote[p]
  PROVE  \E h \in Hosts : Send(h, p) \/ Remove(h, p)
<1>1. CASE UNCHANGED vars
  BY <1>1 DEF vars
<1>2. CASE \E h \in Hosts : Start(h)
  BY <1>2 DEF Start, Plan
<1>3. CASE \E h \in Hosts : Step(h)
  <2>1. PICK h \in Hosts : Step(h)
    BY <1>3
  <2>2. CASE Confirm(h) \/ Abort(h) \/ Moved(h) \/ Fail(h) \/ Save(h)
    BY <2>2 DEF Confirm, Abort, Moved, Fail, Save
  <2>3. CASE \E s \in Scopes \cup {Results} : Begin(h, s)
    BY <2>3 DEF Begin
  <2>4. CASE \E s \in Scopes : Record(h, s)
    BY <2>4 DEF Record
  <2>5. CASE \E q \in Paths : Send(h, q) \/ Fetch(h, q) \/ Remove(h, q)
    <3>1. PICK q \in Paths : Send(h, q) \/ Fetch(h, q) \/ Remove(h, q)
      BY <2>5
    <3>2. \A r \in Paths \ {q} : remote'[r] = remote[r]
      BY <3>1 DEF Send, Fetch, Remove, IInv, TypeOK
    <3>3. ~Fetch(h, q)
      BY DEF Fetch
    <3> QED BY <3>1, <3>2, <3>3 DEF Paths
  <2> QED BY <2>1, <2>2, <2>3, <2>4, <2>5 DEF Step
<1>4. CASE \E h \in Hosts, q \in Paths : Edit(h, q) \/ Delete(h, q)
  BY <1>4 DEF Edit, Delete
<1>5. CASE \E q \in Results : JobWrites(q)
  <2>1. PICK q \in Results : JobWrites(q)
    BY <1>5
  <2>2. p # q /\ p \in Paths
    BY SyncAssumption DEF Shared, Paths
  <2> QED BY <2>1, <2>2 DEF JobWrites, IInv, TypeOK
<1> QED BY <1>1, <1>2, <1>3, <1>4, <1>5 DEF Next

\* A staged file is replaced by a forced push only, however old the listing.
THEOREM OnlyForceOverwrites == Spec => OverwriteIsForced
<1>1. ASSUME IInv, [Next]_vars, NEW p \in Shared,
             remote[p] # None, remote'[p] \notin {None, remote[p]}
      PROVE  \E h \in Hosts : At(h, "rsync") /\ Op(h) = "force"
  <2>1. PICK h \in Hosts : Send(h, p) \/ Remove(h, p)
    BY <1>1, WhoWrites
  <2>2. p \in Paths /\ TypeOK
    BY <1>1 DEF Paths, IInv
  <2>3. ~Remove(h, p)
    BY <1>1, <2>2 DEF Remove, TypeOK
  <2>4. At(h, "rsync") /\ Op(h) = "force"
    BY <1>1, <2>1, <2>2, <2>3, SendWrites DEF Send
  <2> QED BY <2>4
<1>2. IInv /\ [Next]_vars =>
        [\A p \in Shared : remote[p] # None /\ remote'[p] \notin {None, remote[p]}
           => \E h \in Hosts : At(h, "rsync") /\ Op(h) = "force"]_vars
  BY <1>1
<1> QED BY <1>2, Invariance, PTL DEF Spec, OverwriteIsForced

\* A pull replaces a local file by a newer one only, whatever was written after its listing.
THEOREM PullsOnlyRenew == Spec => PullKeepsNewer
<1>1. ASSUME IInv, Next, NEW h \in Hosts, NEW p \in Results,
             Op(h) = "pull", local'[h][p] \notin {None, local[h][p]}
      PROVE  local'[h][p] > local[h][p]
  <2>1. p \in Paths /\ TypeOK /\ Past
    BY <1>1 DEF Paths, IInv
  <2>2. CASE \E g \in Hosts : Start(g)
    BY <1>1, <2>2 DEF Start, Plan
  <2>3. CASE \E g \in Hosts : Step(g)
    <3>1. PICK g \in Hosts : Step(g)
      BY <2>3
    <3>2. CASE Confirm(g) \/ Abort(g) \/ Moved(g) \/ Fail(g) \/ Save(g)
      BY <1>1, <3>2 DEF Confirm, Abort, Moved, Fail, Save
    <3>3. CASE \E s \in Scopes \cup {Results} : Begin(g, s)
      BY <1>1, <3>3 DEF Begin
    <3>4. CASE \E s \in Scopes : Record(g, s)
      BY <1>1, <3>4 DEF Record
    <3>5. CASE \E q \in Paths : Send(g, q) \/ Remove(g, q)
      BY <1>1, <3>5 DEF Send, Remove
    <3>6. CASE \E q \in Paths : Fetch(g, q)
      <4>1. PICK q \in Paths : Fetch(g, q)
        BY <3>6
      <4>2. g = h /\ q = p
        BY <1>1, <2>1, <4>1, FetchWrites
      <4>3. local[h][p] \in Version /\ remote[p] \in Version
        BY <2>1 DEF TypeOK
      <4> QED BY <1>1, <2>1, <4>1, <4>2, <4>3, FetchWrites, SyncAssumption DEF Version
    <3> QED BY <3>1, <3>2, <3>3, <3>4, <3>5, <3>6 DEF Step
  <2>4. CASE \E g \in Hosts, q \in Paths : Edit(g, q)
    <3>1. PICK g \in Hosts, q \in Paths : Edit(g, q)
      BY <2>4
    <3>2. local'[h][p] = time + 1
      BY <1>1, <2>1, <3>1 DEF Edit, TypeOK
    <3>3. local[h][p] <= time /\ local[h][p] \in Version /\ time \in Version
      BY <2>1 DEF Past, TypeOK
    <3> QED BY <3>2, <3>3, SyncAssumption DEF Version
  <2>5. CASE \E g \in Hosts, q \in Paths : Delete(g, q)
    BY <1>1, <2>1, <2>5 DEF Delete, TypeOK
  <2>6. CASE \E q \in Results : JobWrites(q)
    BY <1>1, <2>6 DEF JobWrites
  <2> QED BY <1>1, <2>2, <2>3, <2>4, <2>5, <2>6 DEF Next
<1>2. IInv /\ [Next]_vars =>
        [\A h \in Hosts, p \in Results :
           Op(h) = "pull" /\ local'[h][p] \notin {None, local[h][p]}
           => local'[h][p] > local[h][p]]_vars
  BY <1>1
<1> QED BY <1>2, Invariance, PTL DEF Spec, PullKeepsNewer

\* A prune never touches data/raw; left alone, it removes what it listed and only of a tier
\* this machine has files of.
THEOREM PrunesKeepToPlan == Spec => PruneStaysInPlan
<1>1. ASSUME IInv, [Next]_vars, NEW p \in Shared, remote[p] # None, remote'[p] = None
      PROVE  /\ p \notin Raw
             /\ \/ spoiled
                \/ \E h \in Hosts : /\ Op(h) = "prune" /\ p \in mu[h].new
                                   /\ Here(h, mu[h].scope) # {}
  <2>1. PICK h \in Hosts : Send(h, p) \/ Remove(h, p)
    BY <1>1, WhoWrites
  <2>2. p \in Paths /\ TypeOK /\ Scoped(h) /\ PruneKnows(h)
    BY <1>1 DEF Paths, IInv
  <2>3. ~Send(h, p)
    BY <1>1, <2>2, SendWrites DEF Send
  <2>4. At(h, "rsync") /\ Op(h) = "prune" /\ p \in mu[h].todo
    BY <2>1, <2>3 DEF Remove
  <2>5. p \notin Raw
    BY <2>2, <2>4, SyncAssumption DEF Scoped
  <2>6. CASE ~spoiled
    BY <2>2, <2>4, <2>5, <2>6 DEF PruneKnows
  <2> QED BY <2>5, <2>6
<1>2. IInv /\ [Next]_vars =>
        [\A p \in Shared : remote[p] # None /\ remote'[p] = None
           => /\ p \notin Raw
              /\ \/ spoiled
                 \/ \E h \in Hosts : /\ Op(h) = "prune" /\ p \in mu[h].new
                                    /\ Here(h, mu[h].scope) # {}]_vars
  BY <1>1
<1> QED BY <1>2, Invariance, PTL DEF Spec, PruneStaysInPlan

-----------------------------------------------------------------------------
(* The manifests of tiers that nobody narrows.                             *)

LEMMA ScopesAreShared ==
  ASSUME NEW s \in Scopes, NEW p \in s
  PROVE  s # {} /\ p \in Shared /\ p \in Paths /\ p \notin Results
<1> QED BY SyncAssumption DEF Scopes, Tiers, Shared, Paths

\* Two tiers have no file in common.
LEMMA Apart ==
  ASSUME Datasets = {}, NEW s \in Scopes, NEW t \in Scopes, NEW p \in s, p \in t
  PROVE  s = t
<1> QED BY SyncAssumption DEF Scopes, Tiers

\* A step of the command of h keeps everybody's books if it keeps those of h.
LEMMA CommandBooks ==
  ASSUME LInv, NEW h \in Hosts, OnlyMu(h), spoiled => spoiled',
         \A g \in Hosts \ {h} : Busy(g) => spoiled',
         ASSUME ~spoiled', Busy(h)', NEW s \in Scopes, NEW p \in s
         PROVE  FileBooks(h, s, p)',
         ASSUME ~spoiled', ~Busy(h)', NEW s \in Scopes, NEW p \in s
         PROVE  manifest'[s][p] = remote'[p]
  PROVE  Even' /\ \A g \in Hosts : Books(g)'
<1>1. Even'
  BY DEF Even
<1>2. \A g \in Hosts \ {h} : Busy(g)' => spoiled'
  BY DEF OnlyMu, Busy, At
<1> QED BY <1>1, <1>2 DEF Books

\* The books of a command at work that is left alone.
LEMMA AtWork ==
  ASSUME LInv, NEW h \in Hosts, Busy(h), ~spoiled, NEW s \in Scopes, NEW p \in s
  PROVE  /\ FileBooks(h, s, p) /\ Scoped(h) /\ PruneKnows(h)
         /\ Op(h) \in Pushes \cup Pulls \cup {"prune"}
         /\ Op(h) \in Pulls => p \notin Listed(h)
         /\ s # {} /\ p \in Shared /\ p \in Paths /\ p \notin Results
<1>1. FileBooks(h, s, p) /\ Scoped(h) /\ PruneKnows(h) /\ TypeOK
  BY DEF LInv, IInv, Books
<1>2. Op(h) \in Pushes \cup Pulls \cup {"prune"}
  BY <1>1, MuFields DEF Scoped, Busy, Op, Pushes, Pulls
<1> QED BY <1>1, <1>2, ScopesAreShared DEF Scoped

LEMMA PlanBooks ==
  ASSUME LInv, NEW h \in Hosts, NEW op \in Pushes \cup Pulls \cup {"prune"},
         NEW sel \in SUBSET (Scopes \cup {Results}), Plan(h, op, sel)
  PROVE  Even' /\ \A g \in Hosts : Books(g)'
<1>1. /\ TypeOK /\ ~Busy(h) /\ UNCHANGED <<local, remote, manifest, time>>
      /\ spoiled' = (spoiled \/ \E g \in Hosts \ {h} : Busy(g)) /\ Selectable(op, sel)
  BY DEF LInv, IInv, Plan, Busy
<1>2. PICK left \in SUBSET sel : mu' = [mu EXCEPT ![h] = Planned(h, op, left)]
  BY <1>1, PlanMoves
<1>3. LET m == Planned(h, op, left) IN
      /\ m \in Mu /\ m.pc = "confirm" /\ m.op = op /\ m.left = left
      /\ m.new = UNION {New(h, op, s) : s \in left}
      /\ m.upd = UNION {Upd(h, op, s) : s \in left}
      /\ m.done = {} /\ m.scope = {}
  BY PlannedFields
<1>4. /\ OnlyMu(h) /\ mu'[h].pc = "confirm" /\ Op(h)' = op /\ mu'[h].left = left
      /\ \A p : p \in Listed(h)' <=> \E s \in left : p \in Moves(h, op, s)
      /\ mu'[h].done = {} /\ mu'[h].scope = {}
  <2>1. /\ OnlyMu(h) /\ mu'[h] = Planned(h, op, left)
    BY <1>1, <1>2, <1>3, Moves1 DEF OnlyMu
  <2>2. /\ mu'[h].new = UNION {New(h, op, s) : s \in left}
        /\ mu'[h].upd = UNION {Upd(h, op, s) : s \in left}
        /\ mu'[h].pc = "confirm" /\ mu'[h].op = op /\ mu'[h].left = left
        /\ mu'[h].done = {} /\ mu'[h].scope = {}
    BY <1>3, <2>1
  <2>3. \A p : p \in mu'[h].new \cup mu'[h].upd <=> \E s \in left : p \in Moves(h, op, s)
    BY <2>2 DEF Moves
  <2> QED BY <2>1, <2>2, <2>3 DEF Op, Listed
<1>5. ASSUME ~spoiled', NEW s \in Scopes, NEW p \in s
      PROVE  FileBooks(h, s, p)'
  <2>1. s # {} /\ manifest[s][p] = remote[p]
    BY <1>1, <1>5 DEF LInv, Even
  <2>2. ~Moving(h, s, p)' /\ ~At(h, "save")' /\ ~At(h, "rsync")'
    BY <1>4, <2>1 DEF Moving, At
  <2>3. op \in Pushes /\ p \in Listed(h)' => local[h][p] # None
    BY <1>4 DEF Moves, New, Upd, Here, Differ, Pushes
  <2>4. ASSUME s \in left
        PROVE  /\ op \in Pushes /\ local[h][p] # None /\ remote[p] = None => p \in Listed(h)'
               /\ op = "force" /\ p \notin Listed(h)' /\ local[h][p] # None
                    => remote[p] = local[h][p]
    <3>1. p \notin Listed(h)' => p \notin Moves(h, op, s)
      BY <1>4, <2>4
    <3> QED BY <3>1 DEF Moves, New, Upd, Here, There, Differ, Pushes
  <2>5. op = "push" /\ p \in Listed(h)' => remote[p] = None
    BY <1>4 DEF Moves, New, Upd, Here, There
  <2>6. op = "prune" /\ p \in Listed(h)' => local[h][p] = None /\ remote[p] # None
    BY <1>4, <1>1, ScopeOfSelection, ScopesAreShared DEF Moves, New, Upd, Here, There
  <2> QED BY <1>1, <1>4, <2>1, <2>2, <2>3, <2>4, <2>5, <2>6 DEF FileBooks
<1>6. Busy(h)'
  BY <1>4 DEF Busy, At
<1> QED BY <1>1, <1>4, <1>5, <1>6, CommandBooks

LEMMA ConfirmBooks ==
  ASSUME LInv, NEW h \in Hosts, Confirm(h)
  PROVE  Even' /\ \A g \in Hosts : Books(g)'
<1>1. /\ IInv /\ TypeOK /\ mu[h].pc = "confirm" /\ Busy(h)
      /\ UNCHANGED <<local, remote, manifest, time, spoiled>>
  BY DEF LInv, IInv, Confirm, At, Busy
<1>2. /\ OnlyMu(h) /\ mu'[h].pc = "next"
      /\ Same(h, {"op", "listed", "left", "done", "scope", "todo", "mem"})
  BY <1>1, GotoMoves DEF Confirm
<1>3. Op(h)' = Op(h) /\ Listed(h)' = Listed(h) /\ Busy(h)'
  BY <1>2 DEF Same, Op, Listed, Busy, At
<1>4. ASSUME ~spoiled', NEW s \in Scopes, NEW p \in s PROVE FileBooks(h, s, p)'
  <2>1. FileBooks(h, s, p) /\ Scoped(h) /\ s # {}
    BY <1>1, <1>4, AtWork
  <2>2. mu[h].scope = {} /\ mu[h].done = {}
    BY <1>1, <2>1 DEF Scoped, At
  <2>3. ~Moving(h, s, p) /\ ~Moving(h, s, p)' /\ ~At(h, "save")' /\ ~At(h, "rsync")'
    BY <1>2, <2>1, <2>2 DEF Moving, Same, At
  <2> QED BY <1>1, <1>2, <1>3, <2>1, <2>3 DEF FileBooks, Same
<1> QED BY <1>1, <1>2, <1>3, <1>4, Alone, CommandBooks

LEMMA OverBooks ==
  ASSUME LInv, NEW h \in Hosts, Abort(h) \/ Fail(h)
  PROVE  Even' /\ \A g \in Hosts : Books(g)'
<1>1. /\ IInv /\ TypeOK /\ Busy(h) /\ Exit(h) /\ UNCHANGED <<local, remote, manifest, time>>
      /\ spoiled => spoiled'
  BY DEF LInv, IInv, Abort, Fail, At, Busy
<1>2. OnlyMu(h) /\ ~Busy(h)'
  BY <1>1, ExitMoves, OffScoped
<1>3. ASSUME ~spoiled', NEW s \in Scopes, NEW p \in s PROVE manifest'[s][p] = remote'[p]
  <2>1. mu[h].pc = "confirm"
    BY <1>3 DEF Abort, Fail, At
  <2>2. FileBooks(h, s, p) /\ Scoped(h) /\ s # {}
    BY <1>1, <1>3, AtWork
  <2>3. ~Moving(h, s, p)
    BY <2>1, <2>2 DEF Moving, Scoped, At
  <2> QED BY <1>1, <2>2, <2>3 DEF FileBooks
<1> QED BY <1>1, <1>2, <1>3, Alone, CommandBooks

LEMMA BeginBooks ==
  ASSUME LInv, NEW h \in Hosts, NEW t \in Scopes \cup {Results}, Begin(h, t)
  PROVE  Even' /\ \A g \in Hosts : Books(g)'
<1>1. /\ IInv /\ TypeOK /\ mu[h].pc = "next" /\ Busy(h) /\ t \in mu[h].left
      /\ UNCHANGED <<local, remote, manifest, time, spoiled>>
  BY DEF LInv, IInv, Begin, At, Busy
<1>2. /\ OnlyMu(h) /\ Same(h, {"op", "listed", "done", "mem"})
      /\ mu'[h].pc = "rsync" /\ mu'[h].scope = t /\ mu'[h].left = mu[h].left \ {t}
      /\ Op(h) \in Pushes => mu'[h].todo = Here(h, t)
      /\ Op(h) = "prune" => mu'[h].todo = There(t) \ Here(h, t)
      /\ mu'[h].todo \subseteq t
  BY <1>1, BeginMoves DEF Here, There
<1>3. Op(h)' = Op(h) /\ Listed(h)' = Listed(h) /\ Busy(h)'
  BY <1>2 DEF Same, Op, Listed, Busy, At
<1>4. ASSUME ~spoiled', NEW s \in Scopes, NEW p \in s PROVE FileBooks(h, s, p)'
  <2>1. /\ FileBooks(h, s, p) /\ Scoped(h) /\ s # {} /\ p \notin Results
        /\ Op(h) \in Pushes \cup Pulls \cup {"prune"}
        /\ Op(h) \in Pulls => p \notin Listed(h)
    BY <1>1, <1>4, AtWork
  <2>2. ~At(h, "save")' /\ ~At(h, "save") /\ ~At(h, "rsync")
    BY <1>1, <1>2 DEF At
  <2>3. Moving(h, s, p) <=> s \in mu[h].done
    BY <1>1, <2>1 DEF Moving, Scoped, At
  <2>4. Moving(h, s, p)' <=> s \in mu[h].done \/ (t = s /\ p \notin mu'[h].todo)
    BY <1>2 DEF Moving, At, Same
  <2>5. t = s /\ p \in Listed(h) => p \in mu'[h].todo
    BY <1>1, <1>2, <2>1 DEF FileBooks, Here, There
  <2> QED BY <1>1, <1>2, <1>3, <2>1, <2>2, <2>3, <2>4, <2>5 DEF FileBooks, Goal
<1> QED BY <1>1, <1>2, <1>3, <1>4, Alone, CommandBooks

\* A file that rsync is not looking at, and its own record, stay as they are.
LEMMA SeenOther ==
  ASSUME LInv, NEW h \in Hosts, NEW q \in Paths, At(h, "rsync"),
         mu' = [mu EXCEPT ![h] = Seen(h, q)], UNCHANGED manifest,
         NEW s \in Scopes, NEW p \in s, p # q, FileBooks(h, s, p),
         remote'[p] = remote[p], local'[h][p] = local[h][p]
  PROVE  FileBooks(h, s, p)'
<1>1. /\ Same(h, {"op", "listed", "left", "done", "scope", "mem"})
      /\ mu[h].pc = "rsync" /\ mu'[h].pc = "rsync" /\ mu'[h].todo = mu[h].todo \ {q}
  BY SeenMoves DEF LInv, IInv, At
<1>2. /\ Op(h)' = Op(h) /\ Listed(h)' = Listed(h) /\ Goal(h, p)' = Goal(h, p)
      /\ Moving(h, s, p)' <=> Moving(h, s, p)
  BY <1>1 DEF Same, Op, Listed, Goal, Moving, At
<1> QED BY <1>1, <1>2 DEF FileBooks, Same, At

\* The file rsync looks at is moved: it then is as meant if it was listed, and as it was if not.
LEMMA SeenThis ==
  ASSUME LInv, Datasets = {}, NEW h \in Hosts, NEW p \in Paths, At(h, "rsync"), ~spoiled,
         mu' = [mu EXCEPT ![h] = Seen(h, p)], UNCHANGED <<local, manifest>>,
         p \in mu[h].todo, NEW s \in Scopes, p \in s,
         p \in Listed(h) => remote'[p] = Goal(h, p),
         p \notin Listed(h) => remote'[p] = remote[p]
  PROVE  FileBooks(h, s, p)'
<1>1. Busy(h)
  BY DEF Busy, At
<1>2. /\ FileBooks(h, s, p) /\ Scoped(h) /\ p \notin Results
  BY <1>1, AtWork
<1>3. mu[h].scope = s /\ s \notin mu[h].left /\ s \notin mu[h].done
  <2>1. mu[h].scope \in Scopes \cup {Results} /\ p \in mu[h].scope
    BY <1>2, MuFields DEF Scoped, LInv, IInv, At
  <2> QED BY <1>2, <2>1, Apart, ZenonT(30) DEF Scoped
<1>4. /\ Same(h, {"op", "listed", "left", "done", "scope", "mem"})
      /\ mu[h].pc = "rsync" /\ mu'[h].pc = "rsync" /\ mu'[h].todo = mu[h].todo \ {p}
  BY SeenMoves DEF LInv, IInv, At
<1>5. /\ Op(h)' = Op(h) /\ Listed(h)' = Listed(h) /\ Goal(h, p)' = Goal(h, p)
      /\ ~Moving(h, s, p)
  BY <1>3, <1>4 DEF Same, Op, Listed, Goal, Moving, At
<1>6. manifest'[s][p] = remote[p]
  BY <1>2, <1>5 DEF FileBooks
<1>7. /\ p \in Listed(h)' => remote'[p] = Goal(h, p)'
      /\ p \notin Listed(h)' => manifest'[s][p] = remote'[p]
  BY <1>5, <1>6
<1>8. Moving(h, s, p)'
  BY <1>3, <1>4 DEF Moving, Same, At
<1>9. p \in Listed(h)' /\ Op(h)' \in Pushes => local'[h][p] # None
  BY <1>2, <1>5 DEF FileBooks
<1>10. ~At(h, "save")' /\ s \notin mu'[h].left /\ p \notin mu'[h].todo
  BY <1>3, <1>4 DEF Same, At
<1> QED BY <1>7, <1>8, <1>9, <1>10 DEF FileBooks

LEMMA SendBooks ==
  ASSUME LInv, Datasets = {}, NEW h \in Hosts, NEW q \in Paths, Send(h, q)
  PROVE  Even' /\ \A g \in Hosts : Books(g)'
<1>1. /\ IInv /\ TypeOK /\ At(h, "rsync") /\ Busy(h) /\ Op(h) \in Pushes /\ q \in mu[h].todo
      /\ local[h][q] # None /\ mu' = [mu EXCEPT ![h] = Seen(h, q)]
      /\ UNCHANGED <<local, manifest, time, spoiled>>
  BY DEF LInv, IInv, Send, Busy, At, Pushes
<1>2. OnlyMu(h) /\ Busy(h)'
  BY <1>1, SeenMoves DEF Busy, At
<1>3. /\ remote'[q] = IF Op(h) = "force" \/ remote[q] = None THEN local[h][q] ELSE remote[q]
      /\ \A p \in Paths \ {q} : remote'[p] = remote[p]
  BY <1>1, SendWrites
<1>4. ASSUME ~spoiled', NEW s \in Scopes, NEW p \in s PROVE FileBooks(h, s, p)'
  <2>1. FileBooks(h, s, p) /\ p \in Paths /\ Scoped(h) /\ p \notin Results
    BY <1>1, <1>4, AtWork
  <2>2. CASE p # q
    BY <1>1, <1>3, <2>1, <2>2, SeenOther
  <2>3. CASE p = q
    <3>1. mu[h].scope = s
      <4>1. mu[h].scope \in Scopes \cup {Results} /\ p \in mu[h].scope
        BY <1>1, <2>1, <2>3, MuFields DEF Scoped, At
      <4> QED BY <2>1, <4>1, Apart
    <3>2. /\ local[h][p] # None /\ remote[p] = None => p \in Listed(h)
          /\ Op(h) = "push" /\ p \in Listed(h) => remote[p] = None
          /\ Op(h) = "force" /\ p \notin Listed(h) /\ local[h][p] # None
               => remote[p] = local[h][p]
      BY <1>1, <2>1, <2>3, <3>1 DEF FileBooks
    <3>3. p \in Listed(h) => remote'[p] = Goal(h, p)
      BY <1>1, <1>3, <2>3, <3>2 DEF Goal, Pushes
    <3>4. p \notin Listed(h) => remote'[p] = remote[p]
      BY <1>1, <1>3, <2>3, <3>2
    <3> QED BY <1>1, <1>4, <2>3, <3>3, <3>4, SeenThis
  <2> QED BY <2>2, <2>3
<1> QED BY <1>1, <1>2, <1>4, Alone, CommandBooks

LEMMA FetchBooks ==
  ASSUME LInv, NEW h \in Hosts, NEW q \in Paths, Fetch(h, q)
  PROVE  Even' /\ \A g \in Hosts : Books(g)'
<1>1. /\ IInv /\ TypeOK /\ At(h, "rsync") /\ Busy(h) /\ Op(h) \in Pulls /\ q \in mu[h].todo
      /\ mu' = [mu EXCEPT ![h] = Seen(h, q)] /\ UNCHANGED <<remote, manifest, time, spoiled>>
  BY DEF LInv, IInv, Fetch, Busy, At, Pulls
<1>2. OnlyMu(h) /\ Busy(h)'
  BY <1>1, SeenMoves DEF Busy, At
<1>3. q \in Results
  BY <1>1 DEF IInv, Scoped, At
<1>4. ASSUME ~spoiled', NEW s \in Scopes, NEW p \in s PROVE FileBooks(h, s, p)'
  <2>1. FileBooks(h, s, p) /\ p \in Paths /\ p \notin Results
    BY <1>1, <1>4, AtWork
  <2>2. local'[h][p] = local[h][p]
    BY <1>3, <2>1, <1>1, FetchWrites
  <2> QED BY <1>1, <1>3, <2>1, <2>2, SeenOther
<1> QED BY <1>1, <1>2, <1>4, Alone, CommandBooks

LEMMA RemoveBooks ==
  ASSUME LInv, Datasets = {}, NEW h \in Hosts, NEW q \in Paths, Remove(h, q)
  PROVE  Even' /\ \A g \in Hosts : Books(g)'
<1>1. /\ IInv /\ TypeOK /\ At(h, "rsync") /\ Busy(h) /\ Op(h) = "prune" /\ q \in mu[h].todo
      /\ mu' = [mu EXCEPT ![h] = Seen(h, q)] /\ UNCHANGED <<local, manifest, time, spoiled>>
  BY DEF LInv, IInv, Remove, Busy, At
<1>2. OnlyMu(h) /\ Busy(h)'
  BY <1>1, SeenMoves DEF Busy, At
<1>3. remote'[q] = None /\ \A p \in Paths \ {q} : remote'[p] = remote[p]
  BY <1>1 DEF Remove, TypeOK
<1>4. ASSUME ~spoiled', NEW s \in Scopes, NEW p \in s PROVE FileBooks(h, s, p)'
  <2>1. FileBooks(h, s, p) /\ p \in Paths /\ PruneKnows(h)
    BY <1>1, <1>4, AtWork
  <2>2. CASE p # q
    BY <1>1, <1>3, <2>1, <2>2, SeenOther
  <2>3. CASE p = q
    <3>1. p \in Listed(h)
      BY <1>1, <1>4, <2>1, <2>3 DEF PruneKnows, Listed
    <3>2. remote'[p] = Goal(h, p)
      BY <1>1, <1>3, <2>3 DEF Goal
    <3> QED BY <1>1, <1>4, <2>3, <3>1, <3>2, SeenThis
  <2> QED BY <2>2, <2>3
<1> QED BY <1>1, <1>2, <1>4, Alone, CommandBooks

LEMMA MovedBooks ==
  ASSUME LInv, NEW h \in Hosts, Moved(h)
  PROVE  Even' /\ \A g \in Hosts : Books(g)'
<1>1. /\ IInv /\ TypeOK /\ Scoped(h) /\ mu[h].pc = "rsync" /\ Busy(h) /\ mu[h].todo = {}
      /\ UNCHANGED <<local, remote, manifest, time, spoiled>>
  BY DEF LInv, IInv, Moved, At, Busy
<1>2. /\ OnlyMu(h)
      /\ Op(h) \in Pulls => mu'[h] = Off
      /\ Op(h) \notin Pulls =>
           /\ Same(h, {"op", "listed", "left", "todo", "mem"})
           /\ mu'[h].scope = {} /\ mu'[h].done = mu[h].done \cup {mu[h].scope}
           /\ mu'[h].pc = IF Op(h) = "prune" \/ mu[h].left = {} THEN "record" ELSE "next"
  BY <1>1, MovedMoves
<1>3. CASE Op(h) \in Pulls
  <2>1. ~Busy(h)'
    BY <1>2, <1>3, OffScoped
  <2>2. ASSUME ~spoiled', NEW s \in Scopes, NEW p \in s PROVE manifest'[s][p] = remote'[p]
    BY <1>1, <1>3, <2>2, AtWork DEF FileBooks
  <2> QED BY <1>1, <1>2, <2>1, <2>2, Alone, CommandBooks
<1>4. CASE Op(h) \notin Pulls
  <2>1. /\ mu'[h].pc \in {"record", "next"} /\ Op(h)' = Op(h) /\ Listed(h)' = Listed(h)
        /\ mu'[h].left = mu[h].left /\ mu'[h].scope = {}
        /\ mu'[h].done = mu[h].done \cup {mu[h].scope} /\ Busy(h)'
    BY <1>2, <1>4 DEF Same, Op, Listed, Busy, At
  <2>2. ASSUME ~spoiled', NEW s \in Scopes, NEW p \in s PROVE FileBooks(h, s, p)'
    <3>1. FileBooks(h, s, p) /\ s # {}
      BY <1>1, <2>2, AtWork
    <3>2. Moving(h, s, p)' <=> Moving(h, s, p)
      BY <1>1, <2>1, <3>1 DEF Moving, At
    <3> QED BY <1>1, <2>1, <3>1, <3>2 DEF FileBooks, Goal, At
  <2> QED BY <1>1, <1>2, <2>1, <2>2, Alone, CommandBooks
<1> QED BY <1>3, <1>4

LEMMA RecordBooks ==
  ASSUME LInv, NEW h \in Hosts, NEW t \in Scopes, Record(h, t)
  PROVE  Even' /\ \A g \in Hosts : Books(g)'
<1>1. /\ IInv /\ TypeOK /\ mu[h].pc = "record" /\ Busy(h) /\ t \in mu[h].done
      /\ UNCHANGED <<local, remote, manifest, time>>
  BY DEF LInv, IInv, Record, At, Busy
<1> DEFINE done == mu[h].done \ {t}
           empty(read) == IF Op(h) = "prune" THEN \A p \in Shared : read[p] = None
                                             ELSE Entries(h, t) = {}
           Ended   == done = {} /\ mu[h].left = {} /\ mu'[h] = Off
           Skipped == /\ Same(h, {"op", "listed", "left", "scope", "todo", "mem"})
                      /\ mu'[h].done = done
                      /\ mu'[h].pc = IF done # {} THEN "record" ELSE "next"
           Kept(read) == /\ Same(h, {"op", "listed", "left", "todo"})
                         /\ mu'[h].done = done /\ mu'[h].pc = "save" /\ mu'[h].scope = t
                         /\ mu'[h].mem = Merged(h, t, read)
<1>2. OnlyMu(h)
  BY <1>1, RecordMoves
<1>3. PICK read \in [Shared -> Version] :
        /\ spoiled' = (spoiled \/ read # manifest[t])
        /\ empty(read) => Ended \/ Skipped
        /\ ~empty(read) => Kept(read)
  BY <1>1, RecordMoves
<1>4. spoiled => spoiled'
  BY <1>3
\* What this command leaves of the entry of a file of t, if it is not to write it.
<1>5. ASSUME ~spoiled', NEW s \in Scopes, NEW p \in s
      PROVE  /\ FileBooks(h, s, p) /\ Scoped(h) /\ s # {} /\ p \in Shared
             /\ ~At(h, "save") /\ ~At(h, "rsync") /\ mu[h].scope = {}
             /\ Moving(h, s, p) <=> s \in mu[h].done
             /\ s = t => /\ p \in Entries(h, t) <=> Op(h) # "prune" /\ p \in Listed(h)
                         /\ p \in Listed(h) => remote[p] = Goal(h, p)
                         /\ p \notin Listed(h) => read[p] = remote[p]
  <2>1. /\ FileBooks(h, s, p) /\ Scoped(h) /\ s # {} /\ p \in Shared
        /\ Op(h) \in Pushes \cup Pulls \cup {"prune"}
    BY <1>1, <1>4, <1>5, AtWork
  <2>2. ~At(h, "save") /\ ~At(h, "rsync") /\ mu[h].scope = {} /\ Op(h) \notin Pulls
    BY <1>1, <2>1 DEF Scoped, At
  <2>3. Moving(h, s, p) <=> s \in mu[h].done
    BY <2>1, <2>2 DEF Moving
  <2>4. s = t => (p \in Entries(h, t) <=> Op(h) # "prune" /\ p \in Listed(h))
    BY <2>1, <2>2 DEF FileBooks, Entries, Here, Listed
  <2>5. read = manifest[t]
    BY <1>3, <1>5
  <2>6. s = t => /\ p \in Listed(h) => remote[p] = Goal(h, p)
                 /\ p \notin Listed(h) => read[p] = remote[p]
    BY <1>1, <2>1, <2>3, <2>5 DEF FileBooks
  <2> QED BY <2>1, <2>2, <2>3, <2>4, <2>6
\* With nothing to write, the manifest is right as it is.
<1>6. ASSUME ~spoiled', empty(read), NEW p \in t PROVE manifest[t][p] = remote[p]
  <2>1. /\ p \in Entries(h, t) <=> Op(h) # "prune" /\ p \in Listed(h)
        /\ p \in Listed(h) => remote[p] = Goal(h, p)
        /\ p \notin Listed(h) => read[p] = remote[p]
        /\ p \in Shared
    BY <1>5, <1>6
  <2>2. read = manifest[t]
    BY <1>3, <1>6
  <2>3. CASE p \in Listed(h)
    BY <1>6, <2>1, <2>2, <2>3 DEF Goal
  <2> QED BY <2>1, <2>2, <2>3
<1> HIDE DEF done, empty
<1>7. CASE empty(read) /\ Ended
  <2>1. ~Busy(h)'
    BY <1>7, OffScoped
  <2>2. ASSUME ~spoiled', NEW s \in Scopes, NEW p \in s PROVE manifest'[s][p] = remote'[p]
    <3>1. CASE s = t
      BY <1>1, <1>6, <1>7, <2>2, <3>1
    <3>2. CASE s # t
      BY <1>1, <1>5, <1>7, <2>2, <3>2 DEF FileBooks, done
    <3> QED BY <3>1, <3>2
  <2> QED BY <1>1, <1>2, <1>4, <2>1, <2>2, Alone, CommandBooks
<1>8. CASE empty(read) /\ Skipped
  <2>1. /\ mu'[h].pc \in {"record", "next"} /\ Op(h)' = Op(h) /\ Listed(h)' = Listed(h)
        /\ mu'[h].left = mu[h].left /\ mu'[h].scope = mu[h].scope
        /\ mu'[h].done = mu[h].done \ {t} /\ Busy(h)'
    BY <1>8 DEF Same, Op, Listed, Busy, At, done
  <2>2. ASSUME ~spoiled', NEW s \in Scopes, NEW p \in s PROVE FileBooks(h, s, p)'
    <3>1. /\ FileBooks(h, s, p) /\ s # {} /\ mu[h].scope = {}
          /\ Moving(h, s, p) <=> s \in mu[h].done
      BY <1>5, <2>2
    <3>2. Moving(h, s, p)' <=> s \in mu[h].done \ {t}
      BY <2>1, <3>1 DEF Moving, At
    <3>3. ~Moving(h, s, p)' => manifest[s][p] = remote[p]
      BY <1>6, <1>8, <2>2, <3>1, <3>2 DEF FileBooks
    <3> QED BY <1>1, <2>1, <3>1, <3>2, <3>3 DEF FileBooks, Goal, At
  <2> QED BY <1>1, <1>2, <1>4, <2>1, <2>2, Alone, CommandBooks
<1>9. CASE Kept(read)
  <2>1. /\ mu'[h].pc = "save" /\ Op(h)' = Op(h) /\ Listed(h)' = Listed(h)
        /\ mu'[h].left = mu[h].left /\ mu'[h].scope = t /\ mu'[h].mem = Merged(h, t, read)
        /\ mu'[h].done = mu[h].done \ {t} /\ Busy(h)'
    BY <1>9 DEF Same, Op, Listed, Busy, At, done
  <2>2. ASSUME ~spoiled', NEW s \in Scopes, NEW p \in s PROVE FileBooks(h, s, p)'
    <3>1. /\ FileBooks(h, s, p) /\ Scoped(h) /\ s # {} /\ p \in Shared
          /\ Moving(h, s, p) <=> s \in mu[h].done
      BY <1>5, <2>2
    <3>2. Moving(h, s, p)' <=> Moving(h, s, p)
      BY <1>1, <2>1, <3>1 DEF Moving, At
    <3>3. s = t => Merged(h, t, read)[p] = remote[p]
      <4> SUFFICES ASSUME s = t PROVE Merged(h, t, read)[p] = remote[p]
        OBVIOUS
      <4>1. /\ p \in Entries(h, t) <=> Op(h) # "prune" /\ p \in Listed(h)
            /\ p \in Listed(h) => remote[p] = Goal(h, p)
            /\ p \notin Listed(h) => read[p] = remote[p]
        BY <1>5, <2>2
      <4>2. /\ p \in Entries(h, t) => Merged(h, t, read)[p] = local[h][p]
            /\ p \notin Entries(h, t) =>
                 Merged(h, t, read)[p] = IF Op(h) = "prune" /\ p \in mu[h].new THEN None
                                         ELSE read[p]
        BY <1>1, <3>1, MergedType
      <4>3. Op(h) = "prune" => (p \in Listed(h) <=> p \in mu[h].new)
        BY <3>1 DEF Scoped, Listed
      <4> QED BY <4>1, <4>2, <4>3 DEF Goal
    <3> QED BY <1>1, <2>1, <3>1, <3>2, <3>3 DEF FileBooks, Goal, At
  <2> QED BY <1>1, <1>2, <1>4, <2>1, <2>2, Alone, CommandBooks
<1> QED BY <1>3, <1>7, <1>8, <1>9

LEMMA SaveBooks ==
  ASSUME LInv, NEW h \in Hosts, Save(h)
  PROVE  Even' /\ \A g \in Hosts : Books(g)'
<1>1. /\ IInv /\ TypeOK /\ mu[h].pc = "save" /\ Busy(h) /\ UNCHANGED <<local, remote, time>>
      /\ ~spoiled' => /\ ~spoiled
                      /\ manifest' = [manifest EXCEPT ![mu[h].scope] = mu[h].mem]
  BY DEF LInv, IInv, Save, At, Busy
<1>2. /\ OnlyMu(h)
      /\ mu[h].done = {} /\ mu[h].left = {} => mu'[h] = Off
      /\ mu[h].done # {} \/ mu[h].left # {} =>
           /\ Same(h, {"op", "listed", "left", "done", "todo"})
           /\ mu'[h].pc = IF mu[h].done # {} THEN "record" ELSE "next"
           /\ mu'[h].scope = {} /\ mu'[h].mem = Off.mem
  BY <1>1, SaveMoves
<1>3. ASSUME ~spoiled', NEW s \in Scopes, NEW p \in s
      PROVE  /\ FileBooks(h, s, p) /\ s # {} /\ mu[h].scope \notin mu[h].done
             /\ s = mu[h].scope => manifest'[s][p] = remote'[p]
             /\ s # mu[h].scope => /\ manifest'[s][p] = manifest[s][p]
                                   /\ Moving(h, s, p) <=> s \in mu[h].done
  <2>1. FileBooks(h, s, p) /\ Scoped(h) /\ s # {} /\ p \in Shared
    BY <1>1, <1>3, AtWork
  <2>2. mu[h].scope \in Scopes /\ mu[h].scope \notin mu[h].done
    BY <1>1, <2>1 DEF Scoped, At
  <2>3. /\ manifest'[mu[h].scope] = mu[h].mem
        /\ s # mu[h].scope => manifest'[s] = manifest[s]
    BY <1>1, <1>3, <2>2 DEF TypeOK
  <2>4. s = mu[h].scope => mu[h].mem[p] = remote[p]
    BY <1>1, <2>1 DEF FileBooks, At
  <2>5. s # mu[h].scope => (Moving(h, s, p) <=> s \in mu[h].done)
    BY DEF Moving
  <2> QED BY <1>1, <2>1, <2>2, <2>3, <2>4, <2>5
<1>4. CASE mu[h].done = {} /\ mu[h].left = {}
  <2>1. ~Busy(h)'
    BY <1>2, <1>4, OffScoped
  <2>2. ASSUME ~spoiled', NEW s \in Scopes, NEW p \in s PROVE manifest'[s][p] = remote'[p]
    BY <1>1, <1>3, <1>4, <2>2 DEF FileBooks
  <2> QED BY <1>1, <1>2, <2>1, <2>2, Alone, CommandBooks
<1>5. CASE mu[h].done # {} \/ mu[h].left # {}
  <2>1. /\ mu'[h].pc \in {"record", "next"} /\ Op(h)' = Op(h) /\ Listed(h)' = Listed(h)
        /\ mu'[h].left = mu[h].left /\ mu'[h].scope = {} /\ mu'[h].done = mu[h].done /\ Busy(h)'
    BY <1>2, <1>5 DEF Same, Op, Listed, Busy, At
  <2>2. ASSUME ~spoiled', NEW s \in Scopes, NEW p \in s PROVE FileBooks(h, s, p)'
    <3>1. /\ FileBooks(h, s, p) /\ s # {} /\ mu[h].scope \notin mu[h].done
          /\ s = mu[h].scope => manifest'[s][p] = remote'[p]
          /\ s # mu[h].scope => /\ manifest'[s][p] = manifest[s][p]
                                /\ Moving(h, s, p) <=> s \in mu[h].done
      BY <1>3, <2>2
    <3>2. Moving(h, s, p)' <=> s \in mu[h].done
      BY <2>1, <3>1 DEF Moving, At
    <3>3. Moving(h, s, p)' => Moving(h, s, p)
      BY <3>2 DEF Moving
    <3> QED BY <1>1, <2>1, <3>1, <3>2, <3>3 DEF FileBooks, Goal, At
  <2> QED BY <1>1, <1>2, <2>1, <2>2, Alone, CommandBooks
<1> QED BY <1>4, <1>5

\* The owners spoil the command they disturb; jobs write nothing a manifest names.
LEMMA OutsideBooks ==
  ASSUME LInv, UNCHANGED <<manifest, mu>>, spoiled => spoiled',
         \A p \in Shared : remote'[p] = remote[p],
         \A h \in Hosts : local'[h] = local[h] \/ (Busy(h) => spoiled')
  PROVE  Even' /\ \A g \in Hosts : Books(g)'
<1>1. \A h \in Hosts : Busy(h)' <=> Busy(h)
  BY DEF Busy, At
<1>2. Even'
  BY <1>1, ScopesAreShared DEF LInv, Even
<1>3. ASSUME NEW h \in Hosts, ~spoiled', Busy(h)', NEW s \in Scopes, NEW p \in s
      PROVE  FileBooks(h, s, p)'
  <2>1. FileBooks(h, s, p) /\ p \in Shared /\ local'[h] = local[h]
    BY <1>1, <1>3, AtWork
  <2> QED BY <2>1 DEF FileBooks, Listed, Moving, Goal, Op, At
<1> QED BY <1>2, <1>3 DEF Books

LEMMA BooksNext ==
  ASSUME Datasets = {}
  PROVE  LInv /\ [Next]_vars => LInv'
<1> SUFFICES ASSUME LInv, [Next]_vars PROVE Even' /\ \A g \in Hosts : Books(g)'
  BY InvNext DEF LInv
<1>1. CASE UNCHANGED vars
  BY <1>1, OutsideBooks DEF vars
<1>2. CASE \E h \in Hosts : Start(h)
  BY <1>2, PlanBooks DEF Start, Pushes, Pulls
<1>3. CASE \E h \in Hosts : Step(h)
  BY <1>3, ConfirmBooks, OverBooks, MovedBooks, SaveBooks, BeginBooks, RecordBooks, SendBooks,
     FetchBooks, RemoveBooks DEF Step
<1>4. CASE \E h \in Hosts, p \in Paths : Edit(h, p) \/ Delete(h, p)
  <2>1. PICK h \in Hosts, p \in Paths : Edit(h, p) \/ Delete(h, p)
    BY <1>4
  <2>2. \A g \in Hosts \ {h} : local'[g] = local[g]
    BY <2>1 DEF Edit, Delete, LInv, IInv, TypeOK
  <2> QED BY <2>1, <2>2, OutsideBooks DEF Edit, Delete
<1>5. CASE \E p \in Results : JobWrites(p)
  <2>1. PICK q \in Results : JobWrites(q)
    BY <1>5
  <2>2. \A p \in Shared : remote'[p] = remote[p]
    BY <2>1, SyncAssumption DEF JobWrites, LInv, IInv, TypeOK, Shared, Paths
  <2> QED BY <2>1, <2>2, OutsideBooks DEF JobWrites
<1> QED BY <1>1, <1>2, <1>3, <1>4, <1>5 DEF Next

\* Of tiers that nobody narrows to a subtree, the manifests say exactly what is staged whenever
\* commands have run alone, undisturbed and to the end.  With a subtree this is false.
THEOREM ManifestsAreHonest ==
  ASSUME Datasets = {}
  PROVE  Spec => []ManifestIsHonest
<1>1. LInv => ManifestIsHonest
  <2> SUFFICES ASSUME LInv, ~spoiled, \A h \in Hosts : ~Busy(h)
               PROVE  /\ \A s \in Scopes, p \in Shared : manifest[s][p] \in {None, remote[p]}
                      /\ \A p \in There(Shared) : \E s \in Scopes : manifest[s][p] = remote[p]
    BY DEF ManifestIsHonest
  <2>1. \A s \in Scopes : \A p \in s : manifest[s][p] = remote[p]
    BY DEF LInv, Even
  <2>2. \A s \in Scopes, p \in Shared : manifest[s][p] # None => p \in s
    BY DEF LInv, IInv, OwnFiles
  <2>3. ASSUME NEW p \in There(Shared) PROVE \E s \in Scopes : manifest[s][p] = remote[p]
    <3>1. p \in Sim \/ p \in Raw
      BY DEF There, Shared
    <3>2. Sim \in Scopes /\ Raw \in Scopes
      BY DEF Scopes, Tiers
    <3> QED BY <2>1, <3>1, <3>2
  <2> QED BY <2>1, <2>2, <2>3
<1> QED BY <1>1, InvInit, BooksNext, PTL DEF Spec

=============================================================================
