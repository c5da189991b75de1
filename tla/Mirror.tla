-------------------------------- MODULE Mirror --------------------------------
(***************************************************************************)
(* The mirror sets: groups of roots that share one relative-path namespace *)
(* (internal/mirror/mirror.go).  Archive projects a path into the archive  *)
(* tree, Swap takes a shell to a path's counterpart on the other tier,     *)
(* while runs are started and removed on scratch.                          *)
(***************************************************************************)
EXTENDS Naturals, Sequences, SequencesExt, FiniteSetsExt

CONSTANTS
  Sets,     \* the configured mirror sets: [roots |-> <<permanent, scratch>>, rel |-> ...]
  Tree,     \* the absolute paths considered
  DataDir,  \* the component that stands for the shared-data tier
  Ids       \* job ids

VARIABLES
  cwd,      \* the shell's directory
  exists,   \* the directories that exist
  mtime,    \* the run directories, the latest modified last
  came      \* history: where the last successful swap started

vars == <<cwd, exists, mtime, came>>

\* A component is a case directory's name, a run's (the case and a job id) or another.
Dir(n)     == [case |-> "", run |-> 0, name |-> n]
Case(c)    == [case |-> c, run |-> 0, name |-> ""]
Run(c, id) == [case |-> c, run |-> id, name |-> ""]

Roots == UNION {{[set |-> s, tier |-> i] : i \in DOMAIN s.roots} : s \in Sets}
Root(r) == r.set.roots[r.tier]

\* The longest root that is a prefix wins, over all sets.
Locate(p) ==
  LET under == {r \in Roots : IsPrefix(Root(r), p)} IN
  IF under = {} THEN {}
  ELSE {CHOOSE r \in under : \A q \in under : Len(Root(q)) <= Len(Root(r))}

Rel(p, r) == SubSeq(p, Len(Root(r)) + 1, Len(p))

Classified(c) == c.case # ""

\* Every component has a name, and a run or a case one of its own.
Component(c) == \/ c = Dir(c.name) /\ c.name # ""
                \/ c = Run(c.case, c.run) /\ c.case # ""

\* Where one set's place in the archive lies in another's, nothing directly under the
\* other's roots has its name.
Overlaps(s, t) ==
  LET d == t.rel[Len(s.rel) + 1] IN
  \E p \in Tree, i \in DOMAIN s.roots :
    /\ IsPrefix(s.roots[i], p) /\ Len(p) > Len(s.roots[i])
    /\ LET c == p[Len(s.roots[i]) + 1] IN d \in {c, Dir(c.case)}

MirrorAssumption ==
  /\ \A p \in Tree : p \in Seq(ToSet(p)) /\ \A c \in ToSet(p) : Component(c)
  /\ \A s \in Sets :
       /\ s.rel \in Seq(ToSet(s.rel)) /\ s.roots \in Seq(ToSet(s.roots)) /\ Len(s.roots) <= 2
       /\ \A root \in ToSet(s.roots) : root \in Seq(ToSet(root))
  /\ \A r \in Roots : \A n \in DOMAIN Root(r) : ~Classified(Root(r)[n])
  /\ \A r, q \in Roots : Root(r) = Root(q) => r = q
  /\ \A r, q \in Roots : r.tier = 2 /\ IsPrefix(Root(r), Root(q)) =>
       \E o \in Roots : Root(o) = r.set.roots[1] \o Rel(Root(q), r)
  /\ \A s, t \in Sets :
       s # t /\ IsPrefix(s.rel, t.rel) => Len(s.rel) < Len(t.rel) /\ ~Overlaps(s, t)

\* The first case or run component, 0 if there is none.
Pivot(rel) == SelectInSeq(rel, Classified)

\* Mutant: a run goes where its case goes.
ContainerFlat(rel, i) ==
  SubSeq(rel, 1, i - 1) \o <<Dir(rel[i].case)>> \o SubSeq(rel, i + 1, Len(rel))

\* The container of a case: input for the authored one, a directory for each run.
Container(rel, i) ==
  SubSeq(rel, 1, i - 1) \o <<Dir(rel[i].case), Run("", rel[i].run)>> \o SubSeq(rel, i + 1, Len(rel))

\* The archive path, or none where a guard refuses: data and runs come from scratch, case
\* inputs from the permanent tier.
Archive(p) ==
  UNION {
     LET rel == Rel(p, r)
         dst(q) == r.set.rel \o q
         i == Pivot(rel)
     IN IF Len(r.set.roots) < 2 THEN {dst(rel)}
        ELSE IF Dir(DataDir) \in {rel[n] : n \in DOMAIN rel}
          THEN IF r.tier = 1 THEN {} ELSE {dst(rel)}
        ELSE IF i = 0 THEN {dst(rel)}
        ELSE IF (rel[i].run = 0) # (r.tier = 1) THEN {}
        ELSE {dst(Container(rel, i))}
     : r \in Locate(p)}

-----------------------------------------------------------------------------

\* The runs of a case in a directory of the other tier.
RunsOf(parent, c) ==
  {id \in Ids : Append(parent, Run(c, id)) \in exists}

Latest(parent, c) ==
  LET at(id) == SelectInSeq(mtime, LAMBDA q : q = Append(parent, Run(c, id)))
  IN CHOOSE id \in RunsOf(parent, c) : \A o \in RunsOf(parent, c) : at(o) <= at(id)

\* Mutant: any case's run will do.
SwapAnyRun(p) ==
  {t \in exists : \E r \in Locate(p), q \in Locate(t) : r.set = q.set /\ r.tier # q.tier}

\* A path's counterpart: of a run its case, of a case on the permanent tier its newest run,
\* or the bare copy; it must be there.
Swap(p) ==
  {t \in UNION {
     LET rel   == Rel(p, r)
         i     == Pivot(rel)
         other == r.set.roots[3 - r.tier]
         up    == other \o SubSeq(rel, 1, i - 1)
         at(c) == Append(up, c) \o SubSeq(rel, i + 1, Len(rel))
     IN IF Len(r.set.roots) < 2 THEN {}
        ELSE IF i = 0 \/ (rel[i].run = 0 /\ r.tier = 2) THEN {other \o rel}
        ELSE IF rel[i].run # 0 THEN {at(Case(rel[i].case))}
        ELSE IF RunsOf(up, rel[i].case) # {}
                /\ at(Run(rel[i].case, Latest(up, rel[i].case))) \in exists
          THEN {at(Run(rel[i].case, Latest(up, rel[i].case)))}
          ELSE {at(rel[i])}
     : r \in Locate(p)} : t \in exists}

Init ==
  /\ exists \in {t \in SUBSET Tree : \A p \in t : \A n \in 1 .. Len(p) - 1 : SubSeq(p, 1, n) \in t}
  /\ cwd \in exists
  /\ mtime = SetToSeq({p \in exists : Last(p).run # 0})
  /\ came = <<>>

Cd ==
  /\ \E t \in Swap(cwd) : cwd' = t /\ came' = cwd
  /\ UNCHANGED <<exists, mtime>>

\* mu job prep makes a run directory, a job's own files touch one.
Touch(p) ==
  /\ p \in Tree /\ Last(p).run # 0 /\ Front(p) \in exists
  /\ exists' = exists \cup {p}
  /\ mtime' = Append(Remove(mtime, p), p)
  /\ UNCHANGED <<cwd, came>>

Next == Cd \/ \E p \in Tree : Touch(p)

Spec == Init /\ [][Next]_vars

-----------------------------------------------------------------------------

TypeOK == cwd \in exists /\ exists \subseteq Tree /\ ToSet(mtime) = {p \in exists : Last(p).run # 0}

\* Two places whose material has a provenance class (a case's inputs, a run, shared data)
\* never project to one archive path, and each class has one tier it may come from, also
\* where one set's root lies under another's (mirror.go: "each class archives only from its
\* authoritative tier").
Cased(p) == \E r \in Locate(p) : \E n \in DOMAIN Rel(p, r) :
              Classified(Rel(p, r)[n]) \/ Rel(p, r)[n] = Dir(DataDir)

ArchiveKeepsApart ==
  Cased(cwd) => LET here == Archive(cwd) IN
                \A p \in exists : Cased(p) /\ Archive(p) \cap here # {} => p = cwd

\* Swapping never leaves the case, and swapping to and fro from the permanent tier, runs
\* starting or not, ends where it began, unless that was a stray copy of a run (mirror.go: "a
\* run dir maps to the case dir; a case dir maps to its NEWEST run").
CaseOf(p) == LET n == SelectInSeq(p, Classified) IN IF n = 0 THEN "" ELSE p[n].case
OfRun(p)  == LET n == SelectInSeq(p, Classified) IN n # 0 /\ p[n].run # 0
Permanent(p) == \E r \in Locate(p) : r.tier = 1

SwapKeepsCase ==
  [][cwd' # cwd => /\ CaseOf(cwd') = CaseOf(cwd)
                   /\ came # <<>> /\ Permanent(came) /\ ~OfRun(came) => cwd' = came]_vars
=============================================================================
