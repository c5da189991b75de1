---------------------------- MODULE ToolkitProofs ----------------------------
(***************************************************************************)
(* What the proofs about the parts say of the toolkit: a step of the       *)
(* toolkit is one of one part, so it is a step or a stutter of each part.  *)
(* JobPrepProofs has the proofs about JobPrep, ScreenProofs and            *)
(* CommandProofs those about the instances.                                *)
(***************************************************************************)
EXTENDS Toolkit, ScreenProofs, CommandProofs

\* The picker alone, of all that happens.
LEMMA PickAlone == ToolkitSpec => Pick!Spec
<1>1. ToolkitInit => Pick!Init
  BY DEF ToolkitInit
<1>2. [ToolkitNext]_parts => [Pick!Next]_Pick!vars
  BY DEF ToolkitNext, parts, pick, Pick!vars
<1> QED BY <1>1, <1>2, PTL DEF ToolkitSpec, Pick!Spec

\* The submit form alone.
LEMMA FormAlone == ToolkitSpec => Form!Spec
<1>1. ToolkitInit => Form!Init
  BY DEF ToolkitInit
<1>2. [ToolkitNext]_parts => [Form!Next]_Form!vars
  BY DEF ToolkitNext, parts, forms, Form!vars
<1> QED BY <1>1, <1>2, PTL DEF ToolkitSpec, Form!Spec

\* The fan-out alone.
LEMMA FanAlone == ToolkitSpec => Fan!Spec
<1>1. ToolkitInit => Fan!Init
  BY DEF ToolkitInit
<1>2. [ToolkitNext]_parts => [Fan!Next]_Fan!vars
  BY DEF ToolkitNext, parts, fan, Fan!vars
<1> QED BY <1>1, <1>2, PTL DEF ToolkitSpec, Fan!Spec

\* The edit panel alone.
LEMMA PanelAlone == ToolkitSpec => Panels!Spec
<1>1. ToolkitInit => Panels!Init
  BY DEF ToolkitInit
<1>2. [ToolkitNext]_parts => [Panels!Next]_Panels!vars
  BY DEF ToolkitNext, parts, panel, Panels!vars
<1> QED BY <1>1, <1>2, PTL DEF ToolkitSpec, Panels!Spec

\* The harness alone.
LEMMA ShellAlone == ToolkitSpec => Shell!Spec
<1>1. ToolkitInit => Shell!Init
  BY DEF ToolkitInit
<1>2. [ToolkitNext]_parts => [Shell!Next /\ UNCHANGED Ragged]_(Shell!vars)
  BY DEF ToolkitNext, parts, shell, Shell!vars
<1> QED BY <1>1, <1>2, PTL DEF ToolkitSpec, Shell!Spec

\* The sidecar alone.
LEMMA WatchAlone == ToolkitSpec => Watch!Spec
<1>1. ToolkitInit => Watch!Init
  BY DEF ToolkitInit
<1>2. [ToolkitNext]_parts => [Watch!Next]_Watch!vars
  BY DEF ToolkitNext, parts, watch, Watch!vars
<1> QED BY <1>1, <1>2, PTL DEF ToolkitSpec, Watch!Spec

\* The sync of configurations alone.
LEMMA SyncAlone == ToolkitSpec => Config!Spec
<1>1. ToolkitInit => Config!Init
  BY DEF ToolkitInit
<1>2. [ToolkitNext]_parts => [Config!Next]_Config!vars
  BY DEF ToolkitNext, parts, config, Config!vars
<1> QED BY <1>1, <1>2, PTL DEF ToolkitSpec, Config!Spec

\* Project submits alone.
LEMMA ProjectAlone == ToolkitSpec => Project!Spec
<1>1. ToolkitInit => Project!Init
  BY DEF ToolkitInit
<1>2. [ToolkitNext]_parts => [Project!Next]_Project!vars
  BY DEF ToolkitNext, parts, project, Project!vars
<1> QED BY <1>1, <1>2, PTL DEF ToolkitSpec, Project!Spec

-----------------------------------------------------------------------------

\* The picker's cursor stays on the screen, but under a page squeezed by the open box, however
\* rows come and go (internal/render/select.go, clampScroll).
THEOREM PickerIsDrawn == ToolkitSpec => []CursorIsDrawn
<1>1. Pick!Spec => [](Pick!TypeOK /\ Pick!CursorIsDrawn /\ Pick!CancelIsMeant)
  BY PickIsMeant, ScreenAssumption
<1>2. Pick!CursorIsDrawn => CursorIsDrawn
  BY DEF CursorIsDrawn
<1> QED BY <1>1, <1>2, PickAlone, PTL

\* A cancel reaches marked jobs only and accounts for each of them, whatever the queue does
\* meanwhile and whichever cluster fails (internal/cli/mdel.go, cancelJobsAcross).
THEOREM CancelsAreMeant == ToolkitSpec => []CancelIsMeant
<1>1. Pick!Spec => [](Pick!TypeOK /\ Pick!CursorIsDrawn /\ Pick!CancelIsMeant)
  BY PickIsMeant, ScreenAssumption
<1>2. Pick!CancelIsMeant => CancelIsMeant
  BY DEF CancelIsMeant
<1> QED BY <1>1, <1>2, PickAlone, PTL

\* No submission asks beyond the limits of the list it was checked against, by flags or by form
\* (internal/cli/walltime.go, clampWalltime; internal/cli/jobform.go, walltimeField).
THEOREM SubmitsFit == ToolkitSpec => []SentFits
<1>1. Form!Spec => [](Form!SentFits /\ Form!FormAgreesWithFlags)
  BY FormAlwaysAgrees, ScreenAssumption
<1>2. Form!SentFits => SentFits
  BY DEF SentFits
<1> QED BY <1>1, <1>2, FormAlone, PTL

\* The form left as it opens submits what the flags would (internal/cli/jobform.go, subForm).
THEOREM FormsAgree == ToolkitSpec => []FormAgreesWithFlags
<1>1. Form!Spec => [](Form!SentFits /\ Form!FormAgreesWithFlags)
  BY FormAlwaysAgrees, ScreenAssumption
<1>2. Form!FormAgreesWithFlags => FormAgreesWithFlags
  BY DEF FormAgreesWithFlags
<1> QED BY <1>1, <1>2, FormAlone, PTL

\* Every target comes back once, in the order of the targets, each row with the progress of its
\* own job, and -e asks every configured system (internal/cli/collate.go, collateFan,
\* mergeResults, allSystemsScope).
THEOREM TablesAreWhole == ToolkitSpec => []TableIsWhole
<1>1. Fan!Spec => [](Fan!TypeOK /\ Fan!FanReturns /\ Fan!TableIsWhole)
  BY FanIsWhole, ScreenAssumption
<1>2. Fan!TableIsWhole => TableIsWhole
  BY DEF TableIsWhole
<1> QED BY <1>1, <1>2, FanAlone, PTL

\* The collator never waits for a goroutine that is gone (internal/cli/collate.go, collateFan).
THEOREM FansReturn == ToolkitSpec => []FanReturns
<1>1. Fan!Spec => [](Fan!TypeOK /\ Fan!FanReturns /\ Fan!TableIsWhole)
  BY FanIsWhole, ScreenAssumption
<1>2. Fan!FanReturns => FanReturns
  BY DEF FanReturns
<1> QED BY <1>1, <1>2, FanAlone, PTL

\* The edit panel's cursor is on the screen after every key, fold, complaint and resize
\* (internal/render/editor.go, clampScroll).
THEOREM PanelCursorIsDrawn == ToolkitSpec => []CursorOnScreen
<1>1. Panels!Spec => [](Panels!TypeOK /\ Panels!CursorOnScreen) /\ Panels!SetChangesAsToggled
  BY PanelIsDrawn, ScreenAssumption
<1>2. Panels!CursorOnScreen => CursorOnScreen
  BY DEF CursorOnScreen
<1> QED BY <1>1, <1>2, PanelAlone, PTL

\* Closing a set's sub-editor changes the members that were toggled and no others
\* (internal/render/collection.go, newCollEditor, literal).
THEOREM SetsChangeAsToggled == ToolkitSpec => SetChangesAsToggled
<1>1. Panels!Spec => [](Panels!TypeOK /\ Panels!CursorOnScreen) /\ Panels!SetChangesAsToggled
  BY PanelIsDrawn, ScreenAssumption
<1> QED BY <1>1, PanelAlone DEF SetChangesAsToggled

\* The exit code a run passes on is its own command's, or of the list that an open quote and its
\* own made together, whoever else drives the pane (internal/cli/jobharness.go).
THEOREM RunsGetOwnCode == ToolkitSpec => []RcIsOwn
<1>1. Shell!Spec => [](Shell!TypeOK /\ Shell!RcIsOwn /\ Shell!SliceIsOwn)
  BY ShellIsOwn, ScreenAssumption
<1>2. Shell!RcIsOwn => RcIsOwn
  BY DEF RcIsOwn
<1> QED BY <1>1, <1>2, ShellAlone, PTL

\* Of a command typed at a clean prompt a run prints the output and no other's, and a directory
\* it pins is the one the shell answered from, whatever others type ahead meanwhile
\* (internal/cli/jobharness.go, harnessSlice, harnessPanePwd).
THEOREM RunsGetOwnOutput == ToolkitSpec => []SliceIsOwn
<1>1. Shell!Spec => [](Shell!TypeOK /\ Shell!RcIsOwn /\ Shell!SliceIsOwn)
  BY ShellIsOwn, ScreenAssumption
<1>2. Shell!SliceIsOwn => SliceIsOwn
  BY DEF SliceIsOwn
<1> QED BY <1>1, <1>2, ShellAlone, PTL

\* The sidecar's log is one the abstract detector writes: a stall is called when it is there,
\* and once (internal/job/watch.go, Watch).
THEOREM StallsAreCalled == ToolkitSpec => StallsAreEarned
<1>1. Watch!Spec => Watch!StallsAreEarned
  BY WatchDetectsStalls, WatchAssumption
<1> QED BY <1>1, WatchAlone DEF StallsAreEarned

\* No sync carries one machine's own settings to another (internal/cli/sync.go, assemble).
THEOREM SeamsTravelNowhere == ToolkitSpec => SeamsStayHome
BY SeamsAreKept, SyncAlone DEF SeamsStayHome

\* No sync without --force loses work of either machine, one with it puts it aside first
\* (internal/cli/dotfiles.go).
THEOREM SyncLosesNothing == ToolkitSpec => WorkIsKept
BY NoWorkIsLost, SyncAlone DEF WorkIsKept

\* A job whose record is clean ran the commit the record names (internal/cli/project.go, Stamp).
THEOREM CommitsAreRun == ToolkitSpec => []RecordedCommitIsRun
<1>1. Project!RecordedCommitIsRun => RecordedCommitIsRun
  BY DEF RecordedCommitIsRun
<1> QED BY <1>1, ProjectAlone, CleanRunsAreOfTheirCommit, PTL

-----------------------------------------------------------------------------
(* The mirror sets.                                                        *)

\* What the paths are made of, here and in the archive.
Pieces       == UNION {Mirrors!ToSet(p) : p \in MirrorTree}
ArchiveMarks == {Mirrors!Dir(c.case) : c \in Pieces} \cup {Mirrors!Run("", c.run) : c \in Pieces}
RelParts     == UNION {Mirrors!ToSet(s.rel) : s \in MirrorSets}
RootParts    == UNION {Mirrors!ToSet(Mirrors!Root(r)) : r \in Mirrors!Roots}
Made         == Pieces \cup ArchiveMarks \cup RelParts \cup RootParts

\* A path of the tree, and a root.
LEMMA PathsAre ==
  ASSUME Mirrors!MirrorAssumption, NEW p \in MirrorTree
  PROVE  p \in Seq(Pieces) /\ \A c \in Pieces : Mirrors!Component(c)
<1>1. p \in Seq(Mirrors!ToSet(p))
  BY DEF Mirrors!MirrorAssumption
<1>2. Mirrors!ToSet(p) \subseteq Pieces
  BY DEF Pieces
<1>3. p \in Seq(Pieces)
  BY <1>1, <1>2
<1>4. \A c \in Pieces : Mirrors!Component(c)
  BY DEF Pieces, Mirrors!MirrorAssumption
<1> QED BY <1>3, <1>4

\* A root is one of the one or two of a configured set.
LEMMA RootsAre ==
  ASSUME Mirrors!MirrorAssumption, NEW r \in Mirrors!Roots
  PROVE  /\ r.set \in MirrorSets /\ r.tier \in DOMAIN r.set.roots
         /\ r = [set |-> r.set, tier |-> r.tier]
         /\ Len(r.set.roots) \in 0 .. 2 /\ DOMAIN r.set.roots = 1 .. Len(r.set.roots)
         /\ Mirrors!Root(r) \in Seq(Mirrors!ToSet(Mirrors!Root(r)))
         /\ Len(Mirrors!Root(r)) \in Nat
         /\ r.set.rel \in Seq(Made)
         /\ \A i \in DOMAIN r.set.roots : /\ r.set.roots[i] \in Seq(Made)
                                         /\ [set |-> r.set, tier |-> i] \in Mirrors!Roots
         /\ Mirrors!Root(r) = r.set.roots[r.tier]
<1>1. PICK s \in MirrorSets : \E i \in DOMAIN s.roots : r = [set |-> s, tier |-> i]
  BY DEF Mirrors!Roots
<1>2. PICK i \in DOMAIN s.roots : r = [set |-> s, tier |-> i]
  BY <1>1
<1>3. r.set = s /\ r.tier = i /\ r = [set |-> r.set, tier |-> r.tier]
  BY <1>2
<1>4. /\ s.rel \in Seq(Mirrors!ToSet(s.rel)) /\ s.roots \in Seq(Mirrors!ToSet(s.roots))
      /\ Len(s.roots) <= 2
      /\ \A root \in Mirrors!ToSet(s.roots) : root \in Seq(Mirrors!ToSet(root))
  BY DEF Mirrors!MirrorAssumption
<1>5. Len(s.roots) \in 0 .. 2 /\ DOMAIN s.roots = 1 .. Len(s.roots)
  <2>1. Len(s.roots) \in Nat /\ DOMAIN s.roots = 1 .. Len(s.roots)
    BY <1>4, LenProperties
  <2>2. Len(s.roots) <= 2
    BY <1>4
  <2>3. Len(s.roots) \in 0 .. 2
    <3> DEFINE m == Len(s.roots)
    <3>1. m \in Nat /\ m <= 2
      BY <2>1, <2>2
    <3> HIDE DEF m
    <3>2. m \in 0 .. 2
      BY <3>1
    <3> QED BY <3>2 DEF m
  <2> QED BY <2>1, <2>3
<1>6. s.roots[i] \in Mirrors!ToSet(s.roots)
  BY DEF Mirrors!ToSet
<1>7. s.roots[i] \in Seq(Mirrors!ToSet(s.roots[i])) /\ Len(s.roots[i]) \in Nat
  BY <1>4, <1>6, LenProperties
<1>8. Mirrors!ToSet(s.rel) \subseteq Made
  BY DEF Made, RelParts
<1>9. s.rel \in Seq(Made)
  BY <1>4, <1>8
<1>10. \A k \in DOMAIN s.roots : [set |-> s, tier |-> k] \in Mirrors!Roots
  BY DEF Mirrors!Roots
<1>11. ASSUME NEW k \in DOMAIN s.roots PROVE s.roots[k] \in Seq(Made)
  <2>1. s.roots[k] \in Seq(Mirrors!ToSet(s.roots[k]))
    BY <1>4 DEF Mirrors!ToSet
  <2>2. Mirrors!ToSet(s.roots[k]) \subseteq Made
    <3>1. Mirrors!Root([set |-> s, tier |-> k]) = s.roots[k]
      BY DEF Mirrors!Root
    <3>2. \A q \in Mirrors!Roots : Mirrors!ToSet(Mirrors!Root(q)) \subseteq Made
      <4> SUFFICES ASSUME NEW q \in Mirrors!Roots, NEW e \in Mirrors!ToSet(Mirrors!Root(q))
                   PROVE  e \in Made
        OBVIOUS
      <4>1. e \in RootParts
        BY DEF RootParts
      <4> QED BY <4>1 DEF Made
    <3> QED BY <1>10, <3>1, <3>2
  <2> QED BY <2>1, <2>2
<1> QED BY <1>2, <1>3, <1>5, <1>7, <1>9, <1>10, <1>11 DEF Mirrors!Root

\* A path is located under one root, the longest.
LEMMA LocatedIs ==
  ASSUME Mirrors!MirrorAssumption, NEW p \in MirrorTree, NEW r \in Mirrors!Locate(p)
  PROVE  /\ r \in Mirrors!Roots /\ Mirrors!IsPrefix(Mirrors!Root(r), p)
         /\ Mirrors!Locate(p) = {r}
         /\ \A o \in Mirrors!Roots :
              Mirrors!IsPrefix(Mirrors!Root(o), p) => Len(Mirrors!Root(o)) <= Len(Mirrors!Root(r))
<1> DEFINE under == {q \in Mirrors!Roots : Mirrors!IsPrefix(Mirrors!Root(q), p)}
           lens  == {Len(Mirrors!Root(q)) : q \in under}
<1>1. under # {} /\ r = CHOOSE q \in under : \A o \in under : Len(Mirrors!Root(o)) <= Len(Mirrors!Root(q))
  BY DEF Mirrors!Locate
<1>2. Mirrors!Locate(p) = {r}
  BY <1>1 DEF Mirrors!Locate
<1>3. Len(p) \in Nat
  BY PathsAre
<1>4. lens \in SUBSET (0 .. Len(p))
  BY <1>3, RootsAre DEF Mirrors!IsPrefix
<1>5. lens \in SUBSET Int /\ IsFiniteSet(lens) /\ lens # {}
  <2>1. IsFiniteSet(0 .. Len(p))
    BY <1>3, FS_Interval
  <2>2. IsFiniteSet(lens)
    BY <1>4, <2>1, FS_Subset
  <2>3. lens \in SUBSET Int
    BY <1>3, <1>4
  <2> QED BY <1>1, <2>2, <2>3
<1>6. PICK m \in lens : \A l \in lens : l <= m
  <2> HIDE DEF lens
  <2> QED BY <1>5, EndsAre
<1>7. PICK q \in under : Len(Mirrors!Root(q)) = m
  BY <1>6
<1>8. r \in under /\ \A o \in under : Len(Mirrors!Root(o)) <= Len(Mirrors!Root(r))
  BY <1>1, <1>6, <1>7
<1> QED BY <1>2, <1>8

\* What is left of a path below its root.
LEMMA RelIs ==
  ASSUME Mirrors!MirrorAssumption, NEW p \in MirrorTree, NEW r \in Mirrors!Locate(p)
  PROVE  LET n == Len(Mirrors!Root(r))
             rel == Mirrors!Rel(p, r)
         IN /\ n \in Nat /\ Len(p) \in Nat /\ n <= Len(p)
            /\ \A k \in 1 .. n : p[k] = Mirrors!Root(r)[k]
            /\ rel \in Seq(Pieces) /\ Len(rel) = Len(p) - n
            /\ \A k \in 1 .. Len(rel) : rel[k] = p[n + k]
<1> DEFINE n == Len(Mirrors!Root(r))
           rel == Mirrors!Rel(p, r)
<1>1. p \in Seq(Pieces) /\ Len(p) \in Nat
  BY PathsAre, LenProperties
<1>2. /\ Mirrors!Root(r) \in Seq(Mirrors!ToSet(Mirrors!Root(r))) /\ n \in Nat
      /\ n <= Len(p) /\ SubSeq(Mirrors!Root(r), 1, n) = SubSeq(p, 1, n)
  BY LocatedIs, RootsAre DEF Mirrors!IsPrefix
<1>3. ASSUME NEW k \in 1 .. n PROVE p[k] = Mirrors!Root(r)[k]
  <2>1. SubSeq(p, 1, n)[k] = p[k]
    BY <1>1, <1>2
  <2>2. SubSeq(Mirrors!Root(r), 1, n)[k] = Mirrors!Root(r)[k]
    BY <1>2
  <2> QED BY <1>2, <2>1, <2>2
<1>4. rel = SubSeq(p, n + 1, Len(p))
  BY DEF Mirrors!Rel
<1>5. rel \in Seq(Pieces) /\ Len(rel) = Len(p) - n
  BY <1>1, <1>2, <1>4
<1>6. \A k \in 1 .. Len(rel) : rel[k] = p[n + k]
  BY <1>1, <1>2, <1>4, <1>5
<1> QED BY <1>1, <1>2, <1>3, <1>5, <1>6

\* A path is known by its root and what is below.
LEMMA PathIs ==
  ASSUME Mirrors!MirrorAssumption, NEW p \in MirrorTree, NEW q \in MirrorTree,
         NEW r \in Mirrors!Locate(p), r \in Mirrors!Locate(q),
         Mirrors!Rel(p, r) = Mirrors!Rel(q, r)
  PROVE  p = q
<1> DEFINE n == Len(Mirrors!Root(r))
           rel == Mirrors!Rel(p, r)
<1>1. /\ n \in Nat /\ Len(p) \in Nat /\ n <= Len(p)
      /\ \A k \in 1 .. n : p[k] = Mirrors!Root(r)[k]
      /\ Len(rel) = Len(p) - n /\ \A k \in 1 .. Len(rel) : rel[k] = p[n + k]
  BY RelIs
<1>2. /\ Len(q) \in Nat /\ n <= Len(q)
      /\ \A k \in 1 .. n : q[k] = Mirrors!Root(r)[k]
      /\ Len(rel) = Len(q) - n /\ \A k \in 1 .. Len(rel) : rel[k] = q[n + k]
  BY RelIs
<1>3. p \in Seq(Pieces) /\ q \in Seq(Pieces)
  BY PathsAre
<1> HIDE DEF n, rel
<1>4. Len(p) = Len(q)
  BY <1>1, <1>2
<1>5. ASSUME NEW k \in 1 .. Len(p) PROVE p[k] = q[k]
  <2>1. CASE k <= n
    BY <1>1, <1>2, <2>1
  <2>2. CASE k > n
    <3>1. k - n \in 1 .. Len(rel) /\ n + (k - n) = k
      BY <1>1, <2>2
    <3> QED BY <1>1, <1>2, <3>1
  <2> QED BY <1>1, <2>1, <2>2
<1> QED BY <1>3, <1>4, <1>5, SeqEqual

\* The pivot is a case's or a run's component, if there is any.
LEMMA PivotIs ==
  ASSUME NEW S, NEW rel \in Seq(S)
  PROVE  \/ /\ Mirrors!Pivot(rel) \in 1 .. Len(rel)
            /\ Mirrors!Classified(rel[Mirrors!Pivot(rel)])
            /\ \A k \in 1 .. Len(rel) : Mirrors!Classified(rel[k]) => Mirrors!Pivot(rel) <= k
         \/ Mirrors!Pivot(rel) = 0 /\ \A k \in 1 .. Len(rel) : ~Mirrors!Classified(rel[k])
<1> DEFINE I == {k \in 1 .. Len(rel) : Mirrors!Classified(rel[k])}
<1>1. Mirrors!Pivot(rel) = IF I # {} THEN Mirrors!Min(I) ELSE 0
  BY DEF Mirrors!Pivot, Mirrors!SelectInSeq
<1>2. I # {} => Mirrors!Min(I) \in I /\ \A k \in I : Mirrors!Min(I) <= k
  <2> SUFFICES ASSUME I # {} PROVE Mirrors!Min(I) \in I /\ \A k \in I : Mirrors!Min(I) <= k
    OBVIOUS
  <2>1. Len(rel) \in Nat
    BY LenProperties
  <2>2. IsFiniteSet(1 .. Len(rel))
    BY <2>1, FS_Interval
  <2>3. I \in SUBSET (1 .. Len(rel))
    OBVIOUS
  <2>4. IsFiniteSet(I)
    BY <2>2, <2>3, FS_Subset
  <2>5. I \in SUBSET Int
    BY <2>1, <2>3
  <2> HIDE DEF I
  <2>6. PICK m \in I : \A k \in I : m <= k
    BY <2>4, <2>5, EndsAre
  <2> QED BY <2>6 DEF Mirrors!Min
<1> QED BY <1>1, <1>2

\* The container in the archive: the path with two components for the pivot.
LEMMA ContainerIs ==
  ASSUME NEW rel \in Seq(Pieces), NEW i \in 1 .. Len(rel)
  PROVE  LET x == Mirrors!Container(rel, i)
         IN /\ x \in Seq(Made) /\ Len(x) = Len(rel) + 1
            /\ \A k \in 1 .. i - 1 : x[k] = rel[k]
            /\ x[i] = Mirrors!Dir(rel[i].case) /\ x[i + 1] = Mirrors!Run("", rel[i].run)
            /\ \A k \in i + 2 .. Len(x) : x[k] = rel[k - 1]
<1> DEFINE d == Mirrors!Dir(rel[i].case)
           m == Mirrors!Run("", rel[i].run)
           u == SubSeq(rel, 1, i - 1)
           v == SubSeq(rel, i + 1, Len(rel))
<1>1. Len(rel) \in Nat /\ rel[i] \in Pieces /\ rel \in Seq(Made) /\ i \in Nat
  <2>1. Pieces \subseteq Made
    BY DEF Made
  <2> QED BY <2>1, LenProperties
<1>2. d \in Made /\ m \in Made
  BY <1>1 DEF Made, ArchiveMarks
<1>3. Mirrors!Container(rel, i) = (u \o <<d, m>>) \o v
  BY DEF Mirrors!Container
<1>4. u \in Seq(Made) /\ Len(u) = i - 1 /\ \A k \in 1 .. i - 1 : u[k] = rel[k]
  BY <1>1
<1>5. /\ v \in Seq(Made) /\ Len(v) = Len(rel) - i
      /\ \A k \in 1 .. Len(rel) - i : v[k] = rel[i + k]
  BY <1>1
<1> HIDE DEF d, m, u, v
<1>6. <<d, m>> \in Seq(Made) /\ Len(<<d, m>>) = 2 /\ <<d, m>>[1] = d /\ <<d, m>>[2] = m
  BY <1>2
<1> DEFINE w == u \o <<d, m>>
<1>7. /\ w \in Seq(Made) /\ Len(w) = i + 1 /\ w[i] = d /\ w[i + 1] = m
      /\ \A k \in 1 .. i - 1 : w[k] = rel[k]
  BY <1>1, <1>4, <1>6
<1> HIDE DEF w
<1> DEFINE x == w \o v
<1>8. x \in Seq(Made) /\ Len(x) = Len(rel) + 1
  <2>1. x \in Seq(Made) /\ Len(x) = Len(w) + Len(v)
    BY <1>5, <1>7, ConcatProperties
  <2> QED BY <1>1, <1>5, <1>7, <2>1
<1>9. \A k \in 1 .. i + 1 : x[k] = w[k]
  BY <1>1, <1>5, <1>7
<1>10. \A k \in i + 2 .. Len(x) : x[k] = rel[k - 1]
  <2> SUFFICES ASSUME NEW k \in i + 2 .. Len(x) PROVE x[k] = rel[k - 1]
    OBVIOUS
  <2>1. k \in Nat /\ k > Len(w) /\ k - (i + 1) \in 1 .. Len(rel) - i /\ i + (k - (i + 1)) = k - 1
    BY <1>1, <1>7, <1>8
  <2>2. x[k] = v[k - (i + 1)]
    BY <1>1, <1>5, <1>7, <1>8, <2>1
  <2> QED BY <1>5, <2>1, <2>2
<1>11. Mirrors!Container(rel, i) = x
  BY <1>3 DEF w
<1>12. /\ x[i] = d /\ x[i + 1] = m /\ \A k \in 1 .. i - 1 : x[k] = rel[k]
  BY <1>1, <1>7, <1>9
<1> QED BY <1>8, <1>10, <1>11, <1>12 DEF d, m

\* No component of a path is the mark of a container.
LEMMA MarksAreApart ==
  ASSUME Mirrors!MirrorAssumption, NEW n
  PROVE  Mirrors!Run("", n) \notin Pieces
<1> SUFFICES ASSUME Mirrors!Run("", n) \in Pieces PROVE FALSE
  OBVIOUS
<1>1. Mirrors!Component(Mirrors!Run("", n))
  BY DEF Pieces, Mirrors!MirrorAssumption
<1> QED BY <1>1 DEF Mirrors!Component, Mirrors!Run, Mirrors!Dir

\* So no path is the container of another, and a container is of one path.
LEMMA ContainersAreApart ==
  ASSUME Mirrors!MirrorAssumption, NEW rel \in Seq(Pieces), NEW other \in Seq(Pieces),
         NEW i \in 1 .. Len(rel)
  PROVE  /\ other # Mirrors!Container(rel, i)
         /\ \A j \in 1 .. Len(other) :
              /\ Mirrors!Classified(rel[i]) /\ Mirrors!Classified(other[j])
              /\ Mirrors!Container(rel, i) = Mirrors!Container(other, j)
              => i = j /\ rel = other
<1> DEFINE x == Mirrors!Container(rel, i)
<1>1. /\ x \in Seq(Made) /\ Len(x) = Len(rel) + 1
      /\ \A k \in 1 .. i - 1 : x[k] = rel[k]
      /\ x[i] = Mirrors!Dir(rel[i].case) /\ x[i + 1] = Mirrors!Run("", rel[i].run)
      /\ \A k \in i + 2 .. Len(x) : x[k] = rel[k - 1]
  BY ContainerIs
<1>2. Len(rel) \in Nat /\ Len(other) \in Nat /\ i \in Nat /\ i + 1 \in 1 .. Len(x)
  <2>1. Len(rel) \in Nat /\ Len(other) \in Nat
    BY LenProperties
  <2>2. i \in Nat /\ i + 1 \in 1 .. Len(rel) + 1
    BY <2>1
  <2> QED BY <1>1, <2>1, <2>2
<1> HIDE DEF x
<1>3. x[i + 1] \notin Pieces
  BY <1>1, MarksAreApart
<1>4. other # x
  <2> SUFFICES ASSUME other = x PROVE FALSE
    OBVIOUS
  <2>1. other[i + 1] \in Pieces
    BY <1>2, ElementOfSeq
  <2> QED BY <1>3, <2>1
<1>5. ASSUME NEW j \in 1 .. Len(other), Mirrors!Classified(rel[i]), Mirrors!Classified(other[j]),
             x = Mirrors!Container(other, j)
      PROVE  i = j /\ rel = other
  <2>1. /\ Len(x) = Len(other) + 1
        /\ \A k \in 1 .. j - 1 : x[k] = other[k]
        /\ x[j] = Mirrors!Dir(other[j].case) /\ x[j + 1] = Mirrors!Run("", other[j].run)
        /\ \A k \in j + 2 .. Len(x) : x[k] = other[k - 1]
    BY <1>5, ContainerIs
  <2>2. j \in Nat /\ Len(rel) = Len(other)
    <3> DEFINE a == Len(rel)
               b == Len(other)
    <3>1. a \in Nat /\ b \in Nat /\ a + 1 = b + 1 /\ j \in 1 .. b
      BY <1>1, <1>2, <2>1
    <3> HIDE DEF a, b
    <3>2. a = b /\ j \in Nat
      BY <3>1
    <3> QED BY <3>2 DEF a, b
  <2>3. \A k \in 1 .. Len(other) : other[k] \in Pieces /\ rel[k] \in Pieces
    BY <2>2, ElementOfSeq
  <2>4. ~(i + 1 <= j - 1)
    <3> SUFFICES ASSUME i + 1 <= j - 1 PROVE FALSE
      OBVIOUS
    <3>1. i + 1 \in 1 .. j - 1 /\ i + 1 \in 1 .. Len(other)
      BY <1>2, <2>2
    <3>2. x[i + 1] = other[i + 1] /\ other[i + 1] \in Pieces
      BY <2>1, <2>3, <3>1
    <3> QED BY <1>3, <3>2
  <2>5. i + 1 # j
    <3> SUFFICES ASSUME i + 1 = j PROVE FALSE
      OBVIOUS
    <3>1. Mirrors!Run("", rel[i].run) = Mirrors!Dir(other[j].case)
      BY <1>1, <2>1
    <3>2. other[j].case = ""
      BY <3>1 DEF Mirrors!Run, Mirrors!Dir
    <3> QED BY <1>5, <3>2 DEF Mirrors!Classified
  <2>6. ~(i + 1 >= j + 2)
    <3> SUFFICES ASSUME i + 1 >= j + 2 PROVE FALSE
      OBVIOUS
    <3>1. i + 1 \in j + 2 .. Len(x) /\ (i + 1) - 1 = i
      BY <1>2, <2>2
    <3>2. x[i + 1] = other[i]
      BY <2>1, <3>1
    <3>3. other[i] \in Pieces
      BY <2>2, <2>3
    <3> QED BY <1>3, <3>2, <3>3
  <2>7. i = j
    BY <1>2, <2>2, <2>4, <2>5, <2>6
  <2>8. rel[i] = other[i]
    <3>1. rel[i].case = other[i].case
      <4>1. Mirrors!Dir(rel[i].case) = Mirrors!Dir(other[i].case)
        BY <1>1, <2>1, <2>7
      <4>2. \A m, n : Mirrors!Dir(m) = Mirrors!Dir(n) => m = n
        BY DEF Mirrors!Dir
      <4> QED BY <4>1, <4>2
    <3>2. rel[i].run = other[i].run
      <4>1. Mirrors!Run("", rel[i].run) = Mirrors!Run("", other[i].run)
        BY <1>1, <2>1, <2>7
      <4>2. \A m, n : Mirrors!Run("", m) = Mirrors!Run("", n) => m = n
        BY DEF Mirrors!Run
      <4> QED BY <4>1, <4>2
    <3>3. Mirrors!Component(rel[i]) /\ Mirrors!Component(other[i])
      BY <2>2, <2>3 DEF Pieces, Mirrors!MirrorAssumption
    <3>4. ASSUME NEW c, Mirrors!Component(c), c.case # "" PROVE c = Mirrors!Run(c.case, c.run)
      <4>1. Mirrors!Dir(c.name).case = ""
        BY DEF Mirrors!Dir
      <4>2. c # Mirrors!Dir(c.name)
        BY <3>4, <4>1
      <4> QED BY <3>4, <4>2 DEF Mirrors!Component
    <3>5. rel[i] = Mirrors!Run(rel[i].case, rel[i].run)
      BY <1>5, <3>3, <3>4 DEF Mirrors!Classified
    <3>6. other[i] = Mirrors!Run(other[i].case, other[i].run)
      BY <1>5, <2>7, <3>3, <3>4 DEF Mirrors!Classified
    <3> QED BY <3>1, <3>2, <3>5, <3>6
  <2>9. ASSUME NEW k \in 1 .. Len(rel) PROVE rel[k] = other[k]
    <3>1. CASE k <= i - 1
      <4>1. k \in 1 .. i - 1
        BY <1>2, <3>1
      <4> QED BY <1>1, <2>1, <2>7, <4>1
    <3>2. CASE k > i
      <4>1. k + 1 \in i + 2 .. Len(x) /\ (k + 1) - 1 = k
        <5>1. k + 1 \in i + 2 .. Len(rel) + 1 /\ (k + 1) - 1 = k
          BY <1>2, <3>2
        <5> QED BY <1>1, <5>1
      <4> QED BY <1>1, <2>1, <2>7, <4>1
    <3> QED BY <1>2, <2>8, <3>1, <3>2
  <2> QED BY <2>2, <2>7, <2>9, SeqEqual
<1> QED BY <1>4, <1>5 DEF x

\* What a place with a class is in the archive of its set: itself, or the container of its
\* first case or run; and the tier it came from.
Placed(x, rel, r) ==
  \/ x = rel /\ (Len(r.set.roots) < 2 \/ r.tier = 2)
  \/ /\ ~(Len(r.set.roots) < 2)
     /\ \E i \in 1 .. Len(rel) : /\ Mirrors!Classified(rel[i]) /\ x = Mirrors!Container(rel, i)
                                 /\ (rel[i].run = 0) <=> (r.tier = 1)

\* Every archive path of a place with a class is such a place in its set's part of the archive.
LEMMA PlaceIs ==
  ASSUME Mirrors!MirrorAssumption, NEW p \in MirrorTree, NEW a \in Mirrors!Archive(p),
         Mirrors!Cased(p)
  PROVE  \E r \in Mirrors!Locate(p) :
           /\ Len(Mirrors!Rel(p, r)) >= 1
           /\ \E x : a = r.set.rel \o x /\ Placed(x, Mirrors!Rel(p, r), r)
<1> DEFINE T(r) ==
      LET rel == Mirrors!Rel(p, r)
          i == Mirrors!Pivot(rel)
      IN IF Len(r.set.roots) < 2 THEN {r.set.rel \o rel}
         ELSE IF Mirrors!Dir(DataDir) \in {rel[n] : n \in DOMAIN rel}
           THEN IF r.tier = 1 THEN {} ELSE {r.set.rel \o rel}
         ELSE IF i = 0 THEN {r.set.rel \o rel}
         ELSE IF (rel[i].run = 0) # (r.tier = 1) THEN {}
         ELSE {r.set.rel \o Mirrors!Container(rel, i)}
<1>1. PICK r \in Mirrors!Locate(p) : a \in T(r)
  BY DEF Mirrors!Archive
<1> DEFINE rel == Mirrors!Rel(p, r)
           i == Mirrors!Pivot(rel)
<1>2. rel \in Seq(Pieces) /\ Len(rel) \in Nat /\ DOMAIN rel = 1 .. Len(rel)
  BY RelIs, LenProperties
<1>3. PICK n \in DOMAIN rel : Mirrors!Classified(rel[n]) \/ rel[n] = Mirrors!Dir(DataDir)
  <2>1. Mirrors!Locate(p) = {r}
    BY LocatedIs
  <2> QED BY <2>1 DEF Mirrors!Cased
<1>4. Len(rel) >= 1
  BY <1>2, <1>3
<1>5. \/ i \in 1 .. Len(rel) /\ Mirrors!Classified(rel[i])
      \/ i = 0 /\ \A k \in 1 .. Len(rel) : ~Mirrors!Classified(rel[k])
  BY <1>2, PivotIs
<1>6. r.tier \in {1, 2}
  <2>1. r \in Mirrors!Roots
    BY LocatedIs
  <2> QED BY <2>1, RootsAre
<1>7. \/ Len(r.set.roots) < 2 /\ a = r.set.rel \o rel
      \/ /\ ~(Len(r.set.roots) < 2) /\ Mirrors!Dir(DataDir) \in {rel[k] : k \in DOMAIN rel}
         /\ r.tier # 1 /\ a = r.set.rel \o rel
      \/ /\ ~(Len(r.set.roots) < 2) /\ Mirrors!Dir(DataDir) \notin {rel[k] : k \in DOMAIN rel}
         /\ i = 0
      \/ /\ ~(Len(r.set.roots) < 2) /\ i # 0 /\ (rel[i].run = 0) = (r.tier = 1)
         /\ a = r.set.rel \o Mirrors!Container(rel, i)
  BY <1>1
<1> HIDE DEF rel, i, T
<1>8. ~(/\ Mirrors!Dir(DataDir) \notin {rel[k] : k \in DOMAIN rel} /\ i = 0)
  BY <1>2, <1>3, <1>5
<1>9. \E x : a = r.set.rel \o x /\ Placed(x, rel, r)
  BY <1>5, <1>6, <1>7, <1>8 DEF Placed
<1> QED BY <1>4, <1>9 DEF rel

\* The place begins as the path did below its root, or with its case.
LEMMA PlacedIs ==
  ASSUME Mirrors!MirrorAssumption, NEW rel \in Seq(Pieces), Len(rel) >= 1, NEW r, NEW x,
         Placed(x, rel, r)
  PROVE  x \in Seq(Made) /\ Len(x) >= 1 /\ x[1] \in {rel[1], Mirrors!Dir(rel[1].case)}
<1>1. Len(rel) \in Nat /\ Pieces \subseteq Made
  BY LenProperties DEF Made
<1>2. CASE x = rel
  BY <1>1, <1>2
<1>3. CASE \E i \in 1 .. Len(rel) : x = Mirrors!Container(rel, i)
  <2>1. PICK i \in 1 .. Len(rel) : x = Mirrors!Container(rel, i)
    BY <1>3
  <2>2. /\ x \in Seq(Made) /\ Len(x) = Len(rel) + 1
        /\ \A k \in 1 .. i - 1 : x[k] = rel[k]
        /\ x[i] = Mirrors!Dir(rel[i].case)
    BY <2>1, ContainerIs
  <2>3. x[1] \in {rel[1], Mirrors!Dir(rel[1].case)}
    <3>1. CASE i = 1
      BY <2>2, <3>1
    <3>2. CASE i # 1
      <4>1. 1 \in 1 .. i - 1
        BY <1>1, <3>2
      <4> QED BY <2>2, <4>1
    <3> QED BY <3>1, <3>2
  <2>4. Len(x) >= 1
    BY <1>1, <2>2
  <2> QED BY <2>2, <2>3, <2>4
<1> QED BY <1>2, <1>3 DEF Placed

\* Two sets share no place: the one whose archive path is the longer begins where the other
\* has nothing.
LEMMA SetsAreApart ==
  ASSUME Mirrors!MirrorAssumption, NEW p \in MirrorTree, NEW r \in Mirrors!Locate(p),
         NEW t \in MirrorSets, t # r.set,
         Len(Mirrors!Rel(p, r)) >= 1,
         NEW x \in Seq(Made), NEW y \in Seq(Made), Len(x) >= 1,
         x[1] \in {Mirrors!Rel(p, r)[1], Mirrors!Dir(Mirrors!Rel(p, r)[1].case)},
         r.set.rel \o x = t.rel \o y, Len(r.set.rel) <= Len(t.rel)
  PROVE  FALSE
<1> DEFINE s == r.set
           m == Len(s.rel)
           n == Len(Mirrors!Root(r))
<1>1. /\ s \in MirrorSets /\ r.tier \in DOMAIN s.roots /\ Mirrors!Root(r) = s.roots[r.tier]
      /\ s.rel \in Seq(Made) /\ m \in Nat
  BY LocatedIs, RootsAre, LenProperties DEF Mirrors!Root
<1>2. t.rel \in Seq(Made) /\ Len(t.rel) \in Nat
  <2>1. t.rel \in Seq(Mirrors!ToSet(t.rel))
    BY DEF Mirrors!MirrorAssumption
  <2>2. Mirrors!ToSet(t.rel) \subseteq Made
    BY DEF Made, RelParts
  <2> QED BY <2>1, <2>2, LenProperties
<1>3. /\ \A k \in 1 .. m : (s.rel \o x)[k] = s.rel[k]
      /\ (s.rel \o x)[m + 1] = x[1]
  <2>1. \A k \in 1 .. m + Len(x) : (s.rel \o x)[k] = IF k <= m THEN s.rel[k] ELSE x[k - m]
    BY <1>1, ConcatProperties
  <2>2. Len(x) \in Nat /\ m \in Nat
    BY <1>1, LenProperties
  <2>3. m + 1 \in 1 .. m + Len(x) /\ ~(m + 1 <= m) /\ (m + 1) - m = 1
    BY <2>2
  <2>4. \A k \in 1 .. m : k \in 1 .. m + Len(x) /\ k <= m
    BY <2>2
  <2> QED BY <2>1, <2>3, <2>4
<1>4. \A k \in 1 .. Len(t.rel) : (t.rel \o y)[k] = t.rel[k]
  BY <1>2
<1>5. \A k \in 1 .. m : s.rel[k] = t.rel[k]
  BY <1>1, <1>2, <1>3, <1>4
<1>6. SubSeq(s.rel, 1, m) = SubSeq(t.rel, 1, m)
  <2>1. SubSeq(s.rel, 1, m) \in Seq(Made) /\ Len(SubSeq(s.rel, 1, m)) = m
    BY <1>1
  <2>2. SubSeq(t.rel, 1, m) \in Seq(Made) /\ Len(SubSeq(t.rel, 1, m)) = m
    BY <1>1, <1>2
  <2>3. \A k \in 1 .. m : SubSeq(s.rel, 1, m)[k] = SubSeq(t.rel, 1, m)[k]
    BY <1>1, <1>2, <1>5
  <2> QED BY <2>1, <2>2, <2>3, SeqEqual
<1>7. Mirrors!IsPrefix(s.rel, t.rel)
  BY <1>6 DEF Mirrors!IsPrefix
<1>8. m < Len(t.rel) /\ ~Mirrors!Overlaps(s, t)
  BY <1>1, <1>7 DEF Mirrors!MirrorAssumption
<1>9. t.rel[m + 1] = x[1]
  <2>1. m + 1 \in 1 .. Len(t.rel)
    BY <1>1, <1>2, <1>8
  <2> QED BY <1>3, <1>4, <2>1
<1>10. /\ n \in Nat /\ Len(p) \in Nat /\ Len(Mirrors!Rel(p, r)) = Len(p) - n
       /\ \A k \in 1 .. Len(Mirrors!Rel(p, r)) : Mirrors!Rel(p, r)[k] = p[n + k]
  BY RelIs
<1>11. Mirrors!Rel(p, r)[1] = p[n + 1] /\ Len(p) > n
  BY <1>10
<1>12. Mirrors!IsPrefix(Mirrors!Root(r), p)
  BY LocatedIs
<1> QED BY <1>1, <1>8, <1>9, <1>11, <1>12 DEF Mirrors!Overlaps

\* What follows a sequence stands behind it.
LEMMA TailAt ==
  ASSUME NEW S, NEW s \in Seq(S), NEW t \in Seq(S), NEW k \in 1 .. Len(t)
  PROVE  (s \o t)[Len(s) + k] = t[k]
<1>1. /\ Len(s) \in Nat /\ Len(t) \in Nat /\ Len(s) + k \in 1 .. Len(s) + Len(t)
      /\ ~(Len(s) + k <= Len(s)) /\ (Len(s) + k) - Len(s) = k
  BY LenProperties
<1>2. (s \o t)[Len(s) + k] = IF Len(s) + k <= Len(s) THEN s[Len(s) + k] ELSE t[(Len(s) + k) - Len(s)]
  BY <1>1, ConcatProperties
<1> QED BY <1>1, <1>2

\* Two places with a class that have one archive path are one (mirror.go, Archive): a set's
\* container says what it contains and from which tier, and two sets share no place.
LEMMA ArchivesAreApart ==
  ASSUME Mirrors!MirrorAssumption, NEW p \in MirrorTree, NEW q \in MirrorTree,
         Mirrors!Cased(p), Mirrors!Cased(q),
         NEW a, a \in Mirrors!Archive(p), a \in Mirrors!Archive(q)
  PROVE  p = q
<1>1. PICK r \in Mirrors!Locate(p) :
         /\ Len(Mirrors!Rel(p, r)) >= 1
         /\ \E x : a = r.set.rel \o x /\ Placed(x, Mirrors!Rel(p, r), r)
  BY PlaceIs
<1>2. PICK x : a = r.set.rel \o x /\ Placed(x, Mirrors!Rel(p, r), r)
  BY <1>1
<1>3. PICK o \in Mirrors!Locate(q) :
         /\ Len(Mirrors!Rel(q, o)) >= 1
         /\ \E y : a = o.set.rel \o y /\ Placed(y, Mirrors!Rel(q, o), o)
  BY PlaceIs
<1>4. PICK y : a = o.set.rel \o y /\ Placed(y, Mirrors!Rel(q, o), o)
  BY <1>3
<1> DEFINE rel == Mirrors!Rel(p, r)
           oth == Mirrors!Rel(q, o)
<1>5. rel \in Seq(Pieces) /\ oth \in Seq(Pieces)
  BY RelIs
<1>6. /\ x \in Seq(Made) /\ Len(x) >= 1 /\ x[1] \in {rel[1], Mirrors!Dir(rel[1].case)}
      /\ y \in Seq(Made) /\ Len(y) >= 1 /\ y[1] \in {oth[1], Mirrors!Dir(oth[1].case)}
  BY <1>1, <1>2, <1>3, <1>4, <1>5, PlacedIs
<1>7. r \in Mirrors!Roots /\ o \in Mirrors!Roots
  BY LocatedIs
<1>8. /\ r.set \in MirrorSets /\ r = [set |-> r.set, tier |-> r.tier]
      /\ r.tier \in 1 .. Len(r.set.roots) /\ Len(r.set.roots) \in 0 .. 2
      /\ r.set.rel \in Seq(Made)
  BY <1>7, RootsAre
<1>9. /\ o.set \in MirrorSets /\ o = [set |-> o.set, tier |-> o.tier]
      /\ o.tier \in 1 .. Len(o.set.roots) /\ Len(o.set.roots) \in 0 .. 2
      /\ o.set.rel \in Seq(Made)
  BY <1>7, RootsAre
<1>10. /\ r.tier \in {1, 2} /\ o.tier \in {1, 2}
       /\ Len(r.set.roots) < 2 => r.tier = 1
       /\ Len(o.set.roots) < 2 => o.tier = 1
  <2> DEFINE l == Len(r.set.roots)
             k == Len(o.set.roots)
  <2>1. l \in 0 .. 2 /\ k \in 0 .. 2 /\ r.tier \in 1 .. l /\ o.tier \in 1 .. k
    BY <1>8, <1>9
  <2> HIDE DEF l, k
  <2>2. r.tier \in {1, 2} /\ o.tier \in {1, 2} /\ (l < 2 => r.tier = 1) /\ (k < 2 => o.tier = 1)
    BY <2>1
  <2> QED BY <2>2 DEF l, k
<1>11. r.set = o.set
  <2> SUFFICES ASSUME r.set # o.set PROVE FALSE
    OBVIOUS
  <2>1. Len(r.set.rel) \in Nat /\ Len(o.set.rel) \in Nat
    BY <1>8, <1>9, LenProperties
  <2>2. CASE Len(r.set.rel) <= Len(o.set.rel)
    BY <1>1, <1>2, <1>4, <1>6, <1>9, <2>2, SetsAreApart
  <2>3. CASE Len(o.set.rel) <= Len(r.set.rel)
    BY <1>2, <1>3, <1>4, <1>6, <1>8, <2>3, SetsAreApart
  <2> QED BY <2>1, <2>2, <2>3
<1>12. x = y
  <2>1. Len(x) = Len(y)
    <3>1. Len(r.set.rel) \in Nat /\ Len(x) \in Nat /\ Len(y) \in Nat
      BY <1>6, <1>8, LenProperties
    <3>2. Len(a) = Len(r.set.rel) + Len(x)
      BY <1>2, <1>6, <1>8, ConcatProperties
    <3>3. Len(a) = Len(r.set.rel) + Len(y)
      BY <1>4, <1>6, <1>8, <1>11, ConcatProperties
    <3> QED BY <3>1, <3>2, <3>3
  <2>2. ASSUME NEW k \in 1 .. Len(x) PROVE x[k] = y[k]
    <3> DEFINE m == Len(r.set.rel)
    <3>1. m \in Nat /\ Len(x) \in Nat
      BY <1>6, <1>8, LenProperties
    <3>2. (r.set.rel \o x)[m + k] = x[k]
      BY <1>6, <1>8, TailAt
    <3>3. (r.set.rel \o y)[m + k] = y[k]
      BY <1>6, <1>8, <2>1, TailAt
    <3> QED BY <1>2, <1>4, <1>11, <3>2, <3>3
  <2> QED BY <1>6, <2>1, <2>2, SeqEqual
<1> HIDE DEF rel, oth
<1>13. rel = oth /\ r.tier = o.tier
  <2>1. CASE x = rel /\ (Len(r.set.roots) < 2 \/ r.tier = 2)
    <3>1. y = oth
      <4>1. \A i \in 1 .. Len(oth) : rel # Mirrors!Container(oth, i)
        BY <1>5, ContainersAreApart
      <4> QED BY <1>4, <1>12, <2>1, <4>1 DEF Placed, oth
    <3>2. Len(o.set.roots) < 2 \/ o.tier = 2
      BY <1>4, <1>5, <1>12, <2>1, ContainersAreApart DEF Placed, oth
    <3>3. rel = oth
      BY <1>12, <2>1, <3>1
    <3>4. r.tier = o.tier
      BY <1>11, <1>10, <2>1, <3>2
    <3> QED BY <3>3, <3>4
  <2>2. CASE \E i \in 1 .. Len(rel) : /\ Mirrors!Classified(rel[i]) /\ x = Mirrors!Container(rel, i)
                                      /\ (rel[i].run = 0) <=> (r.tier = 1)
    <3>1. PICK i \in 1 .. Len(rel) : /\ Mirrors!Classified(rel[i]) /\ x = Mirrors!Container(rel, i)
                                     /\ (rel[i].run = 0) <=> (r.tier = 1)
      BY <2>2
    <3>2. y # oth
      BY <1>5, <1>12, <3>1, ContainersAreApart
    <3>3. PICK j \in 1 .. Len(oth) : /\ Mirrors!Classified(oth[j]) /\ y = Mirrors!Container(oth, j)
                                     /\ (oth[j].run = 0) <=> (o.tier = 1)
      BY <1>4, <3>2 DEF Placed, oth
    <3>4. i = j /\ rel = oth
      BY <1>5, <1>12, <3>1, <3>3, ContainersAreApart
    <3> QED BY <1>10, <3>1, <3>3, <3>4
  <2> QED BY <1>2, <2>1, <2>2 DEF Placed, rel
<1>14. r = o
  BY <1>8, <1>9, <1>11, <1>13
<1> QED BY <1>13, <1>14, PathIs DEF rel, oth

\* Two places with a class share no archive path, wherever a shell is (mirror.go, Archive).
THEOREM MirrorsAreApart ==
  ASSUME Mirrors!MirrorAssumption
  PROVE  Mirrors!Spec => []Mirrors!ArchiveKeepsApart
<1> DEFINE Inv == shellCwd \in exists /\ exists \subseteq MirrorTree
<1>1. Mirrors!Init => Inv
  BY DEF Mirrors!Init
<1>2. Inv /\ [Mirrors!Next]_Mirrors!vars => Inv'
  <2> SUFFICES ASSUME Inv, [Mirrors!Next]_Mirrors!vars PROVE Inv'
    OBVIOUS
  <2>1. CASE Mirrors!Cd
    <3>1. Mirrors!Swap(shellCwd) \subseteq exists
      BY DEF Mirrors!Swap
    <3> QED BY <2>1, <3>1 DEF Mirrors!Cd
  <2>2. ASSUME NEW p \in MirrorTree, Mirrors!Touch(p) PROVE Inv'
    BY <2>2 DEF Mirrors!Touch
  <2>3. CASE UNCHANGED Mirrors!vars
    BY <2>3 DEF Mirrors!vars
  <2> QED BY <2>1, <2>2, <2>3 DEF Mirrors!Next
<1>3. Inv => Mirrors!ArchiveKeepsApart
  <2> SUFFICES ASSUME Inv, NEW p \in exists, Mirrors!Cased(p), Mirrors!Cased(shellCwd),
                      Mirrors!Archive(p) \cap Mirrors!Archive(shellCwd) # {}
               PROVE  p = shellCwd
    BY DEF Mirrors!ArchiveKeepsApart
  <2>1. PICK a : a \in Mirrors!Archive(p) /\ a \in Mirrors!Archive(shellCwd)
    OBVIOUS
  <2>2. p \in MirrorTree /\ shellCwd \in MirrorTree
    OBVIOUS
  <2> QED BY <2>1, <2>2, ArchivesAreApart
<1> QED BY <1>1, <1>2, <1>3, PTL DEF Mirrors!Spec

-----------------------------------------------------------------------------
(* Swapping.                                                               *)

\* One component put in the place of another.
Put(rel, i, c) == [rel EXCEPT ![i] = c]
At(g, rel, i, c) == Append(g \o SubSeq(rel, 1, i - 1), c) \o SubSeq(rel, i + 1, Len(rel))

\* The counterpart as the code builds it, from before and after the pivot.
LEMMA AtIs ==
  ASSUME NEW S, NEW g \in Seq(S), NEW rel \in Seq(S), NEW i \in 1 .. Len(rel), NEW c \in S
  PROVE  /\ Put(rel, i, c) \in Seq(S) /\ Len(Put(rel, i, c)) = Len(rel)
         /\ At(g, rel, i, c) = g \o Put(rel, i, c)
<1> DEFINE y == Put(rel, i, c)
           u == SubSeq(rel, 1, i - 1)
           v == SubSeq(rel, i + 1, Len(rel))
           w == g \o u
           z == Append(w, c)
<1>1. Len(rel) \in Nat /\ Len(g) \in Nat /\ i \in Nat
  BY LenProperties
<1>2. y \in Seq(S) /\ Len(y) = Len(rel)
  BY <1>1 DEF Put
<1>3. y[i] = c /\ \A k \in 1 .. Len(rel) : k # i => y[k] = rel[k]
  BY <1>1 DEF Put
<1>4. u \in Seq(S) /\ Len(u) = i - 1 /\ \A k \in 1 .. i - 1 : u[k] = rel[k]
  BY <1>1
<1>5. v \in Seq(S) /\ Len(v) = Len(rel) - i /\ \A k \in 1 .. Len(rel) - i : v[k] = rel[i + k]
  BY <1>1
<1> HIDE DEF u, v, y
<1>6. /\ w \in Seq(S) /\ Len(w) = Len(g) + (i - 1)
      /\ \A k \in 1 .. Len(w) : w[k] = IF k <= Len(g) THEN g[k] ELSE u[k - Len(g)]
  <2>1. /\ w \in Seq(S) /\ Len(w) = Len(g) + Len(u)
        /\ \A k \in 1 .. Len(g) + Len(u) : w[k] = IF k <= Len(g) THEN g[k] ELSE u[k - Len(g)]
    BY <1>4, ConcatProperties
  <2> HIDE DEF w
  <2> QED BY <1>4, <2>1
<1> HIDE DEF w
<1>7. /\ z \in Seq(S) /\ Len(z) = Len(g) + i /\ z[Len(g) + i] = c
      /\ \A k \in 1 .. Len(w) : z[k] = w[k]
  BY <1>1, <1>6
<1> HIDE DEF z
<1>8. /\ z \o v \in Seq(S) /\ Len(z \o v) = Len(g) + Len(rel)
      /\ \A k \in 1 .. Len(g) + Len(rel) : (z \o v)[k] = IF k <= Len(z) THEN z[k] ELSE v[k - Len(z)]
  <2>1. /\ z \o v \in Seq(S) /\ Len(z \o v) = Len(z) + Len(v)
        /\ \A k \in 1 .. Len(z) + Len(v) : (z \o v)[k] = IF k <= Len(z) THEN z[k] ELSE v[k - Len(z)]
    BY <1>5, <1>7, ConcatProperties
  <2>2. Len(z) + Len(v) = Len(g) + Len(rel)
    BY <1>1, <1>5, <1>7
  <2> QED BY <2>1, <2>2
<1>9. /\ g \o y \in Seq(S) /\ Len(g \o y) = Len(g) + Len(rel)
      /\ \A k \in 1 .. Len(g) + Len(rel) : (g \o y)[k] = IF k <= Len(g) THEN g[k] ELSE y[k - Len(g)]
  <2>1. /\ g \o y \in Seq(S) /\ Len(g \o y) = Len(g) + Len(y)
        /\ \A k \in 1 .. Len(g) + Len(y) : (g \o y)[k] = IF k <= Len(g) THEN g[k] ELSE y[k - Len(g)]
    BY <1>2, ConcatProperties
  <2> QED BY <1>2, <2>1
<1>10. ASSUME NEW k \in 1 .. Len(g) + Len(rel) PROVE (z \o v)[k] = (g \o y)[k]
  <2>1. CASE k <= Len(g)
    <3>1. k \in 1 .. Len(w) /\ k <= Len(z)
      BY <1>1, <1>6, <1>7, <2>1
    <3> QED BY <1>6, <1>7, <1>8, <1>9, <2>1, <3>1
  <2>2. CASE k > Len(g) /\ k < Len(g) + i
    <3>1. k \in 1 .. Len(w) /\ k <= Len(z) /\ ~(k <= Len(g)) /\ k - Len(g) \in 1 .. i - 1
          /\ k - Len(g) \in 1 .. Len(rel) /\ k - Len(g) # i
      BY <1>1, <1>6, <1>7, <2>2
    <3>2. (z \o v)[k] = u[k - Len(g)]
      BY <1>6, <1>7, <1>8, <3>1
    <3>3. (g \o y)[k] = rel[k - Len(g)]
      BY <1>3, <1>9, <3>1
    <3> QED BY <1>4, <3>1, <3>2, <3>3
  <2>3. CASE k = Len(g) + i
    <3>1. k <= Len(z) /\ ~(k <= Len(g)) /\ k - Len(g) = i
      BY <1>1, <1>7, <2>3
    <3> QED BY <1>3, <1>7, <1>8, <1>9, <2>3, <3>1
  <2>4. CASE k > Len(g) + i
    <3>1. /\ ~(k <= Len(z)) /\ ~(k <= Len(g)) /\ k - Len(z) \in 1 .. Len(rel) - i
          /\ i + (k - Len(z)) = k - Len(g) /\ k - Len(g) \in 1 .. Len(rel) /\ k - Len(g) # i
      BY <1>1, <1>7, <2>4
    <3>2. (z \o v)[k] = v[k - Len(z)]
      BY <1>8, <3>1
    <3>3. v[k - Len(z)] = rel[k - Len(g)]
      BY <1>5, <3>1
    <3>4. (g \o y)[k] = rel[k - Len(g)]
      BY <1>3, <1>9, <3>1
    <3> QED BY <3>2, <3>3, <3>4
  <2>5. \/ k <= Len(g)
        \/ k > Len(g) /\ k < Len(g) + i
        \/ k = Len(g) + i
        \/ k > Len(g) + i
    BY <1>1
  <2> QED BY <2>1, <2>2, <2>3, <2>4, <2>5, Zenon
<1>11. z \o v = g \o y
  BY <1>8, <1>9, <1>10, SeqEqual
<1>12. At(g, rel, i, c) = z \o v
  BY DEF At, z, w, u, v
<1> QED BY <1>2, <1>11, <1>12 DEF y

\* What a swap makes of the path below the root: nothing without a case, else the pivot
\* becomes its case, or of a case on the permanent tier a run of it.
Moved(rel, y, tier) ==
  LET i == Mirrors!Pivot(rel) IN
  \/ i = 0 /\ y = rel
  \/ /\ i # 0
     /\ \E n : /\ y = Put(rel, i, Mirrors!Run(rel[i].case, n))
               /\ n # 0 => tier = 1 /\ rel[i].run = 0

Swapped(p, t) ==
  \E r \in Mirrors!Locate(p) :
    /\ Len(r.set.roots) = 2
    /\ \E y : t = r.set.roots[3 - r.tier] \o y /\ Moved(Mirrors!Rel(p, r), y, r.tier)

\* Every counterpart is such a place below the set's other root (mirror.go, Swap).
LEMMA SwapIs ==
  ASSUME Mirrors!MirrorAssumption, NEW p \in MirrorTree, NEW t \in Mirrors!Swap(p)
  PROVE  t \in exists /\ Swapped(p, t)
<1> DEFINE T(r) ==
      LET rel   == Mirrors!Rel(p, r)
          i     == Mirrors!Pivot(rel)
          other == r.set.roots[3 - r.tier]
          up    == other \o SubSeq(rel, 1, i - 1)
          at(c) == Append(up, c) \o SubSeq(rel, i + 1, Len(rel))
      IN IF Len(r.set.roots) < 2 THEN {}
         ELSE IF i = 0 \/ (rel[i].run = 0 /\ r.tier = 2) THEN {other \o rel}
         ELSE IF rel[i].run # 0 THEN {at(Mirrors!Case(rel[i].case))}
         ELSE IF Mirrors!RunsOf(up, rel[i].case) # {}
                 /\ at(Mirrors!Run(rel[i].case, Mirrors!Latest(up, rel[i].case))) \in exists
           THEN {at(Mirrors!Run(rel[i].case, Mirrors!Latest(up, rel[i].case)))}
           ELSE {at(rel[i])}
<1>1. t \in exists /\ \E r \in Mirrors!Locate(p) : t \in T(r)
  BY DEF Mirrors!Swap
<1>2. PICK r \in Mirrors!Locate(p) : t \in T(r)
  BY <1>1
<1> DEFINE rel   == Mirrors!Rel(p, r)
           i     == Mirrors!Pivot(rel)
           other == r.set.roots[3 - r.tier]
           up    == other \o SubSeq(rel, 1, i - 1)
           at(c) == Append(up, c) \o SubSeq(rel, i + 1, Len(rel))
<1>3. /\ ~(Len(r.set.roots) < 2)
      /\ \/ i = 0 /\ t = other \o rel
         \/ i # 0 /\ rel[i].run = 0 /\ r.tier = 2 /\ t = other \o rel
         \/ i # 0 /\ rel[i].run # 0 /\ t = at(Mirrors!Case(rel[i].case))
         \/ /\ i # 0 /\ rel[i].run = 0 /\ r.tier # 2
            /\ \/ \E n : t = at(Mirrors!Run(rel[i].case, n))
               \/ t = at(rel[i])
  BY <1>2
<1>4. /\ r \in Mirrors!Roots /\ Len(r.set.roots) = 2 /\ r.tier \in {1, 2}
      /\ other \in Seq(Made)
  <2>1. /\ r \in Mirrors!Roots /\ Len(r.set.roots) \in 0 .. 2
        /\ DOMAIN r.set.roots = 1 .. Len(r.set.roots) /\ r.tier \in DOMAIN r.set.roots
        /\ \A k \in DOMAIN r.set.roots : r.set.roots[k] \in Seq(Made)
    BY LocatedIs, RootsAre
  <2>2. Len(r.set.roots) = 2
    <3> DEFINE l == Len(r.set.roots)
    <3>1. l \in 0 .. 2 /\ ~(l < 2)
      BY <1>3, <2>1
    <3> HIDE DEF l
    <3>2. l = 2
      BY <3>1
    <3> QED BY <3>2 DEF l
  <2>3. r.tier \in 1 .. 2
    BY <2>1, <2>2
  <2>4. r.tier \in {1, 2} /\ 3 - r.tier \in 1 .. 2
    BY <2>3
  <2> QED BY <2>1, <2>2, <2>4
<1>5. rel \in Seq(Pieces) /\ Len(rel) \in Nat
  BY RelIs, LenProperties
<1> HIDE DEF rel, other, T
<1>6. i # 0 => i \in 1 .. Len(rel) /\ Mirrors!Classified(rel[i]) /\ rel[i] \in Pieces
  BY <1>5, PivotIs, ElementOfSeq
<1>7. i # 0 => rel[i] = Mirrors!Run(rel[i].case, rel[i].run)
  <2>1. i # 0 => Mirrors!Component(rel[i])
    BY <1>6, PathsAre DEF Pieces, Mirrors!MirrorAssumption
  <2>2. \A c : Mirrors!Component(c) /\ Mirrors!Classified(c) => c = Mirrors!Run(c.case, c.run)
    <3> SUFFICES ASSUME NEW c, Mirrors!Component(c), c.case # "" PROVE c = Mirrors!Run(c.case, c.run)
      BY DEF Mirrors!Classified
    <3>1. Mirrors!Dir(c.name).case = ""
      BY DEF Mirrors!Dir
    <3>2. c # Mirrors!Dir(c.name)
      BY <3>1
    <3> QED BY <3>2 DEF Mirrors!Component
  <2> QED BY <1>6, <2>1, <2>2
<1>8. ASSUME i # 0, NEW c PROVE at(c) = other \o Put(rel, i, c)
  <2> DEFINE S == Made \cup {c}
  <2>1. other \in Seq(S) /\ rel \in Seq(S)
    <3>1. Made \subseteq S /\ Pieces \subseteq S
      BY DEF Made
    <3> HIDE DEF S
    <3> QED BY <1>4, <1>5, <3>1
  <2>2. c \in S /\ i \in 1 .. Len(rel)
    BY <1>6, <1>8
  <2> HIDE DEF S, i
  <2>3. At(other, rel, i, c) = other \o Put(rel, i, c)
    BY <2>1, <2>2, AtIs
  <2>4. at(c) = At(other, rel, i, c)
    BY DEF At
  <2> QED BY <2>3, <2>4
<1> HIDE DEF at, up
<1>9. i # 0 => Put(rel, i, rel[i]) = rel
  BY <1>5, <1>6 DEF Put
<1>10. \A m : Mirrors!Case(m) = Mirrors!Run(m, 0)
  BY DEF Mirrors!Case, Mirrors!Run
<1>11. \E y : t = other \o y /\ Moved(rel, y, r.tier)
  <2>1. CASE i = 0
    BY <1>3, <2>1 DEF Moved
  <2>2. ASSUME i # 0, rel[i].run = 0, t = other \o rel \/ t = at(rel[i])
        PROVE  \E y : t = other \o y /\ Moved(rel, y, r.tier)
    <3>1. t = other \o rel
      BY <1>8, <1>9, <2>2
    <3>2. rel = Put(rel, i, Mirrors!Run(rel[i].case, 0))
      BY <1>7, <1>9, <2>2
    <3>3. Moved(rel, rel, r.tier)
      BY <2>2, <3>2 DEF Moved
    <3> QED BY <3>1, <3>3
  <2>3. ASSUME i # 0, NEW n, n # 0 => r.tier = 1 /\ rel[i].run = 0, t = at(Mirrors!Run(rel[i].case, n))
        PROVE  \E y : t = other \o y /\ Moved(rel, y, r.tier)
    <3>1. t = other \o Put(rel, i, Mirrors!Run(rel[i].case, n))
      BY <1>8, <2>3
    <3>2. Moved(rel, Put(rel, i, Mirrors!Run(rel[i].case, n)), r.tier)
      BY <2>3 DEF Moved
    <3> QED BY <3>1, <3>2
  <2>4. CASE i # 0 /\ rel[i].run # 0 /\ t = at(Mirrors!Case(rel[i].case))
    BY <1>10, <2>3, <2>4
  <2>5. CASE i # 0 /\ rel[i].run = 0 /\ r.tier # 2 /\ \E n : t = at(Mirrors!Run(rel[i].case, n))
    BY <1>4, <2>3, <2>5
  <2> QED BY <1>3, <2>1, <2>2, <2>4, <2>5
<1> QED BY <1>1, <1>4, <1>11 DEF Swapped, rel, other

\* A path from its root and what is below.
Joined(g, y, t) == t = g \o y

\* The pivot of a whole path is that of what is below its root: no root lies in a case.
LEMMA PivotBelow ==
  ASSUME NEW S, NEW g \in Seq(S), NEW y \in Seq(S), \A k \in 1 .. Len(g) : ~Mirrors!Classified(g[k]),
         NEW t, Joined(g, y, t)
  PROVE  LET i == Mirrors!Pivot(y)
             n == Mirrors!Pivot(t)
         IN /\ i = 0 => n = 0
            /\ i # 0 => n # 0 /\ t[n] = y[i]
<1> DEFINE i == Mirrors!Pivot(y)
           n == Mirrors!Pivot(t)
<1>1. Len(g) \in Nat /\ Len(y) \in Nat
  BY LenProperties
<1>2. /\ t \in Seq(S) /\ Len(t) = Len(g) + Len(y)
      /\ \A k \in 1 .. Len(g) + Len(y) : t[k] = IF k <= Len(g) THEN g[k] ELSE y[k - Len(g)]
  BY ConcatProperties DEF Joined
<1>3. \/ /\ i \in 1 .. Len(y) /\ Mirrors!Classified(y[i])
         /\ \A k \in 1 .. Len(y) : Mirrors!Classified(y[k]) => i <= k
      \/ i = 0 /\ \A k \in 1 .. Len(y) : ~Mirrors!Classified(y[k])
  BY PivotIs
<1>4. \/ /\ n \in 1 .. Len(t) /\ Mirrors!Classified(t[n])
         /\ \A k \in 1 .. Len(t) : Mirrors!Classified(t[k]) => n <= k
      \/ n = 0 /\ \A k \in 1 .. Len(t) : ~Mirrors!Classified(t[k])
  BY <1>2, PivotIs
<1> HIDE DEF i, n
<1>5. ASSUME n # 0 PROVE n - Len(g) \in 1 .. Len(y) /\ t[n] = y[n - Len(g)]
  <2>1. n \in 1 .. Len(g) + Len(y) /\ Mirrors!Classified(t[n])
    BY <1>2, <1>4, <1>5
  <2>2. ~(n <= Len(g))
    <3> SUFFICES ASSUME n <= Len(g) PROVE FALSE
      OBVIOUS
    <3>1. n \in 1 .. Len(g) /\ t[n] = g[n]
      BY <1>1, <1>2, <2>1
    <3> QED BY <2>1, <3>1
  <2>3. n - Len(g) \in 1 .. Len(y)
    BY <1>1, <2>1, <2>2
  <2> QED BY <1>2, <2>1, <2>2, <2>3
<1>6. i = 0 => n = 0
  BY <1>3, <1>4, <1>5
<1>7. ASSUME i # 0 PROVE n # 0 /\ t[n] = y[i]
  <2>1. Len(g) + i \in 1 .. Len(t) /\ t[Len(g) + i] = y[i] /\ i \in 1 .. Len(y)
    <3>1. /\ i \in 1 .. Len(y) /\ Len(g) + i \in 1 .. Len(g) + Len(y)
          /\ ~(Len(g) + i <= Len(g)) /\ (Len(g) + i) - Len(g) = i
      BY <1>1, <1>3, <1>7
    <3> QED BY <1>2, <3>1
  <2>2. n # 0 /\ n <= Len(g) + i
    BY <1>3, <1>4, <1>7, <2>1
  <2>3. n - Len(g) \in 1 .. Len(y) /\ t[n] = y[n - Len(g)]
    BY <1>5, <2>2
  <2>4. i <= n - Len(g)
    BY <1>3, <1>4, <1>7, <2>2, <2>3
  <2>5. n - Len(g) = i
    <3>1. n \in Int /\ i \in Int
      BY <1>1, <1>2, <1>4, <2>1, <2>2
    <3> QED BY <1>1, <2>2, <2>4, <3>1
  <2> QED BY <2>2, <2>3, <2>5
<1> QED BY <1>6, <1>7 DEF i, n

\* A path is its root and what is below it.
LEMMA PathSplits ==
  ASSUME Mirrors!MirrorAssumption, NEW p \in MirrorTree, NEW r \in Mirrors!Locate(p)
  PROVE  /\ p = Mirrors!Root(r) \o Mirrors!Rel(p, r)
         /\ Mirrors!Root(r) \in Seq(Made)
         /\ \A k \in 1 .. Len(Mirrors!Root(r)) : ~Mirrors!Classified(Mirrors!Root(r)[k])
<1> DEFINE g == Mirrors!Root(r)
           y == Mirrors!Rel(p, r)
<1>1. g \in Seq(Made) /\ r \in Mirrors!Roots
  BY LocatedIs, RootsAre
<1>2. /\ Len(g) \in Nat /\ Len(p) \in Nat /\ Len(g) <= Len(p)
      /\ \A k \in 1 .. Len(g) : p[k] = g[k]
      /\ y \in Seq(Pieces) /\ Len(y) = Len(p) - Len(g)
      /\ \A k \in 1 .. Len(y) : y[k] = p[Len(g) + k]
  BY RelIs
<1>3. p \in Seq(Made) /\ y \in Seq(Made)
  <2>1. Pieces \subseteq Made
    BY DEF Made
  <2>2. p \in Seq(Pieces)
    BY PathsAre
  <2> QED BY <1>2, <2>1, <2>2
<1>4. \A k \in 1 .. Len(g) : ~Mirrors!Classified(g[k])
  <2>1. DOMAIN g = 1 .. Len(g)
    BY <1>1, LenProperties
  <2> QED BY <1>1, <2>1 DEF Mirrors!MirrorAssumption
<1> HIDE DEF g, y
<1>5. /\ g \o y \in Seq(Made) /\ Len(g \o y) = Len(g) + Len(y)
      /\ \A k \in 1 .. Len(g) + Len(y) : (g \o y)[k] = IF k <= Len(g) THEN g[k] ELSE y[k - Len(g)]
  BY <1>1, <1>3, ConcatProperties
<1>6. Len(g \o y) = Len(p)
  BY <1>2, <1>5
<1>7. ASSUME NEW k \in 1 .. Len(p) PROVE p[k] = (g \o y)[k]
  <2>1. k \in 1 .. Len(g) + Len(y)
    BY <1>2
  <2>2. CASE k <= Len(g)
    <3>1. k \in 1 .. Len(g)
      BY <1>2, <2>2
    <3> QED BY <1>2, <1>5, <2>1, <2>2, <3>1
  <2>3. CASE ~(k <= Len(g))
    <3>1. k - Len(g) \in 1 .. Len(y) /\ Len(g) + (k - Len(g)) = k
      BY <1>2, <2>3
    <3>2. (g \o y)[k] = y[k - Len(g)]
      BY <1>5, <2>1, <2>3
    <3> QED BY <1>2, <3>1, <3>2
  <2> QED BY <2>2, <2>3
<1>8. p = g \o y
  BY <1>3, <1>5, <1>6, <1>7, SeqEqual
<1> QED BY <1>1, <1>4, <1>8 DEF g, y

\* What is moved keeps its pivot, and the pivot its case.
LEMMA MovedIs ==
  ASSUME NEW rel \in Seq(Pieces), NEW tier, NEW y, Moved(rel, y, tier)
  PROVE  LET i == Mirrors!Pivot(rel) IN
         /\ \E S : Made \subseteq S /\ y \in Seq(S)
         /\ Len(y) = Len(rel) /\ Mirrors!Pivot(y) = i
         /\ i # 0 => y[i].case = rel[i].case
         /\ \A k \in 1 .. Len(rel) : k # i => y[k] = rel[k]
<1> DEFINE i == Mirrors!Pivot(rel)
<1>1. rel \in Seq(Made) /\ Len(rel) \in Nat
  <2>1. Pieces \subseteq Made
    BY DEF Made
  <2> QED BY <2>1, LenProperties
<1>2. \/ /\ i \in 1 .. Len(rel) /\ Mirrors!Classified(rel[i])
         /\ \A k \in 1 .. Len(rel) : Mirrors!Classified(rel[k]) => i <= k
      \/ i = 0 /\ \A k \in 1 .. Len(rel) : ~Mirrors!Classified(rel[k])
  BY PivotIs
<1>3. CASE i = 0
  <2>1. y = rel
    BY <1>3 DEF Moved
  <2> QED BY <1>1, <1>3, <2>1
<1>4. CASE i # 0
  <2>1. PICK n : y = Put(rel, i, Mirrors!Run(rel[i].case, n))
    BY <1>4 DEF Moved
  <2> DEFINE c == Mirrors!Run(rel[i].case, n)
             S == Made \cup {c}
  <2>2. c.case = rel[i].case
    BY DEF Mirrors!Run
  <2>3. i \in 1 .. Len(rel) /\ Mirrors!Classified(rel[i])
    BY <1>2, <1>4
  <2> HIDE DEF i, c
  <2>4. rel \in Seq(S) /\ c \in S /\ Made \subseteq S
    <3>1. Made \subseteq S /\ c \in S
      OBVIOUS
    <3> HIDE DEF S
    <3> QED BY <1>1, <3>1
  <2> HIDE DEF S
  <2>5. y \in Seq(S) /\ Len(y) = Len(rel)
    BY <2>1, <2>3, <2>4, AtIs DEF c
  <2>6. y[i] = c /\ \A k \in 1 .. Len(rel) : k # i => y[k] = rel[k]
    BY <1>1, <2>1, <2>3 DEF Put, c
  <2>7. \A k \in 1 .. Len(rel) : Mirrors!Classified(y[k]) <=> Mirrors!Classified(rel[k])
    BY <2>2, <2>6 DEF Mirrors!Classified
  <2>8. Mirrors!Pivot(y) = i
    <3> DEFINE m == Mirrors!Pivot(y)
    <3>1. \/ /\ m \in 1 .. Len(y) /\ Mirrors!Classified(y[m])
             /\ \A k \in 1 .. Len(y) : Mirrors!Classified(y[k]) => m <= k
          \/ m = 0 /\ \A k \in 1 .. Len(y) : ~Mirrors!Classified(y[k])
      BY <2>5, PivotIs
    <3> HIDE DEF m
    <3>2. m \in 1 .. Len(rel) /\ m <= i /\ Mirrors!Classified(rel[m])
      BY <2>3, <2>5, <2>7, <3>1
    <3>3. i <= m
      BY <1>2, <1>4, <3>2
    <3>4. m = i
      BY <1>1, <2>3, <3>2, <3>3
    <3> QED BY <3>4 DEF m
  <2> QED BY <2>2, <2>4, <2>5, <2>6, <2>8 DEF i
<1> QED BY <1>3, <1>4

\* Swapping keeps the case.
LEMMA CaseIsKept ==
  ASSUME Mirrors!MirrorAssumption, NEW p \in MirrorTree, NEW t, Swapped(p, t)
  PROVE  Mirrors!CaseOf(t) = Mirrors!CaseOf(p)
<1>1. PICK r \in Mirrors!Locate(p) :
        /\ Len(r.set.roots) = 2
        /\ \E y : t = r.set.roots[3 - r.tier] \o y /\ Moved(Mirrors!Rel(p, r), y, r.tier)
  BY DEF Swapped
<1>2. PICK y : t = r.set.roots[3 - r.tier] \o y /\ Moved(Mirrors!Rel(p, r), y, r.tier)
  BY <1>1
<1> DEFINE rel == Mirrors!Rel(p, r)
           i == Mirrors!Pivot(rel)
           g == Mirrors!Root(r)
           o == [set |-> r.set, tier |-> 3 - r.tier]
           h == Mirrors!Root(o)
<1>3. rel \in Seq(Pieces)
  BY RelIs
<1>4. /\ \E S : Made \subseteq S /\ y \in Seq(S)
      /\ Mirrors!Pivot(y) = i
      /\ i # 0 => y[i].case = rel[i].case
  <2> HIDE DEF rel
  <2> QED BY <1>2, <1>3, MovedIs DEF rel
<1>5. PICK S : Made \subseteq S /\ y \in Seq(S)
  BY <1>4
<1>6. p = g \o rel /\ g \in Seq(Made) /\ \A k \in 1 .. Len(g) : ~Mirrors!Classified(g[k])
  BY PathSplits
<1>7. /\ o \in Mirrors!Roots /\ h = r.set.roots[3 - r.tier] /\ h \in Seq(Made)
      /\ \A k \in 1 .. Len(h) : ~Mirrors!Classified(h[k])
  <2>1. /\ r \in Mirrors!Roots /\ DOMAIN r.set.roots = 1 .. 2 /\ r.tier \in 1 .. 2
        /\ \A k \in DOMAIN r.set.roots : /\ r.set.roots[k] \in Seq(Made)
                                        /\ [set |-> r.set, tier |-> k] \in Mirrors!Roots
    BY <1>1, LocatedIs, RootsAre
  <2>2. 3 - r.tier \in 1 .. 2
    BY <2>1
  <2>3. o \in Mirrors!Roots /\ h = r.set.roots[3 - r.tier] /\ h \in Seq(Made)
    BY <2>1, <2>2 DEF Mirrors!Root
  <2>4. DOMAIN h = 1 .. Len(h)
    BY <2>3, LenProperties
  <2> QED BY <2>3, <2>4 DEF Mirrors!MirrorAssumption
<1>8. rel \in Seq(S) /\ g \in Seq(S) /\ h \in Seq(S)
  <2>1. Pieces \subseteq S
    BY <1>5 DEF Made
  <2> HIDE DEF rel, g, h
  <2> QED BY <1>3, <1>5, <1>6, <1>7, <2>1
<1>9. Joined(h, y, t) /\ Joined(g, rel, p)
  BY <1>2, <1>6, <1>7 DEF Joined
<1>10. /\ \A k \in 1 .. Len(g) : ~Mirrors!Classified(g[k])
       /\ \A k \in 1 .. Len(h) : ~Mirrors!Classified(h[k])
  BY <1>6, <1>7
<1> HIDE DEF rel, g, h, o
<1>11. /\ i = 0 => Mirrors!Pivot(p) = 0
       /\ i # 0 => Mirrors!Pivot(p) # 0 /\ p[Mirrors!Pivot(p)] = rel[i]
  BY <1>8, <1>9, <1>10, PivotBelow
<1>12. /\ i = 0 => Mirrors!Pivot(t) = 0
       /\ i # 0 => Mirrors!Pivot(t) # 0 /\ t[Mirrors!Pivot(t)] = y[i]
  BY <1>4, <1>5, <1>8, <1>9, <1>10, PivotBelow
<1>13. \A q : Mirrors!CaseOf(q) = IF Mirrors!Pivot(q) = 0 THEN "" ELSE q[Mirrors!Pivot(q)].case
  BY DEF Mirrors!CaseOf, Mirrors!Pivot
<1>14. CASE i = 0
  BY <1>11, <1>12, <1>13, <1>14
<1>15. CASE i # 0
  BY <1>4, <1>11, <1>12, <1>13, <1>15
<1> QED BY <1>14, <1>15

\* Back from the other tier: no root lies at a place below a root of scratch that has none
\* in the same place below the permanent one.
LEMMA BackIs ==
  ASSUME Mirrors!MirrorAssumption, NEW p \in MirrorTree, NEW q \in MirrorTree, NEW t,
         Swapped(p, q), Swapped(q, t), Mirrors!Permanent(p), ~Mirrors!OfRun(p)
  PROVE  t = p
<1>1. PICK r \in Mirrors!Locate(p) :
        /\ Len(r.set.roots) = 2
        /\ \E y : q = r.set.roots[3 - r.tier] \o y /\ Moved(Mirrors!Rel(p, r), y, r.tier)
  BY DEF Swapped
<1>2. PICK y : q = r.set.roots[3 - r.tier] \o y /\ Moved(Mirrors!Rel(p, r), y, r.tier)
  BY <1>1
<1>3. PICK o \in Mirrors!Locate(q) :
        /\ Len(o.set.roots) = 2
        /\ \E z : t = o.set.roots[3 - o.tier] \o z /\ Moved(Mirrors!Rel(q, o), z, o.tier)
  BY DEF Swapped
<1>4. PICK z : t = o.set.roots[3 - o.tier] \o z /\ Moved(Mirrors!Rel(q, o), z, o.tier)
  BY <1>3
<1> DEFINE rel == Mirrors!Rel(p, r)
           i == Mirrors!Pivot(rel)
           home == Mirrors!Root(r)
           g == [set |-> r.set, tier |-> 2]
           away == Mirrors!Root(g)
           found == Mirrors!Root(o)
<1>5. r.tier = 1
  <2>1. Mirrors!Locate(p) = {r}
    BY LocatedIs
  <2> QED BY <2>1 DEF Mirrors!Permanent
<1>6. /\ r \in Mirrors!Roots /\ g \in Mirrors!Roots /\ r.set.roots[1] = home /\ r.set.roots[2] = away
      /\ home \in Seq(Made) /\ away \in Seq(Made)
  <2>1. /\ r \in Mirrors!Roots /\ DOMAIN r.set.roots = 1 .. 2
        /\ \A k \in DOMAIN r.set.roots : /\ r.set.roots[k] \in Seq(Made)
                                        /\ [set |-> r.set, tier |-> k] \in Mirrors!Roots
    BY <1>1, LocatedIs, RootsAre
  <2>2. 1 \in 1 .. 2 /\ 2 \in 1 .. 2
    OBVIOUS
  <2> QED BY <1>5, <2>1, <2>2 DEF Mirrors!Root
<1>7. /\ o \in Mirrors!Roots /\ Mirrors!IsPrefix(found, q)
      /\ \A h \in Mirrors!Roots : Mirrors!IsPrefix(Mirrors!Root(h), q) => Len(Mirrors!Root(h)) <= Len(found)
  BY LocatedIs
<1>8. found \in Seq(Made) /\ Len(found) \in Nat /\ Len(home) \in Nat /\ Len(away) \in Nat
  <2>1. found \in Seq(Mirrors!ToSet(found)) /\ Mirrors!ToSet(found) \subseteq Made
    <3>1. found \in Seq(Mirrors!ToSet(found)) /\ Mirrors!ToSet(found) \subseteq RootParts
      BY <1>7, RootsAre DEF RootParts
    <3> QED BY <3>1 DEF Made
  <2> HIDE DEF found, home, away
  <2> QED BY <1>6, <2>1, LenProperties
<1>9. q = away \o y
  <2>1. 3 - r.tier = 2
    BY <1>5
  <2>2. r.set.roots[3 - r.tier] = away
    BY <1>6, <2>1
  <2> HIDE DEF away
  <2> QED BY <1>2, <2>2, Zenon
<1>10. rel \in Seq(Pieces) /\ Len(rel) \in Nat
  BY RelIs, LenProperties
<1>11. /\ \E S : Made \subseteq S /\ y \in Seq(S)
       /\ Len(y) = Len(rel) /\ Mirrors!Pivot(y) = i
       /\ i # 0 => y[i].case = rel[i].case
       /\ \A k \in 1 .. Len(rel) : k # i => y[k] = rel[k]
  <2> HIDE DEF rel
  <2> QED BY <1>2, <1>10, MovedIs DEF rel
<1>12. PICK S : Made \subseteq S /\ y \in Seq(S)
  BY <1>11
<1>13. /\ Len(p) \in Nat /\ Len(home) <= Len(p) /\ Len(rel) = Len(p) - Len(home)
       /\ \A k \in 1 .. Len(home) : p[k] = home[k]
       /\ \A k \in 1 .. Len(rel) : rel[k] = p[Len(home) + k]
  BY RelIs
<1>14. /\ Len(q) = Len(away) + Len(y)
       /\ \A k \in 1 .. Len(away) : q[k] = away[k]
       /\ \A k \in 1 .. Len(y) : q[Len(away) + k] = y[k]
  <2> HIDE DEF away
  <2>1. away \in Seq(S)
    BY <1>6, <1>12
  <2>2. /\ Len(q) = Len(away) + Len(y)
        /\ \A k \in 1 .. Len(away) + Len(y) : q[k] = IF k <= Len(away) THEN away[k] ELSE y[k - Len(away)]
    BY <1>9, <1>12, <2>1, ConcatProperties
  <2>3. Len(y) \in Nat
    BY <1>12, LenProperties
  <2>4. ASSUME NEW k \in 1 .. Len(away) PROVE q[k] = away[k]
    <3>1. k \in 1 .. Len(away) + Len(y) /\ k <= Len(away)
      BY <1>8, <2>3
    <3> QED BY <2>2, <3>1
  <2>5. ASSUME NEW k \in 1 .. Len(y) PROVE q[Len(away) + k] = y[k]
    <3>1. /\ Len(away) + k \in 1 .. Len(away) + Len(y) /\ ~(Len(away) + k <= Len(away))
          /\ (Len(away) + k) - Len(away) = k
      BY <1>8, <2>3
    <3> QED BY <2>2, <3>1
  <2> QED BY <2>2, <2>4, <2>5
<1>15. i # 0 => i \in 1 .. Len(rel) /\ Mirrors!Classified(rel[i]) /\ rel[i] \in Pieces
  BY <1>10, PivotIs, ElementOfSeq
<1>16. q \in Seq(Pieces) /\ Len(q) \in Nat
  BY PathsAre, LenProperties
\* The root found lies at or below the one swapped to, and above the case.
<1>17. Len(away) <= Len(found) /\ Len(found) <= Len(q) /\ \A k \in 1 .. Len(found) : q[k] = found[k]
  <2>1. Mirrors!IsPrefix(away, q)
    <3> HIDE DEF away
    <3>1. Len(away) <= Len(q)
      <4>1. Len(y) \in Nat
        BY <1>12, LenProperties
      <4> QED BY <1>8, <1>14, <4>1
    <3>2. SubSeq(away, 1, Len(away)) = SubSeq(q, 1, Len(away))
      <4> DEFINE a == SubSeq(away, 1, Len(away))
                 b == SubSeq(q, 1, Len(away))
      <4>1. a \in Seq(Made) /\ Len(a) = Len(away) /\ \A k \in 1 .. Len(away) : a[k] = away[k]
        BY <1>6, <1>8
      <4>2. b \in Seq(Pieces) /\ Len(b) = Len(away) /\ \A k \in 1 .. Len(away) : b[k] = q[k]
        BY <1>8, <1>16, <3>1
      <4>3. b \in Seq(Made)
        <5>1. Pieces \subseteq Made
          BY DEF Made
        <5> QED BY <4>2, <5>1
      <4> HIDE DEF a, b
      <4>4. \A k \in 1 .. Len(a) : a[k] = b[k]
        BY <1>14, <4>1, <4>2
      <4>5. a = b
        BY <4>1, <4>2, <4>3, <4>4, SeqEqual
      <4> QED BY <4>5 DEF a, b
    <3> QED BY <3>1, <3>2 DEF Mirrors!IsPrefix
  <2>2. Len(away) <= Len(found)
    BY <1>6, <1>7, <2>1
  <2>3. Len(found) <= Len(q) /\ \A k \in 1 .. Len(found) : q[k] = found[k]
    BY RelIs
  <2> QED BY <2>2, <2>3
<1>18. \A k \in 1 .. Len(found) : ~Mirrors!Classified(found[k])
  <2>1. DOMAIN found = 1 .. Len(found)
    <3> HIDE DEF found
    <3> QED BY <1>8, LenProperties
  <2> QED BY <1>7, <2>1 DEF Mirrors!MirrorAssumption
<1>19. /\ \A k \in 1 .. Len(away) : away[k] = found[k]
       /\ \A k \in 1 .. Len(found) - Len(away) : k \in 1 .. Len(rel) /\ found[Len(away) + k] = rel[k]
  <2> HIDE DEF away, found, rel, i
  <2>1. ASSUME NEW k \in 1 .. Len(away) PROVE away[k] = found[k]
    <3>1. k \in 1 .. Len(found)
      BY <1>8, <1>17
    <3> QED BY <1>14, <1>17, <3>1
  <2>2. Len(found) <= Len(away) + Len(rel)
    BY <1>11, <1>14, <1>17
  <2>3. ASSUME NEW k \in 1 .. Len(found) - Len(away)
        PROVE  k \in 1 .. Len(rel) /\ Len(away) + k \in 1 .. Len(found) /\ found[Len(away) + k] = y[k]
    <3>1. k \in 1 .. Len(rel) /\ Len(away) + k \in 1 .. Len(found)
      BY <1>8, <1>10, <1>17, <2>2
    <3>2. k \in 1 .. Len(y)
      BY <1>11, <3>1
    <3> QED BY <1>14, <1>17, <3>1, <3>2
  <2>4. ASSUME NEW k \in 1 .. Len(found) - Len(away) PROVE k # i
    <3> SUFFICES ASSUME k = i PROVE FALSE
      OBVIOUS
    <3>1. i # 0 /\ found[Len(away) + i] = y[i] /\ Len(away) + i \in 1 .. Len(found)
      BY <1>8, <2>3, <2>4
    <3>2. Mirrors!Classified(y[i])
      BY <1>11, <1>15, <3>1 DEF Mirrors!Classified
    <3> QED BY <1>18, <3>1, <3>2
  <2>5. ASSUME NEW k \in 1 .. Len(found) - Len(away) PROVE found[Len(away) + k] = rel[k]
    BY <1>11, <2>3, <2>4
  <2> QED BY <2>1, <2>3, <2>5
\* So it is the one swapped to: a permanent root in the same place would be nearer the path.
<1>20. Len(found) = Len(away)
  <2>1. Mirrors!IsPrefix(away, found)
    <3> HIDE DEF away, found
    <3> DEFINE a == SubSeq(away, 1, Len(away))
               b == SubSeq(found, 1, Len(away))
    <3>1. a \in Seq(Made) /\ Len(a) = Len(away) /\ \A k \in 1 .. Len(away) : a[k] = away[k]
      BY <1>6, <1>8
    <3>2. b \in Seq(Made) /\ Len(b) = Len(away) /\ \A k \in 1 .. Len(away) : b[k] = found[k]
      BY <1>8, <1>17
    <3> HIDE DEF a, b
    <3>3. \A k \in 1 .. Len(a) : a[k] = b[k]
      BY <1>19, <3>1, <3>2
    <3>4. a = b
      BY <3>1, <3>2, <3>3, SeqEqual
    <3> QED BY <1>17, <3>4 DEF a, b, Mirrors!IsPrefix
  <2> DEFINE d == Mirrors!Rel(found, g)
  <2>2. \E h \in Mirrors!Roots : Mirrors!Root(h) = r.set.roots[1] \o d
    <3>1. g.tier = 2 /\ g.set.roots = r.set.roots
      OBVIOUS
    <3>2. \E h \in Mirrors!Roots : Mirrors!Root(h) = g.set.roots[1] \o d
      BY <1>6, <1>7, <2>1, <3>1 DEF Mirrors!MirrorAssumption
    <3> QED BY <3>1, <3>2
  <2>3. PICK h \in Mirrors!Roots : Mirrors!Root(h) = home \o d
    BY <1>6, <2>2
  <2>4. d = SubSeq(found, Len(away) + 1, Len(found))
    BY DEF Mirrors!Rel
  <2> HIDE DEF away, found, home, rel, d
  <2>5. /\ d \in Seq(Made) /\ Len(d) = Len(found) - Len(away)
        /\ \A k \in 1 .. Len(found) - Len(away) : d[k] = found[Len(away) + k]
    BY <1>8, <1>17, <2>4
  <2> DEFINE b == home \o d
             m == Len(found) - Len(away)
  <2>6. m \in Nat /\ m <= Len(rel)
    BY <1>8, <1>11, <1>14, <1>17
  <2>7. /\ b \in Seq(Made) /\ Len(b) = Len(home) + m
        /\ \A k \in 1 .. Len(home) + m : b[k] = IF k <= Len(home) THEN home[k] ELSE d[k - Len(home)]
    <3>1. /\ b \in Seq(Made) /\ Len(b) = Len(home) + Len(d)
          /\ \A k \in 1 .. Len(home) + Len(d) : b[k] = IF k <= Len(home) THEN home[k] ELSE d[k - Len(home)]
      <4>1. home \in Seq(Made) /\ d \in Seq(Made)
        BY <1>6, <2>5
      <4> QED BY <4>1, ConcatProperties
    <3>2. Len(d) = m
      BY <2>5
    <3> HIDE DEF b, m
    <3> QED BY <3>1, <3>2
  <2> HIDE DEF b
  <2>8. Len(b) <= Len(p)
    BY <1>8, <1>13, <2>6, <2>7
  <2>9. ASSUME NEW k \in 1 .. Len(b) PROVE b[k] = p[k]
    <3>1. k \in 1 .. Len(home) + m
      BY <2>7
    <3>2. CASE k <= Len(home)
      <4>1. k \in 1 .. Len(home)
        BY <1>8, <2>6, <3>1, <3>2
      <4> QED BY <1>13, <2>7, <3>1, <3>2, <4>1
    <3>3. CASE ~(k <= Len(home))
      <4>1. k - Len(home) \in 1 .. m /\ Len(home) + (k - Len(home)) = k
        BY <1>8, <2>6, <3>1, <3>3
      <4>2. b[k] = d[k - Len(home)]
        BY <2>7, <3>1, <3>3
      <4>3. k - Len(home) \in 1 .. Len(rel) /\ d[k - Len(home)] = rel[k - Len(home)]
        BY <1>19, <2>5, <4>1
      <4> QED BY <1>13, <4>1, <4>2, <4>3
    <3> QED BY <3>2, <3>3
  <2>10. Mirrors!IsPrefix(b, p)
    <3> DEFINE c == SubSeq(b, 1, Len(b))
               e == SubSeq(p, 1, Len(b))
    <3>1. b \in Seq(Made) /\ Len(b) \in Nat
      BY <2>7, LenProperties
    <3>2. c \in Seq(Made) /\ Len(c) = Len(b) /\ \A k \in 1 .. Len(b) : c[k] = b[k]
      BY <3>1
    <3>3. p \in Seq(Pieces) /\ Pieces \subseteq Made
      BY PathsAre DEF Made
    <3>4. p \in Seq(Made)
      BY <3>3
    <3>5. e \in Seq(Made) /\ Len(e) = Len(b) /\ \A k \in 1 .. Len(b) : e[k] = p[k]
      BY <1>13, <2>8, <3>1, <3>4
    <3> HIDE DEF c, e
    <3>6. \A k \in 1 .. Len(c) : c[k] = e[k]
      BY <2>9, <3>2, <3>5
    <3>7. c = e
      BY <3>2, <3>5, <3>6, SeqEqual
    <3> QED BY <2>8, <3>7 DEF c, e, Mirrors!IsPrefix
  <2>11. Len(b) <= Len(home)
    <3>1. Mirrors!Root(h) = b
      BY <2>3 DEF b
    <3>2. \A f \in Mirrors!Roots :
            Mirrors!IsPrefix(Mirrors!Root(f), p) => Len(Mirrors!Root(f)) <= Len(home)
      BY LocatedIs DEF home
    <3> QED BY <2>10, <3>1, <3>2
  <2>12. m = 0
    BY <1>8, <2>6, <2>7, <2>11
  <2> QED BY <1>8, <2>12
<1>21. o = g
  <2>1. found = away
    <3> HIDE DEF found, away
    <3> QED BY <1>6, <1>8, <1>19, <1>20, SeqEqual
  <2> QED BY <1>6, <1>7, <2>1 DEF Mirrors!MirrorAssumption
\* From there the way back is known.
<1>22. Mirrors!Rel(q, o) = y
  <2> DEFINE x == Mirrors!Rel(q, o)
  <2>1. x \in Seq(Pieces) /\ Len(x) = Len(q) - Len(found) /\ \A k \in 1 .. Len(x) : x[k] = q[Len(found) + k]
    BY RelIs
  <2> HIDE DEF x, found, away, rel
  <2>2. Len(x) = Len(y) /\ Len(y) \in Nat
    BY <1>8, <1>10, <1>11, <1>14, <1>20, <2>1
  <2>3. \A k \in 1 .. Len(x) : x[k] = y[k]
    BY <1>14, <1>20, <2>1, <2>2
  <2>4. x \in Seq(S)
    <3>1. Pieces \subseteq S
      BY <1>12 DEF Made
    <3> QED BY <2>1, <3>1
  <2>5. x = y
    BY <1>12, <2>2, <2>3, <2>4, SeqEqual
  <2> QED BY <2>5 DEF x
<1>23. t = home \o z /\ Moved(y, z, 2)
  <2>1. o.tier = 2 /\ o.set = r.set /\ 3 - o.tier = 1
    BY <1>21
  <2> QED BY <1>4, <1>6, <1>22, <2>1
<1>24. i # 0 => rel[i].run = 0
  <2>1. p = home \o rel /\ \A k \in 1 .. Len(home) : ~Mirrors!Classified(home[k])
    BY PathSplits
  <2> HIDE DEF home, rel
  <2>2. rel \in Seq(S) /\ home \in Seq(S)
    <3>1. Pieces \subseteq S
      BY <1>12 DEF Made
    <3> QED BY <1>6, <1>10, <1>12, <3>1
  <2>3. Joined(home, rel, p)
    BY <2>1 DEF Joined
  <2>4. i # 0 => Mirrors!Pivot(p) # 0 /\ p[Mirrors!Pivot(p)] = rel[i]
    <3>1. \A k \in 1 .. Len(home) : ~Mirrors!Classified(home[k])
      BY <2>1
    <3> QED BY <2>2, <2>3, <3>1, PivotBelow
  <2>5. Mirrors!OfRun(p) <=> Mirrors!Pivot(p) # 0 /\ p[Mirrors!Pivot(p)].run # 0
    BY DEF Mirrors!OfRun, Mirrors!Pivot
  <2> QED BY <2>4, <2>5
<1>25. z = rel
  <2>1. CASE i = 0
    <3>1. y = rel
      BY <1>2, <2>1 DEF Moved
    <3> QED BY <1>11, <1>23, <2>1, <3>1 DEF Moved
  <2>2. CASE i # 0
    <3> HIDE DEF rel
    <3>1. rel[i] = Mirrors!Run(rel[i].case, 0)
      <4>1. \A c : Mirrors!Component(c) /\ Mirrors!Classified(c) => c = Mirrors!Run(c.case, c.run)
        <5> SUFFICES ASSUME NEW c, Mirrors!Component(c), c.case # "" PROVE c = Mirrors!Run(c.case, c.run)
          BY DEF Mirrors!Classified
        <5>1. Mirrors!Dir(c.name).case = ""
          BY DEF Mirrors!Dir
        <5>2. c # Mirrors!Dir(c.name)
          BY <5>1
        <5> QED BY <5>2 DEF Mirrors!Component
      <4>2. Mirrors!Component(rel[i]) /\ Mirrors!Classified(rel[i])
        BY <1>15, <2>2, PathsAre
      <4> QED BY <1>24, <2>2, <4>1, <4>2
    <3>2. PICK n : y = Put(rel, i, Mirrors!Run(rel[i].case, n))
      BY <1>2, <2>2 DEF Moved, rel
    <3>3. z = Put(y, i, Mirrors!Run(y[i].case, 0))
      BY <1>11, <1>23, <2>2 DEF Moved
    <3>4. y[i].case = rel[i].case
      BY <1>11, <2>2
    <3> HIDE DEF i
    <3>5. \A c, e : Put(Put(rel, i, c), i, e) = Put(rel, i, e)
      BY DEF Put
    <3>6. Put(rel, i, rel[i]) = rel
      BY <1>10, <1>15, <2>2 DEF Put
    <3> QED BY <3>1, <3>2, <3>3, <3>4, <3>5, <3>6
  <2> QED BY <2>1, <2>2
<1> QED
  <2>1. p = home \o rel
    BY PathSplits
  <2> QED BY <1>23, <1>25, <2>1

\* Where the shell came from, it came by a swap.
CameBySwap ==
  /\ shellCwd \in exists /\ exists \subseteq MirrorTree
  /\ came # <<>> => came \in MirrorTree /\ Swapped(came, shellCwd)

\* Every step keeps it.
LEMMA CameStep ==
  ASSUME Mirrors!MirrorAssumption, CameBySwap, [Mirrors!Next]_<<shellCwd, exists, mtime, came>>
  PROVE  CameBySwap'
<1>1. CASE Mirrors!Cd
  <2>1. PICK t \in Mirrors!Swap(shellCwd) : shellCwd' = t /\ came' = shellCwd
    BY <1>1 DEF Mirrors!Cd
  <2>2. exists' = exists
    BY <1>1 DEF Mirrors!Cd
  <2>3. shellCwd \in MirrorTree
    BY DEF CameBySwap
  <2>4. t \in exists /\ Swapped(shellCwd, t)
    BY <2>3, SwapIs
  <2> QED BY <2>1, <2>2, <2>3, <2>4 DEF CameBySwap
<1>2. ASSUME NEW p \in MirrorTree, Mirrors!Touch(p) PROVE CameBySwap'
  <2>1. shellCwd' = shellCwd /\ came' = came /\ exists' = exists \cup {p}
    BY <1>2 DEF Mirrors!Touch
  <2> QED BY <2>1 DEF CameBySwap
<1>3. CASE UNCHANGED <<shellCwd, exists, mtime, came>>
  BY <1>3 DEF CameBySwap
<1> QED BY <1>1, <1>2, <1>3 DEF Mirrors!Next

\* A swap stays in the case and the next one comes back, whatever runs are made (mirror.go, Swap).
THEOREM SwapsAreKept ==
  ASSUME Mirrors!MirrorAssumption
  PROVE  Mirrors!Spec => Mirrors!SwapKeepsCase
<1>1. ASSUME CameBySwap, [Mirrors!Next]_<<shellCwd, exists, mtime, came>>
      PROVE  [shellCwd' # shellCwd =>
                /\ Mirrors!CaseOf(shellCwd') = Mirrors!CaseOf(shellCwd)
                /\ came # <<>> /\ Mirrors!Permanent(came) /\ ~Mirrors!OfRun(came) => shellCwd' = came
             ]_<<shellCwd, exists, mtime, came>>
  <2>1. CASE Mirrors!Cd
    <3>1. PICK t \in Mirrors!Swap(shellCwd) : shellCwd' = t
      BY <2>1 DEF Mirrors!Cd
    <3>2. shellCwd \in MirrorTree
      BY <1>1 DEF CameBySwap
    <3>3. Swapped(shellCwd, t)
      BY <3>2, SwapIs
    <3>4. Mirrors!CaseOf(t) = Mirrors!CaseOf(shellCwd)
      BY <3>2, <3>3, CaseIsKept
    <3>5. came # <<>> /\ Mirrors!Permanent(came) /\ ~Mirrors!OfRun(came) => t = came
      <4>1. came # <<>> => came \in MirrorTree /\ Swapped(came, shellCwd)
        BY <1>1 DEF CameBySwap
      <4> QED BY <3>2, <3>3, <4>1, BackIs
    <3> QED BY <3>1, <3>4, <3>5
  <2>2. CASE \E p \in MirrorTree : Mirrors!Touch(p)
    <3>1. shellCwd' = shellCwd
      BY <2>2 DEF Mirrors!Touch
    <3> QED BY <3>1
  <2>3. CASE UNCHANGED <<shellCwd, exists, mtime, came>>
    BY <2>3
  <2> QED BY <1>1, <2>1, <2>2, <2>3 DEF Mirrors!Next
<1>2. Mirrors!Init => CameBySwap
  BY DEF Mirrors!Init, CameBySwap
<1>3. CameBySwap /\ [Mirrors!Next]_<<shellCwd, exists, mtime, came>> => CameBySwap'
  BY CameStep
<1> QED BY <1>1, <1>2, <1>3, PTL DEF Mirrors!Spec, Mirrors!vars, Mirrors!SwapKeepsCase

-----------------------------------------------------------------------------

\* The mirror alone.
LEMMA MirrorAlone == ToolkitSpec => Mirrors!Spec
<1>1. ToolkitInit => Mirrors!Init
  BY DEF ToolkitInit
<1>2. [ToolkitNext]_parts => [Mirrors!Next]_Mirrors!vars
  BY DEF ToolkitNext, parts, mirrors, Mirrors!vars
<1> QED BY <1>1, <1>2, PTL DEF ToolkitSpec, Mirrors!Spec

\* Places whose material has a class never share an archive path, also where the root of one
\* set lies below another's (internal/mirror/mirror.go, Archive, Container).
THEOREM ArchivesKeepApart == ToolkitSpec => []ArchiveKeepsApart
<1>1. Mirrors!Spec => []Mirrors!ArchiveKeepsApart
  BY MirrorsAreApart, MirrorsAssumption
<1>2. Mirrors!ArchiveKeepsApart => ArchiveKeepsApart
  BY DEF ArchiveKeepsApart
<1> QED BY <1>1, <1>2, MirrorAlone, PTL

\* A swap stays in the case, and to and fro from the permanent tier ends where it began,
\* whatever runs start meanwhile (internal/mirror/mirror.go, Swap, runCounterpart).
THEOREM SwapsComeBack == ToolkitSpec => SwapKeepsCase
<1>1. Mirrors!Spec => Mirrors!SwapKeepsCase
  BY SwapsAreKept, MirrorsAssumption
<1> QED BY <1>1, MirrorAlone DEF SwapKeepsCase
================================================================================
