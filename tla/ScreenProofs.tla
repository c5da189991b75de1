------------------------------ MODULE ScreenProofs ------------------------------
(***************************************************************************)
(* Proofs about the parts of mu that show tables, fill forms and read      *)
(* screens: the fan-out over the fleet (Collate), the queue picker and its *)
(* cancel (QueuePick), the submit form (SubmitForm), the edit panel        *)
(* (Panel) and the shared pane of the job harness (Harness).               *)
(***************************************************************************)
EXTENDS ScreenParts, FiniteSetTheorems, SequenceTheorems, TLAPS

-----------------------------------------------------------------------------
(* Places in a set of numbers.                                             *)

\* The fan-out counts as FiniteSets does.
LEMMA FanCounts ==
  \A S : Fan!Cardinality(S) = Cardinality(S) /\ (Fan!IsFiniteSet(S) <=> IsFiniteSet(S))
BY DEF Fan!Cardinality, Cardinality, Fan!IsFiniteSet, IsFiniteSet

\* Ranks count from 1 and grow with the numbers.
LEMMA RankIs ==
  ASSUME NEW I \in SUBSET Int, IsFiniteSet(I)
  PROVE  /\ Cardinality(I) \in Nat
         /\ \A i \in I : Fan!Rank(I, i) \in 1 .. Cardinality(I)
         /\ \A i, j \in I : i < j => Fan!Rank(I, i) < Fan!Rank(I, j)
<1>1. ASSUME NEW i \in I
      PROVE  /\ {h \in I : h <= i} \in SUBSET I /\ IsFiniteSet({h \in I : h <= i})
             /\ Fan!Rank(I, i) \in Nat /\ Fan!Rank(I, i) <= Cardinality(I)
  BY FS_Subset, FS_CardinalityType, FanCounts DEF Fan!Rank
<1>2. Cardinality(I) \in Nat
  BY FS_CardinalityType
<1>3. ASSUME NEW i \in I PROVE Fan!Rank(I, i) \in 1 .. Cardinality(I)
  <2>1. i \in {h \in I : h <= i}
    OBVIOUS
  <2>2. Fan!Rank(I, i) # 0
    BY <1>1, <2>1, FS_EmptySet, FanCounts DEF Fan!Rank
  <2>3. Fan!Rank(I, i) \in Nat /\ Fan!Rank(I, i) <= Cardinality(I)
    BY <1>1
  <2> QED BY <1>2, <2>2, <2>3
<1>4. ASSUME NEW i \in I, NEW j \in I, i < j PROVE Fan!Rank(I, i) < Fan!Rank(I, j)
  <2>1. i \in Int /\ j \in Int
    OBVIOUS
  <2>2. ASSUME NEW h \in I, h <= i PROVE h <= j
    <3>1. h \in Int
      OBVIOUS
    <3> QED BY <1>4, <2>1, <2>2, <3>1
  <2>3. {h \in I : h <= i} \in SUBSET {h \in I : h <= j}
    BY <2>2
  <2>4. j \in {h \in I : h <= j} /\ j \notin {h \in I : h <= i}
    BY <1>4, <2>1
  <2>5. Fan!Rank(I, i) <= Fan!Rank(I, j) /\ Fan!Rank(I, i) # Fan!Rank(I, j)
    BY <1>1, <2>3, <2>4, FS_Subset, FanCounts DEF Fan!Rank
  <2>6. Fan!Rank(I, i) \in Nat /\ Fan!Rank(I, j) \in Nat
    BY <1>1
  <2> QED BY <2>5, <2>6
<1> QED BY <1>2, <1>3, <1>4

\* Every place has its number.
LEMMA NthIs ==
  ASSUME NEW I \in SUBSET Int, IsFiniteSet(I)
  PROVE  /\ \A k \in 1 .. Cardinality(I) : Fan!Nth(I, k) \in I /\ Fan!Rank(I, Fan!Nth(I, k)) = k
         /\ \A i \in I : Fan!Nth(I, Fan!Rank(I, i)) = i
         /\ \A j, k \in 1 .. Cardinality(I) : j < k => Fan!Nth(I, j) < Fan!Nth(I, k)
<1> DEFINE n == Cardinality(I)
           f == [i \in I |-> Fan!Rank(I, i)]
<1>1. /\ n \in Nat /\ \A i \in I : Fan!Rank(I, i) \in 1 .. n
      /\ \A i, j \in I : i < j => Fan!Rank(I, i) < Fan!Rank(I, j)
  BY RankIs
<1> HIDE DEF n
<1>2. \A i, j \in I : Fan!Rank(I, i) = Fan!Rank(I, j) => i = j
  <2>1. SUFFICES ASSUME NEW i \in I, NEW j \in I, Fan!Rank(I, i) = Fan!Rank(I, j), i # j PROVE FALSE
    OBVIOUS
  <2>2. i < j \/ j < i
    BY <2>1
  <2>3. Fan!Rank(I, i) \in Int /\ Fan!Rank(I, j) \in Int
    BY <1>1
  <2> QED BY <1>1, <2>1, <2>2, <2>3
<1>3. f \in Injection(I, 1 .. n)
  BY <1>1, <1>2 DEF Injection, IsInjective
<1>4. IsFiniteSet(1 .. n) /\ Cardinality(1 .. n) = n
  BY <1>1, FS_Interval
<1>5. f \in Surjection(I, 1 .. n)
  BY <1>3, <1>4, FS_Injection DEF n
<1>6. ASSUME NEW k \in 1 .. n PROVE Fan!Nth(I, k) \in I /\ Fan!Rank(I, Fan!Nth(I, k)) = k
  <2>1. \E i \in I : Fan!Rank(I, i) = k
    BY <1>5 DEF Surjection
  <2> QED BY <2>1 DEF Fan!Nth
<1>7. ASSUME NEW i \in I PROVE Fan!Nth(I, Fan!Rank(I, i)) = i
  BY <1>1, <1>2, <1>6
<1>8. ASSUME NEW j \in 1 .. n, NEW k \in 1 .. n, j < k PROVE Fan!Nth(I, j) < Fan!Nth(I, k)
  <2>1. Fan!Nth(I, j) \in I /\ Fan!Nth(I, k) \in I /\ Fan!Rank(I, Fan!Nth(I, j)) = j /\ Fan!Rank(I, Fan!Nth(I, k)) = k
    BY <1>6
  <2>2. j \in Int /\ k \in Int /\ ~(k < j) /\ j # k
    BY <1>8
  <2>3. ~(Fan!Nth(I, k) < Fan!Nth(I, j)) /\ Fan!Nth(I, j) # Fan!Nth(I, k)
    BY <1>1, <2>1, <2>2
  <2>4. Fan!Nth(I, j) \in Int /\ Fan!Nth(I, k) \in Int
    BY <2>1
  <2> QED BY <2>3, <2>4
<1> QED BY <1>6, <1>7, <1>8 DEF n

\* A set of numbers that is not empty has a greatest and a least member.
LEMMA EndsAre ==
  ASSUME NEW I \in SUBSET Int, IsFiniteSet(I), I # {}
  PROVE  /\ Fan!Greatest(I) \in I /\ \A i \in I : i <= Fan!Greatest(I)
         /\ Fan!Least(I) \in I /\ \A i \in I : Fan!Least(I) <= i
<1>1. /\ Cardinality(I) \in Nat
      /\ \A i \in I : Fan!Rank(I, i) \in 1 .. Cardinality(I)
      /\ \A i, j \in I : i < j => Fan!Rank(I, i) < Fan!Rank(I, j)
  BY RankIs
<1>2. 1 \in 1 .. Cardinality(I) /\ Cardinality(I) \in 1 .. Cardinality(I)
  <2>1. PICK i \in I : TRUE
    OBVIOUS
  <2>2. Fan!Rank(I, i) \in 1 .. Cardinality(I) /\ Cardinality(I) \in Nat
    BY <1>1
  <2> QED BY <2>2
<1>3. /\ Fan!Greatest(I) \in I /\ Fan!Rank(I, Fan!Greatest(I)) = Cardinality(I)
      /\ Fan!Least(I) \in I /\ Fan!Rank(I, Fan!Least(I)) = 1
  BY <1>2, NthIs, FanCounts DEF Fan!Greatest, Fan!Least
<1>4. ASSUME NEW i \in I PROVE i <= Fan!Greatest(I) /\ Fan!Least(I) <= i
  <2>1. Fan!Rank(I, i) \in 1 .. Cardinality(I) /\ Cardinality(I) \in Nat
    BY <1>1
  <2>2. ~(Cardinality(I) < Fan!Rank(I, i)) /\ ~(Fan!Rank(I, i) < 1)
    BY <2>1
  <2>3. ~(Fan!Greatest(I) < i) /\ ~(i < Fan!Least(I))
    BY <1>1, <1>3, <2>2
  <2>4. i \in Int /\ Fan!Greatest(I) \in Int /\ Fan!Least(I) \in Int
    BY <1>3
  <2> QED BY <2>3, <2>4
<1> QED BY <1>3, <1>4

-----------------------------------------------------------------------------
(* The fan-out: targets.                                                   *)

\* A target as the loader and the scopes make it.
Labelled == [label: STRING, node: Fan!Nodes \cup {Fan!NoNode}]

\* A label stands for one node.
OneNode(ts) == \A i, j \in DOMAIN ts : ts[i].label = ts[j].label => ts[i].node = ts[j].node

\* The node a cluster's target asks, the first of its nodes; none if it has none.
Rep(c) == IF Defs[c].nodes = <<>> THEN Fan!NoNode ELSE Defs[c].nodes[1]

\* What is kept of a sequence is a sequence of the members at those places, in their order.
LEMMA KeptIs ==
  ASSUME NEW s, NEW I \in SUBSET Int, IsFiniteSet(I)
  PROVE  /\ Fan!Kept(s, I) \in Seq({s[i] : i \in I}) /\ Len(Fan!Kept(s, I)) = Cardinality(I)
         /\ DOMAIN Fan!Kept(s, I) = 1 .. Cardinality(I)
         /\ Cardinality(I) \in Nat
         /\ \A k \in 1 .. Cardinality(I) : Fan!Nth(I, k) \in I /\ Fan!Kept(s, I)[k] = s[Fan!Nth(I, k)]
         /\ \A i \in I : Fan!Rank(I, i) \in 1 .. Cardinality(I) /\ Fan!Kept(s, I)[Fan!Rank(I, i)] = s[i]
         /\ \A j, k \in 1 .. Cardinality(I) : j < k => Fan!Nth(I, j) < Fan!Nth(I, k)
<1>1. /\ Cardinality(I) \in Nat
      /\ \A i \in I : Fan!Rank(I, i) \in 1 .. Cardinality(I) /\ Fan!Nth(I, Fan!Rank(I, i)) = i
      /\ \A k \in 1 .. Cardinality(I) : Fan!Nth(I, k) \in I
      /\ \A j, k \in 1 .. Cardinality(I) : j < k => Fan!Nth(I, j) < Fan!Nth(I, k)
  BY RankIs, NthIs
<1>2. Fan!Kept(s, I) \in [1 .. Cardinality(I) -> {s[i] : i \in I}]
  BY <1>1, FanCounts DEF Fan!Kept
<1>3. Fan!Kept(s, I) \in Seq({s[i] : i \in I}) /\ Len(Fan!Kept(s, I)) = Cardinality(I)
  <2>1. ASSUME NEW f, NEW n \in Nat, NEW S, f \in [1 .. n -> S] PROVE f \in Seq(S) /\ Len(f) = n
    BY <2>1
  <2> QED BY <1>1, <1>2, <2>1
<1> QED BY <1>1, <1>3, FanCounts DEF Fan!Kept

\* Some of the places of a list are finitely many numbers.
LEMMA PlacesAre ==
  ASSUME NEW n \in Nat, NEW I \in SUBSET (1 .. n) PROVE I \in SUBSET Int /\ IsFiniteSet(I)
<1>1. IsFiniteSet(1 .. n) /\ 1 .. n \subseteq Int
  BY FS_Interval
<1> QED BY <1>1, FS_Subset

\* A cluster's definition.
ClusterType == [name: STRING, nodes: Seq(STRING \ {Fan!NoNode}), active: BOOLEAN]

\* The definitions are a list of clusters.
LEMMA DefsListed ==
  ASSUME Fan!DefsAssumption
  PROVE  /\ Len(Defs) \in Nat /\ DOMAIN Defs = 1 .. Len(Defs)
         /\ Defs \in [1 .. Len(Defs) -> ClusterType]
<1>1. Defs \in Seq(ClusterType)
  BY DEF Fan!DefsAssumption, ClusterType
<1> QED BY <1>1

\* A cluster's name and nodes; the node that represents it is one of its own.
LEMMA DefsAre ==
  ASSUME Fan!DefsAssumption, NEW c \in DOMAIN Defs
  PROVE  /\ Defs[c].name \in STRING /\ Defs[c].nodes \in Seq(STRING \ {Fan!NoNode})
         /\ Fan!Range1(Defs[c].nodes) \subseteq Fan!Nodes /\ Rep(c) \in Fan!Nodes \cup {Fan!NoNode}
         /\ Rep(c) # Fan!NoNode => Rep(c) \in Fan!Range1(Defs[c].nodes)
<1>1. Defs[c].name \in STRING /\ Defs[c].nodes \in Seq(STRING \ {Fan!NoNode})
  <2>1. Defs[c] \in ClusterType
    BY DefsListed
  <2> QED BY <2>1 DEF ClusterType
<1>2. Fan!Range1(Defs[c].nodes) \subseteq Fan!Nodes
  BY DEF Fan!Nodes
<1>3. Defs[c].nodes # <<>> => Rep(c) \in Fan!Range1(Defs[c].nodes)
  BY <1>1 DEF Rep, Fan!Range1
<1> QED BY <1>1, <1>2, <1>3 DEF Rep

\* Nodes have names, and none is the name for no node.
LEMMA NodesAre == ASSUME Fan!DefsAssumption PROVE Fan!Nodes \in SUBSET (STRING \ {Fan!NoNode})
BY DefsAre DEF Fan!Nodes, Fan!Range1

\* The representatives of some clusters.
LEMMA ClusterTargetsAre ==
  ASSUME Fan!DefsAssumption, NEW I \in SUBSET DOMAIN Defs
  PROVE  LET ts == Fan!ClusterTargets(Fan!Kept(Defs, I))
         IN /\ ts \in Seq(Labelled) /\ Len(ts) = Cardinality(I) /\ Cardinality(I) \in Nat
            /\ \A k \in 1 .. Cardinality(I) :
                 Fan!Nth(I, k) \in I /\ ts[k] = Fan!Target(Defs[Fan!Nth(I, k)].name, Rep(Fan!Nth(I, k)))
            /\ \A c \in I : Fan!Rank(I, c) \in 1 .. Cardinality(I)
            /\ \A j, k \in 1 .. Cardinality(I) : j < k => Fan!Nth(I, j) < Fan!Nth(I, k)
<1> DEFINE s == Fan!Kept(Defs, I)
           ts == Fan!ClusterTargets(s)
<1>1. Len(Defs) \in Nat /\ Defs \in [1 .. Len(Defs) -> ClusterType] /\ DOMAIN Defs = 1 .. Len(Defs)
  BY DefsListed
<1>0. I \in SUBSET Int /\ IsFiniteSet(I)
  BY <1>1, PlacesAre
<1>2. /\ s \in Seq({Defs[i] : i \in I}) /\ Len(s) = Cardinality(I) /\ Cardinality(I) \in Nat
      /\ \A k \in 1 .. Cardinality(I) : Fan!Nth(I, k) \in I /\ s[k] = Defs[Fan!Nth(I, k)]
      /\ \A i \in I : Fan!Rank(I, i) \in 1 .. Cardinality(I)
      /\ \A j, k \in 1 .. Cardinality(I) : j < k => Fan!Nth(I, j) < Fan!Nth(I, k)
  BY <1>0, KeptIs
<1> HIDE DEF s
<1>3. DOMAIN s = 1 .. Cardinality(I)
  BY <1>2
<1>4. ASSUME NEW k \in 1 .. Cardinality(I)
      PROVE  ts[k] = Fan!Target(Defs[Fan!Nth(I, k)].name, Rep(Fan!Nth(I, k))) /\ ts[k] \in Labelled
  <2>1. ts[k] = Fan!Target(Defs[Fan!Nth(I, k)].name, Rep(Fan!Nth(I, k)))
    BY <1>2, <1>3 DEF Fan!ClusterTargets, Rep
  <2>2. Defs[Fan!Nth(I, k)].name \in STRING /\ Rep(Fan!Nth(I, k)) \in Fan!Nodes \cup {Fan!NoNode}
    BY <1>2, DefsAre
  <2> QED BY <2>1, <2>2 DEF Fan!Target, Labelled
<1>5. ts \in [1 .. Cardinality(I) -> Labelled]
  BY <1>3, <1>4 DEF Fan!ClusterTargets
<1> HIDE DEF ts
<1>6. ts \in Seq(Labelled) /\ Len(ts) = Cardinality(I)
  <2>1. ASSUME NEW f, NEW n \in Nat, NEW S, f \in [1 .. n -> S] PROVE f \in Seq(S) /\ Len(f) = n
    BY <2>1
  <2> QED BY <1>2, <1>5, <2>1
<1> QED BY <1>2, <1>4, <1>6 DEF ts, s

\* The fleet's targets are its nodes, each under its own name.
LEMMA FleetTargetsAre ==
  ASSUME Fan!DefsAssumption, NEW ns \in Seq(Fan!Nodes)
  PROVE  /\ Fan!FleetTargets(ns) \in Seq(Labelled) /\ Len(Fan!FleetTargets(ns)) = Len(ns)
         /\ \A i \in 1 .. Len(ns) : Fan!FleetTargets(ns)[i] = Fan!Target(ns[i], ns[i])
<1>1. DOMAIN ns = 1 .. Len(ns) /\ Len(ns) \in Nat
  OBVIOUS
<1>2. Fan!FleetTargets(ns) \in [1 .. Len(ns) -> Labelled]
  BY <1>1, NodesAre DEF Fan!FleetTargets, Fan!Target, Labelled
<1> QED BY <1>1, <1>2 DEF Fan!FleetTargets

-----------------------------------------------------------------------------
(* Scopes.                                                                 *)

\* The clusters no node of the fleet is one of.
Bare == {c \in DOMAIN Defs : ~Fan!Covered(Defs[c])}

\* The targets of -e, one by one: the fleet's, then those of the clusters it leaves out.
LEMMA AllSystemsAre ==
  ASSUME Fan!DefsAssumption, fleet \in Fleets
  PROVE  /\ Fan!AllSystemsScope \in Seq(Labelled) /\ fleet \in Seq(Fan!Nodes) /\ Len(fleet) \in Nat
         /\ Cardinality(Bare) \in Nat /\ Len(Fan!AllSystemsScope) = Len(fleet) + Cardinality(Bare)
         /\ \A i \in 1 .. Len(fleet) : Fan!AllSystemsScope[i] = Fan!Target(fleet[i], fleet[i])
         /\ \A k \in 1 .. Cardinality(Bare) :
              /\ Fan!Nth(Bare, k) \in Bare
              /\ Fan!AllSystemsScope[Len(fleet) + k] = Fan!Target(Defs[Fan!Nth(Bare, k)].name, Rep(Fan!Nth(Bare, k)))
         /\ \A c \in Bare : Fan!Rank(Bare, c) \in 1 .. Cardinality(Bare)
         /\ \A j, k \in 1 .. Cardinality(Bare) : j < k => Fan!Nth(Bare, j) < Fan!Nth(Bare, k)
<1> DEFINE F == Fan!FleetTargets(fleet)
           C == Fan!ClusterTargets(Fan!Kept(Defs, Bare))
<1>1. fleet \in Seq(Fan!Nodes) /\ Len(fleet) \in Nat
  BY DEF Fan!DefsAssumption
<1>2. Bare \in SUBSET DOMAIN Defs
  BY DEF Bare
<1>3. /\ F \in Seq(Labelled) /\ Len(F) = Len(fleet)
      /\ \A i \in 1 .. Len(fleet) : F[i] = Fan!Target(fleet[i], fleet[i])
  BY <1>1, FleetTargetsAre
<1>4. /\ C \in Seq(Labelled) /\ Len(C) = Cardinality(Bare) /\ Cardinality(Bare) \in Nat
      /\ \A k \in 1 .. Cardinality(Bare) :
           Fan!Nth(Bare, k) \in Bare /\ C[k] = Fan!Target(Defs[Fan!Nth(Bare, k)].name, Rep(Fan!Nth(Bare, k)))
      /\ \A c \in Bare : Fan!Rank(Bare, c) \in 1 .. Cardinality(Bare)
      /\ \A j, k \in 1 .. Cardinality(Bare) : j < k => Fan!Nth(Bare, j) < Fan!Nth(Bare, k)
  BY <1>2, ClusterTargetsAre
<1>5. Fan!AllSystemsScope = F \o C
  BY DEF Fan!AllSystemsScope, Bare
<1> HIDE DEF F, C
<1>6. /\ F \o C \in Seq(Labelled) /\ Len(F \o C) = Len(fleet) + Cardinality(Bare)
      /\ \A i \in 1 .. Len(fleet) : (F \o C)[i] = F[i]
      /\ \A k \in 1 .. Cardinality(Bare) : (F \o C)[Len(fleet) + k] = C[k]
  <2>1. F \o C \in Seq(Labelled) /\ Len(F \o C) = Len(F) + Len(C)
    BY <1>3, <1>4
  <2>2. ASSUME NEW i \in 1 .. Len(fleet) PROVE (F \o C)[i] = F[i]
    BY <1>1, <1>3, <1>4
  <2>3. ASSUME NEW k \in 1 .. Cardinality(Bare) PROVE (F \o C)[Len(fleet) + k] = C[k]
    <3>1. Len(fleet) + k \in 1 .. Len(F) + Len(C) /\ ~(Len(fleet) + k <= Len(F)) /\ Len(fleet) + k - Len(F) = k
      BY <1>1, <1>3, <1>4
    <3> QED BY <1>3, <1>4, <3>1
  <2> QED BY <1>3, <1>4, <2>1, <2>2, <2>3
<1> QED BY <1>1, <1>3, <1>4, <1>5, <1>6

\* Where a place of -e's targets lies.
LEMMA AllSystemsPlaces ==
  ASSUME Fan!DefsAssumption, fleet \in Fleets, NEW i \in DOMAIN Fan!AllSystemsScope
  PROVE  \/ \E n \in Fan!Range1(fleet) : n \in Fan!Nodes /\ Fan!AllSystemsScope[i] = Fan!Target(n, n)
         \/ \E k \in 1 .. Cardinality(Bare) : i = Len(fleet) + k
<1>1. /\ Fan!AllSystemsScope \in Seq(Labelled) /\ fleet \in Seq(Fan!Nodes) /\ Len(fleet) \in Nat
      /\ Cardinality(Bare) \in Nat /\ Len(Fan!AllSystemsScope) = Len(fleet) + Cardinality(Bare)
      /\ \A j \in 1 .. Len(fleet) : Fan!AllSystemsScope[j] = Fan!Target(fleet[j], fleet[j])
  BY AllSystemsAre
<1>2. i \in 1 .. Len(fleet) + Cardinality(Bare)
  BY <1>1
<1>3. CASE i \in 1 .. Len(fleet)
  <2>1. fleet[i] \in Fan!Range1(fleet) /\ fleet[i] \in Fan!Nodes
    BY <1>1, <1>3 DEF Fan!Range1
  <2> QED BY <1>1, <1>3, <2>1
<1>4. CASE ~(i \in 1 .. Len(fleet))
  <2>1. i - Len(fleet) \in 1 .. Cardinality(Bare) /\ i = Len(fleet) + (i - Len(fleet))
    BY <1>1, <1>2, <1>4
  <2> QED BY <2>1
<1> QED BY <1>3, <1>4

\* A node of the fleet that bears a cluster's name covers it; so does one of its nodes.
LEMMA NamedIsCovered ==
  ASSUME Fan!DefsAssumption, fleet \in Fleets, NEW c \in DOMAIN Defs, NEW n \in Fan!Range1(fleet), n \in Fan!Nodes,
         n = Defs[c].name \/ n \in Fan!Range1(Defs[c].nodes)
  PROVE  Fan!Covered(Defs[c])
<1>1. n \in Fan!Range1(Defs[c].nodes)
  BY DEF Fan!DefsAssumption
<1> QED BY <1>1 DEF Fan!Covered

\* Under -e every configured system is asked, and twice only where the fleet holds the node that
\* answers (collate.go, allSystemsScope).
LEMMA AllOnce == ASSUME Fan!DefsAssumption, fleet \in Fleets PROVE Fan!AllSystemsOnce
<1>1. SUFFICES ASSUME NEW c \in DOMAIN Defs
               PROVE  LET mine == {i \in DOMAIN Fan!AllSystemsScope :
                                     \/ Fan!AllSystemsScope[i].node \in Fan!Range1(Defs[c].nodes)
                                     \/ Fan!AllSystemsScope[i].label = Defs[c].name}
                      IN /\ mine # {}
                         /\ Cardinality(mine) > 1 =>
                              \A i \in mine : Fan!AllSystemsScope[i].node \in Fan!Range1(fleet)
  BY FanCounts DEF Fan!AllSystemsOnce
<1> DEFINE mine == {i \in DOMAIN Fan!AllSystemsScope :
                      \/ Fan!AllSystemsScope[i].node \in Fan!Range1(Defs[c].nodes)
                      \/ Fan!AllSystemsScope[i].label = Defs[c].name}
<1>2. /\ Fan!AllSystemsScope \in Seq(Labelled) /\ fleet \in Seq(Fan!Nodes) /\ Len(fleet) \in Nat
      /\ Cardinality(Bare) \in Nat /\ Len(Fan!AllSystemsScope) = Len(fleet) + Cardinality(Bare)
      /\ \A i \in 1 .. Len(fleet) : Fan!AllSystemsScope[i] = Fan!Target(fleet[i], fleet[i])
      /\ \A k \in 1 .. Cardinality(Bare) :
           /\ Fan!Nth(Bare, k) \in Bare
           /\ Fan!AllSystemsScope[Len(fleet) + k] = Fan!Target(Defs[Fan!Nth(Bare, k)].name, Rep(Fan!Nth(Bare, k)))
      /\ \A d \in Bare : Fan!Rank(Bare, d) \in 1 .. Cardinality(Bare)
      /\ \A j, k \in 1 .. Cardinality(Bare) : j < k => Fan!Nth(Bare, j) < Fan!Nth(Bare, k)
  BY AllSystemsAre
<1>3. \A x, y : Fan!Target(x, y).label = x /\ Fan!Target(x, y).node = y
  BY DEF Fan!Target
<1>4. DOMAIN Fan!AllSystemsScope = 1 .. Len(fleet) + Cardinality(Bare)
  BY <1>2
<1>5. CASE Fan!Covered(Defs[c])
  <2>1. PICK n \in Fan!Range1(Defs[c].nodes) : n \in Fan!Range1(fleet)
    BY <1>5 DEF Fan!Covered
  <2>2. PICK i \in 1 .. Len(fleet) : fleet[i] = n
    BY <1>2, <2>1 DEF Fan!Range1
  <2>3. i \in mine
    BY <1>2, <1>3, <1>4, <2>1, <2>2
  <2>4. ASSUME NEW j \in mine PROVE Fan!AllSystemsScope[j].node \in Fan!Range1(fleet)
    <3>1. CASE \E m \in Fan!Range1(fleet) : m \in Fan!Nodes /\ Fan!AllSystemsScope[j] = Fan!Target(m, m)
      BY <1>3, <3>1
    <3>2. ASSUME NEW k \in 1 .. Cardinality(Bare), j = Len(fleet) + k PROVE FALSE
      <4> DEFINE d == Fan!Nth(Bare, k)
      <4>1. d \in DOMAIN Defs /\ ~Fan!Covered(Defs[d]) /\ Fan!AllSystemsScope[j] = Fan!Target(Defs[d].name, Rep(d))
        BY <1>2, <3>2 DEF Bare
      <4> HIDE DEF d
      <4>2. d # c
        BY <1>5, <4>1
      <4>3. Defs[d].name # Defs[c].name /\ Fan!Range1(Defs[c].nodes) \cap Fan!Range1(Defs[d].nodes) = {}
        BY <4>1, <4>2 DEF Fan!DefsAssumption
      <4>4. Rep(d) \in Fan!Range1(Defs[c].nodes)
        BY <1>3, <2>4, <4>1, <4>3
      <4>5. Fan!NoNode \notin Fan!Range1(Defs[c].nodes)
        BY DefsAre, NodesAre
      <4> QED BY <4>1, <4>3, <4>4, <4>5, DefsAre
    <3> QED BY <2>4, <3>1, <3>2, AllSystemsPlaces
  <2> QED BY <2>3, <2>4
<1>6. CASE ~Fan!Covered(Defs[c])
  <2> DEFINE r == Fan!Rank(Bare, c)
             i == Len(fleet) + r
  <2>1. c \in Bare /\ r \in 1 .. Cardinality(Bare)
    BY <1>2, <1>6 DEF Bare
  <2>2. Bare \in SUBSET Int /\ IsFiniteSet(Bare)
    <3>1. IsFiniteSet(1 .. Len(Defs)) /\ DOMAIN Defs = 1 .. Len(Defs) /\ 1 .. Len(Defs) \subseteq Int
      BY DefsListed, FS_Interval
    <3> QED BY <3>1, FS_Subset DEF Bare
  <2>3. Fan!Nth(Bare, r) = c
    BY <2>1, <2>2, NthIs
  <2> HIDE DEF r
  <2>4. i \in DOMAIN Fan!AllSystemsScope /\ Fan!AllSystemsScope[i] = Fan!Target(Defs[c].name, Rep(c))
    BY <1>2, <1>4, <2>1, <2>3
  <2>5. i \in mine
    BY <1>3, <2>4
  <2>6. ASSUME NEW j \in mine PROVE j = i
    <3>1. ASSUME NEW m \in Fan!Range1(fleet), m \in Fan!Nodes, Fan!AllSystemsScope[j] = Fan!Target(m, m) PROVE FALSE
      BY <1>3, <1>6, <2>6, <3>1, NamedIsCovered
    <3>2. ASSUME NEW k \in 1 .. Cardinality(Bare), j = Len(fleet) + k PROVE j = i
      <4> DEFINE d == Fan!Nth(Bare, k)
      <4>1. d \in DOMAIN Defs /\ Fan!AllSystemsScope[j] = Fan!Target(Defs[d].name, Rep(d))
        BY <1>2, <3>2 DEF Bare
      <4>2. k = r \/ k < r \/ r < k
        BY <1>2, <2>1
      <4>3. k # r => d # c
        <5>1. k \in Int /\ r \in Int /\ Fan!Nth(Bare, r) = c
          BY <1>2, <2>1, <2>3
        <5>2. CASE k < r
          <6>1. d < c
            BY <1>2, <2>1, <2>3, <5>2
          <6> QED BY <6>1, <4>1, DefsListed
        <5>3. CASE r < k
          <6>1. c < d
            BY <1>2, <2>1, <2>3, <5>3
          <6> QED BY <6>1, <4>1, DefsListed
        <5> QED BY <4>2, <5>2, <5>3
      <4> HIDE DEF d
      <4>4. d # c => FALSE
        <5>1. SUFFICES ASSUME d # c PROVE FALSE
          OBVIOUS
        <5>2. Defs[d].name # Defs[c].name /\ Fan!Range1(Defs[c].nodes) \cap Fan!Range1(Defs[d].nodes) = {}
          BY <4>1, <5>1 DEF Fan!DefsAssumption
        <5>3. Rep(d) \in Fan!Range1(Defs[c].nodes)
          BY <1>3, <2>6, <4>1, <5>2
        <5>4. Fan!NoNode \notin Fan!Range1(Defs[c].nodes)
          BY DefsAre, NodesAre
        <5> QED BY <4>1, <5>2, <5>3, <5>4, DefsAre
      <4> QED BY <3>2, <4>3, <4>4
    <3> QED BY <2>6, <3>1, <3>2, AllSystemsPlaces
  <2>7. mine = {i}
    BY <2>5, <2>6
  <2>8. Cardinality(mine) = 1
    BY <2>7, FS_Singleton
  <2> QED BY <2>5, <2>8
<1> QED BY <1>5, <1>6

\* Representatives of different clusters go by different names.
LEMMA ClusterNames ==
  ASSUME Fan!DefsAssumption, NEW I \in SUBSET DOMAIN Defs
  PROVE  OneNode(Fan!ClusterTargets(Fan!Kept(Defs, I)))
<1> DEFINE ts == Fan!ClusterTargets(Fan!Kept(Defs, I))
<1>1. /\ ts \in Seq(Labelled) /\ Len(ts) = Cardinality(I) /\ Cardinality(I) \in Nat
      /\ \A k \in 1 .. Cardinality(I) :
           Fan!Nth(I, k) \in I /\ ts[k] = Fan!Target(Defs[Fan!Nth(I, k)].name, Rep(Fan!Nth(I, k)))
  BY ClusterTargetsAre
<1> HIDE DEF ts
<1>2. DOMAIN ts = 1 .. Cardinality(I)
  BY <1>1
<1>3. ASSUME NEW i \in DOMAIN ts, NEW j \in DOMAIN ts, ts[i].label = ts[j].label
      PROVE  ts[i].node = ts[j].node
  <2> DEFINE c == Fan!Nth(I, i)
             d == Fan!Nth(I, j)
  <2>1. /\ c \in DOMAIN Defs /\ ts[i] = Fan!Target(Defs[c].name, Rep(c))
        /\ d \in DOMAIN Defs /\ ts[j] = Fan!Target(Defs[d].name, Rep(d))
    BY <1>1, <1>2
  <2> HIDE DEF c, d
  <2>2. Defs[c].name = Defs[d].name
    BY <1>3, <2>1 DEF Fan!Target
  <2>3. c = d
    BY <2>1, <2>2 DEF Fan!DefsAssumption
  <2> QED BY <2>1, <2>3
<1> QED BY <1>3 DEF OneNode, ts

\* Whichever scope is asked for, a label stands for one node.
LEMMA ScopesAre ==
  ASSUME Fan!DefsAssumption, fleet \in Fleets, NEW ts, ts = Fan!FleetScope \/ ts = Fan!AllSystemsScope
  PROVE  ts \in Seq(Labelled) /\ OneNode(ts)
<1>1. fleet \in Seq(Fan!Nodes)
  BY DEF Fan!DefsAssumption
<1>2. CASE ts = Fan!FleetScope /\ fleet # <<>>
  <2>1. ts = Fan!FleetTargets(fleet)
    BY <1>2 DEF Fan!FleetScope
  <2>2. /\ ts \in Seq(Labelled) /\ Len(ts) = Len(fleet)
        /\ \A i \in 1 .. Len(fleet) : ts[i] = Fan!Target(fleet[i], fleet[i])
    BY <1>1, <2>1, FleetTargetsAre
  <2>3. DOMAIN ts = 1 .. Len(fleet)
    BY <2>2
  <2> QED BY <2>2, <2>3 DEF OneNode, Fan!Target
<1>3. CASE ts = Fan!FleetScope /\ fleet = <<>>
  <2> DEFINE I == {c \in DOMAIN Defs : Defs[c].active}
  <2>1. ts = Fan!ClusterTargets(Fan!Kept(Defs, I)) /\ I \in SUBSET DOMAIN Defs
    BY <1>3 DEF Fan!FleetScope
  <2> HIDE DEF I
  <2> QED BY <2>1, ClusterTargetsAre, ClusterNames
<1>4. CASE ts = Fan!AllSystemsScope
  <2>1. /\ ts \in Seq(Labelled)
        /\ \A k \in 1 .. Cardinality(Bare) :
             /\ Fan!Nth(Bare, k) \in Bare
             /\ ts[Len(fleet) + k] = Fan!Target(Defs[Fan!Nth(Bare, k)].name, Rep(Fan!Nth(Bare, k)))
    BY <1>4, AllSystemsAre
  <2>2. \A x, y : Fan!Target(x, y).label = x /\ Fan!Target(x, y).node = y
    BY DEF Fan!Target
  <2>3. ASSUME NEW i \in DOMAIN ts, NEW n \in Fan!Range1(fleet), n \in Fan!Nodes, ts[i] = Fan!Target(n, n),
               NEW k \in 1 .. Cardinality(Bare), ts[i].label = ts[Len(fleet) + k].label
        PROVE  FALSE
    <3> DEFINE c == Fan!Nth(Bare, k)
    <3>1. c \in DOMAIN Defs /\ ~Fan!Covered(Defs[c]) /\ ts[Len(fleet) + k] = Fan!Target(Defs[c].name, Rep(c))
      BY <2>1 DEF Bare
    <3> HIDE DEF c
    <3>2. n = Defs[c].name
      BY <2>2, <2>3, <3>1
    <3> QED BY <2>3, <3>1, <3>2, NamedIsCovered
  <2>4. ASSUME NEW j \in 1 .. Cardinality(Bare), NEW k \in 1 .. Cardinality(Bare),
               ts[Len(fleet) + j].label = ts[Len(fleet) + k].label
        PROVE  ts[Len(fleet) + j].node = ts[Len(fleet) + k].node
    <3> DEFINE c == Fan!Nth(Bare, j)
               d == Fan!Nth(Bare, k)
    <3>1. /\ c \in DOMAIN Defs /\ ts[Len(fleet) + j] = Fan!Target(Defs[c].name, Rep(c))
          /\ d \in DOMAIN Defs /\ ts[Len(fleet) + k] = Fan!Target(Defs[d].name, Rep(d))
      BY <2>1 DEF Bare
    <3> HIDE DEF c, d
    <3>2. c = d
      BY <2>2, <2>4, <3>1 DEF Fan!DefsAssumption
    <3> QED BY <3>1, <3>2
  <2>5. ASSUME NEW i \in DOMAIN ts, NEW j \in DOMAIN ts, ts[i].label = ts[j].label
        PROVE  ts[i].node = ts[j].node
    <3>1. /\ \/ \E n \in Fan!Range1(fleet) : n \in Fan!Nodes /\ ts[i] = Fan!Target(n, n)
             \/ \E k \in 1 .. Cardinality(Bare) : i = Len(fleet) + k
          /\ \/ \E n \in Fan!Range1(fleet) : n \in Fan!Nodes /\ ts[j] = Fan!Target(n, n)
             \/ \E k \in 1 .. Cardinality(Bare) : j = Len(fleet) + k
      BY <1>4, AllSystemsPlaces
    <3>2. CASE /\ \E n \in Fan!Range1(fleet) : n \in Fan!Nodes /\ ts[i] = Fan!Target(n, n)
               /\ \E n \in Fan!Range1(fleet) : n \in Fan!Nodes /\ ts[j] = Fan!Target(n, n)
      BY <2>2, <2>5, <3>2
    <3> QED BY <2>3, <2>4, <2>5, <3>1, <3>2
  <2> QED BY <2>1, <2>5 DEF OneNode
<1> QED BY <1>2, <1>3, <1>4

-----------------------------------------------------------------------------
(* The fan-out.                                                            *)

\* What a goroutine leaves in its slot.
Result == [ok: BOOLEAN, jobs: SUBSET JobIds, prog: SUBSET [id: JobIds, of: Fan!Nodes \X JobIds]]

\* The types, with results that are of the jobs of the node asked.
Typed ==
  /\ fleet \in Fleets /\ queues \in [Fan!Nodes -> {JobIds, {}}]
  /\ targets \in Seq(Labelled) /\ OneNode(targets)
  /\ fanPc \in [DOMAIN targets -> {"fetch", "await", "done"}]
  /\ hook \in [DOMAIN targets -> {"off", "running", "data", "nothing"}]
  /\ results \in [DOMAIN targets -> Result]
  /\ done \in Nat
  /\ main = [pc |-> main.pc, count |-> main.count, rows |-> main.rows, down |-> main.down]
  /\ main.pc \in {"idle", "wait", "back"} /\ main.count \in Nat

\* Where a goroutine is, its slot has what it has got so far, from its own node.
Own(i) ==
  /\ fanPc[i] = "await" => results[i].ok
  /\ results[i].ok => targets[i].node # Fan!NoNode /\ results[i].jobs = queues[targets[i].node]
  /\ results[i].prog # {} => results[i].ok /\ results[i].prog = Fan!Progress(targets[i].node)

\* The goroutines that have sent their done.
Finished == {i \in DOMAIN targets : fanPc[i] = "done"}

\* The dones not yet received are those sent and not counted.
Counted ==
  /\ main.count + done = Cardinality(Finished) /\ main.count <= Len(targets)
  /\ main.pc = "idle" => targets = <<>> /\ main.count = 0 /\ done = 0

Got    == {i \in DOMAIN targets : results[i].ok}
Rows   == Fan!Kept([i \in DOMAIN targets |-> Fan!RowOf(i)], Got)
\* The labels of the targets that did not answer, in order.
Silent == Fan!Kept([i \in DOMAIN targets |-> targets[i].label], DOMAIN targets \ Got)

\* The table was made when all were back, from the slots alone, in the order of the targets.
Merged == main.pc = "back" => /\ main.count = Len(targets)
                              /\ main.rows = Rows /\ main.down = Silent

\* The invariant of the fan-out.
FanInv == Typed /\ (\A i \in DOMAIN targets : Own(i)) /\ Counted /\ Merged

\* The targets are numbered from 1, and no more of them ended than there are.
LEMMA TargetsAre ==
  ASSUME Typed
  PROVE  /\ Len(targets) \in Nat /\ DOMAIN targets = 1 .. Len(targets)
         /\ IsFiniteSet(DOMAIN targets) /\ Cardinality(DOMAIN targets) = Len(targets)
         /\ IsFiniteSet(Finished) /\ Cardinality(Finished) \in Nat
         /\ Cardinality(Finished) <= Len(targets)
         /\ Cardinality(Finished) = Len(targets) => Finished = DOMAIN targets
<1>1. Len(targets) \in Nat /\ DOMAIN targets = 1 .. Len(targets)
  BY DEF Typed
<1>2. IsFiniteSet(DOMAIN targets) /\ Cardinality(DOMAIN targets) = Len(targets)
  <2>1. \A n \in Nat : IsFiniteSet(1 .. n) /\ Cardinality(1 .. n) = n
    BY FS_Interval
  <2> QED BY <1>1, <2>1
<1>3. Finished \in SUBSET DOMAIN targets
  BY DEF Finished
<1>4. /\ IsFiniteSet(Finished) /\ Cardinality(Finished) <= Cardinality(DOMAIN targets)
      /\ Cardinality(Finished) = Cardinality(DOMAIN targets) => Finished = DOMAIN targets
  BY <1>2, <1>3, FS_Subset
<1>5. Cardinality(Finished) \in Nat
  BY <1>4, FS_CardinalityType
<1> QED BY <1>1, <1>2, <1>4, <1>5

\* The table is made of the targets and their results alone.
LEMMA TableStays ==
  ASSUME UNCHANGED <<targets, results>> PROVE Got' = Got /\ Rows' = Rows /\ Silent' = Silent
BY DEF Got, Rows, Silent, Fan!RowOf, Fan!Prog, Fan!Key

\* It holds before anybody asks.
LEMMA FanInit == ASSUME Fan!DefsAssumption, Fan!Init PROVE FanInv
<1>1. targets \in Seq(Labelled) /\ DOMAIN targets = {} /\ Len(targets) = 0
  BY DEF Fan!Init
<1>2. Typed
  BY <1>1 DEF Fan!Init, Typed, OneNode, Fan!Idle
<1>3. Finished = {} /\ Cardinality(Finished) = 0
  BY <1>1, FS_EmptySet DEF Finished
<1> QED BY <1>1, <1>2, <1>3 DEF Fan!Init, FanInv, Counted, Merged, Fan!Idle

\* A new fan-out starts with nothing finished and nothing counted.
LEMMA FanKeeps ==
  ASSUME Fan!DefsAssumption, FanInv, NEW ts, Fan!CollateFan(ts), ts = Fan!FleetScope \/ ts = Fan!AllSystemsScope
  PROVE  FanInv'
<1>1. ts \in Seq(Labelled) /\ OneNode(ts) /\ DOMAIN ts = 1 .. Len(ts) /\ Len(ts) \in Nat
  <2>1. ts \in Seq(Labelled) /\ OneNode(ts)
    BY ScopesAre DEF FanInv, Typed
  <2> QED BY <2>1
<1>2. /\ targets' = ts /\ fanPc' = [i \in DOMAIN ts |-> "fetch"] /\ hook' = [i \in DOMAIN ts |-> "off"]
      /\ results' = [i \in DOMAIN ts |-> Fan!NoResult] /\ main' = [main EXCEPT !.pc = "wait"]
      /\ UNCHANGED <<fleet, queues, done>> /\ main.pc = "idle"
  BY DEF Fan!CollateFan
<1>3. OneNode(targets)'
  BY <1>1, <1>2 DEF OneNode
<1>4. Typed'
  BY <1>1, <1>2, <1>3 DEF FanInv, Typed, Fan!NoResult, Result
<1>5. ASSUME NEW i \in DOMAIN targets' PROVE Own(i)'
  BY <1>2, <1>5 DEF Own, Fan!NoResult
<1>6. Finished' = {}
  BY <1>2 DEF Finished
<1>7. Counted' /\ Merged'
  <2>1. main'.pc = "wait" /\ main'.count = 0 /\ done' = 0
    BY <1>2 DEF FanInv, Typed, Counted
  <2> QED BY <1>1, <1>2, <1>6, <2>1, FS_EmptySet DEF Counted, Merged
<1> QED BY <1>4, <1>5, <1>7 DEF FanInv

\* A step of a goroutine that does not end it.
LEMMA MovesKeep ==
  ASSUME Fan!DefsAssumption, FanInv, NEW i \in DOMAIN targets, Fan!StartHooks(i) \/ Fan!Snapshot(i) \/ Fan!HookEnds(i)
  PROVE  FanInv'
<1>1. Fan!TargetLeaves /\ UNCHANGED done
  BY DEF Fan!StartHooks, Fan!Snapshot, Fan!HookEnds
<1>2. CASE Fan!StartHooks(i) \/ Fan!HookEnds(i)
  <2>1. /\ hook' \in [DOMAIN targets -> {"off", "running", "data", "nothing"}]
        /\ UNCHANGED <<fanPc, results>>
    BY <1>2 DEF Fan!StartHooks, Fan!HookEnds, FanInv, Typed
  <2>2. Typed'
    BY <1>1, <2>1 DEF FanInv, Typed, Fan!TargetLeaves, OneNode
  <2>3. \A j \in DOMAIN targets' : Own(j)'
    BY <1>1, <2>1 DEF FanInv, Own, Fan!TargetLeaves, Fan!Progress
  <2>4. Counted' /\ Merged'
    <3>1. Got' = Got /\ Rows' = Rows /\ Silent' = Silent
      BY <1>1, <2>1, TableStays DEF Fan!TargetLeaves
    <3>2. Finished' = Finished
      BY <1>1, <2>1 DEF Finished, Fan!TargetLeaves
    <3> QED BY <1>1, <3>1, <3>2 DEF FanInv, Counted, Merged, Fan!TargetLeaves
  <2> QED BY <2>2, <2>3, <2>4 DEF FanInv
<1>3. CASE Fan!Snapshot(i)
  <2> DEFINE r == [ok |-> TRUE, jobs |-> queues[targets[i].node], prog |-> {}]
  <2>1. /\ fanPc[i] = "fetch" /\ targets[i].node # Fan!NoNode
        /\ results' = [results EXCEPT ![i] = r] /\ fanPc' = [fanPc EXCEPT ![i] = "await"]
        /\ UNCHANGED hook
    BY <1>3 DEF Fan!Snapshot
  <2>2. r \in Result
    <3>1. targets[i] \in Labelled
      BY DEF FanInv, Typed
    <3>2. targets[i].node \in Fan!Nodes
      BY <2>1, <3>1 DEF Labelled
    <3>3. queues[targets[i].node] \in SUBSET JobIds
      BY <3>2 DEF FanInv, Typed
    <3> QED BY <3>3 DEF Result
  <2>3. /\ results'[i] = r /\ fanPc'[i] = "await"
        /\ \A j \in DOMAIN targets \ {i} : results'[j] = results[j] /\ fanPc'[j] = fanPc[j]
    BY <2>1 DEF FanInv, Typed
  <2> HIDE DEF r
  <2>4. Typed'
    BY <1>1, <2>1, <2>2 DEF FanInv, Typed, Fan!TargetLeaves, OneNode
  <2>5. \A j \in DOMAIN targets' : Own(j)'
    <3>1. Own(i)'
      BY <1>1, <2>1, <2>3 DEF Own, Fan!TargetLeaves, r
    <3>2. ASSUME NEW j \in DOMAIN targets \ {i} PROVE Own(j)'
      BY <1>1, <2>3 DEF FanInv, Own, Fan!TargetLeaves, Fan!Progress
    <3> QED BY <1>1, <3>1, <3>2 DEF Fan!TargetLeaves
  <2>6. Finished' = Finished
    BY <1>1, <2>1, <2>3 DEF Finished, Fan!TargetLeaves
  <2>7. main.pc # "back"
    <3>1. i \notin Finished
      BY <2>1 DEF Finished
    <3>2. main.count + done = Cardinality(Finished) /\ main.count \in Nat /\ done \in Nat
      BY DEF FanInv, Typed, Counted
    <3>3. Cardinality(Finished) # Len(targets) /\ Cardinality(Finished) <= Len(targets)
      BY <3>1, TargetsAre DEF FanInv
    <3>4. Cardinality(Finished) \in Nat /\ Len(targets) \in Nat
      BY TargetsAre DEF FanInv
    <3>5. main.count # Len(targets)
      BY <3>2, <3>3, <3>4
    <3> QED BY <3>5 DEF FanInv, Merged
  <2>8. Counted' /\ Merged'
    BY <1>1, <2>6, <2>7 DEF FanInv, Counted, Merged, Fan!TargetLeaves
  <2> QED BY <2>4, <2>5, <2>8 DEF FanInv
<1> QED BY <1>2, <1>3

\* A step that ends one sends its done.
LEMMA EndsKeep ==
  ASSUME Fan!DefsAssumption, FanInv, NEW i \in DOMAIN targets, Fan!FetchFails(i) \/ Fan!Await(i)
  PROVE  FanInv'
<1>1. Fan!TargetLeaves /\ UNCHANGED hook /\ done' = done + 1 /\ fanPc[i] # "done"
  BY DEF Fan!FetchFails, Fan!Fails, Fan!Await
<1>2. PICK r \in Result :
        /\ Fan!Leaves(i, r)
        /\ r.ok => targets[i].node # Fan!NoNode /\ r.jobs = queues[targets[i].node]
        /\ r.prog # {} => r.ok /\ r.prog = Fan!Progress(targets[i].node)
  <2>1. CASE Fan!FetchFails(i)
    <3>1. Fan!NoResult \in Result /\ ~Fan!NoResult.ok /\ Fan!NoResult.prog = {}
      BY DEF Fan!NoResult, Result
    <3>2. Fan!Leaves(i, Fan!NoResult)
      BY <2>1 DEF Fan!FetchFails, Fan!Fails
    <3> QED BY <3>1, <3>2
  <2>2. CASE Fan!Await(i)
    <3>1. PICK g \in {Fan!Progress(targets[i].node), {}} : Fan!Leaves(i, [results[i] EXCEPT !.prog = g])
      BY <2>2 DEF Fan!Await
    <3>2. /\ results[i] \in Result /\ results[i].ok /\ targets[i].node # Fan!NoNode
          /\ results[i].jobs = queues[targets[i].node]
      BY <2>2 DEF FanInv, Typed, Own, Fan!Await
    <3>3. Fan!Progress(targets[i].node) \in SUBSET [id: JobIds, of: Fan!Nodes \X JobIds]
      <4>1. targets[i].node \in Fan!Nodes
        <5>1. targets[i] \in Labelled
          BY DEF FanInv, Typed
        <5> QED BY <3>2, <5>1 DEF Labelled
      <4>2. queues[targets[i].node] \in SUBSET JobIds
        BY <4>1 DEF FanInv, Typed
      <4> QED BY <4>1, <4>2 DEF Fan!Progress
    <3> DEFINE r == [results[i] EXCEPT !.prog = g]
    <3>4. r \in Result /\ r.ok = results[i].ok /\ r.jobs = results[i].jobs /\ r.prog = g
      BY <3>2, <3>3 DEF Result
    <3> HIDE DEF r
    <3> QED BY <3>1, <3>2, <3>4 DEF r
  <2> QED BY <2>1, <2>2
<1>3. /\ results'[i] = r /\ fanPc'[i] = "done"
      /\ \A j \in DOMAIN targets \ {i} : results'[j] = results[j] /\ fanPc'[j] = fanPc[j]
      /\ results' \in [DOMAIN targets -> Result]
      /\ fanPc' \in [DOMAIN targets -> {"fetch", "await", "done"}]
  BY <1>2 DEF FanInv, Typed, Fan!Leaves
<1>4. Typed'
  BY <1>1, <1>3 DEF FanInv, Typed, Fan!TargetLeaves, OneNode
<1>5. \A j \in DOMAIN targets' : Own(j)'
  <2>1. Own(i)'
    BY <1>1, <1>2, <1>3 DEF Own, Fan!TargetLeaves, Fan!Progress
  <2>2. ASSUME NEW j \in DOMAIN targets \ {i} PROVE Own(j)'
    BY <1>1, <1>3 DEF FanInv, Own, Fan!TargetLeaves, Fan!Progress
  <2> QED BY <1>1, <2>1, <2>2 DEF Fan!TargetLeaves
<1>6. Finished' = Finished \cup {i} /\ i \notin Finished
  BY <1>1, <1>3 DEF Finished, Fan!TargetLeaves
<1>7. Cardinality(Finished') = Cardinality(Finished) + 1
  BY <1>6, TargetsAre, FS_AddElement DEF FanInv
<1>8. main.pc # "back" /\ main.pc # "idle" /\ main'.count + done' = Cardinality(Finished')
  <2>1. main.count + done = Cardinality(Finished) /\ main.count \in Nat /\ done \in Nat
    BY DEF FanInv, Typed, Counted
  <2>2. Cardinality(Finished) # Len(targets) /\ Cardinality(Finished) <= Len(targets)
    BY <1>6, TargetsAre DEF FanInv
  <2>3. Cardinality(Finished) \in Nat /\ Len(targets) \in Nat
    BY TargetsAre DEF FanInv
  <2>4. main.count # Len(targets)
    BY <2>1, <2>2, <2>3
  <2>5. main' = main /\ done' = done + 1
    BY <1>1 DEF Fan!TargetLeaves
  <2>6. main'.count + done' = Cardinality(Finished')
    BY <1>7, <2>1, <2>5
  <2>7. targets # <<>>
    OBVIOUS
  <2> QED BY <2>4, <2>6, <2>7 DEF FanInv, Merged, Counted
<1>9. Counted' /\ Merged'
  BY <1>1, <1>8 DEF FanInv, Counted, Merged, Fan!TargetLeaves
<1> QED BY <1>4, <1>5, <1>9 DEF FanInv

\* The collator takes a done.
LEMMA ReceiveKeeps == ASSUME Fan!DefsAssumption, FanInv, Fan!Receive PROVE FanInv'
<1>1. /\ main.pc = "wait" /\ main.count < Len(targets) /\ done > 0 /\ done' = done - 1
      /\ main' = [main EXCEPT !.count = @ + 1]
      /\ UNCHANGED <<fleet, queues, targets, fanPc, hook, results>>
  BY DEF Fan!Receive
<1>2. done \in Nat /\ main.count \in Nat /\ Len(targets) \in Nat
  BY TargetsAre DEF FanInv, Typed
<1>3. done' \in Nat /\ main.count + 1 \in Nat /\ main.count + 1 <= Len(targets)
      /\ main.count + 1 + done' = main.count + done
  BY <1>1, <1>2
<1>4. /\ main' = [pc |-> "wait", count |-> main.count + 1, rows |-> main.rows, down |-> main.down]
  BY <1>1 DEF FanInv, Typed
<1>5. Typed'
  BY <1>1, <1>3, <1>4 DEF FanInv, Typed, OneNode
<1>6. \A j \in DOMAIN targets' : Own(j)'
  BY <1>1 DEF FanInv, Own, Fan!Progress
<1>7. Finished' = Finished
  BY <1>1 DEF Finished
<1>8. Counted' /\ Merged'
  BY <1>1, <1>3, <1>4, <1>7 DEF FanInv, Counted, Merged
<1> QED BY <1>5, <1>6, <1>8 DEF FanInv

\* The table, made once every done is counted, is made of slots that no longer change.
LEMMA MergeKeeps == ASSUME Fan!DefsAssumption, FanInv, Fan!Merge PROVE FanInv'
<1>1. /\ main.pc = "wait" /\ main.count = Len(targets)
      /\ main' = [main EXCEPT !.pc = "back", !.rows = Rows, !.down = Silent]
      /\ UNCHANGED <<fleet, queues, targets, fanPc, hook, results, done>>
  BY DEF Fan!Merge, Rows, Silent, Got
<1>2. main' = [pc |-> "back", count |-> main.count, rows |-> Rows, down |-> Silent]
  BY <1>1 DEF FanInv, Typed
<1>3. Typed'
  BY <1>1, <1>2 DEF FanInv, Typed, OneNode
<1>4. \A j \in DOMAIN targets' : Own(j)'
  BY <1>1 DEF FanInv, Own, Fan!Progress
<1>5. Finished' = Finished
  BY <1>1 DEF Finished
<1>6. Rows' = Rows /\ Silent' = Silent
  BY <1>1, TableStays
<1>7. Counted' /\ Merged'
  BY <1>1, <1>2, <1>5, <1>6 DEF FanInv, Counted, Merged
<1> QED BY <1>3, <1>4, <1>7 DEF FanInv

\* Every step keeps the invariant.
LEMMA FanInvIsKept == ASSUME Fan!DefsAssumption, FanInv, [Fan!Next]_Fan!vars PROVE FanInv'
<1>1. CASE UNCHANGED Fan!vars
  <2>1. Got' = Got /\ Rows' = Rows /\ Silent' = Silent
    BY <1>1, TableStays DEF Fan!vars
  <2> QED BY <1>1, <2>1 DEF Fan!vars, FanInv, Typed, OneNode, Own, Fan!Progress, Counted,
      Finished, Merged
<1>2. CASE Fan!Next
  BY <1>2, FanKeeps, MovesKeep, EndsKeep, ReceiveKeeps, MergeKeeps DEF Fan!Next, Fan!Work
<1> QED BY <1>1, <1>2

\* The fan-out's invariant holds in every run (internal/cli/collate.go, collateFan).
THEOREM FanInvAlways == ASSUME Fan!DefsAssumption PROVE Fan!Spec => []FanInv
<1> QED BY FanInit, FanInvIsKept, PTL DEF Fan!Spec

\* The invariant gives the types.
LEMMA FanTyped == ASSUME Fan!DefsAssumption, FanInv PROVE Fan!TypeOK
<1>1. /\ main.count \in Nat /\ done \in Nat /\ Len(targets) \in Nat /\ Cardinality(Finished) \in Nat
      /\ main.count + done = Cardinality(Finished) /\ Cardinality(Finished) <= Len(targets)
  BY TargetsAre DEF FanInv, Typed, Counted
<1>2. done \in 0 .. Len(targets) /\ main.count \in 0 .. Len(targets)
  BY <1>1
<1> QED BY <1>2 DEF FanInv, Typed, Fan!TypeOK

\* While the collator waits, some goroutine is not back, or a done is there to be received.
LEMMA ReturnIs == ASSUME Fan!DefsAssumption, FanInv PROVE Fan!FanReturns
<1>1. SUFFICES ASSUME \A i \in DOMAIN targets : fanPc[i] = "done", done = 0
               PROVE  main.count = Len(targets)
  <2>1. done \in Nat
    BY DEF FanInv, Typed
  <2> QED BY <2>1 DEF Fan!FanReturns
<1>2. Finished = DOMAIN targets
  BY <1>1 DEF Finished
<1> QED BY <1>1, <1>2, TargetsAre DEF FanInv, Typed, Counted

\* The progress under a label and an id is that of the job.
LEMMA ProgIs ==
  ASSUME Fan!DefsAssumption, FanInv, NEW i \in DOMAIN targets, NEW j,
         Fan!Prog(Fan!Key(targets[i].label, j)) # <<>>
  PROVE  Fan!Prog(Fan!Key(targets[i].label, j)) = <<targets[i].node, j>>
<1> DEFINE k == Fan!Key(targets[i].label, j)
           at == {h \in DOMAIN targets : \E p \in results[h].prog : Fan!Key(targets[h].label, p.id) = k}
           g == Fan!Greatest(at)
<1>1. at \in SUBSET Int /\ IsFiniteSet(at)
  <2>1. IsFiniteSet(DOMAIN targets) /\ DOMAIN targets \subseteq Int
    BY TargetsAre DEF FanInv
  <2> QED BY <2>1, FS_Subset
<1>2. at # {} /\ Fan!Prog(k) = (CHOOSE p \in results[g].prog : Fan!Key(targets[g].label, p.id) = k).of
  BY DEF Fan!Prog
<1> HIDE DEF k
<1>3. g \in at
  <2> HIDE DEF at
  <2> QED BY <1>1, <1>2, EndsAre
<1>4. PICK p \in results[g].prog :
        Fan!Key(targets[g].label, p.id) = k /\ Fan!Prog(k) = p.of
  BY <1>2, <1>3
<1>5. g \in DOMAIN targets
  BY <1>3
<1> HIDE DEF g, at
<1>6. targets[g].label = targets[i].label /\ p.id = j
  BY <1>4 DEF Fan!Key, k
<1>7. targets[g].node = targets[i].node
  BY <1>5, <1>6 DEF FanInv, Typed, OneNode
<1>8. p \in Fan!Progress(targets[g].node)
  BY <1>4, <1>5 DEF FanInv, Own
<1>9. p.of = <<targets[g].node, p.id>>
  BY <1>8 DEF Fan!Progress
<1> QED BY <1>4, <1>6, <1>7, <1>9 DEF k

\* The invariant gives the table: every target once, in the order of the targets, each row with
\* its own job's progress.
LEMMA TableIs == ASSUME Fan!DefsAssumption, FanInv PROVE Fan!TableIsWhole
<1>1. Fan!AllSystemsOnce
  BY AllOnce DEF FanInv, Typed
<1>2. SUFFICES ASSUME Fan!Back
               PROVE  /\ Fan!ProgressIsOwn
                      /\ \A i, j \in DOMAIN main.rows : i < j => main.rows[i].at < main.rows[j].at
                      /\ Len(main.rows) + Len(main.down) = Len(targets)
                      /\ \A i \in DOMAIN targets :
                           IF results[i].ok
                           THEN \E r \in Fan!Range1(main.rows) :
                                  r.at = i /\ {j.id : j \in r.jobs} = queues[targets[i].node]
                           ELSE targets[i].label \in Fan!Range1(main.down)
  BY <1>1 DEF Fan!TableIsWhole
<1> DEFINE m == Len(targets)
           D == DOMAIN targets \ Got
           R == [i \in 1 .. m |-> Fan!RowOf(i)]
           L == [i \in 1 .. m |-> targets[i].label]
<1>3. m \in Nat /\ DOMAIN targets = 1 .. m /\ IsFiniteSet(DOMAIN targets) /\ Cardinality(DOMAIN targets) = m
  BY TargetsAre DEF FanInv
<1>4. main.rows = Fan!Kept(R, Got) /\ main.down = Fan!Kept(L, D)
  BY <1>2, <1>3 DEF FanInv, Merged, Fan!Back, Rows, Silent
<1>5. Got \in SUBSET (1 .. m) /\ D \in SUBSET (1 .. m)
  BY <1>3 DEF Got
<1>6. /\ Got \in SUBSET Int /\ IsFiniteSet(Got) /\ D \in SUBSET Int /\ IsFiniteSet(D)
  BY <1>3, <1>5, PlacesAre
<1> HIDE DEF R, L, m, D
<1>7. /\ Len(main.rows) = Cardinality(Got) /\ DOMAIN main.rows = 1 .. Cardinality(Got)
      /\ Cardinality(Got) \in Nat
      /\ \A k \in 1 .. Cardinality(Got) : Fan!Nth(Got, k) \in Got /\ main.rows[k] = R[Fan!Nth(Got, k)]
      /\ \A i \in Got : Fan!Rank(Got, i) \in 1 .. Cardinality(Got) /\ main.rows[Fan!Rank(Got, i)] = R[i]
      /\ \A j, k \in 1 .. Cardinality(Got) : j < k => Fan!Nth(Got, j) < Fan!Nth(Got, k)
  <2> DEFINE r == Fan!Kept(R, Got)
  <2>1. /\ Len(r) = Cardinality(Got) /\ DOMAIN r = 1 .. Cardinality(Got)
        /\ Cardinality(Got) \in Nat
        /\ \A k \in 1 .. Cardinality(Got) : Fan!Nth(Got, k) \in Got /\ r[k] = R[Fan!Nth(Got, k)]
        /\ \A i \in Got : Fan!Rank(Got, i) \in 1 .. Cardinality(Got) /\ r[Fan!Rank(Got, i)] = R[i]
        /\ \A j, k \in 1 .. Cardinality(Got) : j < k => Fan!Nth(Got, j) < Fan!Nth(Got, k)
    BY ONLY <1>6, KeptIs
  <2>2. main.rows = r
    BY <1>4
  <2> HIDE DEF r
  <2> QED BY ONLY <2>1, <2>2
<1>8. /\ Len(main.down) = Cardinality(D) /\ DOMAIN main.down = 1 .. Cardinality(D)
      /\ Cardinality(D) \in Nat
      /\ \A i \in D : Fan!Rank(D, i) \in 1 .. Cardinality(D) /\ main.down[Fan!Rank(D, i)] = L[i]
  <2> DEFINE d == Fan!Kept(L, D)
  <2>1. /\ Len(d) = Cardinality(D) /\ DOMAIN d = 1 .. Cardinality(D)
        /\ Cardinality(D) \in Nat
        /\ \A i \in D : Fan!Rank(D, i) \in 1 .. Cardinality(D) /\ d[Fan!Rank(D, i)] = L[i]
    BY ONLY <1>6, KeptIs
  <2>2. main.down = d
    BY <1>4
  <2> HIDE DEF d
  <2> QED BY ONLY <2>1, <2>2
<1>9. DOMAIN main.rows = 1 .. Cardinality(Got) /\ DOMAIN main.down = 1 .. Cardinality(D)
  BY <1>7, <1>8
<1>10. \A i \in Got : R[i] = Fan!RowOf(i) /\ Fan!RowOf(i).at = i
  BY <1>5 DEF R, Fan!RowOf
<1>11. Fan!ProgressIsOwn
  <2>1. SUFFICES ASSUME NEW k \in 1 .. Cardinality(Got), NEW j \in main.rows[k].jobs, j.prog # <<>>
                 PROVE  j.prog = <<targets[main.rows[k].at].node, j.id>>
    BY <1>9 DEF Fan!ProgressIsOwn, Fan!Range1
  <2> DEFINE i == Fan!Nth(Got, k)
  <2>2. i \in Got /\ main.rows[k] = Fan!RowOf(i) /\ main.rows[k].at = i
    BY <1>7, <1>10
  <2>3. i \in DOMAIN targets
    BY <1>3, <1>5, <2>2
  <2> HIDE DEF i
  <2>4. PICK id \in results[i].jobs : j = [id |-> id, prog |-> Fan!Prog(Fan!Key(targets[i].label, id))]
    BY <2>1, <2>2 DEF Fan!RowOf
  <2>5. j.prog = Fan!Prog(Fan!Key(targets[i].label, id)) /\ j.id = id
    BY <2>4
  <2> QED BY <2>1, <2>2, <2>3, <2>5, ProgIs
<1>12. ASSUME NEW i \in DOMAIN main.rows, NEW j \in DOMAIN main.rows, i < j
       PROVE  main.rows[i].at < main.rows[j].at
  <2>1. /\ Fan!Nth(Got, i) \in Got /\ main.rows[i] = Fan!RowOf(Fan!Nth(Got, i))
        /\ Fan!Nth(Got, j) \in Got /\ main.rows[j] = Fan!RowOf(Fan!Nth(Got, j))
        /\ Fan!Nth(Got, i) < Fan!Nth(Got, j)
    BY <1>7, <1>9, <1>10, <1>12
  <2> QED BY <1>10, <2>1
<1>13. Len(main.rows) + Len(main.down) = m
  <2>1. Got \in SUBSET DOMAIN targets
    BY DEF Got
  <2>2. Cardinality(D) = Cardinality(DOMAIN targets) - Cardinality(DOMAIN targets \cap Got)
    BY <1>3, FS_Difference DEF D
  <2>3. DOMAIN targets \cap Got = Got
    BY <2>1
  <2>4. Cardinality(D) = m - Cardinality(Got)
    BY <1>3, <2>2, <2>3
  <2>5. Cardinality(Got) + (m - Cardinality(Got)) = m
    BY <1>3, <1>7
  <2> QED BY <1>7, <1>8, <2>4, <2>5
<1>14. ASSUME NEW i \in DOMAIN targets, results[i].ok
       PROVE  \E r \in Fan!Range1(main.rows) : r.at = i /\ {j.id : j \in r.jobs} = queues[targets[i].node]
  <2>1. i \in Got
    BY <1>14 DEF Got
  <2>2. Fan!RowOf(i) \in Fan!Range1(main.rows)
    BY <1>7, <1>9, <1>10, <2>1 DEF Fan!Range1
  <2>3. {j.id : j \in Fan!RowOf(i).jobs} = results[i].jobs
    <3> DEFINE row(id) == [id |-> id, prog |-> Fan!Prog(Fan!Key(targets[i].label, id))]
    <3>1. Fan!RowOf(i).jobs = {row(id) : id \in results[i].jobs}
      BY DEF Fan!RowOf
    <3>2. \A id : row(id).id = id
      OBVIOUS
    <3> HIDE DEF row
    <3> QED BY <3>1, <3>2
  <2>4. results[i].jobs = queues[targets[i].node]
    BY <1>14 DEF FanInv, Own
  <2> QED BY <1>10, <2>1, <2>2, <2>3, <2>4
<1>15. ASSUME NEW i \in DOMAIN targets, ~results[i].ok PROVE targets[i].label \in Fan!Range1(main.down)
  <2>1. i \in D
    BY <1>15 DEF Got, D
  <2>2. L[i] = targets[i].label
    BY <1>3 DEF L
  <2> QED BY <1>8, <1>9, <2>1, <2>2 DEF Fan!Range1
<1> QED BY <1>11, <1>12, <1>13, <1>14, <1>15 DEF m

\* Whatever the clusters answer and in whatever order, the collator never waits for a goroutine
\* that is gone, and the table has every target once, in the order of the targets, its rows with
\* their own jobs' progress (internal/cli/collate.go, collateFan and mergeResults).
THEOREM FanIsWhole ==
  ASSUME Fan!DefsAssumption PROVE Fan!Spec => [](Fan!TypeOK /\ Fan!FanReturns /\ Fan!TableIsWhole)
<1> QED BY FanInvAlways, FanTyped, ReturnIs, TableIs, PTL

-----------------------------------------------------------------------------
(* The picker.                                                             *)

\* The picker counts as FiniteSets does.
LEMMA PickCounts == \A S : Pick!Cardinality(S) = Cardinality(S)
BY DEF Pick!Cardinality, Cardinality

\* Where mdel is.
PcSet == {"pick", "resolve", "confirm", "cancel", "done", "aborted"}

\* The picker's state.
UiType ==
  [rows: SUBSET Pick!AllJobs, filter: SUBSET (Pick!AllJobs \cup UNION Filters), facet: Pick!Clusters \cup {Pick!All},
   filtering: BOOLEAN, cursor: Int, top: Int, selected: SUBSET Pick!AllJobs,
   overlay: {"none", "loading", "card"}, height: Int, squeezed: BOOLEAN]

\* The command around it.
MuType == [pc: PcSet, matched: SUBSET Pick!AllJobs, left: SUBSET Pick!Clusters, failed: SUBSET Pick!Clusters]

\* The types.
PickTyped ==
  /\ queue \in SUBSET Pick!AllJobs /\ gone \in SUBSET Pick!AllJobs /\ killed \in SUBSET Pick!AllJobs
  /\ queue \cap (gone \cup killed) = {}
  /\ flight = {} \/ \E s \in SUBSET Pick!AllJobs : flight = {s}
  /\ ui \in UiType /\ pickMu \in MuType /\ meant \in SUBSET Pick!AllJobs

\* The picker with the box and the overlay closed.
OnOpen(u)  == [u EXCEPT !.filtering = FALSE]
\* The cursor is on the page as it is drawn without them.
Drawn(u) == u.top <= u.cursor /\ u.cursor < u.top + Pick!PageSize(OnOpen(u))
\* The cursor is on a row, and on the page unless the page was squeezed under the open box.
Scrolled ==
  /\ pickMu.pc = "pick" /\ ~ui.squeezed => Drawn(ui)
  /\ 0 <= ui.cursor /\ (ui.cursor = 0 \/ ui.cursor < Pick!Shown(ui))

\* What is selected was meant, and what is being cancelled is accounted for.
Picked ==
  /\ ui.selected \subseteq meant
  /\ pickMu.pc \in {"resolve", "confirm", "cancel", "done"} => pickMu.matched \subseteq meant
  /\ pickMu.pc \in {"confirm", "cancel", "done"} => pickMu.matched \subseteq queue \cup gone \cup killed
  /\ killed \subseteq meant /\ (pickMu.pc \in {"pick", "resolve", "confirm"} => killed = {})
  /\ pickMu.pc \in {"cancel", "done"} =>
       \A j \in pickMu.matched : j.cl \in pickMu.left \/ j \in killed \cup gone \/ j.cl \in pickMu.failed
  /\ pickMu.pc = "done" => pickMu.left = {}

\* The invariant of the picker.
PickInv == PickTyped /\ Scrolled /\ Picked

\* The greater of two numbers is one, and neither is above it.
LEMMA MaxOfTwo ==
  ASSUME NEW a \in Int, NEW b \in Int
  PROVE  Pick!Max({a, b}) \in Int /\ Pick!Max({a, b}) >= a /\ Pick!Max({a, b}) >= b
<1>1. \E x \in {a, b} : \A y \in {a, b} : x >= y
  <2>1. CASE a >= b
    BY <2>1
  <2>2. CASE b >= a
    BY <2>2
  <2> QED BY <2>1, <2>2
<1>2. Pick!Max({a, b}) \in {a, b} /\ \A y \in {a, b} : Pick!Max({a, b}) >= y
  BY <1>1 DEF Pick!Max
<1> QED BY <1>2

\* The rows that show are finitely many, and places count them.
LEMMA VisibleIsFinite ==
  ASSUME Pick!PickAssumption, NEW u
  PROVE  IsFiniteSet(Pick!Visible(u)) /\ Pick!Shown(u) \in Nat /\ \A i : Pick!Place(u, i) \in Nat /\ Pick!Place(u, i) <= Pick!Shown(u)
<1>1. IsFiniteSet(DOMAIN ListOrder)
  BY FS_Interval DEF Pick!PickAssumption
<1>2. IsFiniteSet(Pick!Visible(u))
  BY <1>1, FS_Subset DEF Pick!Visible
<1>3. ASSUME NEW i PROVE Pick!Place(u, i) \in Nat /\ Pick!Place(u, i) <= Pick!Shown(u)
  <2>1. {h \in Pick!Visible(u) : h < i} \subseteq Pick!Visible(u)
    OBVIOUS
  <2> QED BY <1>2, <2>1, FS_Subset, FS_CardinalityType, PickCounts DEF Pick!Place, Pick!Shown
<1> QED BY <1>2, <1>3, FS_CardinalityType, PickCounts DEF Pick!Shown

\* A page has a row at least.
LEMMA PageIsPositive ==
  ASSUME Pick!PickAssumption, NEW u \in UiType
  PROVE  Pick!PageSize(u) \in Int /\ Pick!PageSize(u) >= 1
<1>0. \A a, b \in Int : Pick!Max({a, b}) \in Int /\ Pick!Max({a, b}) >= a
  BY MaxOfTwo
<1> DEFINE p    == u.height - (IF u.filtering THEN 6 ELSE 5)
           n    == Pick!Shown(u)
           m    == Pick!Max({p \div 2, 3})
           half == IF n > 0 /\ n < m THEN n ELSE m
           full == IF half < p /\ p - half - 1 >= 3 THEN half ELSE p
<1>1. p \in Int /\ n \in Int
  BY VisibleIsFinite DEF UiType
<1> HIDE DEF p
<1>2. p \div 2 \in Int /\ 3 \in Int
  BY <1>1
<1>3. m \in Int
  BY <1>0, <1>2
<1> HIDE DEF n, m
<1>4. half \in Int
  BY <1>1, <1>3
<1> HIDE DEF half
<1>5. full \in Int /\ 1 \in Int
  BY <1>1, <1>4
<1>6. Pick!PageSize(u) = Pick!Max({1, full})
  BY DEF Pick!PageSize, full, half, m, n, p
<1> HIDE DEF full
<1> QED BY <1>0, <1>5, <1>6

\* Scrolled, the cursor is on the page.
LEMMA ClampDraws ==
  ASSUME Pick!PickAssumption, NEW u \in UiType
  PROVE  /\ Pick!ClampScroll(u) \in UiType
         /\ ~Pick!ClampScroll(u).squeezed => Drawn(Pick!ClampScroll(u))
         /\ Pick!ClampScroll(u).cursor = u.cursor /\ Pick!ClampScroll(u).selected = u.selected
         /\ Pick!Shown(Pick!ClampScroll(u)) = Pick!Shown(u)
<1> DEFINE v == Pick!ClampScroll(u)
           t == CASE u.cursor < u.top -> u.cursor
                  [] u.cursor >= u.top + Pick!PageSize(u) -> u.cursor - Pick!PageSize(u) + 1
                  [] OTHER -> u.top
<1>1. Pick!PageSize(u) \in Int /\ Pick!PageSize(u) >= 1
  BY PageIsPositive
<1>2. u.cursor \in Int /\ u.top \in Int
  BY DEF UiType
<1>3. t \in Int /\ t <= u.cursor /\ u.cursor < t + Pick!PageSize(u)
  BY <1>1, <1>2
<1>4. v = [u EXCEPT !.squeezed = u.filtering, !.top = t]
  BY DEF Pick!ClampScroll
<1> HIDE DEF t
<1>5. v \in UiType
  BY <1>3, <1>4 DEF UiType
<1>6. /\ v.top = t /\ v.cursor = u.cursor /\ v.squeezed = u.filtering /\ v.selected = u.selected
      /\ v.rows = u.rows /\ v.filter = u.filter /\ v.facet = u.facet /\ v.height = u.height
      /\ v.filtering = u.filtering
  BY <1>4 DEF UiType
<1>7. Pick!Visible(v) = Pick!Visible(u)
  BY <1>6 DEF Pick!Visible
<1>8. ASSUME ~u.filtering PROVE Pick!PageSize(OnOpen(v)) = Pick!PageSize(u)
  <2>1. Pick!Visible(OnOpen(v)) = Pick!Visible(u) /\ OnOpen(v).height = u.height /\ ~OnOpen(v).filtering
    BY <1>5, <1>6 DEF Pick!Visible, OnOpen, UiType
  <2> QED BY <1>8, <2>1 DEF Pick!PageSize, Pick!Shown
<1> QED BY <1>3, <1>5, <1>6, <1>7, <1>8 DEF Drawn, Pick!Shown

\* On the first row, it is.
LEMMA FirstIsDrawn ==
  ASSUME Pick!PickAssumption, NEW u \in UiType
  PROVE  /\ Pick!Recompute(u) \in UiType /\ Drawn(Pick!Recompute(u))
         /\ Pick!Recompute(u).cursor = 0 /\ Pick!Recompute(u).selected = u.selected
<1>1. /\ Pick!Recompute(u) \in UiType /\ Pick!Recompute(u).cursor = 0 /\ Pick!Recompute(u).top = 0
      /\ Pick!Recompute(u).selected = u.selected
  <2> DEFINE zero == 0
  <2>1. zero \in Int
    OBVIOUS
  <2>2. Pick!Recompute(u) = [u EXCEPT !.cursor = zero, !.top = zero, !.squeezed = FALSE]
    BY DEF Pick!Recompute
  <2> HIDE DEF zero
  <2>3. /\ Pick!Recompute(u) \in UiType /\ Pick!Recompute(u).cursor = zero /\ Pick!Recompute(u).top = zero
        /\ Pick!Recompute(u).selected = u.selected
    BY <2>1, <2>2 DEF UiType
  <2> QED BY <2>3 DEF zero
<1>2. OnOpen(Pick!Recompute(u)) \in UiType
  BY <1>1 DEF OnOpen, UiType
<1> QED BY <1>1, <1>2, PageIsPositive DEF Drawn

\* New rows: the cursor is on the page and on a row.
LEMMA ApplyDraws ==
  ASSUME Pick!PickAssumption, NEW u \in UiType, NEW f \in SUBSET Pick!AllJobs
  PROVE  LET v == Pick!ApplyRows(u, f)
         IN /\ v \in UiType /\ v.selected = u.selected /\ (~v.squeezed => Drawn(v))
            /\ 0 <= v.cursor /\ (v.cursor = 0 \/ v.cursor < Pick!Shown(v))
<1> DEFINE new   == Pick!Recompute([u EXCEPT !.rows = f])
           still == Pick!At(u) \cap Pick!Visible(new)
           i     == CHOOSE i \in still : TRUE
           w     == IF still = {} THEN new ELSE [new EXCEPT !.cursor = Pick!Place(new, i)]
<1>1. Pick!ApplyRows(u, f) = Pick!ClampScroll(w)
  BY DEF Pick!ApplyRows
<1>2. [u EXCEPT !.rows = f] \in UiType /\ [u EXCEPT !.rows = f].selected = u.selected
  BY DEF UiType
<1>3. new \in UiType /\ new.cursor = 0 /\ new.selected = u.selected
  BY <1>2, FirstIsDrawn
<1> HIDE DEF new
<1>4. Pick!Place(new, i) \in Nat
  BY VisibleIsFinite
<1>5. still # {} => Pick!Place(new, i) < Pick!Shown(new)
  <2>1. SUFFICES ASSUME still # {} PROVE Pick!Place(new, i) < Pick!Shown(new)
    OBVIOUS
  <2>2. i \in Pick!Visible(new) /\ i \in Int
    BY <2>1 DEF Pick!Visible, Pick!PickAssumption
  <2>3. {h \in Pick!Visible(new) : h < i} \subseteq Pick!Visible(new) /\ i \notin {h \in Pick!Visible(new) : h < i}
    BY <2>2
  <2> QED BY <2>2, <2>3, VisibleIsFinite, FS_Subset, FS_CardinalityType,
      PickCounts DEF Pick!Place, Pick!Shown
<1>6. w \in UiType /\ w.selected = u.selected /\ 0 <= w.cursor /\ (w.cursor = 0 \/ w.cursor < Pick!Shown(w))
  <2>1. CASE still = {}
    BY <1>3, <2>1
  <2>2. CASE still # {}
    <3>1. w = [new EXCEPT !.cursor = Pick!Place(new, i)]
      BY <2>2
    <3> DEFINE c == Pick!Place(new, i)
    <3> HIDE DEF still, i
    <3>2. w.cursor = c /\ w \in UiType /\ w.selected = u.selected
      BY <1>3, <1>4, <3>1 DEF UiType
    <3>3. Pick!Visible(w) = Pick!Visible(new)
      BY <1>3, <3>1 DEF Pick!Visible, UiType
    <3> QED BY <1>4, <1>5, <2>2, <3>2, <3>3 DEF Pick!Shown
  <2> QED BY <2>1, <2>2
<1> HIDE DEF w
<1> QED BY <1>1, <1>6, ClampDraws

-----------------------------------------------------------------------------

\* It holds when the picker opens.
LEMMA PickInit == ASSUME Pick!PickAssumption, Pick!Init PROVE PickInv
<1>1. PICK h \in ListHeights :
        ui = [rows |-> queue, filter |-> Pick!AllJobs, facet |-> Pick!All, filtering |-> FALSE, cursor |-> 0,
              top |-> 0, selected |-> {}, overlay |-> "none", height |-> h, squeezed |-> FALSE]
  BY DEF Pick!Init, Pick!Opened
<1>2. queue \in SUBSET Pick!AllJobs /\ h \in Int
  BY DEF Pick!Init, Pick!PickAssumption
<1>3. ui \in UiType
  BY <1>1, <1>2 DEF UiType
<1>4. PickTyped
  BY <1>2, <1>3 DEF Pick!Init, PickTyped, MuType, PcSet
<1>5. OnOpen(ui) \in UiType
  BY <1>3 DEF OnOpen, UiType
<1>6. Drawn(ui) /\ ui.cursor = 0
  <2>1. ui.top = 0 /\ ui.cursor = 0
    BY <1>1
  <2> QED BY <1>5, <2>1, PageIsPositive DEF Drawn
<1>7. Picked
  BY <1>1 DEF Pick!Init, Picked
<1> QED BY <1>4, <1>6, <1>7 DEF PickInv, Scrolled

\* A step of the list alone.
LEMMA ListStep ==
  ASSUME PickInv, Pick!UiLeaves, ui' \in UiType, Scrolled', ui'.selected \subseteq meant', 
         meant' \in SUBSET Pick!AllJobs, pickMu.pc = "pick",
         flight' = {} \/ \E s \in SUBSET Pick!AllJobs : flight' = {s}
  PROVE  PickInv'
BY DEF PickInv, PickTyped, Picked, Pick!UiLeaves

\* A job ends or another comes: what the picker has drawn and marked is as it was.
LEMMA QueueKeeps == ASSUME PickInv, Pick!QueueChanges PROVE PickInv'
<1>1. PICK j \in Pick!AllJobs :
        IF j \in queue THEN queue' = queue \ {j} /\ gone' = gone \cup {j}
        ELSE j \notin gone \cup killed /\ queue' = queue \cup {j} /\ UNCHANGED gone
  BY DEF Pick!QueueChanges
<1>2. UNCHANGED <<ui, flight, pickMu, meant, killed>>
  BY DEF Pick!QueueChanges
<1>3. queue \cup gone \subseteq queue' \cup gone' /\ gone \subseteq gone'
  BY <1>1
<1>4. PickTyped'
  BY <1>1, <1>2 DEF PickInv, PickTyped
<1>5. Scrolled' /\ Picked'
  BY <1>2, <1>3 DEF PickInv, Scrolled, Picked, Drawn
<1> QED BY <1>4, <1>5 DEF PickInv

\* A snapshot is of the queue.
LEMMA SnapshotsType ==
  ASSUME PickTyped, NEW s \in Pick!Snapshots
  PROVE  s \in SUBSET Pick!AllJobs /\ s \subseteq queue
BY DEF PickTyped, Pick!Snapshots

\* A refresh is asked for.
LEMMA TickKeeps == ASSUME PickInv, Pick!Tick PROVE PickInv'
<1>1. ui' = ui /\ meant' = meant /\ Pick!UiLeaves /\ pickMu.pc = "pick"
  BY DEF Pick!Tick, Pick!InList
<1>2. \E s \in SUBSET Pick!AllJobs : flight' = {s}
  BY SnapshotsType DEF Pick!Tick, PickInv
<1>3. Scrolled'
  BY <1>1 DEF PickInv, Scrolled, Pick!UiLeaves, Drawn
<1> QED BY <1>1, <1>2, <1>3, ListStep DEF PickInv, PickTyped, Picked

\* The rows of an answer replace those shown; the cursor is clamped and the page scrolled.
LEMMA RowsKeep == ASSUME Pick!PickAssumption, PickInv, Pick!Rows PROVE PickInv'
<1>1. PICK f \in flight :
       /\ flight' = flight \ {f}
       /\ ui' = IF ui.overlay = "none" /\ ~ui.filtering THEN Pick!ApplyRows(ui, f) ELSE ui
  BY DEF Pick!Rows, Pick!Ui
<1>2. meant' = meant /\ Pick!UiLeaves /\ pickMu.pc = "pick"
  BY DEF Pick!Rows
<1>3. f \in SUBSET Pick!AllJobs /\ flight' = {}
  BY <1>1 DEF PickInv, PickTyped
<1>4. CASE ui.overlay = "none" /\ ~ui.filtering
  <2>1. /\ ui' \in UiType /\ ui'.selected = ui.selected /\ (~ui'.squeezed => Drawn(ui'))
        /\ 0 <= ui'.cursor /\ (ui'.cursor = 0 \/ ui'.cursor < Pick!Shown(ui'))
    BY <1>1, <1>3, <1>4, ApplyDraws DEF PickInv, PickTyped
  <2>2. Scrolled'
    BY <2>1 DEF Scrolled
  <2> QED BY <1>2, <1>3, <2>1, <2>2, ListStep DEF PickInv, PickTyped, Picked
<1>5. CASE ~(ui.overlay = "none" /\ ~ui.filtering)
  <2>1. ui' = ui
    BY <1>1, <1>5
  <2>2. Scrolled'
    BY <1>2, <2>1 DEF PickInv, Scrolled, Pick!UiLeaves, Drawn
  <2> QED BY <1>2, <1>3, <2>1, <2>2, ListStep DEF PickInv, PickTyped, Picked
<1> QED BY <1>4, <1>5

\* A step that scrolls to a cursor on a row.
LEMMA ClampStep ==
  ASSUME Pick!PickAssumption, PickInv, Pick!UiLeaves, pickMu.pc = "pick", NEW u \in UiType, ui' = Pick!ClampScroll(u),
         u.selected = ui.selected, 0 <= u.cursor, u.cursor = 0 \/ u.cursor < Pick!Shown(u),
         UNCHANGED <<flight, meant>>
  PROVE  PickInv'
<1>1. /\ ui' \in UiType /\ (~ui'.squeezed => Drawn(ui'))
      /\ ui'.cursor = u.cursor /\ ui'.selected = ui.selected /\ Pick!Shown(ui') = Pick!Shown(u)
  BY ClampDraws
<1>2. Scrolled'
  BY <1>1 DEF Scrolled
<1> QED BY <1>1, <1>2, ListStep DEF PickInv, PickTyped, Picked

\* A step that puts the cursor on the first row.
LEMMA RecomputeStep ==
  ASSUME Pick!PickAssumption, PickInv, Pick!UiLeaves, pickMu.pc = "pick", NEW u \in UiType, ui' = Pick!Recompute(u),
         u.selected = ui.selected, UNCHANGED <<flight, meant>>
  PROVE  PickInv'
<1>1. /\ ui' \in UiType /\ Drawn(ui') /\ ui'.cursor = 0 /\ ui'.selected = ui.selected
  BY FirstIsDrawn
<1>2. Scrolled'
  BY <1>1 DEF Scrolled
<1> QED BY <1>1, <1>2, ListStep DEF PickInv, PickTyped, Picked

\* A step that leaves the page as it is.
LEMMA StillStep ==
  ASSUME Pick!PickAssumption, PickInv, Pick!UiLeaves, pickMu.pc = "pick", ui' \in UiType, UNCHANGED flight,
         meant' \in SUBSET Pick!AllJobs, ui'.selected \subseteq meant',
         ui'.rows = ui.rows, ui'.filter = ui.filter, ui'.facet = ui.facet, ui'.height = ui.height,
         ui'.cursor = ui.cursor, ui'.top = ui.top, ui'.squeezed = ui.squeezed
  PROVE  PickInv'
<1>1. ui \in UiType
  BY DEF PickInv, PickTyped
<1>2. Pick!Visible(ui') = Pick!Visible(ui) /\ Pick!Visible(OnOpen(ui')) = Pick!Visible(OnOpen(ui))
  BY <1>1 DEF Pick!Visible, OnOpen, UiType
<1>3. Pick!PageSize(OnOpen(ui')) = Pick!PageSize(OnOpen(ui))
  <2>1. /\ OnOpen(ui').height = OnOpen(ui).height /\ ~OnOpen(ui').filtering /\ ~OnOpen(ui).filtering
    BY <1>1 DEF OnOpen, UiType
  <2> QED BY <1>2, <2>1 DEF Pick!PageSize, Pick!Shown
<1>4. Scrolled'
  <2>1. Drawn(ui) => Drawn(ui')
    BY <1>3 DEF Drawn
  <2>2. Pick!Shown(ui') = Pick!Shown(ui) /\ pickMu' = pickMu
    BY <1>2 DEF Pick!Shown, Pick!UiLeaves
  <2> QED BY <2>1, <2>2 DEF PickInv, Scrolled
<1> QED BY <1>4, ListStep DEF PickInv, PickTyped

\* The terminal changes its height; under the open box the page may be squeezed.
LEMMA ResizeKeeps == ASSUME Pick!PickAssumption, PickInv, Pick!Resize PROVE PickInv'
<1>1. PICK h \in ListHeights : ui' = Pick!ClampScroll([ui EXCEPT !.height = h])
  BY DEF Pick!Resize, Pick!Ui
<1> DEFINE u == [ui EXCEPT !.height = h]
<1>2. u \in UiType /\ u.selected = ui.selected /\ u.cursor = ui.cursor
  BY DEF PickInv, PickTyped, UiType, Pick!PickAssumption
<1>3. Pick!Visible(u) = Pick!Visible(ui)
  BY DEF Pick!Visible, PickInv, PickTyped, UiType
<1> QED BY <1>1, <1>2, <1>3, ClampStep DEF Pick!Resize, PickInv, Scrolled, Pick!Shown

\* The cursor moves.
LEMMA MoveKeeps == ASSUME Pick!PickAssumption, PickInv, Pick!Move PROVE PickInv'
<1>1. PICK c \in {ui.cursor - 1, ui.cursor + 1} \cap 0 .. Pick!Shown(ui) - 1 :
        ui' = Pick!ClampScroll([ui EXCEPT !.cursor = c])
  BY DEF Pick!Move, Pick!Ui
<1> DEFINE u == [ui EXCEPT !.cursor = c]
<1>2. c \in Int /\ 0 <= c /\ c < Pick!Shown(ui)
  BY <1>1, VisibleIsFinite
<1>3. u \in UiType /\ u.selected = ui.selected /\ u.cursor = c
  BY <1>2 DEF PickInv, PickTyped, UiType
<1>4. Pick!Visible(u) = Pick!Visible(ui)
  BY DEF Pick!Visible, PickInv, PickTyped, UiType
<1> QED BY <1>1, <1>2, <1>3, <1>4, ClampStep DEF Pick!Move, Pick!Quiet, Pick!InList, Pick!Shown

\* A row is marked or unmarked: the row under the cursor, which its owner sees.
LEMMA MarkKeeps == ASSUME Pick!PickAssumption, PickInv, Pick!Mark PROVE PickInv'
<1>1. PICK i \in Pick!At(ui) :
       LET j   == ListOrder[i]
           off == j \in ui.selected
       IN /\ ui' = [ui EXCEPT !.selected = IF off THEN @ \ {j} ELSE @ \cup {j}]
          /\ meant' = IF off THEN meant \ {j} ELSE meant \cup {j}
  BY DEF Pick!Mark, Pick!Ui, Pick!RowID
<1>2. ListOrder[i] \in Pick!AllJobs
  BY DEF Pick!At, Pick!Visible, Pick!PickAssumption
<1> DEFINE sel == IF ListOrder[i] \in ui.selected THEN ui.selected \ {ListOrder[i]} ELSE ui.selected \cup {ListOrder[i]}
<1>3. ui \in UiType /\ ui.selected \subseteq meant /\ meant \in SUBSET Pick!AllJobs
  BY DEF PickInv, PickTyped, Picked
<1>4. sel \in SUBSET Pick!AllJobs
  BY <1>2, <1>3 DEF UiType
<1>5. ui' = [ui EXCEPT !.selected = sel]
  BY <1>1
<1>6. sel \subseteq meant' /\ meant' \in SUBSET Pick!AllJobs
  BY <1>1, <1>2, <1>3
<1> HIDE DEF sel
<1>7. ui' \in UiType /\ ui'.selected = sel
  BY <1>3, <1>4, <1>5 DEF UiType
<1>8. /\ ui'.rows = ui.rows /\ ui'.filter = ui.filter /\ ui'.facet = ui.facet /\ ui'.height = ui.height
      /\ ui'.cursor = ui.cursor /\ ui'.top = ui.top /\ ui'.squeezed = ui.squeezed
  BY <1>3, <1>5 DEF UiType
<1>9. Pick!UiLeaves /\ pickMu.pc = "pick" /\ UNCHANGED flight
  BY DEF Pick!Mark, Pick!InList
<1> QED BY <1>6, <1>7, <1>8, <1>9, StillStep

\* All rows that show are marked, or none.
LEMMA MarkAllKeeps == ASSUME Pick!PickAssumption, PickInv, Pick!MarkAll PROVE PickInv'
<1> DEFINE shown == {ListOrder[i] : i \in Pick!Visible(ui)}
<1>1. {Pick!RowID(j) : j \in shown} = shown
  BY DEF Pick!RowID
<1>2. shown \in SUBSET Pick!AllJobs
  BY DEF Pick!Visible, Pick!PickAssumption
<1> HIDE DEF shown
<1>3. \/ ui' = [ui EXCEPT !.selected = @ \ shown] /\ meant' = meant \ shown
      \/ ui' = [ui EXCEPT !.selected = @ \cup shown] /\ meant' = meant \cup shown
  <2>1. IF {Pick!RowID(j) : j \in shown} \subseteq ui.selected
        THEN ui' = [ui EXCEPT !.selected = @ \ {Pick!RowID(j) : j \in shown}] /\ meant' = meant \ shown
        ELSE ui' = [ui EXCEPT !.selected = @ \cup {Pick!RowID(j) : j \in shown}] /\ meant' = meant \cup shown
    BY DEF Pick!MarkAll, Pick!Ui, shown
  <2> QED BY <1>1, <2>1
<1>4. ui \in UiType /\ ui.selected \subseteq meant /\ meant \in SUBSET Pick!AllJobs
  BY DEF PickInv, PickTyped, Picked
<1>5. PICK sel \in SUBSET Pick!AllJobs : ui' = [ui EXCEPT !.selected = sel] /\ sel \subseteq meant' /\ meant' \in SUBSET Pick!AllJobs
  BY <1>2, <1>3, <1>4 DEF UiType
<1>7. ui' \in UiType /\ ui'.selected = sel
  BY <1>4, <1>5 DEF UiType
<1>8. /\ ui'.rows = ui.rows /\ ui'.filter = ui.filter /\ ui'.facet = ui.facet /\ ui'.height = ui.height
      /\ ui'.cursor = ui.cursor /\ ui'.top = ui.top /\ ui'.squeezed = ui.squeezed
  BY <1>4, <1>5 DEF UiType
<1>9. Pick!UiLeaves /\ pickMu.pc = "pick" /\ UNCHANGED flight
  BY DEF Pick!MarkAll, Pick!InList
<1> QED BY <1>5, <1>7, <1>8, <1>9, StillStep

\* Only the box or the overlay.
LEMMA CoverStep ==
  ASSUME Pick!PickAssumption, PickInv, Pick!UiLeaves, pickMu.pc = "pick", UNCHANGED <<flight, meant>>,
         NEW o \in {"none", "loading", "card"}, NEW b \in BOOLEAN,
         ui' = [ui EXCEPT !.overlay = o, !.filtering = b]
  PROVE  PickInv'
<1>1. ui \in UiType /\ ui.selected \subseteq meant /\ meant \in SUBSET Pick!AllJobs
  BY DEF PickInv, PickTyped, Picked
<1>2. /\ ui' \in UiType /\ ui'.selected = ui.selected
      /\ ui'.rows = ui.rows /\ ui'.filter = ui.filter /\ ui'.facet = ui.facet /\ ui'.height = ui.height
      /\ ui'.cursor = ui.cursor /\ ui'.top = ui.top /\ ui'.squeezed = ui.squeezed
  BY <1>1 DEF UiType
<1> QED BY <1>1, <1>2, StillStep

\* The box opens.
LEMMA SlashKeeps == ASSUME Pick!PickAssumption, PickInv, Pick!Slash PROVE PickInv'
<1>1. ui' = [ui EXCEPT !.overlay = ui.overlay, !.filtering = TRUE] /\ ui.overlay \in {"none", "loading", "card"}
  BY DEF Pick!Slash, Pick!Ui, PickInv, PickTyped, UiType
<1> QED BY <1>1, CoverStep DEF Pick!Slash, Pick!Quiet, Pick!InList

\* The overlay opens.
LEMMA InspectKeeps == ASSUME Pick!PickAssumption, PickInv, Pick!Inspect PROVE PickInv'
<1>1. ui' = [ui EXCEPT !.overlay = "loading", !.filtering = ui.filtering] /\ ui.filtering \in BOOLEAN
  BY DEF Pick!Inspect, Pick!Ui, PickInv, PickTyped, UiType
<1> QED BY <1>1, CoverStep DEF Pick!Inspect, Pick!Quiet, Pick!InList

\* The overlay loads or closes.
LEMMA OverlayKeeps == ASSUME Pick!PickAssumption, PickInv, Pick!Overlay PROVE PickInv'
<1> DEFINE o == IF ui.overlay = "loading" THEN "card" ELSE "none"
<1>1. ui' = [ui EXCEPT !.overlay = o, !.filtering = ui.filtering] /\ ui.filtering \in BOOLEAN
  BY DEF Pick!Overlay, Pick!Ui, PickInv, PickTyped, UiType
<1>2. o \in {"none", "loading", "card"}
  OBVIOUS
<1> HIDE DEF o
<1> QED BY <1>1, <1>2, CoverStep DEF Pick!Overlay

\* A key in the box: the rows are filtered again and the cursor starts over, or the box closes.
LEMMA FilterKeeps == ASSUME Pick!PickAssumption, PickInv, Pick!FilterKey PROVE PickInv'
<1>1. Pick!UiLeaves /\ pickMu.pc = "pick" /\ UNCHANGED <<flight, meant>> /\ ui \in UiType
  BY DEF Pick!FilterKey, PickInv, PickTyped
<1>2. CASE ui' = [ui EXCEPT !.filtering = FALSE]
  <2>1. ui' = [ui EXCEPT !.overlay = ui.overlay, !.filtering = FALSE] /\ ui.overlay \in {"none", "loading", "card"}
    BY <1>1, <1>2 DEF UiType
  <2> QED BY <1>1, <2>1, CoverStep
<1>3. CASE ui' = Pick!Recompute([ui EXCEPT !.filtering = FALSE, !.filter = Pick!AllJobs])
  <2> DEFINE u == [ui EXCEPT !.filtering = FALSE, !.filter = Pick!AllJobs]
  <2>1. u \in UiType /\ u.selected = ui.selected
    BY <1>1 DEF UiType
  <2> QED BY <1>1, <1>3, <2>1, RecomputeStep
<1>4. ASSUME NEW f \in Filters, ui' = Pick!Recompute([ui EXCEPT !.filter = f]) PROVE PickInv'
  <2> DEFINE u == [ui EXCEPT !.filter = f]
  <2>1. u \in UiType /\ u.selected = ui.selected
    BY <1>1 DEF UiType
  <2> QED BY <1>1, <1>4, <2>1, RecomputeStep
<1> QED BY <1>2, <1>3, <1>4 DEF Pick!FilterKey, Pick!Ui

\* The next cluster's rows.
LEMMA FacetKeeps == ASSUME Pick!PickAssumption, PickInv, Pick!Facet PROVE PickInv'
<1>1. Pick!UiLeaves /\ pickMu.pc = "pick" /\ UNCHANGED <<flight, meant>> /\ ui \in UiType
  BY DEF Pick!Facet, Pick!Quiet, Pick!InList, PickInv, PickTyped
<1> DEFINE vals == {j.cl : j \in ui.rows}
           next == IF ui.facet \in vals THEN {c \in vals : Pick!Rank[c] > Pick!Rank[ui.facet]} ELSE vals
<1>2. PICK c \in IF next = {} THEN {Pick!All} ELSE {c \in next : \A d \in next : Pick!Rank[c] <= Pick!Rank[d]} :
          ui' = Pick!ClampScroll(Pick!Recompute([ui EXCEPT !.facet = c]))
  BY DEF Pick!Facet, Pick!Ui
<1>3. c \in Pick!Clusters \cup {Pick!All}
  <2>1. vals \subseteq Pick!Clusters
    BY <1>1 DEF UiType, Pick!Clusters
  <2>2. next \subseteq vals
    OBVIOUS
  <2> HIDE DEF vals, next
  <2> QED BY <1>2, <2>1, <2>2
<1> DEFINE u == [ui EXCEPT !.facet = c]
<1>4. u \in UiType /\ u.selected = ui.selected
  BY <1>1, <1>3 DEF UiType
<1> HIDE DEF u
<1>5. Pick!Recompute(u) \in UiType /\ Pick!Recompute(u).cursor = 0 /\ Pick!Recompute(u).selected = ui.selected
  BY <1>4, FirstIsDrawn
<1> QED BY <1>1, <1>2, <1>5, ClampStep DEF u

-----------------------------------------------------------------------------
(* The cancel.                                                             *)

\* A step of the command around the picker.
LEMMA CommandStep ==
  ASSUME PickInv, UNCHANGED <<queueChanges, ui>>, PickTyped', Picked', pickMu'.pc # "pick"
  PROVE  PickInv'
BY DEF PickInv, Scrolled

\* Enter hands what is marked to mdel; with nothing marked it ends there.
LEMMA EnterKeeps == ASSUME Pick!PickAssumption, PickInv, Pick!Enter PROVE PickInv'
<1> DEFINE ids == ui.rows \cap ui.selected
<1>1. {Pick!RowID(j) : j \in ui.rows} = ui.rows /\ {j \in Pick!AllJobs : Pick!RowID(j) \in ids} = Pick!AllJobs \cap ids
  BY DEF Pick!RowID
<1>2. pickMu' = [pickMu EXCEPT !.pc = IF ids = {} THEN "aborted" ELSE "resolve", !.matched = Pick!AllJobs \cap ids]
  BY <1>1 DEF Pick!Enter
<1>3. UNCHANGED <<queueChanges, ui, meant, gone, queue, killed>> /\ flight' = {} /\ pickMu.pc = "pick"
  BY DEF Pick!Enter, Pick!MuLeaves, Pick!InList
<1>4. Pick!AllJobs \cap ids \in SUBSET Pick!AllJobs /\ Pick!AllJobs \cap ids \subseteq meant
  BY DEF PickInv, Picked
<1> HIDE DEF ids
<1>5. pickMu' \in MuType /\ pickMu'.matched = Pick!AllJobs \cap ids /\ pickMu'.pc \in {"aborted", "resolve"}
  BY <1>2, <1>4 DEF PickInv, PickTyped, MuType, PcSet
<1>6. PickTyped'
  BY <1>3, <1>5 DEF PickInv, PickTyped
<1>7. Picked'
  BY <1>3, <1>4, <1>5 DEF PickInv, Picked
<1> QED BY <1>3, <1>5, <1>6, <1>7, CommandStep

\* The owner leaves.
LEMMA QuitKeeps == ASSUME Pick!PickAssumption, PickInv, Pick!Quit PROVE PickInv'
<1>1. UNCHANGED <<queueChanges, ui, meant, gone, queue, killed>> /\ flight' = {} /\ pickMu.pc = "pick"
  BY DEF Pick!Quit, Pick!MuLeaves, Pick!InList
<1>2. pickMu' \in MuType /\ pickMu'.pc = "aborted"
  BY DEF Pick!Quit, Pick!Pc, PickInv, PickTyped, MuType, PcSet
<1> QED BY <1>1, <1>2, CommandStep DEF PickInv, PickTyped, Picked

\* The picks are looked up again.
LEMMA ResolveKeeps == ASSUME Pick!PickAssumption, PickInv, Pick!Resolve PROVE PickInv'
<1>1. PICK s \in Pick!Snapshots :
        pickMu' = [pickMu EXCEPT !.matched = @ \cap s,
                        !.pc = IF pickMu.matched \cap s = {} THEN "aborted" ELSE "confirm"]
  BY DEF Pick!Resolve
<1>2. UNCHANGED <<queueChanges, ui, meant, gone, queue, killed, flight>> /\ pickMu.pc = "resolve"
  BY DEF Pick!Resolve, Pick!MuLeaves
<1>3. s \subseteq queue
  BY SnapshotsType DEF PickInv
<1>4. pickMu' \in MuType /\ pickMu'.pc \in {"aborted", "confirm"} /\ pickMu'.matched = pickMu.matched \cap s
  BY <1>1 DEF PickInv, PickTyped, MuType, PcSet
<1>5. PickTyped'
  BY <1>2, <1>4 DEF PickInv, PickTyped
<1>6. Picked'
  BY <1>2, <1>3, <1>4 DEF PickInv, Picked
<1> QED BY <1>2, <1>4, <1>5, <1>6, CommandStep

\* mdel without the picker: the jobs its arguments match.
LEMMA MdelKeeps == ASSUME Pick!PickAssumption, PickInv, Pick!Mdel PROVE PickInv'
<1>1. PICK c \in Pick!Clusters, f \in Filters :
       LET named == {j \in queue \cap f : j.cl = c} IN
       /\ pickMu' = [pickMu EXCEPT !.matched = named, !.pc = IF named = {} THEN "aborted" ELSE "confirm"]
       /\ meant' = named
  BY DEF Pick!Mdel
<1> DEFINE named == {j \in queue \cap f : j.cl = c}
<1>2. UNCHANGED <<queueChanges, ui, gone, queue, killed, flight>> /\ pickMu.pc = "pick" /\ ui.selected = {}
  BY DEF Pick!Mdel, Pick!InList
<1>3. named \subseteq queue
  OBVIOUS
<1>4. pickMu' = [pickMu EXCEPT !.matched = named, !.pc = IF named = {} THEN "aborted" ELSE "confirm"] /\ meant' = named
  BY <1>1
<1> HIDE DEF named
<1>5. pickMu' \in MuType /\ pickMu'.pc \in {"aborted", "confirm"} /\ pickMu'.matched = named
  BY <1>3, <1>4 DEF PickInv, PickTyped, MuType, PcSet
<1>6. PickTyped'
  BY <1>2, <1>3, <1>4, <1>5 DEF PickInv, PickTyped
<1>7. Picked'
  BY <1>2, <1>3, <1>4, <1>5 DEF PickInv, Picked
<1> QED BY <1>2, <1>5, <1>6, <1>7, CommandStep

\* The owner says yes, or no.
LEMMA ConfirmKeeps == ASSUME Pick!PickAssumption, PickInv, Pick!Confirm PROVE PickInv'
<1>1. UNCHANGED <<queueChanges, ui, meant, gone, queue, killed, flight>> /\ pickMu.pc = "confirm"
  BY DEF Pick!Confirm, Pick!MuLeaves
<1>2. CASE Pick!Pc("aborted")
  <2>1. pickMu' \in MuType /\ pickMu'.pc = "aborted"
    BY <1>2 DEF Pick!Pc, PickInv, PickTyped, MuType, PcSet
  <2> QED BY <1>1, <2>1, CommandStep DEF PickInv, PickTyped, Picked
<1>3. CASE pickMu' = [pickMu EXCEPT !.pc = "cancel", !.left = Pick!ClustersOf(pickMu.matched)]
  <2>1. Pick!ClustersOf(pickMu.matched) \in SUBSET Pick!Clusters
    BY DEF Pick!ClustersOf, Pick!Clusters, PickInv, PickTyped, MuType
  <2>2. /\ pickMu' \in MuType /\ pickMu'.pc = "cancel" /\ pickMu'.matched = pickMu.matched
        /\ pickMu'.left = Pick!ClustersOf(pickMu.matched)
    BY <1>3, <2>1 DEF PickInv, PickTyped, MuType, PcSet
  <2>3. PickTyped'
    BY <1>1, <2>2 DEF PickInv, PickTyped
  <2>4. Picked'
    BY <1>1, <2>2 DEF PickInv, Picked, Pick!ClustersOf
  <2> QED BY <1>1, <2>2, <2>3, <2>4, CommandStep
<1> QED BY <1>2, <1>3 DEF Pick!Confirm

\* One cluster's matched jobs are cancelled, or its cancel fails.
LEMMA CancelKeeps == ASSUME Pick!PickAssumption, PickInv, Pick!Cancel PROVE PickInv'
<1>1. PICK c \in pickMu.left :
       LET hits == {j \in pickMu.matched \cap queue : j.cl = c}
           hit  == queue' = queue \ hits /\ killed' = killed \cup hits
       IN \/ hit /\ pickMu' = [pickMu EXCEPT !.left = @ \ {c}]
          \/ /\ hit \/ UNCHANGED <<queue, killed>>
             /\ pickMu' = [pickMu EXCEPT !.left = @ \ {c}, !.failed = @ \cup {c}]
  BY DEF Pick!Cancel
<1>2. UNCHANGED <<queueChanges, ui, meant, gone, flight>> /\ pickMu.pc = "cancel"
  BY DEF Pick!Cancel, Pick!MuLeaves
<1> DEFINE hits == {j \in pickMu.matched \cap queue : j.cl = c}
           hit  == queue' = queue \ hits /\ killed' = killed \cup hits
<1>3. /\ pickMu \in MuType /\ c \in Pick!Clusters /\ pickMu.matched \subseteq meant
      /\ pickMu.matched \subseteq queue \cup gone \cup killed /\ killed \subseteq meant
  BY <1>2 DEF PickInv, PickTyped, Picked, MuType
<1>4. /\ pickMu' \in MuType /\ pickMu'.pc = "cancel" /\ pickMu'.matched = pickMu.matched /\ pickMu'.left = pickMu.left \ {c}
      /\ pickMu.failed \subseteq pickMu'.failed /\ (hit \/ (c \in pickMu'.failed /\ UNCHANGED <<queue, killed>>))
  <2>1. \/ hit /\ pickMu' = [pickMu EXCEPT !.left = @ \ {c}]
        \/ /\ hit \/ UNCHANGED <<queue, killed>>
           /\ pickMu' = [pickMu EXCEPT !.left = @ \ {c}, !.failed = @ \cup {c}]
    BY <1>1
  <2> HIDE DEF hit
  <2>2. CASE pickMu' = [pickMu EXCEPT !.left = @ \ {c}] /\ hit
    BY <1>2, <1>3, <2>2 DEF MuType
  <2>3. CASE pickMu' = [pickMu EXCEPT !.left = @ \ {c}, !.failed = @ \cup {c}] /\ (hit \/ UNCHANGED <<queue, killed>>)
    BY <1>2, <1>3, <2>3 DEF MuType
  <2> QED BY <2>1, <2>2, <2>3
<1>5. CASE hit
  <2>1. hits \subseteq meant /\ hits \subseteq queue
    BY <1>3
  <2>2. \A j \in pickMu.matched : j.cl = c => j \in killed' \cup gone
    BY <1>3, <1>5
  <2>3. queue' = queue \ hits /\ killed' = killed \cup hits
    BY <1>5
  <2> HIDE DEF hits
  <2>4. PickTyped'
    BY <1>2, <1>4, <2>1, <2>3 DEF PickInv, PickTyped
  <2>5. Picked'
    BY <1>2, <1>3, <1>4, <2>1, <2>2, <2>3 DEF PickInv, Picked
  <2> QED BY <1>2, <1>4, <2>4, <2>5, CommandStep
<1>6. CASE c \in pickMu'.failed /\ UNCHANGED <<queue, killed>>
  <2>1. PickTyped'
    BY <1>2, <1>4, <1>6 DEF PickInv, PickTyped
  <2>2. Picked'
    BY <1>2, <1>4, <1>6 DEF PickInv, Picked
  <2> QED BY <1>2, <1>4, <2>1, <2>2, CommandStep
<1> QED BY <1>4, <1>5, <1>6

\* The report.
LEMMA ReportKeeps == ASSUME Pick!PickAssumption, PickInv, Pick!Report PROVE PickInv'
<1>1. UNCHANGED <<queueChanges, ui, meant, gone, queue, killed, flight>> /\ pickMu.pc = "cancel" /\ pickMu.left = {}
  BY DEF Pick!Report, Pick!MuLeaves
<1>2. /\ pickMu' \in MuType /\ pickMu'.pc = "done" /\ pickMu'.matched = pickMu.matched /\ pickMu'.left = pickMu.left
      /\ pickMu'.failed = pickMu.failed
  BY DEF Pick!Report, Pick!Pc, PickInv, PickTyped, MuType, PcSet
<1> QED BY <1>1, <1>2, CommandStep DEF PickInv, PickTyped, Picked

\* Every step keeps the invariant.
LEMMA PickInvIsKept == ASSUME Pick!PickAssumption, PickInv, [Pick!Next]_Pick!vars PROVE PickInv'
<1>1. CASE UNCHANGED Pick!vars
  BY <1>1 DEF Pick!vars, PickInv, PickTyped, Scrolled, Picked, Drawn
<1> QED BY <1>1, QueueKeeps, TickKeeps, RowsKeep, ResizeKeeps, MoveKeeps, MarkKeeps, MarkAllKeeps,
           SlashKeeps, FilterKeeps, FacetKeeps, InspectKeeps, OverlayKeeps, EnterKeeps, QuitKeeps,
           ResolveKeeps, MdelKeeps, ConfirmKeeps, CancelKeeps, ReportKeeps DEF Pick!Next

\* The invariant gives the types and what the picker promises.
LEMMA PickInvMeans ==
  ASSUME Pick!PickAssumption, PickInv
  PROVE  Pick!TypeOK /\ Pick!CursorIsDrawn /\ Pick!CancelIsMeant
<1>1. Pick!TypeOK
  <2>1. Cardinality(flight) <= 1
    <3>1. CASE flight = {}
      BY <3>1, FS_EmptySet
    <3>2. ASSUME NEW s, flight = {s} PROVE Cardinality(flight) <= 1
      BY <3>2, FS_Singleton
    <3> QED BY <3>1, <3>2 DEF PickInv, PickTyped
  <2>2. queue \subseteq Pick!AllJobs /\ queue \cap (gone \cup killed) = {}
    BY DEF PickInv, PickTyped
  <2>3. ui.rows \subseteq Pick!AllJobs /\ ui.facet \in Pick!Clusters \cup {Pick!All}
    BY DEF PickInv, PickTyped, UiType
  <2>4. pickMu.pc \in PcSet
    BY DEF PickInv, PickTyped, MuType
  <2>5. ui.cursor = 0 \/ ui.cursor < Pick!Shown(ui)
    BY DEF PickInv, Scrolled
  <2> QED BY <2>1, <2>2, <2>3, <2>4, <2>5, PickCounts DEF Pick!TypeOK, PcSet
<1>2. Pick!CursorIsDrawn
  <2>1. SUFFICES ASSUME pickMu.pc = "pick", ~ui.filtering, ~ui.squeezed
                 PROVE  ui.top <= ui.cursor /\ ui.cursor < ui.top + Pick!PageSize(ui)
    BY DEF Pick!CursorIsDrawn
  <2>2. Drawn(ui) /\ ui \in UiType
    BY <2>1 DEF PickInv, Scrolled, PickTyped
  <2>3. OnOpen(ui) = ui
    BY <2>1, <2>2 DEF OnOpen, UiType
  <2> QED BY <2>2, <2>3 DEF Drawn
<1>3. Pick!CancelIsMeant
  BY DEF PickInv, Picked, Pick!CancelIsMeant
<1> QED BY <1>1, <1>2, <1>3

\* However the queue changes under the picker, its cursor is on a row the screen shows, unless
\* the screen was squeezed under the open filter box, and no job is cancelled that the owner did
\* not mark (internal/render/select.go, clampScroll; internal/cli/mdel.go).
THEOREM PickIsMeant ==
  ASSUME Pick!PickAssumption
  PROVE  Pick!Spec => [](Pick!TypeOK /\ Pick!CursorIsDrawn /\ Pick!CancelIsMeant)
<1>1. Pick!PickAssumption => (PickInv /\ [Pick!Next]_Pick!vars => PickInv')
  BY PickInvIsKept
<1> QED BY <1>1, PickInit, PickInvIsKept, PickInvMeans, PTL DEF Pick!Spec

-----------------------------------------------------------------------------
(* The form.                                                               *)

\* So does the form.
LEMMA FormCounts ==
  \A S : Form!Cardinality(S) = Cardinality(S) /\ (Form!IsFiniteSet(S) <=> IsFiniteSet(S))
BY DEF Form!Cardinality, Cardinality, Form!IsFiniteSet, IsFiniteSet

Names    == {"", "--gpu", "--debug"} \cup Queues
MaybeL   == Listings \cup {Form!None}

\* The types.
FormTyped ==
  /\ sites \in [Form!Keys -> Queues \cup {""}] /\ qos \in BOOLEAN
  /\ ask \in [verb: {"sub", "held"}, sel: Names, wall: Nat, nodes: Nat, silent: BOOLEAN]
  /\ listed \in Listings /\ cache \in MaybeL
  /\ form \in [queue: Queues \cup {Form!Sched}, wall: Nat, nodes: Nat,
               options: SUBSET (Queues \cup {Form!Sched}), pending: BOOLEAN,
               limits: MaybeL, edits: Nat]
  /\ subOp \in [pc: {"idle", "loading", "form", "queue", "wall", "sent", "refused"},
             by: {"", "flags", "form"}, sel: Names, wall: Nat, nodes: Nat, debug: BOOLEAN,
             list: MaybeL]
  /\ failed \in BOOLEAN /\ listChanges \in Nat

\* A submission past the form.
Closed == subOp.pc \in {"queue", "wall", "sent"}

\* A form that is past was answered within the limit of the queue it names.
Answered ==
  /\ subOp.by = "form" => subOp.pc # "idle"
  /\ subOp.pc \in {"loading", "form"} => subOp.by = "form"
  /\ subOp.by = "form" => ~subOp.debug
  /\ subOp.by = "form" /\ Closed => Form!Valid /\ subOp.nodes = form.nodes

\* What is sent fits.
Fits == subOp.pc = "sent" => ~Form!Over(subOp.wall, Form!QueueMax(subOp.list, subOp.sel))

-----------------------------------------------------------------------------

\* None is a list without queues.
LEMMA NoneIsEmpty == DOMAIN Form!None = {} /\ Form!Up(Form!None) = {}
BY DEF Form!None, Form!Up

\* A limit is a number.
LEMMA MaxIsNat ==
  ASSUME Form!FormAssumption, NEW l \in MaybeL, NEW q
  PROVE  Form!QueueMax(l, q) \in Nat
BY NoneIsEmpty DEF Form!FormAssumption, MaybeL, Form!QueueMax, Form!Limit

\* What is clamped is within the limit.
LEMMA ClampFits ==
  ASSUME Form!FormAssumption, NEW l \in MaybeL, NEW q, NEW w \in Nat
  PROVE  /\ Form!ClampWalltime(l, q, w) \in Nat
         /\ ~Form!Over(Form!ClampWalltime(l, q, w), Form!QueueMax(l, q))
BY MaxIsNat DEF Form!ClampWalltime, Form!Over

\* A resolved walltime is within the queue's limit.
LEMMA WalltimeFits ==
  ASSUME Form!FormAssumption, NEW l \in MaybeL, NEW q, NEW w \in Nat, NEW d \in Nat, NEW b \in BOOLEAN
  PROVE  /\ Form!ResolveWalltime(l, q, w, d, b) \in Nat
         /\ ~Form!Over(Form!ResolveWalltime(l, q, w, d, b), Form!QueueMax(l, q))
<1> DEFINE req == IF w = 0 /\ b THEN Form!QueueMax(l, q) ELSE w
<1>1. req \in Nat /\ (IF req = 0 THEN d ELSE req) \in Nat
  BY MaxIsNat
<1> QED BY <1>1, ClampFits DEF Form!ResolveWalltime

\* What is left of a set by One is the set, with one element, or nothing.
LEMMA OneIs ==
  ASSUME Form!FormAssumption, NEW S \in SUBSET Queues, Form!One(S) # {}
  PROVE  \E q \in Queues : Form!One(S) = {q} /\ S = {q}
<1>1. IsFiniteSet(S)
  BY FS_Subset, FormCounts DEF Form!FormAssumption
<1>2. Cardinality(S) = 1 /\ Form!One(S) = S
  BY FormCounts DEF Form!One
<1>3. PICK q : S = {q}
  BY <1>1, <1>2, FS_Singleton
<1> QED BY <1>2, <1>3

\* The queues that are up are queues.
LEMMA UpIsQueues ==
  ASSUME Form!FormAssumption, NEW l \in MaybeL PROVE Form!Up(l) \in SUBSET Queues
BY NoneIsEmpty DEF Form!FormAssumption, MaybeL, Form!Up

\* A resolution has one queue at most, and it is a name that stands for itself or blank.
LEMMA ResolveIs ==
  ASSUME Form!FormAssumption, FormTyped, NEW sel \in Names, NEW l \in MaybeL, Form!Resolve(sel, l) # {}
  PROVE  \E q \in Queues \cup {""} : Form!Resolve(sel, l) = {q}
<1>1. CASE sel \in Queues
  BY <1>1 DEF Form!Resolve
<1>2. CASE sel \notin Queues /\ Form!Configured(sel) # ""
  <2>1. Form!Configured(sel) \in Queues /\ Form!Resolve(sel, l) = {Form!Configured(sel)}
    BY <1>2 DEF Form!Resolve, Form!Configured, Names, FormTyped, Form!Keys
  <2> QED BY <2>1
<1>3. CASE sel \notin Queues /\ Form!Configured(sel) = ""
  <2>1. CASE sel = ""
    BY <1>3, <2>1 DEF Form!Resolve
  <2>2. CASE sel = "--gpu" /\ l # Form!None
    <3>1. Form!Resolve(sel, l) = Form!One(Form!Up(l) \cap Gpu)
      BY <1>3, <2>2 DEF Form!Resolve
    <3> QED BY <3>1, UpIsQueues, OneIs
  <2>3. CASE sel = "--debug" /\ l # Form!None
    <3>1. Form!Resolve(sel, l) = Form!LiteralQueue(l)
      BY <1>3, <2>3 DEF Form!Resolve
    <3>2. Form!LiteralQueue(l) = {DebugQueue} \/ Form!LiteralQueue(l) = Form!One(Form!Up(l) \cap DebugLike)
      BY DEF Form!LiteralQueue
    <3> QED BY <3>1, <3>2, UpIsQueues, OneIs DEF Form!FormAssumption
  <2> QED BY <1>3, <2>1, <2>2, <2>3 DEF Names, Form!Resolve
<1> QED BY <1>1, <1>2, <1>3

\* What a read leaves: a cache that is a list or none, and the list it gives.
LEMMA ReadsTyped ==
  ASSUME Form!FormAssumption, FormTyped, NEW l, Form!Reads(l)
  PROVE  l \in MaybeL /\ cache' = l /\ failed' \in BOOLEAN
BY DEF FormTyped, Form!Reads, Form!CachedQueues, MaybeL

\* A step that reads no list may still fail a read.
LEMMA ReadsNothingTyped ==
  ASSUME Form!FormAssumption, FormTyped, Form!ReadsNothing
  PROVE  cache' \in MaybeL /\ failed' \in BOOLEAN
BY DEF FormTyped, Form!ReadsNothing

\* A cached list is one.
LEMMA CachedTyped ==
  ASSUME Form!FormAssumption, FormTyped, NEW l \in Form!CachedQueues
  PROVE  l \in MaybeL
BY DEF FormTyped, Form!CachedQueues, MaybeL

\* What the form is seeded with.
LEMMA SeedTyped ==
  ASSUME Form!FormAssumption, FormTyped
  PROVE  /\ Form!Seed \in Queues \cup {Form!Sched}
         /\ \A l \in MaybeL : Form!SeedWall(l) \in Nat
         /\ Form!Dflt \in Nat
<1>1. Form!Dflt \in Nat
  BY DEF Form!Dflt, Form!FormAssumption
<1>2. Form!Configured(ask.sel) \in Queues \cup {""} \/ ask.sel \in Queues
  BY DEF FormTyped, Form!Configured, Names, Form!Keys
<1>3. Form!Seed \in Queues \cup {Form!Sched}
  BY <1>2 DEF Form!Seed, Form!FormAssumption
<1>4. ASSUME NEW l \in MaybeL PROVE Form!SeedWall(l) \in Nat
  BY <1>1, MaxIsNat DEF Form!SeedWall, FormTyped
<1> QED BY <1>1, <1>3, <1>4

\* The invariant holds before anybody asks.
LEMMA FormInit == ASSUME Form!FormAssumption, Form!Init PROVE FormTyped /\ Answered /\ Fits
<1>1. DOMAIN Form!None = {} /\ Form!Sched \notin Queues
  BY NoneIsEmpty DEF Form!FormAssumption
<1>2. form \in [queue: Queues \cup {Form!Sched}, wall: Nat, nodes: Nat,
               options: SUBSET (Queues \cup {Form!Sched}), pending: BOOLEAN,
               limits: MaybeL, edits: Nat]
  BY DEF Form!Init, Form!Shut, MaybeL
<1>3. subOp \in [pc: {"idle", "loading", "form", "queue", "wall", "sent", "refused"},
             by: {"", "flags", "form"}, sel: Names, wall: Nat, nodes: Nat, debug: BOOLEAN,
             list: MaybeL]
  BY DEF Form!Init, Form!Idle, MaybeL, Names
<1>4. sites \in [Form!Keys -> Queues \cup {""}] /\ qos \in BOOLEAN
  BY DEF Form!Init, Form!FormAssumption
<1>5. ask \in [verb: {"sub", "held"}, sel: Names, wall: Nat, nodes: Nat, silent: BOOLEAN]
  <2> HIDE DEF Names
  <2>1. Walls \subseteq Nat /\ Counts \subseteq Nat /\ {"", "--gpu", "--debug"} \cup Queues = Names
    BY DEF Form!FormAssumption, Names
  <2> QED BY <2>1 DEF Form!Init
<1> QED BY <1>2, <1>3, <1>4, <1>5 DEF Form!Init, FormTyped, Answered, Fits, Form!Idle, MaybeL

\* The invariant of the form.
FormInv == FormTyped /\ Answered /\ Fits

\* The machine's queues or its configuration change.
LEMMA MachineKeeps == ASSUME Form!FormAssumption, FormInv, Form!Machine PROVE FormInv'
<1>1. FormTyped'
  <2>1. listChanges \in Nat
    BY DEF FormInv, FormTyped
  <2>2. listChanges' \in Nat /\ listed' \in Listings
    BY <2>1 DEF Form!Machine
  <2>3. UNCHANGED <<sites, qos, ask, cache, form, subOp, failed>>
    BY DEF Form!Machine
  <2> QED BY <2>2, <2>3 DEF FormInv, FormTyped
<1>2. Answered' /\ Fits'
  BY DEF FormInv, Answered, Fits, Form!Machine, Closed, Form!Valid
<1> QED BY <1>1, <1>2 DEF FormInv

\* Another command refreshes the cache.
LEMMA RefreshKeeps == ASSUME Form!FormAssumption, FormInv, Form!Refresh PROVE FormInv'
<1>1. FormTyped'
  <2>1. listChanges \in Nat /\ listed \in Listings
    BY DEF FormInv, FormTyped
  <2>2. listChanges' \in Nat /\ cache' \in MaybeL
    BY <2>1 DEF Form!Refresh, MaybeL
  <2>3. UNCHANGED <<sites, qos, ask, listed, form, subOp, failed>>
    BY DEF Form!Refresh
  <2> QED BY <2>2, <2>3 DEF FormInv, FormTyped
<1>2. Answered' /\ Fits'
  BY DEF FormInv, Answered, Fits, Form!Refresh, Closed, Form!Valid
<1> QED BY <1>1, <1>2 DEF FormInv

\* Somebody submits, with these flags.
LEMMA FlagsKeep == ASSUME Form!FormAssumption, FormInv, Form!Flags PROVE FormInv'
<1>1. FormTyped'
  BY DEF FormInv, FormTyped, Form!Flags, MaybeL
<1> QED BY <1>1 DEF FormInv, Answered, Fits, Form!Flags

\* Without the form, the flags give the queue.
LEMMA ResolveQueueKeeps == ASSUME Form!FormAssumption, FormInv, Form!ResolveQueue PROVE FormInv'
<1>1. PICK l \in Form!CachedQueues :
       /\ IF Form!NeedsList(subOp.sel) THEN Form!Reads(l) ELSE Form!ReadsNothing
       /\ subOp' = IF Form!Resolve(subOp.sel, l) = {} THEN [subOp EXCEPT !.pc = "refused"]
                ELSE [subOp EXCEPT !.pc = "wall", !.sel = CHOOSE q \in Form!Resolve(subOp.sel, l) : TRUE]
  BY DEF Form!ResolveQueue
<1>2. l \in MaybeL /\ cache' \in MaybeL /\ failed' \in BOOLEAN
  BY <1>1, CachedTyped, ReadsTyped, ReadsNothingTyped DEF FormInv
<1>3. Form!Resolve(subOp.sel, l) # {} => (CHOOSE q \in Form!Resolve(subOp.sel, l) : TRUE) \in Names
  <2>1. subOp.sel \in Names /\ FormTyped
    BY DEF FormInv, FormTyped
  <2>2. SUFFICES ASSUME Form!Resolve(subOp.sel, l) # {}
                 PROVE  (CHOOSE q \in Form!Resolve(subOp.sel, l) : TRUE) \in Names
    OBVIOUS
  <2>3. PICK q \in Queues \cup {""} : Form!Resolve(subOp.sel, l) = {q}
    BY <1>2, <2>1, <2>2, ResolveIs
  <2>4. (CHOOSE x \in {q} : TRUE) = q
    OBVIOUS
  <2> QED BY <2>3, <2>4 DEF Names
<1>4. FormTyped'
  BY <1>1, <1>2, <1>3 DEF FormInv, FormTyped, Form!ResolveQueue
<1>5. Answered' /\ Fits'
  BY <1>1 DEF FormInv, FormTyped, Answered, Fits, Form!ResolveQueue, Closed, Form!Valid
<1> QED BY <1>4, <1>5 DEF FormInv

\* Then the walltime, clamped to the list it is read against.
LEMMA WallKeeps == ASSUME Form!FormAssumption, FormInv, Form!Wall PROVE FormInv'
<1>1. PICK l \in Form!CachedQueues :
       /\ Form!Reads(l)
       /\ subOp' = [subOp EXCEPT !.pc = "sent", !.list = l,
                           !.wall = Form!ResolveWalltime(l, subOp.sel, @, Form!Dflt, subOp.debug)]
  BY DEF Form!Wall
<1>2. l \in MaybeL /\ cache' \in MaybeL /\ failed' \in BOOLEAN
  BY <1>1, CachedTyped, ReadsTyped DEF FormInv
<1>3. /\ Form!ResolveWalltime(l, subOp.sel, subOp.wall, Form!Dflt, subOp.debug) \in Nat
      /\ ~Form!Over(Form!ResolveWalltime(l, subOp.sel, subOp.wall, Form!Dflt, subOp.debug), Form!QueueMax(l, subOp.sel))
  <2>1. subOp.wall \in Nat /\ subOp.debug \in BOOLEAN
    BY DEF FormInv, FormTyped
  <2> QED BY <1>2, <2>1, WalltimeFits, SeedTyped DEF FormInv
<1>4. FormTyped'
  BY <1>1, <1>2, <1>3 DEF FormInv, FormTyped, Form!Wall
<1>5. subOp'.wall = Form!ResolveWalltime(l, subOp.sel, subOp.wall, Form!Dflt, subOp.debug) /\ subOp'.list = l /\ subOp'.sel = subOp.sel
  BY <1>1 DEF FormInv, FormTyped
<1>6. Fits'
  BY <1>3, <1>5 DEF Fits
<1>7. Answered'
  BY <1>1 DEF FormInv, FormTyped, Answered, Form!Wall, Closed, Form!Valid
<1> QED BY <1>4, <1>6, <1>7 DEF FormInv

\* The form opens, seeded from the flags and the configuration.
LEMMA OpenKeeps == ASSUME Form!FormAssumption, FormInv, Form!Open PROVE FormInv'
<1>1. PICK l \in Form!CachedQueues :
       /\ IF ask.sel = "--debug" /\ ask.silent /\ ask.wall = 0 THEN Form!Reads(l) ELSE Form!ReadsNothing
       /\ form' = [Form!Shut EXCEPT !.queue = Form!Seed, !.wall = Form!SeedWall(l), !.nodes = ask.nodes,
                     !.options = ({Form!Sched, Form!Seed} \cup {sites[k] : k \in DOMAIN sites}) \ {""},
                     !.pending = ask.sel = "--gpu" /\ Form!Configured("--gpu") = ""]
  BY DEF Form!Open
<1>2. l \in MaybeL /\ cache' \in MaybeL /\ failed' \in BOOLEAN
  BY <1>1, CachedTyped, ReadsTyped, ReadsNothingTyped DEF FormInv
<1>3. Form!Seed \in Queues \cup {Form!Sched} /\ Form!SeedWall(l) \in Nat
  BY <1>2, SeedTyped DEF FormInv
<1>4. ({Form!Sched, Form!Seed} \cup {sites[k] : k \in DOMAIN sites}) \ {""} \in SUBSET (Queues \cup {Form!Sched})
  <2>1. \A k \in DOMAIN sites : sites[k] \in Queues \cup {""}
    BY DEF FormInv, FormTyped
  <2> QED BY <1>3, <2>1
<1>5. form' \in [queue: Queues \cup {Form!Sched}, wall: Nat, nodes: Nat,
               options: SUBSET (Queues \cup {Form!Sched}), pending: BOOLEAN,
               limits: MaybeL, edits: Nat]
  BY <1>1, <1>3, <1>4 DEF Form!Shut, MaybeL, FormInv, FormTyped
<1>6. subOp' = [Form!Idle EXCEPT !.pc = "loading", !.by = "form"]
  BY DEF Form!Open
<1>7. FormTyped'
  <2>1. subOp' \in [pc: {"idle", "loading", "form", "queue", "wall", "sent", "refused"},
                by: {"", "flags", "form"}, sel: Names, wall: Nat, nodes: Nat, debug: BOOLEAN,
                list: MaybeL]
    BY <1>6 DEF Form!Idle, MaybeL, Names
  <2> QED BY <1>2, <1>5, <2>1 DEF FormInv, FormTyped, Form!Open
<1>8. Answered' /\ Fits'
  BY <1>6 DEF Answered, Fits, Form!Idle, Closed
<1> QED BY <1>7, <1>8 DEF FormInv

\* Its list comes in: the seed may have a queue and a limit now.
LEMMA LoadKeeps == ASSUME Form!FormAssumption, FormInv, Form!Load PROVE FormInv'
<1>1. PICK l \in Form!CachedQueues :
       /\ Form!Reads(l)
       /\ form' =
            IF Form!Up(l) = {} THEN form
            ELSE [form EXCEPT !.options = {Form!Sched} \cup Form!Up(l), !.limits = l,
                    !.queue = IF form.pending /\ Form!One(Form!Up(l) \cap Gpu) # {}
                              THEN CHOOSE q \in Form!Up(l) \cap Gpu : TRUE ELSE @]
  BY DEF Form!Load
<1>2. l \in MaybeL /\ cache' \in MaybeL /\ failed' \in BOOLEAN
  BY <1>1, CachedTyped, ReadsTyped DEF FormInv
<1>3. Form!Up(l) \in SUBSET Queues
  BY <1>2, UpIsQueues
<1>4. Form!One(Form!Up(l) \cap Gpu) # {} => (CHOOSE q \in Form!Up(l) \cap Gpu : TRUE) \in Queues
  BY <1>3 DEF Form!One
<1>5. form' \in [queue: Queues \cup {Form!Sched}, wall: Nat, nodes: Nat,
               options: SUBSET (Queues \cup {Form!Sched}), pending: BOOLEAN,
               limits: MaybeL, edits: Nat]
  BY <1>1, <1>2, <1>3, <1>4 DEF FormInv, FormTyped
<1>6. FormTyped'
  BY <1>2, <1>5 DEF FormInv, FormTyped, Form!Load
<1>7. Answered' /\ Fits'
  BY DEF Form!Load, FormInv, FormTyped, Answered, Fits, Closed
<1> QED BY <1>6, <1>7 DEF FormInv

\* An answer is edited.
LEMMA EditKeeps == ASSUME Form!FormAssumption, FormInv, Form!Edit PROVE FormInv'
<1>1. form' \in [queue: Queues \cup {Form!Sched}, wall: Nat, nodes: Nat,
               options: SUBSET (Queues \cup {Form!Sched}), pending: BOOLEAN,
               limits: MaybeL, edits: Nat]
  <2>1. /\ form.queue \in Queues \cup {Form!Sched} /\ form.wall \in Nat /\ form.nodes \in Nat
        /\ form.options \subseteq Queues \cup {Form!Sched} /\ form.edits \in Nat
    BY DEF FormInv, FormTyped
  <2>2. Walls \subseteq Nat /\ Counts \subseteq Nat
    BY DEF Form!FormAssumption
  <2> DEFINE e == form.edits + 1
  <2> HIDE DEF e
  <2>3. \/ \E q \in Queues \cup {Form!Sched} : form' = [form EXCEPT !.queue = q, !.edits = e]
        \/ \E w \in Nat : form' = [form EXCEPT !.wall = w, !.edits = e]
        \/ \E n \in Nat : form' = [form EXCEPT !.nodes = n, !.edits = e]
    BY <2>1, <2>2 DEF Form!Edit, e
  <2>4. e \in Nat
    BY <2>1 DEF e
  <2> QED BY <2>3, <2>4 DEF FormInv, FormTyped
<1>2. FormTyped'
  BY <1>1 DEF Form!Edit, FormInv, FormTyped
<1>3. Answered' /\ Fits'
  BY DEF Form!Edit, FormInv, Answered, Fits, Form!InForm, Closed
<1> QED BY <1>2, <1>3 DEF FormInv

\* The form is submitted: its answers have been checked against the list it shows.
LEMMA SubmitKeeps == ASSUME Form!FormAssumption, FormInv, Form!Submit PROVE FormInv'
<1>1. subOp' \in [pc: {"idle", "loading", "form", "queue", "wall", "sent", "refused"},
             by: {"", "flags", "form"}, sel: Names, wall: Nat, nodes: Nat, debug: BOOLEAN,
             list: MaybeL]
  BY DEF Form!Submit, Form!Answers, FormInv, FormTyped, Names
<1>2. FormTyped'
  BY <1>1 DEF Form!Submit, FormInv, FormTyped
<1>3. Answered' /\ Fits'
  BY DEF Form!Submit, Form!Answers, FormInv, FormTyped, Answered, Fits, Form!Accepts, Form!Valid,
      Form!InForm
<1> QED BY <1>2, <1>3 DEF FormInv

\* Every step keeps the invariant.
LEMMA FormInvIsKept == ASSUME Form!FormAssumption, FormInv, [Form!Next]_Form!vars PROVE FormInv'
<1>1. CASE UNCHANGED Form!vars
  BY <1>1 DEF Form!vars, FormInv, FormTyped, Answered, Fits, Closed, Form!Valid
<1> QED BY <1>1, MachineKeeps, RefreshKeeps, FlagsKeep, ResolveQueueKeeps, WallKeeps, OpenKeeps,
           LoadKeeps, EditKeeps, SubmitKeeps DEF Form!Next

\* The form's invariant holds in every run (internal/cli/jobform.go).
THEOREM FormInvAlways == ASSUME Form!FormAssumption PROVE Form!Spec => []FormInv
<1> QED BY FormInit, FormInvIsKept, PTL DEF Form!Spec, FormInv

\* It gives the types and that what is sent fits.
LEMMA FormInvMeans == ASSUME Form!FormAssumption, FormInv PROVE Form!TypeOK /\ Form!SentFits
<1>1. Form!TypeOK
  BY DEF FormInv, FormTyped, Form!TypeOK, MaybeL, Names
<1>2. Form!SentFits
  <2>1. Form!Sent => ~Form!Over(subOp.wall, Form!QueueMax(subOp.list, subOp.sel))
    BY DEF FormInv, Fits, Form!Sent
  <2>2. Form!Sent /\ subOp.by = "form" /\ form.queue \in Form!Up(form.limits) =>
       /\ ~Form!Over(subOp.nodes, form.limits[form.queue].nodes)
       /\ ~Form!Over(form.wall, form.limits[form.queue].max)
    BY DEF FormInv, Answered, Form!Sent, Closed, Form!Valid
  <2> QED BY <2>1, <2>2 DEF Form!SentFits
<1> QED BY <1>1, <1>2

-----------------------------------------------------------------------------
(* The form as it opened.                                                  *)

\* The machine's list has not changed and no read has failed.
Calm == listChanges = 0 /\ ~failed

\* The form waits for its list to name the queue.
Waits == ask.sel = "--gpu" /\ Form!Configured("--gpu") = ""

\* The queue the form names once its list is in.
Shown == IF Waits /\ Form!One(Form!Up(listed) \cap Gpu) # {} THEN CHOOSE q \in Form!Up(listed) \cap Gpu : TRUE ELSE Form!Seed

\* The queue as the form submits it.
Answer == IF form.queue = Form!Sched THEN "" ELSE form.queue

\* Any list read in a calm run is the machine's.
ListIsLive ==
  Calm => /\ cache \in {listed, Form!None}
          /\ form.limits # Form!None => cache = listed /\ form.limits = listed

\* An open form nobody has touched says what it was seeded with.
FormIsSeeded ==
  Calm /\ subOp.by = "form" /\ form.edits = 0 =>
    /\ form.nodes = ask.nodes /\ form.wall = Form!SeedWall(listed) /\ form.pending = Waits
    /\ form.queue = IF form.limits = Form!None THEN Form!Seed ELSE Shown

\* One submitted untouched has what it said.
AnswersAreForms ==
  Calm /\ subOp.by = "form" =>
    /\ subOp.pc = "loading" => form.limits = Form!None
    /\ subOp.pc = "queue" => ask.verb = "held" /\ subOp.sel = Answer
    /\ subOp.pc \in {"queue", "wall"} => subOp.wall = form.wall
    /\ subOp.pc \in {"wall", "sent"} =>
         subOp.sel \in IF ask.verb = "sub" THEN {Answer} ELSE Form!Resolve(Answer, Form!None)
    /\ subOp.pc = "sent" => subOp.wall = Form!ResolveWalltime(listed, subOp.sel, form.wall, Form!Dflt, FALSE)

\* What calm runs keep besides.
Agrees == ListIsLive /\ FormIsSeeded /\ AnswersAreForms

\* A read that does not fail is of the machine's list.
LEMMA ReadsLive ==
  ASSUME ListIsLive, Calm, NEW l, Form!Reads(l), ~failed'
  PROVE  l = listed /\ cache' = listed
BY DEF ListIsLive, Form!Reads, Form!CachedQueues

\* Without changes before a step without changes in it.
LEMMA CalmBefore ==
  ASSUME FormInv, [Form!Next]_Form!vars, Calm'
  PROVE  Calm /\ listed' = listed /\ ask' = ask /\ sites' = sites /\ qos' = qos
<1>1. listChanges \in Nat
  BY DEF FormInv, FormTyped
<1>2. listChanges = 0 /\ ~Form!Machine /\ ~Form!Refresh
  <2>1. listChanges' = 0
    BY DEF Calm
  <2>2. ~Form!Machine /\ ~Form!Refresh
    BY <1>1, <2>1 DEF Form!Machine, Form!Refresh
  <2>3. UNCHANGED listChanges
    BY <2>2 DEF Form!Next, Form!vars, Form!Flags, Form!ResolveQueue, Form!Wall, Form!Open,
        Form!Load, Form!Edit, Form!Submit
  <2> QED BY <2>1, <2>2, <2>3
<1>3. ~failed
  BY <1>2 DEF Form!Next, Form!vars, Calm, Form!Flags, Form!ResolveQueue, Form!Wall, Form!Open,
      Form!Load, Form!Edit, Form!Submit, Form!Reads, Form!ReadsNothing
<1>4. listed' = listed /\ ask' = ask /\ sites' = sites /\ qos' = qos
  BY <1>2 DEF Form!Next, Form!vars, Form!Flags, Form!ResolveQueue, Form!Wall, Form!Open,
      Form!Load, Form!Edit, Form!Submit
<1> QED BY <1>2, <1>3, <1>4 DEF Calm

\* What the flags and the configuration say stays.
LEMMA SameSeed ==
  ASSUME listed' = listed, ask' = ask, sites' = sites, qos' = qos
  PROVE  /\ Form!Seed' = Form!Seed /\ Form!SeedWall(listed)' = Form!SeedWall(listed) /\ Waits' = Waits /\ Shown' = Shown
         /\ Form!Dflt' = Form!Dflt
<1>1. /\ Form!Configured("--gpu")' = Form!Configured("--gpu")
      /\ Form!Configured(ask.sel)' = Form!Configured(ask.sel)
  BY DEF Form!Configured
<1>2. Form!Seed' = Form!Seed /\ Waits' = Waits /\ Form!Dflt' = Form!Dflt
  BY <1>1 DEF Form!Seed, Waits, Form!Dflt
<1>3. Form!SeedWall(listed)' = Form!SeedWall(listed)
  BY <1>2 DEF Form!SeedWall, Form!QueueMax
<1>4. Shown' = Shown
  BY <1>2 DEF Shown, Form!One, Form!Up
<1> QED BY <1>2, <1>3, <1>4

\* A name or a blank is resolved without the list.
LEMMA NoList ==
  ASSUME Form!FormAssumption, NEW sel \in Queues \cup {""}, NEW l
  PROVE  Form!Resolve(sel, l) = Form!Resolve(sel, Form!None) /\ ~Form!NeedsList(sel)
BY DEF Form!Resolve, Form!NeedsList, Form!FormAssumption

\* It holds before anybody asks.
LEMMA AgreesInit == ASSUME Form!FormAssumption, Form!Init PROVE Agrees
<1>1. form.limits = Form!None /\ subOp.by = ""
  BY DEF Form!Init, Form!Shut, Form!Idle
<1>2. cache \in {listed, Form!None}
  BY DEF Form!Init
<1> QED BY <1>1, <1>2 DEF Agrees, ListIsLive, FormIsSeeded, AnswersAreForms

\* In a step without changes, what the parts of Agrees say of the list.
LEMMA ListKept ==
  ASSUME Form!FormAssumption, FormInv, Agrees, [Form!Next]_Form!vars, Calm'
  PROVE  ListIsLive'
<1>1. Calm /\ listed' = listed /\ ask' = ask /\ sites' = sites /\ qos' = qos
  BY CalmBefore
<1>2. /\ cache \in {listed, Form!None}
      /\ form.limits # Form!None => cache = listed /\ form.limits = listed
  BY <1>1 DEF Agrees, ListIsLive
<1>3. ~Form!Machine /\ ~Form!Refresh
  <2>1. listChanges = 0 /\ listChanges' = 0
    BY <1>1 DEF Calm
  <2> QED BY <2>1 DEF Form!Machine, Form!Refresh
<1>4. ~failed'
  BY DEF Calm
<1>5. cache' \in {cache, listed}
  BY <1>1, <1>3, <1>4, ReadsLive DEF Agrees, Form!Next, Form!vars, Form!Flags, Form!ResolveQueue,
      Form!Wall, Form!Open, Form!Load, Form!Edit,
     Form!Submit, Form!ReadsNothing
<1>6. form'.limits \in {form.limits, Form!None} \/ (form'.limits = listed /\ cache' = listed)
  <2>1. CASE Form!Load
    <3>1. PICK l \in Form!CachedQueues :
             /\ Form!Reads(l)
             /\ form' =
                  IF Form!Up(l) = {} THEN form
                  ELSE [form EXCEPT !.options = {Form!Sched} \cup Form!Up(l), !.limits = l,
                          !.queue = IF form.pending /\ Form!One(Form!Up(l) \cap Gpu) # {}
                                    THEN CHOOSE q \in Form!Up(l) \cap Gpu : TRUE ELSE @]
      BY <2>1 DEF Form!Load
    <3>2. l = listed /\ cache' = listed
      BY <1>1, <1>4, <3>1, ReadsLive DEF Agrees
    <3> QED BY <3>1, <3>2 DEF FormInv, FormTyped
  <2>2. CASE Form!Open
    <3>1. form'.limits = Form!Shut.limits
      BY <2>2 DEF Form!Open, Form!Shut
    <3> QED BY <3>1 DEF Form!Shut
  <2>3. CASE Form!Edit
    <3>1. form'.limits = form.limits
      BY <2>3 DEF Form!Edit, FormInv, FormTyped
    <3> QED BY <3>1
  <2>4. CASE form' = form
    BY <2>4
  <2>5. form' = form \/ Form!Load \/ Form!Open \/ Form!Edit
    BY <1>3 DEF Form!Next, Form!vars, Form!Flags, Form!ResolveQueue, Form!Wall, Form!Submit
  <2> QED BY <2>1, <2>2, <2>3, <2>4, <2>5
<1> QED BY <1>1, <1>2, <1>5, <1>6 DEF ListIsLive

\* An untouched form goes on saying what it was seeded with.
LEMMA SeededKept ==
  ASSUME Form!FormAssumption, FormInv, Agrees, [Form!Next]_Form!vars, Calm'
  PROVE  FormIsSeeded'
<1>1. Calm /\ listed' = listed /\ ask' = ask /\ sites' = sites /\ qos' = qos
  BY CalmBefore
<1>2. /\ Form!Seed' = Form!Seed /\ Form!SeedWall(listed)' = Form!SeedWall(listed) /\ Waits' = Waits /\ Shown' = Shown
  BY <1>1, SameSeed
<1>3. ~failed' /\ ~Form!Machine /\ ~Form!Refresh
  <2>1. listChanges = 0 /\ listChanges' = 0 /\ ~failed'
    BY <1>1 DEF Calm
  <2> QED BY <2>1 DEF Form!Machine, Form!Refresh
<1>4. CASE Form!Open
  <2>1. PICK l \in Form!CachedQueues :
       /\ IF ask.sel = "--debug" /\ ask.silent /\ ask.wall = 0 THEN Form!Reads(l) ELSE Form!ReadsNothing
       /\ form' = [Form!Shut EXCEPT !.queue = Form!Seed, !.wall = Form!SeedWall(l), !.nodes = ask.nodes,
                     !.options = ({Form!Sched, Form!Seed} \cup {sites[k] : k \in DOMAIN sites}) \ {""},
                     !.pending = ask.sel = "--gpu" /\ Form!Configured("--gpu") = ""]
    BY <1>4 DEF Form!Open
  <2>2. Form!SeedWall(l) = Form!SeedWall(listed)
    <3>1. CASE ask.sel = "--debug" /\ ask.silent /\ ask.wall = 0
      BY <1>1, <1>3, <2>1, <3>1, ReadsLive DEF Agrees
    <3>2. CASE ~(ask.sel = "--debug" /\ ask.silent /\ ask.wall = 0)
      BY <3>2 DEF Form!SeedWall
    <3> QED BY <3>1, <3>2
  <2>3. /\ form'.nodes = ask.nodes /\ form'.wall = Form!SeedWall(listed) /\ form'.pending = Waits
        /\ form'.queue = Form!Seed /\ form'.limits = Form!None
    BY <2>1, <2>2 DEF Form!Shut, Waits
  <2> QED BY <1>1, <1>2, <2>3 DEF FormIsSeeded
<1>5. CASE Form!Load
  <2>1. PICK l \in Form!CachedQueues :
           /\ Form!Reads(l)
           /\ form' =
                IF Form!Up(l) = {} THEN form
                ELSE [form EXCEPT !.options = {Form!Sched} \cup Form!Up(l), !.limits = l,
                        !.queue = IF form.pending /\ Form!One(Form!Up(l) \cap Gpu) # {}
                                  THEN CHOOSE q \in Form!Up(l) \cap Gpu : TRUE ELSE @]
    BY <1>5 DEF Form!Load
  <2>2. l = listed
    BY <1>1, <1>3, <2>1, ReadsLive DEF Agrees
  <2>3. subOp.by = "form" /\ subOp'.by = "form" /\ form.limits = Form!None
    BY <1>1, <1>5 DEF Form!Load, FormInv, FormTyped, Answered, Agrees, AnswersAreForms
  <2>4. CASE Form!Up(listed) = {}
    BY <1>1, <1>2, <2>1, <2>2, <2>3, <2>4 DEF Agrees, FormIsSeeded
  <2>5. CASE Form!Up(listed) # {} /\ form.edits = 0
    <3>1. /\ form.nodes = ask.nodes /\ form.wall = Form!SeedWall(listed) /\ form.pending = Waits
          /\ form.queue = Form!Seed
      BY <1>1, <2>3, <2>5 DEF Agrees, FormIsSeeded
    <3>2. listed # Form!None
      BY <2>5, NoneIsEmpty
    <3>3. form' = [form EXCEPT !.options = {Form!Sched} \cup Form!Up(listed), !.limits = listed,
                        !.queue = IF form.pending /\ Form!One(Form!Up(listed) \cap Gpu) # {}
                                  THEN CHOOSE q \in Form!Up(listed) \cap Gpu : TRUE ELSE form.queue]
      BY <2>1, <2>2, <2>5
    <3>4. form'.queue = IF form.pending /\ Form!One(Form!Up(listed) \cap Gpu) # {}
                        THEN CHOOSE q \in Form!Up(listed) \cap Gpu : TRUE ELSE form.queue
      BY <3>3 DEF FormInv, FormTyped
    <3>5. form'.queue = Shown
      BY <3>1, <3>4 DEF Shown
    <3>6. /\ form'.nodes = form.nodes /\ form'.wall = form.wall /\ form'.pending = form.pending
          /\ form'.limits = listed
      BY <3>3 DEF FormInv, FormTyped
    <3> QED BY <1>1, <1>2, <3>1, <3>2, <3>5, <3>6 DEF FormIsSeeded
  <2>6. CASE form.edits # 0 /\ Form!Up(listed) # {}
    BY <2>1, <2>2, <2>6 DEF FormIsSeeded, FormInv, FormTyped
  <2> QED BY <2>4, <2>5, <2>6
<1>6. CASE Form!Edit
  <2>1. form.edits \in Nat
    BY DEF FormInv, FormTyped
  <2>2. form.edits + 1 # 0
    BY <2>1
  <2>3. form'.edits = form.edits + 1
    BY <1>6 DEF Form!Edit, FormInv, FormTyped
  <2> QED BY <2>2, <2>3 DEF FormIsSeeded
<1>7. CASE Form!Flags
  BY <1>7 DEF Form!Flags, FormIsSeeded
<1>8. CASE Form!ResolveQueue \/ Form!Wall \/ Form!Submit \/ UNCHANGED Form!vars
  <2>1. form' = form /\ subOp'.by = subOp.by
    BY <1>8 DEF Form!ResolveQueue, Form!Wall, Form!Submit, Form!Answers, Form!vars, FormInv,
        FormTyped
  <2> QED BY <1>1, <1>2, <2>1 DEF Agrees, FormIsSeeded
<1> QED BY <1>3, <1>4, <1>5, <1>6, <1>7, <1>8 DEF Form!Next

\* What was submitted untouched stays what the form said.
LEMMA AnswersKept ==
  ASSUME Form!FormAssumption, FormInv, Agrees, [Form!Next]_Form!vars, Calm'
  PROVE  AnswersAreForms'
<1>1. Calm /\ listed' = listed /\ ask' = ask /\ sites' = sites /\ qos' = qos
  BY CalmBefore
<1>2. Form!Dflt' = Form!Dflt
  BY <1>1, SameSeed
<1>3. ~failed' /\ ~Form!Machine /\ ~Form!Refresh
  <2>1. listChanges = 0 /\ listChanges' = 0 /\ ~failed'
    BY <1>1 DEF Calm
  <2> QED BY <2>1 DEF Form!Machine, Form!Refresh
<1>4. Form!Resolve(Answer, Form!None)' = Form!Resolve(Answer', Form!None)
  BY <1>1 DEF Form!Resolve, Form!Configured, Form!LiteralQueue, Form!One, Form!Up
<1>5. Answer \in Queues \cup {""}
  BY DEF Answer, FormInv, FormTyped
<1>6. \A w, q : Form!ResolveWalltime(listed, q, w, Form!Dflt, FALSE)' = Form!ResolveWalltime(listed, q, w, Form!Dflt, FALSE)
  BY <1>1, <1>2 DEF Form!ResolveWalltime, Form!ClampWalltime, Form!QueueMax
<1>7. CASE UNCHANGED <<form, subOp>>
  <2>1. Answer' = Answer
    BY <1>7 DEF Answer
  <2>2. Form!ResolveWalltime(listed, subOp.sel, form.wall, Form!Dflt, FALSE)' = Form!ResolveWalltime(listed, subOp.sel, form.wall, Form!Dflt, FALSE)
    BY <1>1, <1>2, <1>7 DEF Form!ResolveWalltime, Form!ClampWalltime, Form!QueueMax
  <2> QED BY <1>1, <1>2, <1>4, <1>7, <2>1, <2>2 DEF Agrees, AnswersAreForms
<1>8. CASE Form!Open
  <2>1. subOp' = [Form!Idle EXCEPT !.pc = "loading", !.by = "form"] /\ form'.limits = Form!Shut.limits
    BY <1>8 DEF Form!Open, Form!Shut
  <2> QED BY <2>1 DEF AnswersAreForms, Form!Idle, Form!Shut
<1>9. CASE Form!Load
  <2>1. subOp' = [subOp EXCEPT !.pc = "form"]
    BY <1>9 DEF Form!Load
  <2> QED BY <2>1 DEF AnswersAreForms, FormInv, FormTyped
<1>10. CASE Form!Edit
  <2>1. subOp' = subOp /\ Form!InForm /\ form'.limits = form.limits
    BY <1>10 DEF Form!Edit, FormInv, FormTyped
  <2> QED BY <1>1, <2>1 DEF Agrees, AnswersAreForms, Form!InForm
<1>11. CASE Form!Flags
  BY <1>11 DEF Form!Flags, AnswersAreForms
<1>12. CASE Form!Submit
  <2>1. subOp' = Form!Answers /\ form' = form
    BY <1>12 DEF Form!Submit
  <2>2. /\ subOp'.pc = (IF ask.verb = "sub" THEN "wall" ELSE "queue") /\ subOp'.sel = Answer
        /\ subOp'.wall = form.wall
    BY <2>1 DEF Form!Answers, Answer, FormInv, FormTyped
  <2>3. Answer' = Answer /\ ask.verb \in {"sub", "held"}
    BY <2>1 DEF Answer, FormInv, FormTyped
  <2> QED BY <1>1, <2>1, <2>2, <2>3 DEF AnswersAreForms
<1>13. CASE Form!ResolveQueue /\ subOp.by = "form"
  <2>1. PICK l \in Form!CachedQueues :
       /\ subOp' = IF Form!Resolve(subOp.sel, l) = {} THEN [subOp EXCEPT !.pc = "refused"]
                ELSE [subOp EXCEPT !.pc = "wall", !.sel = CHOOSE q \in Form!Resolve(subOp.sel, l) : TRUE]
    BY <1>13 DEF Form!ResolveQueue
  <2>2. /\ subOp.pc = "queue" /\ ask.verb = "held" /\ subOp.sel = Answer /\ subOp.wall = form.wall
        /\ form' = form
    BY <1>1, <1>13 DEF Form!ResolveQueue, Agrees, AnswersAreForms
  <2>3. Form!Resolve(subOp.sel, l) = Form!Resolve(Answer, Form!None)
    BY <1>5, <2>2, NoList
  <2>4. CASE Form!Resolve(subOp.sel, l) = {}
    BY <2>1, <2>4 DEF AnswersAreForms, FormInv, FormTyped
  <2>5. CASE Form!Resolve(subOp.sel, l) # {}
    <3>1. /\ subOp'.pc = "wall" /\ subOp'.sel = (CHOOSE q \in Form!Resolve(subOp.sel, l) : TRUE)
          /\ subOp'.wall = subOp.wall
      BY <2>1, <2>5 DEF FormInv, FormTyped
    <3>2. subOp'.sel \in Form!Resolve(Answer, Form!None)
      BY <2>3, <2>5, <3>1
    <3>3. Answer' = Answer
      BY <2>2 DEF Answer
    <3> QED BY <1>1, <1>4, <2>2, <3>1, <3>2, <3>3 DEF AnswersAreForms
  <2> QED BY <2>4, <2>5
<1>14. CASE Form!Wall /\ subOp.by = "form"
  <2>1. PICK l \in Form!CachedQueues :
       /\ Form!Reads(l)
       /\ subOp' = [subOp EXCEPT !.pc = "sent", !.list = l,
                           !.wall = Form!ResolveWalltime(l, subOp.sel, subOp.wall, Form!Dflt, subOp.debug)]
    BY <1>14 DEF Form!Wall
  <2>2. l = listed
    BY <1>1, <1>3, <2>1, ReadsLive DEF Agrees
  <2>3. /\ subOp.wall = form.wall /\ form' = form /\ ~subOp.debug
        /\ subOp.sel \in IF ask.verb = "sub" THEN {Answer} ELSE Form!Resolve(Answer, Form!None)
    BY <1>1, <1>14 DEF Form!Wall, Agrees, AnswersAreForms, FormInv, Answered
  <2>4. /\ subOp'.pc = "sent" /\ subOp'.sel = subOp.sel /\ subOp.debug = FALSE
        /\ subOp'.wall = Form!ResolveWalltime(listed, subOp.sel, form.wall, Form!Dflt, subOp.debug)
    BY <2>1, <2>2, <2>3 DEF FormInv, FormTyped
  <2>5. Answer' = Answer
    BY <2>3 DEF Answer
  <2>6. Form!ResolveWalltime(listed, subOp.sel, form.wall, Form!Dflt, FALSE)' = Form!ResolveWalltime(listed, subOp.sel, form.wall, Form!Dflt, FALSE)
    BY <1>1, <1>2, <2>3, <2>4 DEF Form!ResolveWalltime, Form!ClampWalltime, Form!QueueMax
  <2> QED BY <1>1, <1>4, <2>3, <2>4, <2>5, <2>6 DEF AnswersAreForms
<1>15. CASE (Form!ResolveQueue \/ Form!Wall) /\ subOp.by # "form"
  <2>1. subOp'.by = subOp.by
    BY <1>15 DEF Form!ResolveQueue, Form!Wall, FormInv, FormTyped
  <2> QED BY <1>15, <2>1 DEF AnswersAreForms
<1> QED BY <1>3, <1>7, <1>8, <1>9, <1>10, <1>11, <1>12, <1>13, <1>14, <1>15 DEF Form!Next, Form!vars

\* Every step keeps it.
LEMMA AgreesIsKept ==
  ASSUME Form!FormAssumption, FormInv, Agrees, [Form!Next]_Form!vars PROVE Agrees'
<1>1. CASE Calm'
  BY <1>1, ListKept, SeededKept, AnswersKept DEF Agrees
<1>2. CASE ~Calm'
  BY <1>2 DEF Agrees, ListIsLive, FormIsSeeded, AnswersAreForms
<1> QED BY <1>1, <1>2

\* The walltime the form was seeded with, read against the list, is the flags' own.
LEMMA SeedWallAgrees ==
  ASSUME NEW q, ask.sel = "--debug" => Form!Seed = q
  PROVE  Form!ResolveWalltime(listed, q, Form!SeedWall(listed), Form!Dflt, FALSE) =
         Form!ResolveWalltime(listed, q, ask.wall, Form!Dflt, ask.sel = "--debug" /\ ask.silent)
<1>1. CASE ask.wall # 0
  BY <1>1 DEF Form!ResolveWalltime, Form!SeedWall
<1>2. CASE ask.wall = 0 /\ ~ask.silent
  BY <1>2 DEF Form!ResolveWalltime, Form!SeedWall
<1>3. CASE ask.wall = 0 /\ ask.silent /\ ask.sel = "--debug"
  BY <1>3 DEF Form!ResolveWalltime, Form!SeedWall
<1>4. CASE ask.wall = 0 /\ ask.silent /\ ask.sel # "--debug"
  BY <1>4 DEF Form!ResolveWalltime, Form!SeedWall
<1> QED BY <1>1, <1>2, <1>3, <1>4

\* The queue the untouched form names is the one the flags resolve to.
LEMMA ShownAgrees ==
  ASSUME Form!FormAssumption, FormInv, listed # Form!None, Form!Conventional, cache = listed, form.queue = Shown,
         NEW q \in Form!Resolve(ask.sel, listed),
         NEW s \in IF ask.verb = "sub" THEN {Answer} ELSE Form!Resolve(Answer, Form!None)
  PROVE  s = q /\ (ask.sel = "--debug" => Form!Seed = q)
<1> DEFINE c == Form!Configured(ask.sel)
<1>1. ask.sel \in Names /\ c \in (IF ask.sel \in Queues THEN {c} ELSE Queues \cup {""})
  BY DEF FormInv, FormTyped, Names, Form!Keys, Form!Configured
<1>2. Form!Sched \notin Queues /\ "" \notin Queues /\ "--gpu" \notin Queues /\ "--debug" \notin Queues /\ Form!Sched # "" /\ DebugQueue \in Queues
  BY DEF Form!FormAssumption, Form!Sched
<1>3. Answer \in Queues \cup {""} => Form!Resolve(Answer, Form!None) = IF Answer \in Queues THEN {Answer} ELSE Form!Resolve("", Form!None)
  BY DEF Form!Resolve
<1>4. CASE ask.sel \in Queues
  <2>1. q = ask.sel /\ Form!Seed = ask.sel /\ ~Waits
    BY <1>2, <1>4 DEF Form!Resolve, Form!Seed, Waits
  <2>2. Answer = q /\ Answer \in Queues
    BY <1>2, <1>4, <2>1 DEF Shown, Answer
  <2> QED BY <1>2, <1>3, <1>4, <2>1, <2>2
<1>5. CASE ask.sel \notin Queues /\ c # "" /\ (ask.sel # "" \/ ask.verb # "held")
  <2>1. q = c /\ Form!Seed = c /\ ~Waits /\ c \in Queues
    BY <1>1, <1>2, <1>5 DEF Form!Resolve, Form!Seed, Waits
  <2>2. Answer = q /\ Answer \in Queues
    BY <1>2, <2>1 DEF Shown, Answer
  <2> QED BY <1>2, <1>3, <2>1, <2>2
<1>6. CASE ask.sel = "" /\ (c = "" \/ ask.verb = "held")
  <2>1. Form!Seed = Form!Sched /\ ~Waits
    BY <1>2, <1>6 DEF Form!Seed, Waits
  <2>2. Answer = ""
    BY <2>1 DEF Shown, Answer
  <2>3. Form!Resolve("", Form!None) = Form!Resolve("", listed)
    BY <1>2, NoList
  <2>4. c = "" => q = ""
    BY <1>2, <1>6 DEF Form!Resolve
  <2>5. Form!Resolve("", listed) = {} \/ Form!Resolve("", listed) = {""} \/ Form!Resolve("", listed) = {c}
    BY <1>2, <1>6 DEF Form!Resolve
  <2>6. CASE ask.verb = "sub"
    BY <1>6, <2>2, <2>4, <2>6
  <2>7. CASE ask.verb # "sub"
    <3>1. s \in Form!Resolve("", listed) /\ q \in Form!Resolve("", listed)
      BY <1>6, <2>2, <2>3, <2>7
    <3>2. s = q
      <4>1. CASE Form!Resolve("", listed) = {}
        BY <3>1, <4>1
      <4>2. CASE Form!Resolve("", listed) = {""}
        <5>1. s = "" /\ q = ""
          BY <3>1, <4>2
        <5> QED BY <5>1
      <4>3. CASE Form!Resolve("", listed) = {c}
        <5>1. s = c /\ q = c
          BY <3>1, <4>3
        <5> QED BY <5>1
      <4> QED BY <2>5, <4>1, <4>2, <4>3
    <3> QED BY <1>6, <3>2
  <2> QED BY <2>6, <2>7
<1>7. CASE ask.sel = "--gpu" /\ c = ""
  <2>1. Waits /\ q \in Form!One(Form!Up(listed) \cap Gpu)
    BY <1>2, <1>7 DEF Waits, Form!Resolve
  <2>2. listed \in MaybeL
    BY DEF FormInv, FormTyped, MaybeL
  <2>3. PICK g \in Queues : Form!One(Form!Up(listed) \cap Gpu) = {g} /\ Form!Up(listed) \cap Gpu = {g}
    BY <2>1, <2>2, UpIsQueues, OneIs
  <2>4. g = q /\ Shown = q
    BY <2>1, <2>3 DEF Shown
  <2>5. Answer = q /\ Answer \in Queues
    BY <1>2, <2>3, <2>4 DEF Answer
  <2> QED BY <1>2, <1>3, <1>7, <2>5
<1>8. CASE ask.sel = "--debug" /\ c = ""
  <2>1. q = DebugQueue
    BY <1>8 DEF Form!Conventional, Form!Configured
  <2>2. Form!Seed = DebugQueue /\ ~Waits
    BY <1>2, <1>8 DEF Form!Seed, Waits
  <2>3. Answer = q /\ Answer \in Queues
    BY <1>2, <2>1, <2>2 DEF Shown, Answer
  <2> QED BY <1>2, <1>3, <1>8, <2>1, <2>2, <2>3
<1> QED BY <1>1, <1>4, <1>5, <1>6, <1>7, <1>8 DEF Names

\* In a calm run, the untouched form's submission is the flags' own: the same queue, the same
\* walltime.
LEMMA AgreesMeans == ASSUME Form!FormAssumption, FormInv, Agrees PROVE Form!FormAgreesWithFlags
<1>1. SUFFICES ASSUME Form!Sent, subOp.by = "form", form.edits = 0, form.limits # Form!None,
                      listChanges = 0, ~failed, Form!Conventional, NEW q \in Form!Resolve(ask.sel, cache)
               PROVE  /\ subOp.sel = q /\ subOp.nodes = ask.nodes
                      /\ subOp.wall = Form!ResolveWalltime(cache, q, ask.wall, Form!Dflt,
                                                    ask.sel = "--debug" /\ ask.silent)
  BY DEF Form!FormAgreesWithFlags
<1>2. Calm /\ cache = listed /\ form.limits = listed /\ listed # Form!None
  BY <1>1 DEF Calm, Agrees, ListIsLive
<1>3. /\ form.nodes = ask.nodes /\ form.wall = Form!SeedWall(listed) /\ form.queue = Shown
  BY <1>1, <1>2 DEF Agrees, FormIsSeeded
<1>4. /\ subOp.sel \in IF ask.verb = "sub" THEN {Answer} ELSE Form!Resolve(Answer, Form!None)
      /\ subOp.wall = Form!ResolveWalltime(listed, subOp.sel, form.wall, Form!Dflt, FALSE)
  BY <1>1, <1>2 DEF Agrees, AnswersAreForms, Form!Sent
<1>5. subOp.sel = q /\ (ask.sel = "--debug" => Form!Seed = q)
  BY <1>1, <1>2, <1>3, <1>4, ShownAgrees
<1>6. subOp.nodes = form.nodes
  BY <1>1 DEF FormInv, Answered, Form!Sent, Closed
<1> QED BY <1>2, <1>3, <1>4, <1>5, <1>6, SeedWallAgrees

\* No submission asks beyond the limit it was checked against, and the form left as it opens
\* submits what the flags would (internal/cli/jobform.go, subForm; internal/cli/walltime.go).
THEOREM FormAlwaysAgrees ==
  ASSUME Form!FormAssumption PROVE Form!Spec => [](Form!SentFits /\ Form!FormAgreesWithFlags)
<1>1. FormInv /\ Agrees /\ [Form!Next]_Form!vars => (FormInv /\ Agrees)'
  BY FormInvIsKept, AgreesIsKept
<1>2. Form!Init => FormInv /\ Agrees
  BY FormInit, AgreesInit DEF FormInv
<1>3. FormInv /\ Agrees => Form!SentFits /\ Form!FormAgreesWithFlags
  BY FormInvMeans, AgreesMeans
<1> QED BY <1>1, <1>2, <1>3, PTL DEF Form!Spec

-----------------------------------------------------------------------------
(* The edit panel: its window.                                             *)

\* The panel counts, and keeps places, as the fan-out does.
LEMMA PanelCounts ==
  /\ \A S : Panels!Cardinality(S) = Cardinality(S)
  /\ \A s, I : Panels!Kept(s, I) = Fan!Kept(s, I)
<1>1. \A S : Panels!Cardinality(S) = Cardinality(S) /\ Fan!Cardinality(S) = Cardinality(S)
  BY FanCounts DEF Panels!Cardinality, Cardinality, Panels!IsFiniteSet, IsFiniteSet
<1>2. \A s, I : Panels!Kept(s, I) = Fan!Kept(s, I)
  BY DEF Panels!Kept, Fan!Kept, Panels!Nth, Fan!Nth, Panels!Rank, Fan!Rank, Panels!Cardinality, Fan!Cardinality,
    Panels!IsFiniteSet, Fan!IsFiniteSet
<1> QED BY <1>1, <1>2

\* A finite set of numbers has the least and the greatest member its names say.
LEMMA ExtremesAre ==
  ASSUME NEW S \in SUBSET Int, IsFiniteSet(S), S # {}
  PROVE  /\ Panels!Min(S) \in S /\ \A y \in S : Panels!Min(S) <= y
         /\ Panels!Max(S) \in S /\ \A y \in S : Panels!Max(S) >= y
<1>1. \E m \in S : \A y \in S : m <= y
  BY EndsAre
<1>2. \E m \in S : \A y \in S : m >= y
  BY EndsAre
<1> QED BY <1>1, <1>2 DEF Panels!Min, Panels!Max

\* What the rows of the tree are.
RowType == [kind: {"section", "text", "enum", "list", "set"}, kids: Nat, action: BOOLEAN]

\* Rows are numbered from 1.
LEMMA PanelRowsAre ==
  ASSUME Panels!PanelAssumption
  PROVE  /\ Len(PanelRows) \in Nat /\ Panels!R = 1 .. Len(PanelRows) /\ 1 \in Panels!R
         /\ Panels!R \in SUBSET Int /\ IsFiniteSet(Panels!R)
         /\ \A i \in Panels!R : PanelRows[i] \in RowType
<1>1. PanelRows \in Seq(RowType) /\ PanelRows # <<>>
  BY DEF Panels!PanelAssumption, RowType
<1>2. Len(PanelRows) \in Nat /\ DOMAIN PanelRows = 1 .. Len(PanelRows) /\ Len(PanelRows) # 0
  BY <1>1
<1>3. \A i \in 1 .. Len(PanelRows) : PanelRows[i] \in RowType
  BY <1>1
<1>4. IsFiniteSet(1 .. Len(PanelRows)) /\ 1 .. Len(PanelRows) \subseteq Int /\ 1 \in 1 .. Len(PanelRows)
  BY <1>2, FS_Interval
<1> QED BY <1>2, <1>3, <1>4 DEF Panels!R

\* A row is shown when each section it is in is unfolded.
LEMMA ShownWhen ==
  ASSUME Panels!PanelAssumption, NEW open
  PROVE  Panels!Shown(open) =
           {i \in Panels!R :
              \A j \in Panels!Sections : j < i /\ j + PanelRows[j].kids >= i => j \in open}
<1>1. ASSUME NEW i \in Panels!R, NEW j \in Panels!Sections
      PROVE  i \in Panels!Under(j) <=> j < i /\ j + PanelRows[j].kids >= i
  <2>1. i \in Int /\ j \in Int /\ PanelRows[j].kids \in Nat
    BY PanelRowsAre DEF Panels!Sections, RowType
  <2> QED BY <2>1 DEF Panels!Under
<1>2. \A i \in Panels!R : i \in Panels!Shown(open) <=>
                           \A j \in Panels!Sections \ open : i \notin Panels!Under(j)
  BY DEF Panels!Shown
<1>3. Panels!Shown(open) \subseteq Panels!R
  BY DEF Panels!Shown
<1> QED BY <1>1, <1>2, <1>3

\* The first row is always shown; what is shown is counted from 0 without a gap.
LEMMA ShownAre ==
  ASSUME Panels!PanelAssumption, NEW open
  PROVE  LET shown == Panels!Shown(open)
             n     == Cardinality(shown)
         IN /\ shown \in SUBSET Panels!R /\ shown \in SUBSET Int /\ IsFiniteSet(shown) /\ 1 \in shown
            /\ n \in Nat /\ n <= Cardinality(Panels!R)
            /\ \A c \in shown : Panels!Place(c, open) \in 0 .. n - 1
            /\ \A k \in 0 .. n - 1 : \E c \in shown : Panels!Place(c, open) = k
            /\ \A c, d \in shown : c < d => Panels!Place(c, open) < Panels!Place(d, open)
<1> DEFINE shown == Panels!Shown(open)
           n == Cardinality(shown)
<1>1. /\ Len(PanelRows) \in Nat /\ Panels!R = 1 .. Len(PanelRows) /\ 1 \in Panels!R
      /\ Panels!R \in SUBSET Int /\ IsFiniteSet(Panels!R)
  BY PanelRowsAre
<1>2. shown \in SUBSET Panels!R
  BY DEF Panels!Shown
<1>3. shown \in SUBSET Int /\ IsFiniteSet(shown) /\ n \in Nat /\ n <= Cardinality(Panels!R)
  BY <1>1, <1>2, FS_Subset, FS_CardinalityType
<1>4. 1 \in shown
  <2>1. \A j \in Panels!Sections : ~(j < 1)
    BY <1>1 DEF Panels!Sections
  <2> QED BY <1>1, <2>1, ShownWhen
<1> HIDE DEF shown
<1>5. /\ \A i \in shown : Fan!Rank(shown, i) \in 1 .. n
      /\ \A i, j \in shown : i < j => Fan!Rank(shown, i) < Fan!Rank(shown, j)
      /\ \A k \in 1 .. n : Fan!Nth(shown, k) \in shown /\ Fan!Rank(shown, Fan!Nth(shown, k)) = k
  BY <1>3, RankIs, NthIs
<1>6. ASSUME NEW c \in shown PROVE Panels!Place(c, open) = Fan!Rank(shown, c) - 1
  <2> DEFINE upto == {h \in shown : h <= c}
             below == {i \in shown : i < c}
  <2>1. c \in Int /\ \A i \in shown : i \in Int
    BY <1>3
  <2>2. c \in upto /\ \A i \in shown : i < c <=> i <= c /\ i # c
    BY <2>1
  <2>3. IsFiniteSet(upto) /\ below = upto \ {c}
    BY <1>3, <2>2, FS_Subset
  <2>6. Cardinality(below) = Cardinality(upto) - 1
    BY <2>2, <2>3, FS_RemoveElement
  <2>4. Panels!Place(c, open) = Cardinality(below)
    BY PanelCounts DEF Panels!Place, shown
  <2>5. Fan!Rank(shown, c) = Cardinality(upto)
    BY FanCounts DEF Fan!Rank
  <2> QED BY <2>4, <2>5, <2>6
<1>7. ASSUME NEW c \in shown PROVE Panels!Place(c, open) \in 0 .. n - 1
  BY <1>3, <1>5, <1>6
<1>8. ASSUME NEW k \in 0 .. n - 1 PROVE \E c \in shown : Panels!Place(c, open) = k
  <2>1. k + 1 \in 1 .. n /\ k \in Int
    BY <1>3
  <2>2. Fan!Nth(shown, k + 1) \in shown /\ Fan!Rank(shown, Fan!Nth(shown, k + 1)) = k + 1
    BY <1>5, <2>1
  <2>3. Panels!Place(Fan!Nth(shown, k + 1), open) = k
    BY <1>6, <2>1, <2>2
  <2> QED BY <2>2, <2>3
<1>9. ASSUME NEW c \in shown, NEW d \in shown, c < d PROVE Panels!Place(c, open) < Panels!Place(d, open)
  <2>1. Fan!Rank(shown, c) < Fan!Rank(shown, d) /\ Fan!Rank(shown, c) \in Int /\ Fan!Rank(shown, d) \in Int
    BY <1>3, <1>5, <1>9
  <2> QED BY <1>6, <2>1
<1> QED BY <1>2, <1>3, <1>4, <1>7, <1>8, <1>9 DEF shown

\* A window that starts at a row shows it, whatever it takes.
LEMMA TopIsInWindow ==
  ASSUME Panels!PanelAssumption, NEW open, NEW val, NEW h, NEW c \in Panels!Shown(open)
  PROVE  c \in Panels!Window(Panels!Place(c, open), h, open, val)
<1> DEFINE shown == Panels!Shown(open)
           below == {i \in shown : Panels!Place(i, open) >= Panels!Place(c, open)}
<1>1. /\ shown \in SUBSET Int
      /\ \A i \in shown : Panels!Place(i, open) \in Int
      /\ \A i, j \in shown : i < j => Panels!Place(i, open) < Panels!Place(j, open)
  BY ShownAre
<1>2. c \in below
  BY <1>1
<1>3. ASSUME NEW y \in below PROVE c <= y
  <2>1. c \in Int /\ y \in Int /\ y \in shown /\ Panels!Place(y, open) >= Panels!Place(c, open)
    BY <1>1
  <2> QED BY <1>1, <2>1
<1>4. \A m \in below : (\A y \in below : m =< y) => m = c
  BY <1>1, <1>2, <1>3
<1>5. Panels!Min(below) = c
  BY <1>2, <1>3, <1>4 DEF Panels!Min
<1>6. below = {i \in shown : Panels!Cardinality({j \in shown : j < i}) >= Panels!Place(c, open)}
  BY DEF Panels!Place
<1> QED BY <1>2, <1>5, <1>6 DEF Panels!Window

\* The least scroll that keeps the cursor in the window is one that does.
LEMMA ScrollKeepsCursor ==
  ASSUME Panels!PanelAssumption, NEW open, NEW val, NEW h, NEW c \in Panels!Shown(open), NEW t \in Nat
  PROVE  /\ Panels!Clamp(t, c, h, open, val) \in 0 .. Panels!Place(c, open)
         /\ c \in Panels!Window(Panels!Clamp(t, c, h, open, val), h, open, val)
<1> DEFINE at == Panels!Place(c, open)
           S  == {s \in Panels!Min({t, at}) .. at : c \in Panels!Window(s, h, open, val)}
<1>1. at \in Nat
  BY ShownAre
<1>2. Panels!Min({t, at}) \in {t, at} /\ Panels!Min({t, at}) <= at
  <2>1. {t, at} \in SUBSET Int /\ IsFiniteSet({t, at}) /\ {t, at} # {}
    <3>1. IsFiniteSet({t}) /\ {t, at} = {t} \cup {at}
      BY FS_Singleton
    <3>2. IsFiniteSet({t} \cup {at})
      BY <3>1, FS_AddElement
    <3> QED BY <1>1, <3>1, <3>2
  <2> HIDE DEF at
  <2> QED BY <2>1, ExtremesAre
<1>3. at \in S
  BY <1>1, <1>2, TopIsInWindow
<1>4. S \in SUBSET (0 .. at) /\ S # {}
  BY <1>1, <1>2, <1>3
<1>5. S \in SUBSET Int /\ IsFiniteSet(S)
  <2>1. 0 \in Int /\ at \in Int
    BY <1>1
  <2>2. IsFiniteSet(0 .. at)
    BY <2>1, FS_Interval
  <2>3. S \in SUBSET Int
    BY <1>4, <2>1
  <2> QED BY <1>4, <2>2, <2>3, FS_Subset
<1>6. Panels!Min(S) \in S
  BY <1>4, <1>5, ExtremesAre
<1>7. Panels!Clamp(t, c, h, open, val) = Panels!Min(S)
  BY DEF Panels!Clamp
<1> QED BY <1>4, <1>6, <1>7

-----------------------------------------------------------------------------
(* The rows of a set's sub-editor.                                         *)

\* A name that is not blank, and one that may be.
Named   == STRING \ {""}
AnyName == STRING \cup {""}

\* A row of the sub-editor.
SubRow == [v: AnyName, on: BOOLEAN]

\* Every name of v that was not seen, once and in S.
EachOnce(new, v, seen, S) ==
  /\ new \in Seq(S) /\ DOMAIN new = 1 .. Len(new) /\ Len(new) \in Nat
  /\ \A k \in 1 .. Len(new) : new[k] \in S /\ new[k] \notin seen /\ new[k] \in Panels!Range(v)
  /\ \A j, k \in 1 .. Len(new) : j < k => new[j] # new[k]
  /\ \A w \in Panels!Range(v) \ seen : \E k \in 1 .. Len(new) : new[k] = w

\* A function on the numbers from 1 to n is a list of length n.
LEMMA FunctionsAreLists == \A S : \A n \in Nat : \A f \in [1 .. n -> S] : f \in Seq(S) /\ Len(f) = n
OBVIOUS

\* What is new in a list: each new name once, none that was seen.
LEMMA NewsAre ==
  ASSUME NEW S, NEW v \in Seq(S), NEW seen
  PROVE  EachOnce(Panels!Kept(v, Panels!News(v, seen)), v, seen, S)
<1> DEFINE I   == Panels!News(v, seen)
           new == Panels!Kept(v, I)
           n   == Cardinality(I)
<1>1. Len(v) \in Nat /\ DOMAIN v = 1 .. Len(v) /\ \A k \in 1 .. Len(v) : v[k] \in S
  OBVIOUS
<1>2. I \in SUBSET (1 .. Len(v)) /\ I \in SUBSET Int /\ IsFiniteSet(I)
  BY <1>1, PlacesAre DEF Panels!News
<1>3. /\ \A k \in I : v[k] \notin seen /\ \A h \in 1 .. k - 1 : v[h] # v[k]
      /\ \A k \in 1 .. Len(v) : v[k] \notin seen /\ (\A h \in 1 .. k - 1 : v[h] # v[k]) => k \in I
  BY <1>1 DEF Panels!News
<1> HIDE DEF I
<1>4. /\ new \in Seq({v[i] : i \in I}) /\ Len(new) = n /\ DOMAIN new = 1 .. n /\ n \in Nat
      /\ \A k \in 1 .. n : Fan!Nth(I, k) \in I /\ new[k] = v[Fan!Nth(I, k)]
      /\ \A i \in I : Fan!Rank(I, i) \in 1 .. n /\ new[Fan!Rank(I, i)] = v[i]
      /\ \A j, k \in 1 .. n : j < k => Fan!Nth(I, j) < Fan!Nth(I, k)
  BY <1>2, KeptIs, PanelCounts
<1> HIDE DEF new, n
<1>5. {v[i] : i \in I} \subseteq S
  BY <1>1, <1>2
<1>6. new \in Seq(S)
  BY <1>4, <1>5
<1>7. ASSUME NEW k \in 1 .. n PROVE new[k] \in S /\ new[k] \notin seen /\ new[k] \in Panels!Range(v)
  BY <1>1, <1>2, <1>3, <1>4 DEF Panels!Range
<1>8. ASSUME NEW j \in 1 .. n, NEW k \in 1 .. n, j < k PROVE new[j] # new[k]
  <2>1. /\ Fan!Nth(I, j) \in 1 .. Len(v) /\ Fan!Nth(I, k) \in 1 .. Len(v) /\ Fan!Nth(I, k) \in I
        /\ Fan!Nth(I, j) < Fan!Nth(I, k) /\ new[j] = v[Fan!Nth(I, j)] /\ new[k] = v[Fan!Nth(I, k)]
    BY <1>2, <1>4, <1>8
  <2>2. Fan!Nth(I, j) \in 1 .. Fan!Nth(I, k) - 1
    BY <1>1, <2>1
  <2> QED BY <1>3, <2>1, <2>2
<1>9. ASSUME NEW w \in Panels!Range(v) \ seen PROVE \E k \in 1 .. n : new[k] = w
  <2> DEFINE W == {h \in 1 .. Len(v) : v[h] = w}
             m == Fan!Least(W)
  <2>1. W # {}
    BY <1>1 DEF Panels!Range
  <2>2. W \in SUBSET Int /\ IsFiniteSet(W)
    BY <1>1, PlacesAre
  <2>3. m \in W /\ \A h \in W : m <= h
    BY <2>1, <2>2, EndsAre
  <2> HIDE DEF m
  <2>4. m \in 1 .. Len(v) /\ v[m] = w
    BY <2>3
  <2>5. ASSUME NEW h \in 1 .. m - 1 PROVE v[h] # v[m]
    <3>1. h \in 1 .. Len(v) /\ ~(m <= h)
      BY <1>1, <2>4
    <3> QED BY <2>3, <2>4, <3>1
  <2>6. m \in I
    BY <1>3, <2>4, <2>5
  <2> QED BY <1>4, <2>4, <2>6
<1>10. EachOnce(new, v, seen, S)
  BY <1>4, <1>6, <1>7, <1>8, <1>9 DEF EachOnce
<1> QED BY <1>10 DEF new, I

\* A set's rows as the sub-editor opens: no name twice, none blank, every member checked, nothing else.
LEMMA SetRowsAre ==
  ASSUME Panels!PanelAssumption, NEW v \in Seq(Named)
  PROVE  LET rows == Panels!SetRows(v)
         IN /\ rows \in Seq(SubRow) /\ DOMAIN rows = 1 .. Len(rows) /\ Len(rows) \in Nat
            /\ \A j, k \in DOMAIN rows : rows[j].v = rows[k].v => j = k
            /\ \A k \in DOMAIN rows : rows[k].v \in Named /\ (rows[k].on <=> rows[k].v \in Panels!Range(v))
            /\ Panels!Range(v) \subseteq {rows[k].v : k \in DOMAIN rows}
<1> DEFINE own  == Panels!Kept(Members, Panels!News(Members, {}))
           rest == Panels!Kept(v, Panels!News(v, Panels!Range(Members)))
           O    == [k \in DOMAIN own |-> Panels!Row(own[k], own[k] \in Panels!Range(v))]
           T    == [k \in DOMAIN rest |-> Panels!Row(rest[k], TRUE)]
           rows == Panels!SetRows(v)
<1>1. Members \in Seq(Named)
  BY DEF Panels!PanelAssumption, Named
<1>2. /\ DOMAIN own = 1 .. Len(own) /\ Len(own) \in Nat
      /\ \A k \in 1 .. Len(own) : own[k] \in Named /\ own[k] \in Panels!Range(Members)
      /\ \A j, k \in 1 .. Len(own) : j < k => own[j] # own[k]
      /\ \A w \in Panels!Range(Members) : \E k \in 1 .. Len(own) : own[k] = w
  BY <1>1, NewsAre DEF EachOnce
<1>3. /\ DOMAIN rest = 1 .. Len(rest) /\ Len(rest) \in Nat
      /\ \A k \in 1 .. Len(rest) : /\ rest[k] \in Named /\ rest[k] \notin Panels!Range(Members)
                                   /\ rest[k] \in Panels!Range(v)
      /\ \A j, k \in 1 .. Len(rest) : j < k => rest[j] # rest[k]
      /\ \A w \in Panels!Range(v) \ Panels!Range(Members) : \E k \in 1 .. Len(rest) : rest[k] = w
  BY NewsAre DEF EachOnce
<1>4. rows = O \o T
  BY DEF Panels!SetRows
<1> HIDE DEF own, rest, rows
<1> DEFINE m == Len(own)
           n == Len(rest)
<1>0. Named \subseteq AnyName
  BY DEF Named, AnyName
<1>5. /\ O \in [1 .. m -> SubRow] /\ T \in [1 .. n -> SubRow]
      /\ \A k \in 1 .. m : O[k].v = own[k] /\ (O[k].on <=> own[k] \in Panels!Range(v))
      /\ \A k \in 1 .. n : T[k].v = rest[k] /\ T[k].on
  <2>1. ASSUME NEW w \in AnyName, NEW b \in BOOLEAN
        PROVE  Panels!Row(w, b) \in SubRow /\ Panels!Row(w, b).v = w /\ (Panels!Row(w, b).on <=> b)
    BY DEF Panels!Row, SubRow
  <2>2. ASSUME NEW k \in 1 .. m
        PROVE  O[k] \in SubRow /\ O[k].v = own[k] /\ (O[k].on <=> own[k] \in Panels!Range(v))
    <3>1. own[k] \in AnyName
      BY <1>0, <1>2
    <3>3. (own[k] \in Panels!Range(v)) \in BOOLEAN
      OBVIOUS
    <3>2. O[k] = Panels!Row(own[k], own[k] \in Panels!Range(v))
      BY <1>2
    <3> QED BY <2>1, <3>1, <3>2, <3>3
  <2>3. ASSUME NEW k \in 1 .. n PROVE T[k] \in SubRow /\ T[k].v = rest[k] /\ T[k].on
    <3>1. rest[k] \in AnyName
      BY <1>0, <1>3
    <3>2. T[k] = Panels!Row(rest[k], TRUE)
      BY <1>3
    <3> QED BY <2>1, <3>1, <3>2
  <2> QED BY <1>2, <1>3, <2>2, <2>3
<1>6. m \in Nat /\ n \in Nat
  BY <1>2, <1>3
<1> HIDE DEF O, T, m, n
<1>7. O \in Seq(SubRow) /\ T \in Seq(SubRow) /\ Len(O) = m /\ Len(T) = n
  BY <1>5, <1>6, FunctionsAreLists
<1>8. rows \in Seq(SubRow) /\ Len(rows) = m + n /\ DOMAIN rows = 1 .. m + n
  <2>1. O \o T \in Seq(SubRow) /\ Len(O \o T) = Len(O) + Len(T)
    BY <1>7
  <2> QED BY <1>4, <1>6, <1>7, <2>1
<1>9. ASSUME NEW k \in 1 .. m PROVE k \in DOMAIN rows /\ rows[k] = O[k]
  BY <1>4, <1>6, <1>7, <1>8
<1>10. ASSUME NEW k \in 1 .. n PROVE m + k \in DOMAIN rows /\ rows[m + k] = T[k]
  BY <1>4, <1>6, <1>7, <1>8
<1>11. ASSUME NEW k \in DOMAIN rows
       PROVE  \/ k \in 1 .. m /\ rows[k].v = own[k] /\ (rows[k].on <=> own[k] \in Panels!Range(v))
              \/ k - m \in 1 .. n /\ rows[k].v = rest[k - m] /\ rows[k].on
  <2>1. k \in 1 .. m \/ (k - m \in 1 .. n /\ k = m + (k - m))
    BY <1>6, <1>8
  <2> QED BY <1>5, <1>9, <1>10, <2>1
<1>12. ASSUME NEW k \in DOMAIN rows PROVE rows[k].v \in Named /\ (rows[k].on <=> rows[k].v \in Panels!Range(v))
  BY <1>2, <1>3, <1>11 DEF m, n
<1>13. ASSUME NEW j \in DOMAIN rows, NEW k \in DOMAIN rows, j < k PROVE rows[j].v # rows[k].v
  <2>1. j \in Int /\ k \in Int
    BY <1>8
  <2>2. CASE j \in 1 .. m /\ k \in 1 .. m
    <3>1. ~(k - m \in 1 .. n) /\ ~(j - m \in 1 .. n)
      BY <1>6, <2>2
    <3> QED BY <1>2, <1>11, <1>13, <2>2, <3>1 DEF m
  <2>3. CASE j \in 1 .. m /\ k - m \in 1 .. n
    <3>1. ~(k \in 1 .. m) /\ ~(j - m \in 1 .. n)
      BY <1>6, <2>1, <2>3
    <3> QED BY <1>2, <1>3, <1>11, <2>3, <3>1 DEF m, n
  <2>4. CASE j - m \in 1 .. n /\ k - m \in 1 .. n
    <3>1. ~(k \in 1 .. m) /\ ~(j \in 1 .. m) /\ j - m < k - m
      BY <1>6, <1>13, <2>1, <2>4
    <3> QED BY <1>3, <1>11, <2>4, <3>1 DEF n
  <2>5. ~(j - m \in 1 .. n /\ k \in 1 .. m)
    BY <1>6, <1>13, <2>1
  <2> QED BY <1>11, <2>2, <2>3, <2>4, <2>5
<1>14. ASSUME NEW j \in DOMAIN rows, NEW k \in DOMAIN rows, rows[j].v = rows[k].v PROVE j = k
  <2>1. j \in Int /\ k \in Int /\ ~(j < k) /\ ~(k < j)
    BY <1>8, <1>13, <1>14
  <2> QED BY <2>1
<1>15. ASSUME NEW w \in Panels!Range(v) PROVE \E k \in DOMAIN rows : rows[k].v = w
  <2>1. CASE w \in Panels!Range(Members)
    <3>1. PICK k \in 1 .. m : own[k] = w
      BY <1>2, <2>1 DEF m
    <3> QED BY <1>5, <1>9, <3>1
  <2>2. CASE w \notin Panels!Range(Members)
    <3>1. PICK k \in 1 .. n : rest[k] = w
      BY <1>3, <2>2 DEF n
    <3> QED BY <1>5, <1>10, <3>1
  <2> QED BY <2>1, <2>2
<1>16. Panels!Range(v) \subseteq {rows[k].v : k \in DOMAIN rows}
  BY <1>15
<1>17. Len(rows) \in Nat /\ DOMAIN rows = 1 .. Len(rows)
  BY <1>6, <1>8
<1> QED BY <1>8, <1>12, <1>14, <1>16, <1>17 DEF rows

\* What is written back: the names of the checked rows, none of them blank.
LEMMA LiteralIs ==
  ASSUME sub.rows \in Seq(SubRow)
  PROVE  /\ Panels!Literal \in Seq(Named)
         /\ Panels!Range(Panels!Literal) =
              {sub.rows[k].v : k \in {i \in DOMAIN sub.rows : sub.rows[i].on /\ sub.rows[i].v \in Named}}
<1> DEFINE rows == sub.rows
           I == {k \in DOMAIN rows : rows[k].on /\ rows[k].v \in Named}
           s == [k \in DOMAIN rows |-> rows[k].v]
           n == Cardinality(I)
           L == Panels!Kept(s, I)
<1>1. Len(rows) \in Nat /\ DOMAIN rows = 1 .. Len(rows) /\ \A k \in DOMAIN rows : rows[k] \in SubRow
  OBVIOUS
<1>2. I \in SUBSET Int /\ IsFiniteSet(I)
  BY <1>1, PlacesAre
<1>3. \A i \in I : i \in DOMAIN rows /\ s[i] = rows[i].v /\ s[i] \in Named
  BY <1>1
<1>4. L = Panels!Literal
  <2>1. \A k \in DOMAIN rows : rows[k].v \in Named <=> rows[k].v # ""
    BY <1>1 DEF SubRow, Named, AnyName
  <2>2. I = {k \in DOMAIN rows : rows[k].on /\ rows[k].v # ""}
    BY <2>1
  <2> QED BY <2>2 DEF Panels!Literal
<1>5. {s[i] : i \in I} = {rows[k].v : k \in I} /\ {s[i] : i \in I} \subseteq Named
  BY <1>3
<1> HIDE DEF I, s
<1>6. /\ L \in Seq({s[i] : i \in I}) /\ DOMAIN L = 1 .. n
      /\ \A k \in 1 .. n : Fan!Nth(I, k) \in I /\ L[k] = s[Fan!Nth(I, k)]
      /\ \A i \in I : Fan!Rank(I, i) \in 1 .. n /\ L[Fan!Rank(I, i)] = s[i]
  BY <1>2, KeptIs, PanelCounts
<1> HIDE DEF L, n
<1>7. L \in Seq(Named)
  BY <1>5, <1>6
<1>8. Panels!Range(L) = {s[i] : i \in I}
  BY <1>6 DEF Panels!Range
<1> QED BY <1>4, <1>5, <1>7, <1>8 DEF I

-----------------------------------------------------------------------------
(* The panel's invariant.                                                  *)

\* A list's value is a list of names, a set's one of names that are not blank.
Holds(val) ==
  /\ DOMAIN val = Panels!Leaves
  /\ \A i \in Panels!Leaves : /\ PanelRows[i].kind = "list" => val[i] \in Seq(STRING)
                              /\ PanelRows[i].kind = "set" => val[i] \in Seq(Named)

\* The sub-editor.
SubType == [kind: {"closed", "list", "set"}, rows: Seq(SubRow), at: Nat, editing: BOOLEAN]

\* The tree: the cursor is on a row that is shown, and the page starts no later.
TreeTyped ==
  /\ Holds(value) /\ height \in Int
  /\ expanded \subseteq Panels!Sections /\ marked \subseteq Panels!Sections
  /\ cursor \in Panels!Shown(expanded) /\ top \in 0 .. Panels!Place(cursor, expanded)
  /\ cursor \in Panels!Window(top, height, expanded, value)

\* The sub-editor: of the leaf under the cursor, its own cursor on a row or on the one past the last.
SubTyped ==
  /\ sub \in SubType /\ sub.at \in 1 .. Len(sub.rows) + 1
  /\ sub.editing => sub.at <= Len(sub.rows)
  /\ sub.kind # "closed" => cursor \in Panels!Leaves /\ sub.kind = PanelRows[cursor].kind

\* A set's rows have each member once; what is checked is what the leaf holds, but for what was toggled.
AsToggled ==
  sub.kind = "set" =>
    /\ \A j, k \in DOMAIN sub.rows : sub.rows[j].v = sub.rows[k].v => j = k
    /\ \A k \in DOMAIN sub.rows :
         /\ sub.rows[k].v \in Named
         /\ sub.rows[k].on <=> (sub.rows[k].v \in Panels!Range(value[cursor]) <=> sub.rows[k].v \notin toggled)
    /\ Panels!Range(value[cursor]) \cup toggled \subseteq {sub.rows[k].v : k \in DOMAIN sub.rows}

\* The invariant of the panel.
PanelInv == TreeTyped /\ SubTyped /\ AsToggled

\* A leaf or a section, a row is one of the tree.
LEMMA LeavesAre ==
  ASSUME Panels!PanelAssumption
  PROVE  /\ Panels!Sections \subseteq Panels!R /\ Panels!Leaves \subseteq Panels!R
         /\ Panels!Sections \cap Panels!Leaves = {}
         /\ \A i \in Panels!R : /\ i \in Panels!Sections <=> PanelRows[i].kind = "section"
                                /\ i \in Panels!Leaves <=> PanelRows[i].kind # "section"
                                /\ PanelRows[i].kind \in {"section", "text", "enum", "list", "set"}
<1>1. \A i \in Panels!R : PanelRows[i].kind \in {"section", "text", "enum", "list", "set"}
  BY PanelRowsAre DEF RowType
<1> QED BY <1>1 DEF Panels!Sections, Panels!Leaves

\* The panel opens on its first row.
LEMMA PanelInit == ASSUME Panels!PanelAssumption, Panels!Init PROVE PanelInv
<1>1. Holds(value)
  <2>1. DOMAIN value = Panels!Leaves
    BY DEF Panels!Init, Panels!AtOpen
  <2>2. ASSUME NEW i \in Panels!Leaves, PanelRows[i].kind # "enum" PROVE value[i] = PanelOpen[i]
    BY <2>2 DEF Panels!Init, Panels!AtOpen
  <2>3. ASSUME NEW i \in Panels!Leaves
        PROVE  /\ PanelRows[i].kind = "list" => PanelOpen[i] \in Seq(STRING)
               /\ PanelRows[i].kind = "set" => PanelOpen[i] \in Seq(Named)
    BY DEF Panels!PanelAssumption, Named
  <2>4. ASSUME NEW i \in Panels!Leaves
        PROVE  /\ PanelRows[i].kind = "list" => value[i] \in Seq(STRING)
               /\ PanelRows[i].kind = "set" => value[i] \in Seq(Named)
    BY <2>2, <2>3
  <2> QED BY <2>1, <2>4 DEF Holds
<1>2. /\ expanded = {} /\ marked = {} /\ cursor = 1 /\ top = 0 /\ height \in PanelHeights
      /\ sub = Panels!Closed
  BY DEF Panels!Init
<1>3. height \in Int
  BY <1>2 DEF Panels!PanelAssumption
<1>4. 1 \in Panels!Shown(expanded) /\ Panels!Place(1, expanded) \in Nat
  BY ShownAre
<1>5. Panels!Place(1, expanded) = 0
  <2>1. PICK c \in Panels!Shown(expanded) : Panels!Place(c, expanded) = 0
    <3>1. 0 \in 0 .. Cardinality(Panels!Shown(expanded)) - 1
      BY ShownAre
    <3> QED BY <3>1, ShownAre
  <2>2. c \in Panels!R
    BY ShownAre
  <2>3. c = 1 \/ 1 < c
    BY <2>2, PanelRowsAre
  <2>4. CASE 1 < c
    <3>1. Panels!Place(1, expanded) < Panels!Place(c, expanded)
      BY <1>4, <2>4, ShownAre
    <3> QED BY <1>4, <2>1, <3>1
  <2> QED BY <2>1, <2>3, <2>4
<1>6. cursor \in Panels!Window(top, height, expanded, value)
  BY <1>2, <1>4, <1>5, TopIsInWindow
<1>7. TreeTyped
  BY <1>1, <1>2, <1>3, <1>4, <1>5, <1>6 DEF TreeTyped
<1>8. SubTyped /\ AsToggled
  <2>1. <<>> \in Seq(SubRow) /\ Len(<<>>) = 0
    OBVIOUS
  <2>2. /\ sub.kind = "closed" /\ sub.rows = <<>> /\ sub.at = 1 /\ sub.editing = FALSE
        /\ sub = [kind |-> "closed", rows |-> <<>>, at |-> 1, editing |-> FALSE]
    BY <1>2 DEF Panels!Closed
  <2>3. sub \in SubType
    BY <2>1, <2>2 DEF SubType
  <2> QED BY <2>1, <2>2, <2>3 DEF SubTyped, AsToggled
<1> QED BY <1>7, <1>8 DEF PanelInv

\* A key that ends in a scroll.
LEMMA ScrolledTree ==
  ASSUME Panels!PanelAssumption, TreeTyped, height' \in Int, marked' \subseteq Panels!Sections,
         expanded' \subseteq Panels!Sections, cursor' \in Panels!Shown(expanded'), Holds(value'),
         top' = Panels!Clamp(top, cursor', height', expanded', value')
  PROVE  TreeTyped'
<1>1. top \in Nat
  BY ShownAre DEF TreeTyped
<1>2. /\ top' \in 0 .. Panels!Place(cursor', expanded')
      /\ cursor' \in Panels!Window(top', height', expanded', value')
  BY <1>1, ScrollKeepsCursor
<1>3. Holds(value)'
  BY DEF Holds
<1> QED BY <1>2, <1>3 DEF TreeTyped

\* What leaves the tree alone.
LEMMA SameTree ==
  ASSUME TreeTyped, UNCHANGED <<value, expanded, marked, cursor, top, height>> PROVE TreeTyped'
<1>1. Holds(value)'
  BY DEF TreeTyped, Holds
<1> QED BY <1>1 DEF TreeTyped

\* What leaves the closed sub-editor closed.
LEMMA StaysClosed ==
  ASSUME SubTyped, sub.kind = "closed", UNCHANGED sub PROVE SubTyped' /\ AsToggled'
BY DEF SubTyped, AsToggled

\* The row so many steps up or down is one that is shown.
LEMMA StepIs ==
  ASSUME Panels!PanelAssumption, TreeTyped, NEW n \in Int, NEW dir \in {1, -1}
  PROVE  Panels!Step(n, dir) \in Panels!Shown(expanded)
<1> DEFINE shown == Panels!Shown(expanded)
           last  == Cardinality(shown) - 1
           p     == Panels!Place(cursor, expanded) + dir * n
           low   == Panels!Min({p, last})
           to    == Panels!Max({0, low})
<1>1. last \in Nat /\ Panels!Place(cursor, expanded) \in Int
  <2>1. 1 \in shown /\ Panels!Place(1, expanded) \in 0 .. last /\ last \in Int
    BY ShownAre
  <2>2. Panels!Place(cursor, expanded) \in 0 .. last
    BY ShownAre DEF TreeTyped
  <2> QED BY <2>1, <2>2
<1>2. p \in Int
  <2>1. dir * n \in Int
    OBVIOUS
  <2> QED BY <1>1, <2>1
<1> HIDE DEF p, last
<1>3. low \in {p, last} /\ low <= last
  <2>1. {p, last} \in SUBSET Int /\ IsFiniteSet({p, last}) /\ {p, last} # {}
    <3>1. IsFiniteSet({p}) /\ {p, last} = {p} \cup {last}
      BY FS_Singleton
    <3>2. IsFiniteSet({p} \cup {last})
      BY <3>1, FS_AddElement
    <3> QED BY <1>1, <1>2, <3>1, <3>2
  <2> QED BY <2>1, ExtremesAre
<1> HIDE DEF low
<1>4. low \in Int
  BY <1>1, <1>2, <1>3
<1>5. to \in {0, low} /\ 0 <= to
  <2>1. {0, low} \in SUBSET Int /\ IsFiniteSet({0, low}) /\ {0, low} # {}
    <3>1. IsFiniteSet({0}) /\ {0, low} = {0} \cup {low}
      BY FS_Singleton
    <3>2. IsFiniteSet({0} \cup {low})
      BY <3>1, FS_AddElement
    <3> QED BY <1>4, <3>1, <3>2
  <2> QED BY <2>1, ExtremesAre
<1> HIDE DEF to
<1>6. to \in 0 .. last
  BY <1>1, <1>3, <1>4, <1>5
<1>7. \E c \in shown : Panels!Place(c, expanded) = to
  BY <1>6, ShownAre DEF last
<1>8. Panels!Step(n, dir) = CHOOSE c \in shown : Panels!Place(c, expanded) = to
  <2>1. last = Panels!Cardinality(shown) - 1
    BY PanelCounts DEF last
  <2> QED BY <2>1 DEF Panels!Step, to, low, p
<1> QED BY <1>7, <1>8

-----------------------------------------------------------------------------
(* The panel's keys.                                                       *)

\* The cursor moves.
LEMMA CursorKeeps == ASSUME Panels!PanelAssumption, PanelInv, Panels!Move PROVE PanelInv'
<1>1. TreeTyped /\ SubTyped /\ sub.kind = "closed"
  BY DEF PanelInv, Panels!Move, Panels!Key
<1>2. PICK c \in {Panels!Step(n, d) : n \in {1, Panels!Page(height)}, d \in {1, -1}}
                 \cup {Panels!Min(Panels!Shown(expanded)), Panels!Max(Panels!Shown(expanded))} :
        Panels!Then(c, expanded, value)
  BY DEF Panels!Move
<1>3. c \in Panels!Shown(expanded)
  <2>1. 1 \in Int /\ Panels!Page(height) \in Int
    BY <1>1 DEF TreeTyped, Panels!Page
  <2>2. \A n \in {1, Panels!Page(height)} : \A d \in {1, -1} : Panels!Step(n, d) \in Panels!Shown(expanded)
    BY <1>1, <2>1, StepIs
  <2>3. /\ Panels!Min(Panels!Shown(expanded)) \in Panels!Shown(expanded)
        /\ Panels!Max(Panels!Shown(expanded)) \in Panels!Shown(expanded)
    <3>1. /\ Panels!Shown(expanded) \in SUBSET Int /\ IsFiniteSet(Panels!Shown(expanded))
          /\ Panels!Shown(expanded) # {}
      BY ShownAre
    <3> QED BY <3>1, ExtremesAre
  <2> QED BY <2>2, <2>3
<1>4. /\ cursor' = c /\ expanded' = expanded /\ value' = value /\ height' = height /\ marked' = marked
      /\ top' = Panels!Clamp(top, c, height, expanded, value)
  BY <1>2 DEF Panels!Move, Panels!Key, Panels!Then
<1>5. TreeTyped'
  BY <1>1, <1>3, <1>4, ScrolledTree DEF TreeTyped
<1>6. SubTyped' /\ AsToggled'
  BY <1>1, StaysClosed DEF Panels!Move
<1> QED BY <1>5, <1>6 DEF PanelInv

\* A section folds or unfolds; what is above the cursor stays unfolded.
LEMMA FoldKeeps == ASSUME Panels!PanelAssumption, PanelInv, Panels!Fold PROVE PanelInv'
<1>1. TreeTyped /\ SubTyped /\ sub.kind = "closed" /\ cursor \in Panels!Sections
  BY DEF PanelInv, Panels!Fold, Panels!Key
<1>2. PICK open \in {expanded \cup {cursor}, expanded \ {cursor}} : Panels!Then(cursor, open, value)
  BY DEF Panels!Fold
<1>3. open \subseteq Panels!Sections
  BY <1>1 DEF TreeTyped
<1>4. cursor \in Panels!Shown(open)
  <2>1. /\ cursor \in Panels!R /\ cursor \in Int
        /\ \A j \in Panels!Sections : j < cursor /\ j + PanelRows[j].kids >= cursor => j \in expanded
    BY <1>1, PanelRowsAre, ShownWhen DEF TreeTyped
  <2>2. ASSUME NEW j \in Panels!Sections, j < cursor, j + PanelRows[j].kids >= cursor PROVE j \in open
    <3>1. j \in expanded
      BY <2>1, <2>2
    <3>2. j # cursor
      BY <2>1, <2>2
    <3> QED BY <3>1, <3>2
  <2> QED BY <2>1, <2>2, ShownWhen
<1>5. /\ cursor' = cursor /\ expanded' = open /\ value' = value /\ height' = height /\ marked' = marked
      /\ top' = Panels!Clamp(top, cursor, height, open, value)
  BY <1>2 DEF Panels!Fold, Panels!Key, Panels!Then
<1>6. TreeTyped'
  BY <1>1, <1>3, <1>4, <1>5, ScrolledTree DEF TreeTyped
<1>7. SubTyped' /\ AsToggled'
  BY <1>1, StaysClosed DEF Panels!Fold
<1> QED BY <1>6, <1>7 DEF PanelInv

\* A section is armed for its action, or disarmed.
LEMMA ArmKeeps == ASSUME Panels!PanelAssumption, PanelInv, Panels!Mark PROVE PanelInv'
<1>1. TreeTyped /\ SubTyped /\ sub.kind = "closed" /\ PanelRows[cursor].kind = "section"
  BY DEF PanelInv, Panels!Mark, Panels!Key
<1>2. cursor \in Panels!Sections
  BY <1>1, ShownAre, LeavesAre DEF TreeTyped
<1>3. marked' \subseteq Panels!Sections
  BY <1>1, <1>2 DEF Panels!Mark, TreeTyped
<1>4. /\ cursor' = cursor /\ expanded' = expanded /\ value' = value /\ height' = height
      /\ top' = Panels!Clamp(top, cursor, height, expanded, value)
  BY DEF Panels!Mark, Panels!Key, Panels!Then
<1>5. TreeTyped'
  BY <1>1, <1>3, <1>4, ScrolledTree DEF TreeTyped
<1>6. SubTyped' /\ AsToggled'
  BY <1>1, StaysClosed DEF Panels!Mark
<1> QED BY <1>5, <1>6 DEF PanelInv

\* A text or an enum is edited in place.
LEMMA InPlaceKeeps == ASSUME Panels!PanelAssumption, PanelInv, Panels!Edit PROVE PanelInv'
<1>1. TreeTyped /\ SubTyped /\ sub.kind = "closed" /\ PanelRows[cursor].kind \in {"text", "enum"}
  BY DEF PanelInv, Panels!Edit, Panels!Key
<1>2. PICK x : Panels!Then(cursor, expanded, [value EXCEPT ![cursor] = x])
  <2>1. CASE \E w \in Words : Panels!Then(cursor, expanded, [value EXCEPT ![cursor] = <<w>>])
    BY <2>1
  <2>2. CASE \E d \in {1, -1} : Panels!Then(cursor, expanded, [value EXCEPT ![cursor] = Panels!Cycle(@, d)])
    <3>1. PICK d \in {1, -1} : Panels!Then(cursor, expanded, [value EXCEPT ![cursor] = Panels!Cycle(@, d)])
      BY <2>2
    <3> QED BY <3>1
  <2> QED BY <2>1, <2>2 DEF Panels!Edit
<1>3. /\ cursor' = cursor /\ expanded' = expanded /\ value' = [value EXCEPT ![cursor] = x]
      /\ height' = height /\ marked' = marked
      /\ top' = Panels!Clamp(top, cursor', height', expanded', value')
  BY <1>2 DEF Panels!Edit, Panels!Key, Panels!Then
<1>4. Holds(value')
  <2>1. DOMAIN value' = Panels!Leaves /\ \A i \in Panels!Leaves \ {cursor} : value'[i] = value[i]
    BY <1>1, <1>3 DEF TreeTyped, Holds
  <2> QED BY <1>1, <2>1 DEF TreeTyped, Holds
<1>5. TreeTyped'
  BY <1>1, <1>3, <1>4, ScrolledTree DEF TreeTyped
<1>6. SubTyped' /\ AsToggled'
  BY <1>1, StaysClosed DEF Panels!Edit
<1> QED BY <1>5, <1>6 DEF PanelInv

\* The terminal changes its height.
LEMMA HeightKeeps == ASSUME Panels!PanelAssumption, PanelInv, Panels!Resize PROVE PanelInv'
<1>1. TreeTyped /\ SubTyped /\ AsToggled
  BY DEF PanelInv
<1>2. /\ height' \in Int /\ top' = Panels!Clamp(top, cursor, height', expanded, value)
      /\ UNCHANGED <<value, expanded, marked, cursor, sub, toggled>>
  BY DEF Panels!Resize, Panels!PanelAssumption
<1>3. TreeTyped'
  BY <1>1, <1>2, ScrolledTree DEF TreeTyped
<1>4. SubTyped' /\ AsToggled'
  BY <1>1, <1>2 DEF SubTyped, AsToggled
<1> QED BY <1>3, <1>4 DEF PanelInv

\* The sub-editor opens on what the leaf holds.
LEMMA SubOpens == ASSUME Panels!PanelAssumption, PanelInv, Panels!OpenSub PROVE PanelInv'
<1>1. TreeTyped /\ PanelRows[cursor].kind \in {"list", "set"} /\ toggled' = {}
      /\ UNCHANGED <<value, expanded, marked, cursor, top, height>>
  BY DEF PanelInv, Panels!OpenSub, Panels!Key
<1> DEFINE v    == value[cursor]
           rows == IF PanelRows[cursor].kind = "set" THEN Panels!SetRows(v) ELSE Panels!ListRows(v)
<1>2. sub' = [kind |-> PanelRows[cursor].kind, at |-> 1, editing |-> FALSE, rows |-> rows]
  BY DEF Panels!OpenSub
<1>3. cursor \in Panels!Leaves
  <2>1. cursor \in Panels!R
    BY <1>1, ShownAre DEF TreeTyped
  <2> QED BY <1>1, <2>1, LeavesAre
<1>4. ASSUME PanelRows[cursor].kind = "set"
      PROVE  /\ rows \in Seq(SubRow) /\ Len(rows) \in Nat
             /\ \A j, k \in DOMAIN rows : rows[j].v = rows[k].v => j = k
             /\ \A k \in DOMAIN rows : rows[k].v \in Named /\ (rows[k].on <=> rows[k].v \in Panels!Range(v))
             /\ Panels!Range(v) \subseteq {rows[k].v : k \in DOMAIN rows}
  <2>1. v \in Seq(Named)
    BY <1>1, <1>3, <1>4 DEF TreeTyped, Holds
  <2> QED BY <1>4, <2>1, SetRowsAre
<1>5. ASSUME PanelRows[cursor].kind = "list" PROVE rows \in Seq(SubRow) /\ Len(rows) \in Nat
  <2>1. v \in Seq(STRING) /\ rows = Panels!ListRows(v)
    BY <1>1, <1>3, <1>5 DEF TreeTyped, Holds
  <2>9. ASSUME NEW w \in STRING PROVE Panels!Row(w, TRUE) \in SubRow
    BY DEF Panels!Row, SubRow, AnyName
  <2>2. /\ DOMAIN v = 1 .. Len(v) /\ Len(v) \in Nat
        /\ \A k \in 1 .. Len(v) : Panels!Row(v[k], TRUE) \in SubRow
    <3>1. DOMAIN v = 1 .. Len(v) /\ Len(v) \in Nat /\ \A k \in 1 .. Len(v) : v[k] \in STRING
      BY <2>1
    <3> QED BY <2>9, <3>1
  <2>3. rows \in [1 .. Len(v) -> SubRow]
    BY <2>1, <2>2 DEF Panels!ListRows
  <2> HIDE DEF rows, v
  <2> QED BY <2>2, <2>3, FunctionsAreLists
<1> HIDE DEF rows, v
<1>6. /\ sub'.kind = PanelRows[cursor].kind /\ sub'.at = 1 /\ sub'.editing = FALSE /\ sub'.rows = rows
      /\ sub' \in SubType
  BY <1>1, <1>2, <1>4, <1>5 DEF SubType
<1>7. SubTyped'
  <2>1. sub'.at \in 1 .. Len(sub'.rows) + 1
    BY <1>1, <1>4, <1>5, <1>6
  <2> QED BY <1>1, <1>3, <1>6, <2>1 DEF SubTyped
<1>8. AsToggled'
  <2>1. value'[cursor'] = v /\ toggled' = {}
    BY <1>1 DEF v
  <2> QED BY <1>4, <1>6, <2>1 DEF AsToggled
<1> QED BY <1>1, <1>7, <1>8, SameTree DEF PanelInv

\* What leaves the tree alone and the sub-editor with it.
LEMMA InSubKeeps ==
  ASSUME PanelInv, NEW k, Panels!InSub(k)
  PROVE  /\ TreeTyped' /\ sub.kind = k /\ cursor' = cursor /\ value' = value
         /\ sub \in SubType /\ sub.rows \in Seq(SubRow) /\ Len(sub.rows) \in Nat /\ sub.at \in 1 .. Len(sub.rows) + 1
         /\ DOMAIN sub.rows = 1 .. Len(sub.rows) /\ sub.at \in Int
<1>1. TreeTyped' /\ sub.kind = k /\ cursor' = cursor /\ value' = value
  BY SameTree DEF Panels!InSub, PanelInv
<1>2. sub \in SubType /\ sub.at \in 1 .. Len(sub.rows) + 1
  BY DEF PanelInv, SubTyped
<1>3. sub.rows \in Seq(SubRow)
  BY <1>2 DEF SubType
<1> QED BY <1>1, <1>2, <1>3

\* The sub-editor's cursor moves.
LEMMA SubMoveKeeps == ASSUME PanelInv, Panels!SubMove PROVE PanelInv'
<1>1. PICK k \in {"set", "list"} : Panels!InSub(k)
  BY DEF Panels!SubMove
<1>2. /\ TreeTyped' /\ sub.kind = k /\ cursor' = cursor /\ value' = value
      /\ sub \in SubType /\ sub.rows \in Seq(SubRow) /\ Len(sub.rows) \in Nat
  BY <1>1, InSubKeeps
<1>3. PICK at \in 1 .. Len(sub.rows) + 1 : sub' = [sub EXCEPT !.at = at] /\ toggled' = toggled
  <2>1. \A n \in Nat : 1 .. n \subseteq 1 .. n + 1
    OBVIOUS
  <2> QED BY <1>2, <2>1 DEF Panels!SubMove, Panels!Last
<1>4. /\ sub' \in SubType /\ sub'.kind = sub.kind /\ sub'.rows = sub.rows /\ sub'.at = at
      /\ sub'.editing = sub.editing /\ sub.editing = FALSE
  BY <1>2, <1>3 DEF SubType, Panels!SubMove
<1>5. SubTyped' /\ AsToggled'
  BY <1>2, <1>3, <1>4 DEF PanelInv, SubTyped, AsToggled
<1> QED BY <1>2, <1>5 DEF PanelInv

\* A row of a set is checked or unchecked.
LEMMA ToggleKeeps == ASSUME PanelInv, Panels!Toggle PROVE PanelInv'
<1> DEFINE at   == sub.at
           rows == sub.rows
           w    == rows[at].v
<1>1. /\ TreeTyped' /\ sub.kind = "set" /\ cursor' = cursor /\ value' = value
      /\ sub \in SubType /\ rows \in Seq(SubRow) /\ Len(rows) \in Nat /\ DOMAIN rows = 1 .. Len(rows)
      /\ at \in DOMAIN rows /\ at \in Int
  <2>1. Panels!InSub("set") /\ at <= Len(rows)
    BY DEF Panels!Toggle, Panels!Last
  <2> QED BY <2>1, InSubKeeps
<1>2. sub' = [sub EXCEPT !.rows[at].on = ~@]
  BY DEF Panels!Toggle
<1>3. toggled' = IF w \in toggled THEN toggled \ {w} ELSE toggled \cup {w}
  BY DEF Panels!Toggle
<1>4. \A k \in DOMAIN rows : rows[k] \in SubRow
  BY <1>1
<1> DEFINE new == [rows EXCEPT ![at].on = ~@]
<1>5. /\ new \in [1 .. Len(rows) -> SubRow] /\ DOMAIN new = DOMAIN rows
      /\ \A k \in DOMAIN rows \ {at} : new[k] = rows[k]
      /\ new[at].v = w /\ new[at].on = ~rows[at].on
  <2>1. rows[at] \in SubRow /\ [rows[at] EXCEPT !.on = ~@] \in SubRow
    BY <1>1, <1>4 DEF SubRow
  <2>2. /\ [rows[at] EXCEPT !.on = ~@].v = rows[at].v
        /\ [rows[at] EXCEPT !.on = ~@].on = ~rows[at].on
    BY <2>1 DEF SubRow
  <2>3. rows \in [1 .. Len(rows) -> SubRow]
    BY <1>1
  <2>4. new = [rows EXCEPT ![at] = [rows[at] EXCEPT !.on = ~@]]
    OBVIOUS
  <2> HIDE DEF new, rows, at
  <2> QED BY <1>1, <2>1, <2>2, <2>3, <2>4
<1>6. new \in Seq(SubRow) /\ Len(new) = Len(rows)
  BY <1>1, <1>5, FunctionsAreLists
<1>7. sub' = [sub EXCEPT !.rows = new]
  BY <1>2
<1> HIDE DEF new
<1>8. /\ sub' \in SubType /\ sub'.kind = sub.kind /\ sub'.rows = new /\ sub'.at = at
      /\ sub'.editing = sub.editing
  BY <1>1, <1>6, <1>7 DEF SubType
<1>9. SubTyped'
  BY <1>1, <1>6, <1>8 DEF PanelInv, SubTyped
<1>10. AsToggled'
  <2>1. /\ \A j, k \in DOMAIN rows : rows[j].v = rows[k].v => j = k
        /\ \A k \in DOMAIN rows :
             /\ rows[k].v \in Named
             /\ rows[k].on <=> (rows[k].v \in Panels!Range(value[cursor]) <=> rows[k].v \notin toggled)
        /\ Panels!Range(value[cursor]) \cup toggled \subseteq {rows[k].v : k \in DOMAIN rows}
    BY <1>1 DEF PanelInv, AsToggled
  <2> HIDE DEF rows
  <2>2. \A k \in DOMAIN rows : new[k].v = rows[k].v
    BY <1>5
  <2>3. ASSUME NEW k \in DOMAIN rows
        PROVE  new[k].on <=> (new[k].v \in Panels!Range(value[cursor]) <=> new[k].v \notin toggled')
    <3>1. CASE k = at
      <4>1. w \in toggled' <=> w \notin toggled
        BY <1>3
      <4>2. rows[at].on <=> (w \in Panels!Range(value[cursor]) <=> w \notin toggled)
        BY <2>1, <3>1
      <4>3. rows[at].on \in BOOLEAN
        BY <1>1, <1>4 DEF SubRow
      <4> QED BY <1>5, <3>1, <4>1, <4>2, <4>3
    <3>2. CASE k # at
      <4>1. rows[k].v # w
        BY <1>1, <2>1, <3>2
      <4>2. rows[k].v \in toggled' <=> rows[k].v \in toggled
        BY <1>3, <4>1
      <4>3. new[k] = rows[k]
        BY <1>5, <3>2
      <4> QED BY <2>1, <4>2, <4>3
    <3> QED BY <3>1, <3>2
  <2>4. {new[k].v : k \in DOMAIN new} = {rows[k].v : k \in DOMAIN rows}
    BY <1>5, <2>2
  <2>5. toggled' \subseteq {rows[k].v : k \in DOMAIN rows}
    <3>1. w \in {rows[k].v : k \in DOMAIN rows}
      BY <1>1
    <3> QED BY <1>3, <2>1, <3>1
  <2>6. \A j, k \in DOMAIN new : new[j].v = new[k].v => j = k
    BY <1>5, <2>1, <2>2
  <2>7. \A k \in DOMAIN new : new[k].v \in Named
    BY <1>5, <2>1, <2>2
  <2> QED BY <1>1, <1>5, <1>8, <2>1, <2>3, <2>4, <2>5, <2>6, <2>7 DEF AsToggled
<1> QED BY <1>1, <1>9, <1>10 DEF PanelInv

\* What a list's sub-editor makes of its rows, its cursor and its mode.
LEMMA ListKeeps ==
  ASSUME PanelInv, Panels!InSub("list"),
         NEW rows \in Seq(SubRow), NEW at \in 1 .. Len(rows) + 1, NEW editing \in BOOLEAN,
         editing => at <= Len(rows),
         sub' = [sub EXCEPT !.rows = rows, !.at = at, !.editing = editing]
  PROVE  PanelInv'
<1>1. TreeTyped' /\ sub.kind = "list" /\ cursor' = cursor /\ value' = value /\ sub \in SubType
  BY InSubKeeps
<1>2. Len(rows) \in Nat /\ at \in Nat
  OBVIOUS
<1>3. sub' \in SubType /\ sub'.kind = "list" /\ sub'.rows = rows /\ sub'.at = at /\ sub'.editing = editing
  BY <1>1, <1>2 DEF SubType
<1>4. SubTyped' /\ AsToggled'
  BY <1>1, <1>3 DEF PanelInv, SubTyped, AsToggled
<1> QED BY <1>1, <1>4 DEF PanelInv

\* A blank row is a row.
LEMMA BlankRow == Panels!Row("", TRUE) \in SubRow
<1>1. ASSUME NEW w \in AnyName PROVE Panels!Row(w, TRUE) \in SubRow
  BY DEF Panels!Row, SubRow
<1>2. "" \in AnyName
  BY DEF AnyName
<1> QED BY <1>1, <1>2

\* What is before a place of a list, and what is after it.
LEMMA PartsOfList ==
  ASSUME NEW S, NEW s \in Seq(S), NEW at \in 1 .. Len(s)
  PROVE  /\ SubSeq(s, 1, at - 1) \in Seq(S) /\ Len(SubSeq(s, 1, at - 1)) = at - 1
         /\ SubSeq(s, at + 1, Len(s)) \in Seq(S) /\ Len(SubSeq(s, at + 1, Len(s))) = Len(s) - at
<1>1. SubSeq(s, 1, at - 1) \in Seq(S) /\ Len(SubSeq(s, 1, at - 1)) = at - 1
  OBVIOUS
<1>2. SubSeq(s, at + 1, Len(s)) \in Seq(S) /\ Len(SubSeq(s, at + 1, Len(s))) = Len(s) - at
  OBVIOUS
<1> QED BY <1>1, <1>2

\* A row is added, deleted, or typed into.
LEMMA RowsOfListKeep ==
  ASSUME Panels!PanelAssumption, PanelInv, Panels!AddRow \/ Panels!DelRow \/ Panels!TypeRow
  PROVE  PanelInv'
<1> DEFINE rows == sub.rows
           n    == Len(sub.rows)
           at   == sub.at
<1>1. Panels!InSub("list")
  BY DEF Panels!AddRow, Panels!DelRow, Panels!TypeRow
<1>2. /\ sub \in SubType /\ rows \in Seq(SubRow) /\ n \in Nat /\ at \in 1 .. n + 1 /\ at \in Int
      /\ DOMAIN rows = 1 .. n
  BY <1>1, InSubKeeps
<1>3. sub = [sub EXCEPT !.rows = rows, !.at = at, !.editing = sub.editing] /\ sub.editing \in BOOLEAN
  BY <1>2 DEF SubType
<1>4. sub.editing => at <= n
  BY DEF PanelInv, SubTyped
<1>5. CASE Panels!AddRow
  <2>0. PICK row \in SubRow : sub' = [sub EXCEPT !.rows = Append(rows, row), !.at = n + 1, !.editing = TRUE]
    BY <1>5, BlankRow DEF Panels!AddRow, Panels!Last
  <2> DEFINE new == Append(rows, row)
  <2>2. new \in Seq(SubRow) /\ Len(new) = n + 1
    BY <1>2
  <2>3. sub' = [sub EXCEPT !.rows = new, !.at = n + 1, !.editing = TRUE]
    BY <2>0
  <2> HIDE DEF new
  <2>4. n + 1 \in 1 .. Len(new) + 1 /\ n + 1 <= Len(new)
    BY <1>2, <2>2
  <2> QED BY <1>1, <2>2, <2>3, <2>4, ListKeeps
<1>6. CASE Panels!DelRow
  <2> DEFINE new == SubSeq(rows, 1, at - 1) \o SubSeq(rows, at + 1, n)
  <2>1. at <= n /\ sub' = [sub EXCEPT !.rows = new] /\ sub.editing = FALSE
    <3>1. sub.editing \in BOOLEAN
      BY <1>3
    <3> QED BY <1>6, <3>1 DEF Panels!DelRow, Panels!Last
  <2>2. /\ SubSeq(rows, 1, at - 1) \in Seq(SubRow) /\ Len(SubSeq(rows, 1, at - 1)) = at - 1
        /\ SubSeq(rows, at + 1, n) \in Seq(SubRow) /\ Len(SubSeq(rows, at + 1, n)) = n - at
    <3>1. rows \in Seq(SubRow) /\ at \in 1 .. Len(rows)
      BY <1>2, <2>1
    <3> QED BY <3>1, PartsOfList
  <2>3. new \in Seq(SubRow) /\ Len(new) = n - 1
    <3>1. \A s, t \in Seq(SubRow) : s \o t \in Seq(SubRow) /\ Len(s \o t) = Len(s) + Len(t)
      OBVIOUS
    <3>2. new \in Seq(SubRow) /\ Len(new) = (at - 1) + (n - at)
      BY <2>2, <3>1
    <3>3. at \in Int /\ n \in Int
      BY <1>2
    <3> HIDE DEF new, n, at
    <3> QED BY <3>2, <3>3
  <2> HIDE DEF new
  <2>4. sub' = [sub EXCEPT !.rows = new, !.at = at, !.editing = FALSE]
    BY <1>2, <2>1 DEF SubType
  <2>5. at \in 1 .. Len(new) + 1
    BY <1>2, <2>1, <2>3
  <2> QED BY <1>1, <2>3, <2>4, <2>5, ListKeeps
<1>7. CASE Panels!TypeRow
  <2>1. CASE at <= n /\ sub' = [sub EXCEPT !.editing = TRUE]
    <3>1. sub' = [sub EXCEPT !.rows = rows, !.at = at, !.editing = TRUE]
      BY <1>2, <2>1 DEF SubType
    <3> QED BY <1>1, <1>2, <2>1, <3>1, ListKeeps
  <2>2. CASE sub' = [sub EXCEPT !.editing = FALSE]
    <3>1. sub' = [sub EXCEPT !.rows = rows, !.at = at, !.editing = FALSE]
      BY <1>2, <2>2 DEF SubType
    <3> QED BY <1>1, <1>2, <3>1, ListKeeps
  <2>3. CASE sub.editing /\ \E w \in AnyName : sub' = [sub EXCEPT !.rows[sub.at].v = w]
    <3>1. PICK w \in AnyName : sub' = [sub EXCEPT !.rows[sub.at].v = w]
      BY <2>3
    <3> DEFINE row == [rows[at] EXCEPT !.v = w]
               new == [rows EXCEPT ![at] = row]
    <3>2. at \in 1 .. n
      BY <1>2, <1>4, <2>3
    <3>3. row \in SubRow
      <4>1. rows[at] \in SubRow
        BY <1>2, <3>2
      <4> QED BY <4>1 DEF SubRow
    <3> HIDE DEF row
    <3>4. new \in [1 .. n -> SubRow]
      <4>1. rows \in [1 .. n -> SubRow]
        BY <1>2
      <4> HIDE DEF rows, n, at
      <4> QED BY <3>2, <3>3, <4>1
    <3>5. new \in Seq(SubRow) /\ Len(new) = n
      BY <1>2, <3>4, FunctionsAreLists
    <3>6. sub' = [sub EXCEPT !.rows = new]
      BY <3>1 DEF row
    <3> HIDE DEF new
    <3>7. sub' = [sub EXCEPT !.rows = new, !.at = at, !.editing = sub.editing]
      BY <1>2, <3>6 DEF SubType
    <3> QED BY <1>1, <1>2, <1>3, <1>4, <3>5, <3>7, ListKeeps
  <2>4. (Words \ {Bad}) \cup {""} \subseteq AnyName
    BY DEF Panels!PanelAssumption, AnyName
  <2> QED BY <1>7, <2>1, <2>2, <2>3, <2>4 DEF Panels!TypeRow, Panels!Last
<1> QED BY <1>5, <1>6, <1>7

\* A closed sub-editor is typed and has nothing toggled.
LEMMA ClosedIs == ASSUME sub' = Panels!Closed PROVE SubTyped' /\ AsToggled'
<1>1. <<>> \in Seq(SubRow) /\ Len(<<>>) = 0
  OBVIOUS
<1>2. /\ sub'.kind = "closed" /\ sub'.rows = <<>> /\ sub'.at = 1 /\ sub'.editing = FALSE
      /\ sub' = [kind |-> "closed", rows |-> <<>>, at |-> 1, editing |-> FALSE]
  BY DEF Panels!Closed
<1>3. sub' \in SubType
  BY <1>1, <1>2 DEF SubType
<1> QED BY <1>1, <1>2, <1>3 DEF SubTyped, AsToggled

\* The sub-editor closes and its rows are written back.
LEMMA SubDoneKeeps == ASSUME Panels!PanelAssumption, PanelInv, Panels!SubDone PROVE PanelInv'
<1>1. /\ TreeTyped /\ sub \in SubType /\ sub.kind # "closed" /\ cursor \in Panels!Leaves
  BY DEF PanelInv, SubTyped, Panels!SubDone
<1>2. Panels!Literal \in Seq(Named)
  BY <1>1, LiteralIs DEF SubType
<1>3. Panels!Literal \in Seq(STRING)
  <2>1. Named \subseteq STRING
    BY DEF Named
  <2>2. /\ Panels!Literal \in [1 .. Len(Panels!Literal) -> Named] /\ Len(Panels!Literal) \in Nat
    BY <1>2
  <2>3. Panels!Literal \in [1 .. Len(Panels!Literal) -> STRING]
    BY <2>1, <2>2
  <2> QED BY <2>2, <2>3, FunctionsAreLists
<1>4. /\ cursor' = cursor /\ expanded' = expanded /\ value' = [value EXCEPT ![cursor] = Panels!Literal]
      /\ height' = height /\ marked' = marked
      /\ top' = Panels!Clamp(top, cursor', height', expanded', value')
  BY DEF Panels!SubDone, Panels!Then
<1>5. Holds(value')
  <2>1. /\ DOMAIN value' = Panels!Leaves /\ value'[cursor] = Panels!Literal
        /\ \A i \in Panels!Leaves \ {cursor} : value'[i] = value[i]
    BY <1>1, <1>4 DEF TreeTyped, Holds
  <2> QED BY <1>1, <1>2, <1>3, <2>1 DEF TreeTyped, Holds
<1>6. TreeTyped'
  BY <1>1, <1>4, <1>5, ScrolledTree DEF TreeTyped
<1>7. SubTyped' /\ AsToggled'
  BY ClosedIs DEF Panels!SubDone
<1> QED BY <1>6, <1>7 DEF PanelInv

\* The sub-editor closes and nothing is written back.
LEMMA SubCancelKeeps == ASSUME PanelInv, Panels!SubCancel PROVE PanelInv'
<1>1. TreeTyped'
  BY InSubKeeps DEF Panels!SubCancel
<1>2. SubTyped' /\ AsToggled'
  BY ClosedIs DEF Panels!SubCancel
<1> QED BY <1>1, <1>2 DEF PanelInv

\* A save that is refused shows what is wrong; one that is not ends the panel.
LEMMA SaveKeeps == ASSUME Panels!PanelAssumption, PanelInv, Panels!Save PROVE PanelInv'
<1> DEFINE wrong == {i \in Panels!Leaves : Panels!Invalid(i, value)}
<1>1. TreeTyped /\ SubTyped /\ sub.kind = "closed" /\ marked' = marked /\ height' = height /\ UNCHANGED sub
  BY DEF PanelInv, Panels!Save
<1>2. SubTyped' /\ AsToggled'
  BY <1>1, StaysClosed
<1>3. CASE UNCHANGED <<value, expanded, cursor, top>>
  BY <1>1, <1>2, <1>3, SameTree DEF PanelInv
<1>4. ASSUME wrong # {},
             LET at == Panels!Min(wrong) IN
             Panels!Then(at, expanded \cup {j \in Panels!Sections : at \in Panels!Under(j)}, value)
      PROVE  PanelInv'
  <2> DEFINE at   == Panels!Min(wrong)
             open == expanded \cup {j \in Panels!Sections : at \in Panels!Under(j)}
  <2>1. wrong \in SUBSET Panels!R /\ wrong \in SUBSET Int /\ IsFiniteSet(wrong)
    BY PanelRowsAre, LeavesAre, FS_Subset
  <2>2. at \in Panels!R
    BY <1>4, <2>1, ExtremesAre
  <2>3. /\ cursor' = at /\ expanded' = open /\ value' = value
        /\ top' = Panels!Clamp(top, at, height, open, value)
    BY <1>4 DEF Panels!Then
  <2> HIDE DEF at
  <2>4. open \subseteq Panels!Sections
    BY <1>1 DEF TreeTyped
  <2>5. at \in Panels!Shown(open)
    BY <2>2 DEF Panels!Shown
  <2> HIDE DEF open
  <2>6. TreeTyped'
    BY <1>1, <2>3, <2>4, <2>5, ScrolledTree DEF TreeTyped
  <2> QED BY <1>2, <2>6 DEF PanelInv
<1> QED BY <1>3, <1>4 DEF Panels!Save

\* Every step keeps the invariant.
LEMMA PanelInvIsKept == ASSUME Panels!PanelAssumption, PanelInv, [Panels!Next]_Panels!vars PROVE PanelInv'
<1>1. CASE Panels!Next
  <2>1. CASE Panels!Esc
    <3>1. TreeTyped'
      BY <2>1, SameTree DEF Panels!Esc, PanelInv
    <3>2. SubTyped' /\ AsToggled'
      BY <2>1, StaysClosed DEF Panels!Esc, PanelInv
    <3> QED BY <3>1, <3>2 DEF PanelInv
  <2> QED BY <1>1, <2>1, CursorKeeps, FoldKeeps, ArmKeeps, InPlaceKeeps, HeightKeeps, SubOpens, SubMoveKeeps,
      ToggleKeeps, RowsOfListKeep, SubDoneKeeps, SubCancelKeeps, SaveKeeps DEF Panels!Next
<1>2. CASE UNCHANGED Panels!vars
  <2>1. TreeTyped'
    BY <1>2, SameTree DEF Panels!vars, PanelInv
  <2>2. SubTyped' /\ AsToggled'
    BY <1>2 DEF Panels!vars, PanelInv, SubTyped, AsToggled
  <2> QED BY <2>1, <2>2 DEF PanelInv
<1> QED BY <1>1, <1>2

\* The invariant says that the panel is typed and its cursor on the screen.
LEMMA PanelInvMeans == ASSUME Panels!PanelAssumption, PanelInv PROVE Panels!TypeOK /\ Panels!CursorOnScreen
<1>1. TreeTyped /\ SubTyped
  BY DEF PanelInv
<1>2. cursor \in Panels!R /\ top \in 0 .. Cardinality(Panels!R) - 1
  <2>1. /\ cursor \in Panels!R /\ Panels!Place(cursor, expanded) \in 0 .. Cardinality(Panels!Shown(expanded)) - 1
        /\ Cardinality(Panels!Shown(expanded)) \in Nat
        /\ Cardinality(Panels!Shown(expanded)) <= Cardinality(Panels!R)
    BY <1>1, ShownAre DEF TreeTyped
  <2>2. Cardinality(Panels!R) \in Nat
    BY PanelRowsAre, FS_CardinalityType
  <2> QED BY <1>1, <2>1, <2>2 DEF TreeTyped
<1>3. Panels!TypeOK
  BY <1>1, <1>2, PanelCounts DEF TreeTyped, SubTyped, Panels!TypeOK, Panels!Last
<1> QED BY <1>1, <1>3 DEF TreeTyped, Panels!CursorOnScreen

\* Whatever closes a set's sub-editor and changes the leaf changes what was toggled.
LEMMA SetChanges ==
  ASSUME PanelInv, [Panels!Next]_Panels!vars, sub.kind = "set", sub'.kind = "closed", value' # value
  PROVE  Panels!Range(value'[cursor]) = (Panels!Range(value[cursor]) \ toggled)
                                         \cup (toggled \ Panels!Range(value[cursor]))
<1>1. Panels!SubDone
  <2>1. ~(UNCHANGED Panels!vars)
    BY DEF Panels!vars
  <2>2. ~Panels!Move /\ ~Panels!Fold /\ ~Panels!Mark /\ ~Panels!Edit /\ ~Panels!OpenSub /\ ~Panels!Save /\ ~Panels!Esc
    BY DEF Panels!Move, Panels!Fold, Panels!Mark, Panels!Edit, Panels!OpenSub, Panels!Save, Panels!Esc, Panels!Key
  <2>3. ~Panels!Resize /\ ~Panels!SubMove /\ ~Panels!Toggle /\ ~Panels!AddRow /\ ~Panels!DelRow /\ ~Panels!TypeRow
        /\ ~Panels!SubCancel
    BY DEF Panels!Resize, Panels!SubMove, Panels!Toggle, Panels!AddRow, Panels!DelRow, Panels!TypeRow,
      Panels!SubCancel, Panels!InSub
  <2> QED BY <2>1, <2>2, <2>3 DEF Panels!Next
<1>2. /\ sub \in SubType /\ cursor \in Panels!Leaves /\ TreeTyped
      /\ \A k \in DOMAIN sub.rows :
           /\ sub.rows[k].v \in Named
           /\ sub.rows[k].on <=> (sub.rows[k].v \in Panels!Range(value[cursor]) <=> sub.rows[k].v \notin toggled)
      /\ Panels!Range(value[cursor]) \cup toggled \subseteq {sub.rows[k].v : k \in DOMAIN sub.rows}
  BY DEF PanelInv, SubTyped, AsToggled
<1>3. value'[cursor] = Panels!Literal
  BY <1>1, <1>2 DEF Panels!SubDone, Panels!Then, TreeTyped, Holds
<1>4. Panels!Range(Panels!Literal) =
        {sub.rows[k].v : k \in {i \in DOMAIN sub.rows : sub.rows[i].on /\ sub.rows[i].v \in Named}}
  BY <1>2, LiteralIs DEF SubType
<1> DEFINE rows == sub.rows
           old  == Panels!Range(value[cursor])
<1> HIDE DEF rows, old
<1>5. /\ \A k \in DOMAIN rows : rows[k].v \in Named /\ (rows[k].on <=> (rows[k].v \in old <=> rows[k].v \notin toggled))
      /\ old \cup toggled \subseteq {rows[k].v : k \in DOMAIN rows}
      /\ Panels!Range(Panels!Literal) = {rows[k].v : k \in {i \in DOMAIN rows : rows[i].on /\ rows[i].v \in Named}}
  BY <1>2, <1>4 DEF rows, old
<1>6. Panels!Range(Panels!Literal) = (old \ toggled) \cup (toggled \ old)
  <2>1. ASSUME NEW w \in Panels!Range(Panels!Literal) PROVE w \in (old \ toggled) \cup (toggled \ old)
    BY <1>5
  <2>2. ASSUME NEW w \in (old \ toggled) \cup (toggled \ old) PROVE w \in Panels!Range(Panels!Literal)
    BY <1>5
  <2> QED BY <2>1, <2>2
<1> QED BY <1>3, <1>6 DEF old

\* The panel's cursor is drawn after every key, fold, complaint and resize, and a set changes as
\* it was toggled (internal/render/editor.go, clampScroll; internal/render/collection.go, literal).
THEOREM PanelIsDrawn ==
  ASSUME Panels!PanelAssumption
  PROVE  Panels!Spec => [](Panels!TypeOK /\ Panels!CursorOnScreen) /\ Panels!SetChangesAsToggled
<1>1. Panels!Init => PanelInv
  BY PanelInit
<1>2. PanelInv /\ [Panels!Next]_Panels!vars => PanelInv'
  BY PanelInvIsKept
<1>3. PanelInv => Panels!TypeOK /\ Panels!CursorOnScreen
  BY PanelInvMeans
<1>4. PanelInv /\ [Panels!Next]_Panels!vars =>
        [sub.kind = "set" /\ sub'.kind = "closed" /\ value' # value =>
           Panels!Range(value'[cursor]) = (Panels!Range(value[cursor]) \ toggled)
                                          \cup (toggled \ Panels!Range(value[cursor]))]_Panels!vars
  BY SetChanges
<1> QED BY <1>1, <1>2, <1>3, <1>4, PTL DEF Panels!Spec, Panels!SetChangesAsToggled

-----------------------------------------------------------------------------
(* The harness: its invariant, of the runs with an open quote, the pane,   *)
(* its screen, the processes, what the tags printed and the quiet ones.    *)

PaneLines    == Shell!Tags \cup {Shell!Owner}
PlacesOrNone == Dirs \cup {"none", "words"}
PaneType == [at: {"prompt", "busy", "more"}, now: Seq(PaneLines), ran: Seq(PaneLines),
             last: PaneLines, open: Seq(PaneLines), typed: Seq(PaneLines), half: BOOLEAN, pwd: Dirs]
PaneRow  == {row \in [k: {"echo", "out", "mark"}, by: PaneLines, val: PlacesOrNone, code: Seq(PaneLines)] :
               row.k # "out" => row.val \notin Dirs}
RunType  == [pc: {"new", "flush", "send", "wait", "done", "failed"}, dir: PlacesOrNone, probed: BOOLEAN,
             out: Seq(PaneRow), rc: Seq(PaneLines)]

Opens(R, t) == t.who \in R /\ t.what = "cmd"
IsIn(t, l)    == \E i \in 1 .. Len(l) : l[i] = t

\* A list that ends with the echo of t: its command's own, or that of the quote it closed too.
ListOf(R, l, t) ==
  \/ l = <<t>> /\ ~Opens(R, t)
  \/ \E o \in Shell!Tags : o # t /\ Opens(R, o) /\ Opens(R, t) /\ l = <<o, t>>

\* At a prompt nothing runs, inside a quote one line is open, a list ends with its echo.
PaneIs(R, p) ==
  /\ p \in PaneType
  /\ p.at = "prompt" => p.open = <<>>
  /\ p.at = "more" => \E o \in Shell!Tags : Opens(R, o) /\ p.open = <<o>>
  /\ p.at # "busy" => p.now = <<>> /\ p.ran = <<>> /\ p.last = Shell!Owner
  /\ p.at = "busy" => p.open = <<>> /\ ListOf(R, p.ran, p.last) /\ p.now \in {p.ran, <<p.last>>, <<>>}

\* The lines the pane still has, those of them that have not printed, the rows of a line.
InHand(p, t)  == IsIn(t, p.typed) \/ IsIn(t, p.open) \/ IsIn(t, p.ran)
Pending(p, t) == IsIn(t, p.typed) \/ IsIn(t, p.open) \/ IsIn(t, p.now)
HasRow(s, k, t)  == \E i \in 1 .. Len(s) : s[i].k = k /\ s[i].by = t

\* A run has yet to send this line; a run has read its answer.
Unsent(m, t) ==
  IF t.what = "cmd" THEN m[t.who].pc \in {"new", "flush", "send"} \/ m[t.who].dir = "none"
  ELSE ~m[t.who].probed \/ (m[t.who].pc \in {"flush", "send"} /\ m[t.who].dir = "none")
IsOver(m, t) ==
  IF t.what = "cmd" THEN m[t.who].pc = "done" ELSE m[t.who].probed /\ m[t.who].dir # "none"

\* A line is typed once, printed once and answered once.
LinesLive(p, s, m, d, q) ==
  /\ \A i, j \in 1 .. Len(p.typed) : p.typed[i] = p.typed[j] => i = j \/ p.typed[i] = Shell!Owner
  /\ \A t \in Shell!Tags :
       /\ Unsent(m, t) => /\ ~InHand(p, t) /\ t \notin q /\ d[t] = "none"
                          /\ \A i \in 1 .. Len(s) : s[i].by # t
       /\ IsOver(m, t) => ~InHand(p, t)
       /\ IsIn(t, p.typed) => ~IsIn(t, p.open) /\ ~IsIn(t, p.ran)
       /\ Pending(p, t) => d[t] = "none" /\ ~HasRow(s, "out", t)
       /\ InHand(p, t) => ~HasRow(s, "mark", t)

MarksAre(R, s) ==
  \A i \in 1 .. Len(s) : s[i].k = "mark" => s[i].by \in Shell!Tags /\ ListOf(R, s[i].code, s[i].by)

\* Before its echo, the last output is what the line printed.
AnsweredBy(s, d, t, n) ==
  \E i \in 1 .. n - 1 : s[i] = Shell!Printed(t, d[t]) /\ \A j \in i + 1 .. n - 1 : s[j].k # "out"

Answers(p, s, d) ==
  \A t \in Shell!Tags : t.what = "pwd" =>
    /\ p.last = t /\ p.now = <<>> => AnsweredBy(s, d, t, Len(s) + 1)
    /\ \A n \in 1 .. Len(s) : s[n].k = "mark" /\ s[n].by = t => AnsweredBy(s, d, t, n)

\* Between two rows there is what a line printed, and no other output.
Said(s, d, t, e, n) ==
  IF d[t] = "none" THEN \A j \in e + 1 .. n - 1 : s[j].k # "out"
  ELSE \E i \in e + 1 .. n - 1 : /\ s[i] = Shell!Printed(t, d[t])
                                  /\ \A j \in e + 1 .. n - 1 : s[j].k = "out" => j = i

QuietAt(p, s, d, t, e) ==
  /\ s[e].k = "echo" /\ s[e].by = t
  /\ \A i \in 1 .. Len(s) : s[i].k = "echo" /\ s[i].by = t => i = e
  /\ p.last = t => Said(s, d, t, e, Len(s) + 1)
  /\ \A n \in 1 .. Len(s) : s[n].k = "mark" /\ s[n].by = t => e < n /\ Said(s, d, t, e, n)

Quiets(R, p, s, d, q) ==
  \A t \in q :
    /\ ~IsIn(t, p.typed)
    /\ Opens(R, t) => p.last # t /\ ~HasRow(s, "mark", t)
    /\ \E e \in 1 .. Len(s) : QuietAt(p, s, d, t, e)

\* These rows hold the output of the line t and no other.
Prints(rows, t, d) ==
  IF d[t] = "none" THEN Shell!Outputs(rows) = {}
  ELSE \E i \in DOMAIN rows : Shell!Outputs(rows) = {i} /\ rows[i] = Shell!Printed(t, d[t])

RunIs(R, m, d, q, r) ==
  /\ m[r].pc = "new" => ~m[r].probed /\ m[r].dir = "none"
  /\ m[r].pc # "new" /\ m[r].dir = "none" => m[r].probed
  /\ m[r].pc = "done" =>
       /\ m[r].dir # "none" /\ ListOf(R, m[r].rc, Shell!Tag(r, "cmd"))
       /\ Shell!Tag(r, "cmd") \in q => Prints(m[r].out, Shell!Tag(r, "cmd"), d)
  /\ m[r].probed /\ m[r].dir \in Dirs => m[r].dir = d[Shell!Tag(r, "pwd")]

ShellTyped(R, s, m, d, q) ==
  /\ R \subseteq HarnessRuns /\ s \in Seq(PaneRow) /\ m \in [HarnessRuns -> RunType]
  /\ d \in [Shell!Tags -> PlacesOrNone] /\ q \subseteq Shell!Tags

Paned(R, p, s, m, d, q) ==
  /\ ShellTyped(R, s, m, d, q) /\ PaneIs(R, p) /\ LinesLive(p, s, m, d, q) /\ MarksAre(R, s) /\ Answers(p, s, d)
  /\ Quiets(R, p, s, d, q) /\ \A r \in HarnessRuns : RunIs(R, m, d, q, r)

ShellInv ==
  /\ Paned(Ragged, pane, screen, runMu, did, quiet)
  /\ alive \in BOOLEAN /\ anchor \in PlacesOrNone
  /\ pane.at = "prompt" => pane.typed = <<>>
  /\ ~alive => screen = <<>>

-----------------------------------------------------------------------------
(* Rows come at the end of the screen.                                     *)

\* The owner is no run, and leaves no quote open.
LEMMA OwnerIs ==
  ASSUME Shell!HarnessAssumption
  PROVE  /\ Shell!Owner \notin Shell!Tags
         /\ \A R : R \subseteq HarnessRuns => ~Opens(R, Shell!Owner)
         /\ \A t \in Shell!Tags : t.who \in HarnessRuns /\ t.what \in {"pwd", "cmd"} /\ t = Shell!Tag(t.who, t.what)
         /\ \A r \in HarnessRuns : Shell!Tag(r, "cmd") \in Shell!Tags /\ Shell!Tag(r, "pwd") \in Shell!Tags
<1>1. Shell!Owner.who = "owner" /\ Shell!Owner.what = "cmd"
  BY DEF Shell!Owner, Shell!Tag
<1>2. "owner" \notin HarnessRuns
  BY DEF Shell!HarnessAssumption
<1>3. \A t \in Shell!Tags : t.who \in HarnessRuns /\ t.what \in {"pwd", "cmd"} /\ t = Shell!Tag(t.who, t.what)
  BY DEF Shell!Tags, Shell!Tag
<1>4. Shell!Owner \notin Shell!Tags
  BY <1>1, <1>2, <1>3
<1>5. \A R : R \subseteq HarnessRuns => ~Opens(R, Shell!Owner)
  BY <1>1, <1>2 DEF Opens
<1>6. \A r \in HarnessRuns : Shell!Tag(r, "cmd") \in Shell!Tags /\ Shell!Tag(r, "pwd") \in Shell!Tags
  BY DEF Shell!Tags, Shell!Tag
<1> QED BY <1>3, <1>4, <1>5, <1>6

\* What a line without a directory leaves for one.
LEMMA NoPlace ==
  ASSUME Shell!HarnessAssumption
  PROVE  {Shell!None, Shell!Slashed} \subseteq PlacesOrNone \ Dirs /\ Shell!None = "none"
BY DEF Shell!HarnessAssumption, Shell!None, Shell!Slashed, PlacesOrNone

\* A row more.
LEMMA RowMore ==
  ASSUME NEW s \in Seq(PaneRow), NEW row \in PaneRow
  PROVE  /\ Append(s, row) \in Seq(PaneRow) /\ Len(s) \in Nat /\ Len(Append(s, row)) = Len(s) + 1
         /\ \A i \in 1 .. Len(s) : Append(s, row)[i] = s[i]
         /\ Append(s, row)[Len(s) + 1] = row
OBVIOUS

\* What was answered or said stays so, whatever comes below.
LEMMA SaidStays ==
  ASSUME NEW s, NEW z, NEW d, NEW c, NEW t, NEW e, NEW n, \A i \in 1 .. n - 1 : z[i] = s[i], c[t] = d[t],
         e \in Nat, n \in Nat
  PROVE  /\ AnsweredBy(s, d, t, n) => AnsweredBy(z, c, t, n)
         /\ Said(s, d, t, e, n) => Said(z, c, t, e, n)
<1>1. AnsweredBy(s, d, t, n) => AnsweredBy(z, c, t, n)
  <2>1. SUFFICES ASSUME AnsweredBy(s, d, t, n) PROVE AnsweredBy(z, c, t, n)
    OBVIOUS
  <2>2. PICK i \in 1 .. n - 1 : s[i] = Shell!Printed(t, d[t]) /\ \A j \in i + 1 .. n - 1 : s[j].k # "out"
    BY <2>1 DEF AnsweredBy
  <2>3. \A j \in i + 1 .. n - 1 : j \in 1 .. n - 1
    OBVIOUS
  <2> QED BY <2>2, <2>3 DEF AnsweredBy
<1>2. Said(s, d, t, e, n) => Said(z, c, t, e, n)
  <2>1. \A j \in e + 1 .. n - 1 : j \in 1 .. n - 1
    OBVIOUS
  <2> QED BY <2>1 DEF Said
<1> QED BY <1>1, <1>2

\* A row that is no output neither answers nor says anything.
LEMMA SaidBeyond ==
  ASSUME NEW s, NEW d, NEW t, NEW e, NEW n, e \in Nat, n \in Nat, e < n, s[n].k # "out"
  PROVE  /\ AnsweredBy(s, d, t, n) => AnsweredBy(s, d, t, n + 1)
         /\ Said(s, d, t, e, n) => Said(s, d, t, e, n + 1)
<1>1. \A i \in Nat : \A j \in i + 1 .. (n + 1) - 1 : j \in i + 1 .. n - 1 \/ j = n
  OBVIOUS
<1>2. \A i \in Nat : \A j \in i + 1 .. n - 1 : j \in i + 1 .. (n + 1) - 1
  OBVIOUS
<1>3. AnsweredBy(s, d, t, n) => AnsweredBy(s, d, t, n + 1)
  <2>1. SUFFICES ASSUME AnsweredBy(s, d, t, n) PROVE AnsweredBy(s, d, t, n + 1)
    OBVIOUS
  <2>2. PICK i \in 1 .. n - 1 : s[i] = Shell!Printed(t, d[t]) /\ \A j \in i + 1 .. n - 1 : s[j].k # "out"
    BY <2>1 DEF AnsweredBy
  <2>3. i \in Nat /\ i \in 1 .. (n + 1) - 1
    OBVIOUS
  <2> QED BY <1>1, <2>2, <2>3 DEF AnsweredBy
<1>4. Said(s, d, t, e, n) => Said(s, d, t, e, n + 1)
  BY <1>1, <1>2 DEF Said
<1> QED BY <1>3, <1>4

\* The echo of a line that is sent and not quiet.
LEMMA EchoKeeps ==
  ASSUME Shell!HarnessAssumption, NEW R, NEW p, NEW s, NEW m, NEW d, NEW q, Paned(R, p, s, m, d, q),
         NEW t \in PaneLines, t \in Shell!Tags => ~Unsent(m, t) /\ t \notin q,
         NEW v \in PlacesOrNone \ Dirs
  PROVE  Paned(R, p, Append(s, Shell!Echo(t, v)), m, d, q)
<1> DEFINE row == Shell!Echo(t, v)
           z   == Append(s, row)
           n   == Len(s)
<1>1. row \in PaneRow /\ row.k = "echo" /\ row.by = t
  <2>1. <<>> \in Seq(PaneLines)
    OBVIOUS
  <2> QED BY <2>1 DEF Shell!Echo, PaneRow
<1>2. /\ ShellTyped(R, s, m, d, q) /\ PaneIs(R, p) /\ LinesLive(p, s, m, d, q) /\ MarksAre(R, s)
      /\ Answers(p, s, d)
      /\ Quiets(R, p, s, d, q) /\ \A r \in HarnessRuns : RunIs(R, m, d, q, r)
  BY DEF Paned
<1>3. /\ z \in Seq(PaneRow) /\ n \in Nat /\ Len(z) = n + 1 /\ \A i \in 1 .. n : z[i] = s[i]
      /\ z[n + 1] = row
  BY <1>1, <1>2, RowMore DEF ShellTyped
<1> HIDE DEF row, z, n
<1>4. \A i \in 1 .. Len(z) : i \in 1 .. n \/ (i = n + 1 /\ z[i].k = "echo" /\ z[i].by = t)
  BY <1>1, <1>3
<1>5. ShellTyped(R, z, m, d, q)
  BY <1>2, <1>3 DEF ShellTyped
<1>6. /\ \A k, u : k # "echo" => (HasRow(z, k, u) <=> HasRow(s, k, u))
      /\ \A u \in Shell!Tags : (\A i \in 1 .. n : s[i].by # u) /\ t # u => \A i \in 1 .. Len(z) : z[i].by # u
  <2>1. \A i \in 1 .. n : i \in 1 .. Len(z)
    BY <1>3
  <2>2. \A k, u : k # "echo" => (HasRow(z, k, u) <=> HasRow(s, k, u))
    BY <1>3, <1>4, <2>1 DEF HasRow, n
  <2> QED BY <1>3, <1>4, <2>2
<1>7. LinesLive(p, z, m, d, q)
  BY <1>2, <1>6 DEF LinesLive, n
<1>8. MarksAre(R, z)
  BY <1>2, <1>3, <1>4 DEF MarksAre, n
<1>9. Answers(p, z, d)
  <2>1. SUFFICES ASSUME NEW u \in Shell!Tags, u.what = "pwd"
                 PROVE  /\ p.last = u /\ p.now = <<>> => AnsweredBy(z, d, u, n + 2)
                        /\ \A k \in 1 .. n : z[k].k = "mark" /\ z[k].by = u => AnsweredBy(z, d, u, k)
    BY <1>3, <1>4 DEF Answers
  <2>2. ASSUME p.last = u, p.now = <<>> PROVE AnsweredBy(z, d, u, n + 2)
    <3>1. AnsweredBy(s, d, u, n + 1)
      BY <1>2, <2>1, <2>2 DEF Answers, n
    <3>2. AnsweredBy(z, d, u, n + 1)
      <4>1. n + 1 \in Nat /\ 0 \in Nat /\ \A i \in 1 .. (n + 1) - 1 : z[i] = s[i]
        BY <1>3
      <4> QED BY <3>1, <4>1, SaidStays
    <3>3. z[n + 1].k # "out" /\ n + 1 \in Nat /\ 0 \in Nat /\ 0 < n + 1 /\ (n + 1) + 1 = n + 2
      BY <1>1, <1>3
    <3> QED BY <3>2, <3>3, SaidBeyond
  <2>3. ASSUME NEW k \in 1 .. n, z[k].k = "mark", z[k].by = u PROVE AnsweredBy(z, d, u, k)
    <3>1. AnsweredBy(s, d, u, k)
      BY <1>2, <1>3, <2>1, <2>3 DEF Answers, n
    <3>2. \A i \in 1 .. k - 1 : z[i] = s[i]
      BY <1>3
    <3>3. k \in Nat /\ 0 \in Nat
      OBVIOUS
    <3> QED BY <3>1, <3>2, <3>3, SaidStays
  <2> QED BY <2>2, <2>3
<1>10. Quiets(R, p, z, d, q)
  <2>1. SUFFICES ASSUME NEW u \in q
                 PROVE  /\ ~IsIn(u, p.typed)
                        /\ Opens(R, u) => p.last # u /\ ~HasRow(z, "mark", u)
                        /\ \E e \in 1 .. Len(z) : QuietAt(p, z, d, u, e)
    BY DEF Quiets
  <2>2. u # t
    BY <1>2, <2>1 DEF ShellTyped
  <2>3. PICK e \in 1 .. n : QuietAt(p, s, d, u, e)
    BY <1>2 DEF Quiets, n
  <2>4. e \in 1 .. Len(z) /\ e \in Nat /\ e < n + 1 /\ n + 1 \in Nat /\ (n + 1) + 1 = Len(z) + 1
    BY <1>3
  <2>5. z[e].k = "echo" /\ z[e].by = u /\ \A i \in 1 .. Len(z) : z[i].k = "echo" /\ z[i].by = u => i = e
    BY <1>3, <1>4, <2>2, <2>3 DEF QuietAt, n
  <2>6. p.last = u => Said(z, d, u, e, Len(z) + 1)
    <3>1. p.last = u => Said(s, d, u, e, n + 1)
      BY <2>3 DEF QuietAt, n
    <3>2. p.last = u => Said(z, d, u, e, n + 1)
      BY <1>3, <2>4, <3>1, SaidStays
    <3>3. z[n + 1].k # "out"
      BY <1>1, <1>3
    <3> QED BY <2>4, <3>2, <3>3, SaidBeyond
  <2>7. ASSUME NEW k \in 1 .. Len(z), z[k].k = "mark", z[k].by = u PROVE e < k /\ Said(z, d, u, e, k)
    <3>1. k \in 1 .. n
      BY <1>4, <2>7
    <3>2. e < k /\ Said(s, d, u, e, k)
      BY <1>3, <2>3, <2>7, <3>1 DEF QuietAt, n
    <3>3. \A i \in 1 .. k - 1 : z[i] = s[i]
      BY <1>3, <3>1
    <3>4. k \in Nat
      BY <3>1
    <3> QED BY <2>4, <3>2, <3>3, <3>4, SaidStays
  <2>8. QuietAt(p, z, d, u, e)
    BY <2>5, <2>6, <2>7 DEF QuietAt
  <2>9. Opens(R, u) => p.last # u /\ ~HasRow(z, "mark", u)
    BY <1>2, <1>6, <2>1 DEF Quiets
  <2> QED BY <1>2, <2>1, <2>4, <2>8, <2>9 DEF Quiets
<1> QED BY <1>2, <1>5, <1>7, <1>8, <1>9, <1>10 DEF Paned, z, row

-----------------------------------------------------------------------------
(* The pane takes a line, or gives one up.                                 *)

\* A line the pane may take: sent, not answered, and nowhere yet.
Ready(p, s, m, d, q, t) ==
  t \in Shell!Tags => /\ ~Unsent(m, t) /\ ~IsOver(m, t) /\ ~InHand(p, t) /\ t \notin q
                      /\ d[t] = "none" /\ ~HasRow(s, "out", t) /\ ~HasRow(s, "mark", t)

\* From p to z at most the line t is new.
Takes(p, z, t) ==
  /\ \A i, j \in 1 .. Len(z.typed) : z.typed[i] = z.typed[j] => i = j \/ z.typed[i] = Shell!Owner
  /\ \A u \in Shell!Tags :
       /\ IsIn(u, z.typed) => ~IsIn(u, z.open) /\ ~IsIn(u, z.ran)
       /\ u # t => /\ IsIn(u, z.typed) => IsIn(u, p.typed)
                   /\ InHand(z, u) => InHand(p, u)
                   /\ Pending(z, u) => Pending(p, u)
                   /\ z.last = u => p.last = u /\ (u.what = "pwd" /\ z.now = <<>> => p.now = <<>>)
  /\ t \in Shell!Tags /\ z.last = t => z.now # <<>>

\* A pane that takes no more than that keeps the invariant.
LEMMA PaneKeeps ==
  ASSUME NEW R, NEW p, NEW s, NEW m, NEW d, NEW q, Paned(R, p, s, m, d, q),
         NEW t, Ready(p, s, m, d, q, t), NEW z, PaneIs(R, z), Takes(p, z, t)
  PROVE  Paned(R, z, s, m, d, q)
<1>1. /\ ShellTyped(R, s, m, d, q) /\ LinesLive(p, s, m, d, q) /\ MarksAre(R, s) /\ Answers(p, s, d)
      /\ Quiets(R, p, s, d, q) /\ \A r \in HarnessRuns : RunIs(R, m, d, q, r)
  BY DEF Paned
<1>4. t \in Shell!Tags => ~Unsent(m, t) /\ ~IsOver(m, t) /\ t \notin q /\ d[t] = "none"
      /\ ~HasRow(s, "out", t) /\ ~HasRow(s, "mark", t)
  BY DEF Ready
<1>5. LinesLive(z, s, m, d, q)
  BY <1>1, <1>4 DEF LinesLive, Takes
<1>6. Answers(z, s, d)
  <2>1. SUFFICES ASSUME NEW u \in Shell!Tags, u.what = "pwd"
                 PROVE  /\ z.last = u /\ z.now = <<>> => AnsweredBy(s, d, u, Len(s) + 1)
                        /\ \A n \in 1 .. Len(s) : s[n].k = "mark" /\ s[n].by = u => AnsweredBy(s, d, u, n)
    BY DEF Answers
  <2>2. z.last = u /\ z.now = <<>> => p.last = u /\ p.now = <<>>
    BY <2>1 DEF Takes
  <2> QED BY <1>1, <2>1, <2>2 DEF Answers
<1>7. Quiets(R, z, s, d, q)
  <2>1. SUFFICES ASSUME NEW u \in q
                 PROVE  /\ ~IsIn(u, z.typed)
                        /\ Opens(R, u) => z.last # u /\ ~HasRow(s, "mark", u)
                        /\ \E e \in 1 .. Len(s) : QuietAt(z, s, d, u, e)
    BY DEF Quiets
  <2>2. u \in Shell!Tags /\ u # t
    BY <1>1, <1>4 DEF ShellTyped
  <2>3. (IsIn(u, z.typed) => IsIn(u, p.typed)) /\ (z.last = u => p.last = u)
    BY <2>2 DEF Takes
  <2>4. /\ ~IsIn(u, p.typed)
        /\ Opens(R, u) => p.last # u /\ ~HasRow(s, "mark", u)
        /\ \E e \in 1 .. Len(s) : QuietAt(p, s, d, u, e)
    BY <1>1 DEF Quiets
  <2> QED BY <2>3, <2>4 DEF QuietAt
<1> QED BY <1>1, <1>5, <1>6, <1>7 DEF Paned

\* No line is in none.
LEMMA NoLine == \A u : ~IsIn(u, <<>>)
BY DEF IsIn

\* A list of one line.
LEMMA OneLine == \A t : Append(<<>>, t) = <<t>> /\ <<t>> # <<>> /\ \A u : IsIn(u, <<t>>) <=> u = t
<1>1. \A t : <<t>> # <<>> /\ \A u : IsIn(u, <<t>>) <=> u = t
  BY DEF IsIn
<1>2. ASSUME NEW t PROVE Append(<<>>, t) = <<t>>
  <2>1. <<>> \in Seq({t}) /\ Len(<<>>) = 0
    OBVIOUS
  <2>2. Append(<<>>, t) \in Seq({t}) /\ Len(Append(<<>>, t)) = 1 /\ Append(<<>>, t)[1] = t
    BY <2>1
  <2>3. <<t>> \in Seq({t}) /\ Len(<<t>>) = 1 /\ <<t>>[1] = t
    OBVIOUS
  <2>4. \A i \in 1 .. 1 : Append(<<>>, t)[i] = <<t>>[i]
    BY <2>2, <2>3
  <2> QED BY <2>2, <2>3, <2>4, SeqEqual
<1> QED BY <1>1, <1>2

\* A list of two lines.
LEMMA TwoLines ==
  \A o, t : Append(<<o>>, t) = <<o, t>> /\ <<o, t>> # <<>> /\ \A u : IsIn(u, <<o, t>>) <=> (u = o \/ u = t)
<1> SUFFICES ASSUME NEW o, NEW t
             PROVE  Append(<<o>>, t) = <<o, t>> /\ <<o, t>> # <<>>
                    /\ \A u : IsIn(u, <<o, t>>) <=> (u = o \/ u = t)
  OBVIOUS
<1>1. Append(<<o>>, t) = <<o, t>> /\ <<o, t>> # <<>>
  <2>1. <<o>> \in Seq({o, t}) /\ Len(<<o>>) = 1 /\ <<o>>[1] = o
    OBVIOUS
  <2>2. Append(<<o>>, t) \in Seq({o, t}) /\ Len(Append(<<o>>, t)) = 2
        /\ Append(<<o>>, t)[1] = o /\ Append(<<o>>, t)[2] = t
    BY <2>1
  <2>3. /\ <<o, t>> \in Seq({o, t}) /\ Len(<<o, t>>) = 2 /\ <<o, t>>[1] = o /\ <<o, t>>[2] = t
        /\ <<o, t>> # <<>>
    OBVIOUS
  <2>4. \A i \in 1 .. 2 : Append(<<o>>, t)[i] = <<o, t>>[i]
    <3>1. \A i \in 1 .. 2 : i = 1 \/ i = 2
      OBVIOUS
    <3> QED BY <2>2, <2>3, <3>1
  <2>5. Append(<<o>>, t) = <<o, t>>
    BY <2>2, <2>3, <2>4, SeqEqual
  <2> QED BY <2>3, <2>5
<1>2. \A u : IsIn(u, <<o, t>>) <=> (u = o \/ u = t)
  <2>1. Len(<<o, t>>) = 2 /\ <<o, t>>[1] = o /\ <<o, t>>[2] = t /\ 1 \in 1 .. 2 /\ 2 \in 1 .. 2
    OBVIOUS
  <2>2. \A i \in 1 .. 2 : i = 1 \/ i = 2
    OBVIOUS
  <2> QED BY <2>1, <2>2 DEF IsIn
<1> QED BY <1>1, <1>2

\* The first line of a list, and the rest.
LEMMA FirstLines ==
  \A o, t : Head(<<t>>) = t /\ Tail(<<t>>) = <<>> /\ Head(<<o, t>>) = o /\ Tail(<<o, t>>) = <<t>>
<1>1. ASSUME NEW t PROVE Head(<<t>>) = t /\ Tail(<<t>>) = <<>>
  <2>1. <<t>> \in Seq({t}) /\ Len(<<t>>) = 1 /\ <<t>>[1] = t /\ <<t>> # <<>>
    OBVIOUS
  <2>2. <<>> \in Seq({t}) /\ Len(<<>>) = 0
    OBVIOUS
  <2>3. Tail(<<t>>) \in Seq({t}) /\ Len(Tail(<<t>>)) = 0
    BY <2>1
  <2>4. \A i \in 1 .. Len(Tail(<<t>>)) : Tail(<<t>>)[i] = <<>>[i]
    BY <2>3
  <2>5. Tail(<<t>>) = <<>>
    BY <2>2, <2>3, <2>4, SeqEqual
  <2> QED BY <2>1, <2>5
<1>2. ASSUME NEW o, NEW t PROVE Head(<<o, t>>) = o /\ Tail(<<o, t>>) = <<t>>
  <2>1. /\ <<o, t>> \in Seq({o, t}) /\ Len(<<o, t>>) = 2 /\ <<o, t>>[1] = o /\ <<o, t>>[2] = t
        /\ <<t>> \in Seq({o, t}) /\ Len(<<t>>) = 1 /\ <<t>>[1] = t
    OBVIOUS
  <2>2. Tail(<<o, t>>) \in Seq({o, t}) /\ Len(Tail(<<o, t>>)) = 1 /\ Tail(<<o, t>>)[1] = t
    BY <2>1
  <2>3. \A i \in 1 .. 1 : Tail(<<o, t>>)[i] = <<t>>[i]
    BY <2>1, <2>2
  <2>4. Tail(<<o, t>>) = <<t>>
    BY <2>1, <2>2, <2>3, SeqEqual
  <2> QED BY <2>1, <2>4
<1> QED BY <1>1, <1>2

\* A list has the line it ends with.
LEMMA EndIsIn ==
  ASSUME NEW R, NEW l, NEW t, ListOf(R, l, t)
  PROVE  IsIn(t, l) /\ l # <<>>
<1>1. CASE l = <<t>>
  BY <1>1, OneLine
<1>2. CASE \E o \in Shell!Tags : l = <<o, t>>
  BY <1>2, TwoLines
<1> QED BY <1>1, <1>2 DEF ListOf

\* What the shell has read is at work or open.
LEMMA TakesOne ==
  ASSUME NEW p, NEW z, NEW t, z.typed = p.typed,
         \A i, j \in 1 .. Len(p.typed) : p.typed[i] = p.typed[j] => i = j \/ p.typed[i] = Shell!Owner,
         \A u \in Shell!Tags : IsIn(u, z.open) \/ IsIn(u, z.ran) \/ IsIn(u, z.now) => u = t \/ IsIn(u, p.open),
         \A u \in Shell!Tags : IsIn(u, p.typed) => ~IsIn(u, p.open),
         t \in Shell!Tags => ~IsIn(t, p.typed),
         \A u \in Shell!Tags : z.last = u => u = t,
         t \in Shell!Tags /\ z.last = t => z.now # <<>>
  PROVE  Takes(p, z, t)
<1>1. \A u \in Shell!Tags : IsIn(u, z.typed) => ~IsIn(u, z.open) /\ ~IsIn(u, z.ran)
  OBVIOUS
<1>2. ASSUME NEW u \in Shell!Tags, u # t
      PROVE  /\ InHand(z, u) => InHand(p, u)
             /\ Pending(z, u) => Pending(p, u)
             /\ z.last # u
  BY <1>2 DEF InHand, Pending
<1> QED BY <1>1, <1>2 DEF Takes

\* The shell reads a line it has not had.
LEMMA ReadTakes ==
  ASSUME Shell!HarnessAssumption, Ragged \subseteq HarnessRuns, NEW p, PaneIs(Ragged, p), p.at # "busy",
         NEW t \in PaneLines,
         t \in Shell!Tags => ~InHand(p, t),
         \A i, j \in 1 .. Len(p.typed) : p.typed[i] = p.typed[j] => i = j \/ p.typed[i] = Shell!Owner,
         \A u \in Shell!Tags : IsIn(u, p.typed) => ~IsIn(u, p.open)
  PROVE  PaneIs(Ragged, Shell!Reads(p, t)) /\ Takes(p, Shell!Reads(p, t), t)
<1> DEFINE z == Shell!Reads(p, t)
<1>1. /\ p \in PaneType /\ p.now = <<>> /\ p.ran = <<>> /\ p.last = Shell!Owner
      /\ \/ p.at = "prompt" /\ p.open = <<>>
         \/ p.at = "more" /\ \E o \in Shell!Tags : Opens(Ragged, o) /\ p.open = <<o>>
  BY DEF PaneIs, PaneType
<1>2. Shell!Owner \notin Shell!Tags /\ ~Opens(Ragged, Shell!Owner) /\ (Shell!OpensQuote(t) <=> Opens(Ragged, t))
  BY OwnerIs DEF Opens, Shell!OpensQuote
<1>3. t \in Shell!Tags => ~IsIn(t, p.typed) /\ ~IsIn(t, p.open)
  BY DEF InHand
<1>4. CASE Opens(Ragged, t) /\ p.open = <<>>
  <2>1. z = [p EXCEPT !.at = "more", !.open = <<t>>] /\ t \in Shell!Tags
    BY <1>2, <1>4 DEF Shell!Reads, PaneLines
  <2>2. /\ z \in PaneType /\ z.at = "more" /\ z.open = <<t>> /\ z.now = <<>> /\ z.ran = <<>>
        /\ z.last = Shell!Owner /\ z.typed = p.typed
    <3>1. <<t>> \in Seq(PaneLines)
      OBVIOUS
    <3> QED BY <1>1, <2>1, <3>1 DEF PaneType
  <2>3. PaneIs(Ragged, z)
    BY <1>4, <2>1, <2>2 DEF PaneIs
  <2> HIDE DEF z
  <2>4. ASSUME NEW u PROVE (IsIn(u, z.open) => u = t) /\ ~IsIn(u, z.ran) /\ ~IsIn(u, z.now)
    BY <2>2, NoLine, OneLine, TwoLines
  <2>5. /\ \A u \in Shell!Tags : IsIn(u, z.open) \/ IsIn(u, z.ran) \/ IsIn(u, z.now) => u = t \/ IsIn(u, p.open)
        /\ \A u \in Shell!Tags : z.last = u => u = t
        /\ t \in Shell!Tags => ~IsIn(t, p.typed) /\ z.last # t
    BY <1>2, <1>3, <2>2, <2>4
  <2>6. Takes(p, z, t)
    BY <2>2, <2>5, TakesOne
  <2> QED BY <2>3, <2>6 DEF z
<1>5. CASE ~Opens(Ragged, t) /\ p.open # <<>>
  <2>1. z = p
    BY <1>2, <1>5 DEF Shell!Reads
  <2> HIDE DEF z
  <2>2. ASSUME NEW u PROVE ~IsIn(u, z.ran) /\ ~IsIn(u, z.now)
    BY <1>1, <2>1, NoLine, OneLine, TwoLines
  <2>5. /\ \A u \in Shell!Tags : IsIn(u, z.open) \/ IsIn(u, z.ran) \/ IsIn(u, z.now) => u = t \/ IsIn(u, p.open)
        /\ \A u \in Shell!Tags : z.last = u => u = t
        /\ t \in Shell!Tags => ~IsIn(t, p.typed) /\ z.last # t
        /\ z.typed = p.typed
    BY <1>1, <1>2, <1>3, <2>1, <2>2
  <2>6. Takes(p, z, t)
    BY <2>5, TakesOne
  <2> QED BY <2>1, <2>6 DEF z
<1>6. CASE ~(Opens(Ragged, t) /\ p.open = <<>>) /\ ~(~Opens(Ragged, t) /\ p.open # <<>>)
  <2> DEFINE list == Append(p.open, t)
  <2>1. z = [p EXCEPT !.at = "busy", !.now = list, !.ran = list, !.last = t, !.open = <<>>]
    BY <1>2, <1>6 DEF Shell!Reads
  <2>2. /\ list \in Seq(PaneLines) /\ list # <<>> /\ ListOf(Ragged, list, t)
        /\ \A u : IsIn(u, list) => u = t \/ IsIn(u, p.open)
    <3>1. CASE p.open = <<>>
      <4>1. list = <<t>> /\ <<t>> \in Seq(PaneLines) /\ ~Opens(Ragged, t)
        BY <1>6, <3>1, NoLine, OneLine, TwoLines
      <4>2. \A u : IsIn(u, <<t>>) => u = t
        BY NoLine, OneLine, TwoLines
      <4> QED BY <4>1, <4>2, NoLine, OneLine, TwoLines DEF ListOf
    <3>2. CASE p.open # <<>>
      <4>1. PICK o \in Shell!Tags : Opens(Ragged, o) /\ p.open = <<o>>
        BY <1>1, <3>2
      <4>2. Opens(Ragged, t) /\ t \in Shell!Tags
        BY <1>2, <1>6, <3>2 DEF PaneLines
      <4>3. o # t
        <5>1. IsIn(o, <<o>>)
          BY NoLine, OneLine, TwoLines
        <5> QED BY <1>3, <4>1, <4>2, <5>1
      <4>4. list = <<o, t>> /\ list # <<>> /\ \A u : IsIn(u, list) => u = t \/ IsIn(u, p.open)
        <5>1. Append(<<o>>, t) = <<o, t>> /\ <<o, t>> # <<>>
          BY NoLine, OneLine, TwoLines
        <5>2. ASSUME NEW u, IsIn(u, <<o, t>>) PROVE u = t \/ IsIn(u, <<o>>)
          BY <5>2, NoLine, OneLine, TwoLines
        <5> QED BY <4>1, <5>1, <5>2
      <4>5. <<o, t>> \in Seq(PaneLines)
        BY <4>1 DEF PaneLines
      <4> QED BY <4>1, <4>2, <4>3, <4>4, <4>5 DEF ListOf
    <3> QED BY <3>1, <3>2
  <2> HIDE DEF list
  <2>3. /\ z \in PaneType /\ z.at = "busy" /\ z.open = <<>> /\ z.now = list /\ z.ran = list
        /\ z.last = t /\ z.typed = p.typed
    <3>1. <<>> \in Seq(PaneLines)
      OBVIOUS
    <3> QED BY <1>1, <2>1, <2>2, <3>1 DEF PaneType
  <2> HIDE DEF z
  <2>4. PaneIs(Ragged, z)
    BY <2>2, <2>3 DEF PaneIs
  <2>5. ASSUME NEW u PROVE ~IsIn(u, z.open)
    BY <2>3, NoLine, OneLine, TwoLines
  <2>6. /\ \A u \in Shell!Tags : IsIn(u, z.open) \/ IsIn(u, z.ran) \/ IsIn(u, z.now) => u = t \/ IsIn(u, p.open)
        /\ \A u \in Shell!Tags : z.last = u => u = t
        /\ t \in Shell!Tags => ~IsIn(t, p.typed)
        /\ t \in Shell!Tags /\ z.last = t => z.now # <<>>
    BY <1>3, <2>2, <2>3, <2>5
  <2>7. Takes(p, z, t)
    BY <2>3, <2>6, TakesOne
  <2> QED BY <2>4, <2>7 DEF z
<1> QED BY <1>4, <1>5, <1>6

-----------------------------------------------------------------------------
(* What the shell does.                                                    *)

\* A line is read.
LEMMA ReadKeeps ==
  ASSUME Shell!HarnessAssumption, NEW p, NEW s, NEW m, NEW d, NEW q, Paned(Ragged, p, s, m, d, q), p.at # "busy",
         NEW t \in PaneLines, Ready(p, s, m, d, q, t), NEW v \in PlacesOrNone \ Dirs
  PROVE  Paned(Ragged, Shell!Reads(p, t), Append(s, Shell!Echo(t, v)), m, d, q)
<1> DEFINE z == Shell!Reads(p, t)
<1>1. Ragged \subseteq HarnessRuns /\ PaneIs(Ragged, p) /\ LinesLive(p, s, m, d, q)
  BY DEF Paned, ShellTyped
<1>2. t \in Shell!Tags => ~InHand(p, t) /\ ~Unsent(m, t) /\ t \notin q
  BY DEF Ready
<1>3. /\ \A i, j \in 1 .. Len(p.typed) : p.typed[i] = p.typed[j] => i = j \/ p.typed[i] = Shell!Owner
      /\ \A u \in Shell!Tags : IsIn(u, p.typed) => ~IsIn(u, p.open)
  BY <1>1 DEF LinesLive
<1>4. PaneIs(Ragged, z) /\ Takes(p, z, t)
  BY <1>1, <1>2, <1>3, ReadTakes
<1> HIDE DEF z
<1>5. Paned(Ragged, z, s, m, d, q)
  BY <1>4, PaneKeeps
<1>6. Paned(Ragged, z, Append(s, Shell!Echo(t, v)), m, d, q)
  BY <1>2, <1>5, EchoKeeps
<1> QED BY <1>6 DEF z

\* A line is typed while a command runs.
LEMMA TypedAhead ==
  ASSUME Shell!HarnessAssumption, NEW R, NEW p, NEW s, NEW m, NEW d, NEW q, Paned(R, p, s, m, d, q),
         NEW t \in PaneLines, Ready(p, s, m, d, q, t), NEW v \in PlacesOrNone \ Dirs
  PROVE  Paned(R, [p EXCEPT !.typed = Append(@, t)], Append(s, Shell!Echo(t, v)), m, d, q)
<1> DEFINE z == [p EXCEPT !.typed = Append(@, t)]
           k == Len(p.typed)
<1>1. PaneIs(R, p) /\ LinesLive(p, s, m, d, q) /\ p \in PaneType
  BY DEF Paned, PaneIs
<1>2. t \in Shell!Tags => ~InHand(p, t) /\ ~Unsent(m, t) /\ t \notin q
  BY DEF Ready
<1>3. p.typed \in Seq(PaneLines) /\ k \in Nat
  BY <1>1 DEF PaneType
<1>4. /\ Append(p.typed, t) \in Seq(PaneLines) /\ Len(Append(p.typed, t)) = k + 1
      /\ \A i \in 1 .. k : Append(p.typed, t)[i] = p.typed[i]
      /\ Append(p.typed, t)[k + 1] = t
  BY <1>3
<1>5. /\ z \in PaneType /\ z.typed = Append(p.typed, t)
      /\ z.at = p.at /\ z.open = p.open /\ z.now = p.now /\ z.ran = p.ran /\ z.last = p.last
  BY <1>1, <1>4 DEF PaneType
<1> HIDE DEF z, k
<1>6. PaneIs(R, z)
  BY <1>1, <1>5 DEF PaneIs
<1>7. \A i \in 1 .. Len(z.typed) : i \in 1 .. k \/ (i = k + 1 /\ z.typed[i] = t)
  BY <1>3, <1>4, <1>5
<1>8. /\ \A u : IsIn(u, z.typed) => IsIn(u, p.typed) \/ u = t
      /\ \A i \in 1 .. k : z.typed[i] = p.typed[i] /\ IsIn(z.typed[i], p.typed)
  BY <1>4, <1>5, <1>7 DEF IsIn, k
<1>9. \A i, j \in 1 .. Len(z.typed) : z.typed[i] = z.typed[j] => i = j \/ z.typed[i] = Shell!Owner
  <2>1. t \in Shell!Tags => ~IsIn(t, p.typed)
    BY <1>2 DEF InHand
  <2>2. \A i, j \in 1 .. k : p.typed[i] = p.typed[j] => i = j \/ p.typed[i] = Shell!Owner
    BY <1>1 DEF LinesLive, k
  <2>3. t \in Shell!Tags \/ t = Shell!Owner
    BY DEF PaneLines
  <2> QED BY <1>7, <1>8, <2>1, <2>2, <2>3
<1>10. Takes(p, z, t)
  <2>1. \A u \in Shell!Tags : IsIn(u, p.typed) => ~IsIn(u, p.open) /\ ~IsIn(u, p.ran)
    BY <1>1 DEF LinesLive
  <2>2. \A u \in Shell!Tags : IsIn(u, z.typed) => ~IsIn(u, z.open) /\ ~IsIn(u, z.ran)
    BY <1>2, <1>5, <1>8, <2>1 DEF InHand
  <2>3. t \in Shell!Tags => z.last # t
    <3>1. p.at = "busy" => IsIn(p.last, p.ran)
      BY <1>1, EndIsIn DEF PaneIs
    <3>2. p.at # "busy" => p.last = Shell!Owner
      BY <1>1 DEF PaneIs
    <3> QED BY <1>2, <1>5, <3>1, <3>2, OwnerIs DEF InHand
  <2> QED BY <1>5, <1>8, <1>9, <2>2, <2>3 DEF Takes, InHand, Pending
<1>11. Paned(R, z, s, m, d, q)
  BY <1>6, <1>10, PaneKeeps
<1>12. Paned(R, z, Append(s, Shell!Echo(t, v)), m, d, q)
  BY <1>2, <1>11, EchoKeeps
<1> QED BY <1>12 DEF z

\* The first line typed ahead is taken, to be read or lost.
LEMMA TypedGoes ==
  ASSUME Shell!HarnessAssumption, NEW R, NEW p, NEW s, NEW m, NEW d, NEW q, Paned(R, p, s, m, d, q),
         p.typed # <<>>
  PROVE  LET z == [p EXCEPT !.typed = Tail(@)] IN
         /\ Paned(R, z, s, m, d, q) /\ z.at = p.at
         /\ Head(p.typed) \in PaneLines /\ Ready(z, s, m, d, q, Head(p.typed))
<1> DEFINE z == [p EXCEPT !.typed = Tail(@)]
           t == Head(p.typed)
           k == Len(p.typed)
<1>1. PaneIs(R, p) /\ LinesLive(p, s, m, d, q) /\ p \in PaneType /\ Quiets(R, p, s, d, q)
  BY DEF Paned, PaneIs
<1>2. /\ p.typed \in Seq(PaneLines) /\ k \in Nat /\ 1 \in 1 .. k /\ t = p.typed[1]
      /\ Tail(p.typed) \in Seq(PaneLines) /\ Len(Tail(p.typed)) = k - 1
      /\ \A i \in 1 .. k - 1 : Tail(p.typed)[i] = p.typed[i + 1]
  <2>1. p.typed \in Seq(PaneLines)
    BY <1>1 DEF PaneType
  <2> QED BY <2>1
<1>3. /\ z \in PaneType /\ z.typed = Tail(p.typed)
      /\ z.at = p.at /\ z.open = p.open /\ z.now = p.now /\ z.ran = p.ran /\ z.last = p.last
  BY <1>1, <1>2 DEF PaneType
<1>4. t \in PaneLines /\ IsIn(t, p.typed)
  BY <1>2 DEF IsIn
<1> HIDE DEF z, t, k
<1>5. PaneIs(R, z)
  BY <1>1, <1>3 DEF PaneIs
<1>6. \A i \in 1 .. Len(z.typed) : i + 1 \in 1 .. k /\ i + 1 # 1 /\ z.typed[i] = p.typed[i + 1]
  BY <1>2, <1>3
<1>7. \A u : IsIn(u, z.typed) => IsIn(u, p.typed)
  BY <1>6 DEF IsIn, k
<1>8. \A i, j \in 1 .. k : p.typed[i] = p.typed[j] => i = j \/ p.typed[i] = Shell!Owner
  BY <1>1 DEF LinesLive, k
<1>9. \A i, j \in 1 .. Len(z.typed) : z.typed[i] = z.typed[j] => i = j \/ z.typed[i] = Shell!Owner
  <2>1. ASSUME NEW i \in 1 .. Len(z.typed), NEW j \in 1 .. Len(z.typed), z.typed[i] = z.typed[j]
        PROVE  i = j \/ z.typed[i] = Shell!Owner
    <3>1. i + 1 = j + 1 \/ z.typed[i] = Shell!Owner
      BY <1>6, <1>8, <2>1
    <3> QED BY <3>1
  <2> QED BY <2>1
<1>10. t \in Shell!Tags => ~IsIn(t, z.typed)
  <2>1. SUFFICES ASSUME t \in Shell!Tags, NEW i \in 1 .. Len(z.typed), z.typed[i] = t PROVE FALSE
    BY DEF IsIn
  <2> QED BY <1>2, <1>6, <1>8, <2>1, OwnerIs
<1>11. Shell!Owner \notin Shell!Tags /\ Ready(p, s, m, d, q, Shell!Owner)
  BY OwnerIs DEF Ready
<1>12. Takes(p, z, Shell!Owner)
  BY <1>1, <1>3, <1>7, <1>9, <1>11 DEF Takes, LinesLive, InHand, Pending
<1>13. Paned(R, z, s, m, d, q)
  BY <1>5, <1>11, <1>12, PaneKeeps
<1>14. Ready(z, s, m, d, q, t)
  <2>1. SUFFICES ASSUME t \in Shell!Tags
                 PROVE  /\ ~Unsent(m, t) /\ ~IsOver(m, t) /\ ~InHand(z, t) /\ t \notin q
                        /\ d[t] = "none" /\ ~HasRow(s, "out", t) /\ ~HasRow(s, "mark", t)
    BY DEF Ready
  <2>2. InHand(p, t) /\ Pending(p, t)
    BY <1>4 DEF InHand, Pending
  <2>3. ~Unsent(m, t) /\ ~IsOver(m, t) /\ d[t] = "none" /\ ~HasRow(s, "out", t) /\ ~HasRow(s, "mark", t)
        /\ ~IsIn(t, p.open) /\ ~IsIn(t, p.ran)
    BY <1>1, <1>4, <2>1, <2>2 DEF LinesLive
  <2>4. t \notin q
    BY <1>1, <1>4 DEF Quiets
  <2> QED BY <1>3, <1>10, <2>1, <2>3, <2>4 DEF InHand
<1> QED BY <1>3, <1>4, <1>13, <1>14 DEF z, t

\* The shell goes on from a prompt, or inside a quote.
LEMMA GoesOnKeeps ==
  ASSUME Shell!HarnessAssumption, NEW p, NEW s, NEW m, NEW d, NEW q, Paned(Ragged, p, s, m, d, q),
         p.at # "busy", p.typed # <<>>
  PROVE  Paned(Ragged, Shell!Reads([p EXCEPT !.typed = Tail(@)], Head(p.typed)),
               Append(s, Shell!Echo(Head(p.typed), Shell!None)), m, d, q)
<1> DEFINE z == [p EXCEPT !.typed = Tail(@)]
           t == Head(p.typed)
<1>1. Paned(Ragged, z, s, m, d, q) /\ z.at = p.at /\ t \in PaneLines /\ Ready(z, s, m, d, q, t)
  BY TypedGoes
<1> HIDE DEF z, t
<1>2. Paned(Ragged, Shell!Reads(z, t), Append(s, Shell!Echo(t, Shell!None)), m, d, q)
  BY <1>1, NoPlace, ReadKeeps
<1> QED BY <1>2 DEF z, t

\* The list is over; its echo comes if it is a run's.
LEMMA ListEnds ==
  ASSUME Shell!HarnessAssumption, NEW R, NEW p, NEW s, NEW m, NEW d, NEW q, Paned(R, p, s, m, d, q),
         p.at = "busy", p.now = <<>>, NEW w \in Dirs
  PROVE  LET z == [p EXCEPT !.at = "prompt", !.ran = <<>>, !.last = Shell!Owner, !.pwd = w] IN
         /\ Paned(R, z, s, m, d, q) /\ z.at = "prompt" /\ z.typed = p.typed
         /\ p.last # Shell!Owner => Paned(R, z, Append(s, Shell!Mark(p.last, p.ran)), m, d, q)
<1> DEFINE z   == [p EXCEPT !.at = "prompt", !.ran = <<>>, !.last = Shell!Owner, !.pwd = w]
           t   == p.last
           row == Shell!Mark(t, p.ran)
           y   == Append(s, row)
           n   == Len(s)
<1>1. /\ ShellTyped(R, s, m, d, q) /\ PaneIs(R, p) /\ LinesLive(p, s, m, d, q) /\ MarksAre(R, s)
      /\ Answers(p, s, d)
      /\ Quiets(R, p, s, d, q) /\ \A r \in HarnessRuns : RunIs(R, m, d, q, r)
  BY DEF Paned
<1>2. /\ p \in PaneType /\ p.open = <<>> /\ ListOf(R, p.ran, t) /\ t \in PaneLines /\ p.ran \in Seq(PaneLines)
      /\ IsIn(t, p.ran)
  <2>1. p \in PaneType /\ p.open = <<>> /\ ListOf(R, p.ran, t)
    BY <1>1 DEF PaneIs
  <2> QED BY <2>1, EndIsIn DEF PaneType
<1>3. /\ z \in PaneType /\ z.at = "prompt" /\ z.ran = <<>> /\ z.last = Shell!Owner /\ z.typed = p.typed
      /\ z.open = <<>> /\ z.now = <<>>
  <2>1. <<>> \in Seq(PaneLines) /\ Shell!Owner \in PaneLines
    BY DEF PaneLines
  <2> QED BY <1>2, <2>1 DEF PaneType
<1>4. Shell!Owner \notin Shell!Tags /\ Ready(p, s, m, d, q, Shell!Owner)
  BY OwnerIs DEF Ready
<1>5. row \in PaneRow /\ row.k = "mark" /\ row.by = t /\ row.code = p.ran
  BY <1>2, NoPlace DEF Shell!Mark, PaneRow
<1>6. /\ y \in Seq(PaneRow) /\ n \in Nat /\ Len(y) = n + 1 /\ \A i \in 1 .. n : y[i] = s[i]
      /\ y[n + 1] = row
  BY <1>1, <1>5, RowMore DEF ShellTyped
<1> HIDE DEF z, row, y, n
<1>7. PaneIs(R, z)
  BY <1>3 DEF PaneIs
<1>8. \A u : ~IsIn(u, z.open) /\ ~IsIn(u, z.now) /\ ~IsIn(u, z.ran)
  BY <1>3, NoLine
<1>9. Takes(p, z, Shell!Owner)
  BY <1>1, <1>3, <1>4, <1>8 DEF Takes, LinesLive, InHand, Pending
<1>10. Paned(R, z, s, m, d, q)
  BY <1>4, <1>7, <1>9, PaneKeeps
<1>11. /\ ShellTyped(R, s, m, d, q) /\ LinesLive(z, s, m, d, q) /\ Answers(z, s, d) /\ Quiets(R, z, s, d, q)
  BY <1>10 DEF Paned
<1>12. ASSUME t # Shell!Owner PROVE Paned(R, z, y, m, d, q)
  <2>1. t \in Shell!Tags
    BY <1>2, <1>12 DEF PaneLines
  <2>2. ~IsIn(t, p.typed) /\ ~Unsent(m, t) /\ ~HasRow(s, "mark", t)
    BY <1>1, <1>2, <2>1 DEF LinesLive, InHand
  <2>3. ~InHand(z, t)
    BY <1>3, <1>8, <2>2 DEF InHand
  <2>4. \A i \in 1 .. Len(y) : i \in 1 .. n \/ (i = n + 1 /\ y[i].k = "mark" /\ y[i].by = t /\ y[i].code = p.ran)
    BY <1>5, <1>6
  <2>5. ShellTyped(R, y, m, d, q)
    BY <1>6, <1>11 DEF ShellTyped
  <2>6. /\ \A u : HasRow(y, "out", u) <=> HasRow(s, "out", u)
        /\ \A u : u # t => (HasRow(y, "mark", u) <=> HasRow(s, "mark", u))
        /\ \A u \in Shell!Tags : (\A i \in 1 .. n : s[i].by # u) /\ t # u => \A i \in 1 .. Len(y) : y[i].by # u
    <3>1. \A i \in 1 .. n : i \in 1 .. Len(y)
      BY <1>6
    <3>2. /\ \A u : HasRow(y, "out", u) <=> HasRow(s, "out", u)
          /\ \A u : u # t => (HasRow(y, "mark", u) <=> HasRow(s, "mark", u))
      BY <1>6, <2>4, <3>1 DEF HasRow, n
    <3> QED BY <1>6, <2>4, <3>2
  <2>7. LinesLive(z, y, m, d, q)
    BY <1>11, <2>2, <2>3, <2>6 DEF LinesLive, n
  <2>8. MarksAre(R, y)
    BY <1>1, <1>2, <1>6, <2>1, <2>4 DEF MarksAre, n
  <2>9. Answers(z, y, d)
    <3>1. SUFFICES ASSUME NEW u \in Shell!Tags, u.what = "pwd", NEW k \in 1 .. Len(y), y[k].k = "mark", y[k].by = u
                   PROVE  AnsweredBy(y, d, u, k)
      BY <1>3, <1>4 DEF Answers
    <3>2. \A i \in 1 .. k - 1 : y[i] = s[i]
      BY <1>6
    <3>3. k \in Nat /\ 0 \in Nat
      BY <1>6
    <3>4. AnsweredBy(s, d, u, k)
      <4>1. CASE k \in 1 .. n
        BY <1>1, <1>6, <3>1, <4>1 DEF Answers, n
      <4>2. CASE k = n + 1
        <5>1. u = t
          BY <2>4, <3>1, <4>2, <1>6
        <5> QED BY <1>1, <3>1, <4>2, <5>1 DEF Answers, n
      <4> QED BY <2>4, <4>1, <4>2
    <3> QED BY <3>2, <3>3, <3>4, SaidStays
  <2>10. Quiets(R, z, y, d, q)
    <3>1. SUFFICES ASSUME NEW u \in q
                   PROVE  /\ ~IsIn(u, z.typed)
                          /\ Opens(R, u) => z.last # u /\ ~HasRow(y, "mark", u)
                          /\ \E e \in 1 .. Len(y) : QuietAt(z, y, d, u, e)
      BY DEF Quiets
    <3>2. /\ ~IsIn(u, p.typed)
          /\ Opens(R, u) => t # u /\ ~HasRow(s, "mark", u)
      BY <1>1 DEF Quiets
    <3>3. PICK e \in 1 .. n : QuietAt(p, s, d, u, e)
      BY <1>1 DEF Quiets, n
    <3>4. e \in 1 .. Len(y) /\ e \in Nat /\ e < n + 1 /\ u \in Shell!Tags
      BY <1>1, <1>6 DEF ShellTyped
    <3>5. y[e].k = "echo" /\ y[e].by = u /\ \A i \in 1 .. Len(y) : y[i].k = "echo" /\ y[i].by = u => i = e
      BY <1>6, <2>4, <3>3 DEF QuietAt, n
    <3>6. ASSUME NEW k \in 1 .. Len(y), y[k].k = "mark", y[k].by = u PROVE e < k /\ Said(y, d, u, e, k)
      <4>1. e < k /\ Said(s, d, u, e, k)
        <5>1. CASE k \in 1 .. n
          BY <1>6, <3>3, <3>6, <5>1 DEF QuietAt, n
        <5>2. CASE k = n + 1
          <6>1. u = t
            BY <2>4, <3>6, <5>2, <1>6
          <6> QED BY <3>3, <3>4, <5>2, <6>1 DEF QuietAt, n
        <5> QED BY <2>4, <5>1, <5>2
      <4>2. k \in Nat /\ \A i \in 1 .. k - 1 : y[i] = s[i]
        BY <1>6
      <4> QED BY <3>4, <4>1, <4>2, SaidStays
    <3>7. QuietAt(z, y, d, u, e)
      BY <1>3, <1>4, <3>4, <3>5, <3>6 DEF QuietAt
    <3> QED BY <1>3, <1>4, <2>6, <3>2, <3>4, <3>7
  <2> QED BY <1>1, <1>7, <2>5, <2>7, <2>8, <2>9, <2>10 DEF Paned
<1> QED BY <1>3, <1>10, <1>12 DEF z, y, row

\* What has printed is out of the hand of the shell but for its echo.
LEMMA HeadPrints ==
  ASSUME Shell!HarnessAssumption, NEW R, NEW p, NEW s, NEW m, NEW d, NEW q, Paned(R, p, s, m, d, q),
         p.at = "busy", p.now # <<>>
  PROVE  LET z == [p EXCEPT !.now = Tail(@)]
             t == Head(p.now)
         IN /\ PaneIs(R, z) /\ z.typed = p.typed /\ z.open = p.open /\ z.ran = p.ran /\ z.last = p.last
            /\ t \in PaneLines /\ IsIn(t, p.ran) /\ IsIn(t, p.now) /\ ~IsIn(t, z.now)
            /\ \A u : IsIn(u, z.now) => IsIn(u, p.now)
            /\ \A u \in Shell!Tags : p.last = u /\ ~Opens(R, u) => t = u /\ z.now = <<>>
<1> DEFINE z == [p EXCEPT !.now = Tail(@)]
           t == Head(p.now)
<1>1. /\ p \in PaneType /\ p.open = <<>> /\ p.now \in {p.ran, <<p.last>>, <<>>} /\ ListOf(R, p.ran, p.last)
      /\ p.last \in PaneLines
  <2>1. PaneIs(R, p)
    BY DEF Paned
  <2> QED BY <2>1 DEF PaneIs, PaneType
<1>2. /\ t \in PaneLines /\ IsIn(t, p.ran) /\ IsIn(t, p.now) /\ ~IsIn(t, Tail(p.now))
      /\ \A u : IsIn(u, Tail(p.now)) => IsIn(u, p.now)
      /\ Tail(p.now) \in {p.ran, <<p.last>>, <<>>}
      /\ ~Opens(R, p.last) => t = p.last /\ Tail(p.now) = <<>>
  <2>1. CASE p.now = <<p.last>>
    <3>1. t = p.last /\ Tail(p.now) = <<>> /\ IsIn(t, p.now)
      BY <2>1, FirstLines, OneLine
    <3>2. IsIn(t, p.ran)
      BY <1>1, <3>1, EndIsIn
    <3> QED BY <1>1, <3>1, <3>2, NoLine
  <2>2. CASE p.now # <<p.last>>
    <3>1. PICK o \in Shell!Tags : o # p.last /\ Opens(R, o) /\ Opens(R, p.last) /\ p.ran = <<o, p.last>>
               /\ p.now = p.ran
      BY <1>1, <2>2 DEF ListOf
    <3>2. t = o /\ Tail(p.now) = <<p.last>> /\ IsIn(t, p.ran) /\ IsIn(t, p.now)
      BY <3>1, FirstLines, TwoLines
    <3>3. ASSUME NEW u, IsIn(u, Tail(p.now)) PROVE u = p.last /\ IsIn(u, p.now)
      <4>1. u = p.last
        BY <3>2, <3>3, OneLine
      <4> QED BY <3>1, <4>1, TwoLines
    <3>4. t \in PaneLines
      BY <3>2 DEF PaneLines
    <3> QED BY <3>1, <3>2, <3>3, <3>4
  <2> QED BY <2>1, <2>2
<1>3. Tail(p.now) \in Seq(PaneLines)
  BY <1>1 DEF PaneType
<1>4. /\ z \in PaneType /\ z.now = Tail(p.now) /\ z.typed = p.typed /\ z.open = p.open /\ z.ran = p.ran
      /\ z.last = p.last /\ z.at = "busy"
  BY <1>1, <1>3 DEF PaneType
<1> HIDE DEF z, t
<1>5. PaneIs(R, z)
  BY <1>1, <1>2, <1>4 DEF PaneIs
<1>6. \A u \in Shell!Tags : p.last = u /\ ~Opens(R, u) => t = u /\ z.now = <<>>
  BY <1>2, <1>4
<1> QED BY <1>2, <1>4, <1>5, <1>6 DEF z, t


\* The history may go while nothing on it has to answer.
LEMMA HistoryGoes ==
  ASSUME NEW R, NEW p, NEW s, NEW m, NEW d, NEW q, Paned(R, p, s, m, d, q),
         p.now # <<>> \/ p.last \notin Shell!Tags
  PROVE  Paned(R, p, <<>>, m, d, {})
<1>1. /\ ShellTyped(R, s, m, d, q) /\ PaneIs(R, p) /\ LinesLive(p, s, m, d, q)
      /\ \A r \in HarnessRuns : RunIs(R, m, d, q, r)
  BY DEF Paned
<1>2. <<>> \in Seq(PaneRow) /\ Len(<<>>) = 0 /\ \A i : i \notin 1 .. 0
  OBVIOUS
<1>3. ShellTyped(R, <<>>, m, d, {})
  BY <1>1, <1>2 DEF ShellTyped
<1>4. \A k, u : ~HasRow(<<>>, k, u)
  BY <1>2 DEF HasRow
<1>5. LinesLive(p, <<>>, m, d, {})
  BY <1>1, <1>2, <1>4 DEF LinesLive
<1>6. MarksAre(R, <<>>)
  BY <1>2 DEF MarksAre
<1>7. Answers(p, <<>>, d)
  BY <1>2 DEF Answers
<1>8. Quiets(R, p, <<>>, d, {})
  BY DEF Quiets
<1>9. \A r \in HarnessRuns : RunIs(R, m, d, {}, r)
  BY <1>1 DEF RunIs
<1> QED BY <1>1, <1>3, <1>5, <1>6, <1>7, <1>8, <1>9 DEF Paned

\* The list prints.
LEMMA PrintKeeps ==
  ASSUME Shell!HarnessAssumption, NEW R, NEW p, NEW s, NEW m, NEW d, NEW q, Paned(R, p, s, m, d, q),
         p.at = "busy", p.now # <<>>, NEW v \in PlacesOrNone, v # "none",
         NEW c \in [Shell!Tags -> PlacesOrNone], \A u \in Shell!Tags : c[u] = IF u = Head(p.now) THEN v ELSE d[u]
  PROVE  Paned(R, [p EXCEPT !.now = Tail(@)], Append(s, Shell!Printed(Head(p.now), v)), m, c, q)
<1> DEFINE z   == [p EXCEPT !.now = Tail(@)]
           t   == Head(p.now)
           row == Shell!Printed(t, v)
           y   == Append(s, row)
           n   == Len(s)
<1>1. /\ ShellTyped(R, s, m, d, q) /\ PaneIs(R, p) /\ LinesLive(p, s, m, d, q) /\ MarksAre(R, s)
      /\ Answers(p, s, d)
      /\ Quiets(R, p, s, d, q) /\ \A r \in HarnessRuns : RunIs(R, m, d, q, r)
  BY DEF Paned
<1>2. /\ PaneIs(R, z) /\ z.typed = p.typed /\ z.open = p.open /\ z.ran = p.ran /\ z.last = p.last
      /\ t \in PaneLines /\ IsIn(t, p.ran) /\ IsIn(t, p.now) /\ ~IsIn(t, z.now)
      /\ \A u : IsIn(u, z.now) => IsIn(u, p.now)
      /\ \A u \in Shell!Tags : p.last = u /\ ~Opens(R, u) => t = u /\ z.now = <<>>
  BY HeadPrints
<1>3. row \in PaneRow /\ row.k = "out" /\ row.by = t /\ row = Shell!Printed(t, v)
  <2>1. <<>> \in Seq(PaneLines)
    OBVIOUS
  <2> QED BY <1>2, <2>1 DEF Shell!Printed, PaneRow, PlacesOrNone
<1>4. /\ y \in Seq(PaneRow) /\ n \in Nat /\ Len(y) = n + 1 /\ \A i \in 1 .. n : y[i] = s[i]
      /\ y[n + 1] = row
  BY <1>1, <1>3, RowMore DEF ShellTyped
<1>5. /\ c \in [Shell!Tags -> PlacesOrNone] /\ \A u \in Shell!Tags : u # t => c[u] = d[u]
      /\ t \in Shell!Tags => c[t] = v /\ v # "none"
  BY DEF Shell!HarnessAssumption
<1> HIDE DEF z, t, row, y, n
<1>6. /\ \A i \in 1 .. Len(y) : i \in 1 .. n \/ (i = n + 1 /\ y[i].k = "out" /\ y[i].by = t)
      /\ \A i \in 1 .. n : i \in 1 .. Len(y)
  BY <1>3, <1>4
<1>7. /\ \A u : HasRow(y, "mark", u) <=> HasRow(s, "mark", u)
      /\ \A u : u # t => (HasRow(y, "out", u) <=> HasRow(s, "out", u))
      /\ \A u \in Shell!Tags : (\A i \in 1 .. n : s[i].by # u) /\ t # u => \A i \in 1 .. Len(y) : y[i].by # u
  <2>1. \A u : HasRow(y, "mark", u) <=> HasRow(s, "mark", u)
    BY <1>4, <1>6 DEF HasRow, n
  <2>2. \A u : u # t => (HasRow(y, "out", u) <=> HasRow(s, "out", u))
    BY <1>4, <1>6 DEF HasRow, n
  <2> QED BY <1>4, <1>6, <2>1, <2>2
<1>8. t \in Shell!Tags => /\ InHand(p, t) /\ d[t] = "none" /\ ~HasRow(s, "mark", t) /\ ~Unsent(m, t) /\ ~IsOver(m, t)
                          /\ ~IsIn(t, p.typed)
  <2>1. InHand(p, t) /\ Pending(p, t)
    BY <1>2 DEF InHand, Pending
  <2> QED BY <1>1, <1>2, <2>1 DEF LinesLive
<1>9. ShellTyped(R, y, m, c, q)
  BY <1>1, <1>4, <1>5 DEF ShellTyped
<1>10. LinesLive(z, y, m, c, q)
  <2>1. \A u : InHand(z, u) <=> InHand(p, u)
    BY <1>2 DEF InHand
  <2>2. ASSUME NEW u \in Shell!Tags, Pending(z, u) PROVE u # t /\ Pending(p, u)
    <3>1. p.open = <<>>
      BY <1>1 DEF PaneIs
    <3>2. ~IsIn(u, p.open)
      BY <3>1, NoLine
    <3> QED BY <1>2, <1>8, <2>2, <3>2 DEF Pending
  <2>3. ASSUME NEW u \in Shell!Tags
        PROVE  /\ Unsent(m, u) => /\ ~InHand(z, u) /\ u \notin q /\ c[u] = "none"
                                  /\ \A i \in 1 .. Len(y) : y[i].by # u
               /\ IsOver(m, u) => ~InHand(z, u)
               /\ IsIn(u, z.typed) => ~IsIn(u, z.open) /\ ~IsIn(u, z.ran)
               /\ Pending(z, u) => c[u] = "none" /\ ~HasRow(y, "out", u)
               /\ InHand(z, u) => ~HasRow(y, "mark", u)
    <3>1. /\ Unsent(m, u) => /\ ~InHand(p, u) /\ u \notin q /\ d[u] = "none"
                             /\ \A i \in 1 .. n : s[i].by # u
          /\ IsOver(m, u) => ~InHand(p, u)
          /\ IsIn(u, p.typed) => ~IsIn(u, p.open) /\ ~IsIn(u, p.ran)
          /\ Pending(p, u) => d[u] = "none" /\ ~HasRow(s, "out", u)
          /\ InHand(p, u) => ~HasRow(s, "mark", u)
      BY <1>1 DEF LinesLive, n
    <3> QED BY <1>2, <1>5, <1>7, <1>8, <2>1, <2>2, <3>1
  <2>4. \A i, j \in 1 .. Len(z.typed) : z.typed[i] = z.typed[j] => i = j \/ z.typed[i] = Shell!Owner
    BY <1>1, <1>2 DEF LinesLive
  <2> QED BY <2>3, <2>4 DEF LinesLive
<1>11. MarksAre(R, y)
  BY <1>1, <1>4, <1>6 DEF MarksAre, n
<1>12. ASSUME NEW u \in Shell!Tags, NEW k \in 1 .. Len(y), y[k].k = "mark", y[k].by = u
       PROVE  /\ k \in 1 .. n /\ k \in Nat /\ s[k].k = "mark" /\ s[k].by = u /\ c[u] = d[u]
              /\ \A i \in 1 .. k - 1 : y[i] = s[i]
  <2>1. k \in 1 .. n /\ k \in Nat /\ s[k].k = "mark" /\ s[k].by = u
    BY <1>4, <1>6, <1>12
  <2>2. HasRow(s, "mark", u)
    BY <2>1 DEF HasRow, n
  <2>3. u # t
    BY <1>8, <2>2
  <2>4. \A i \in 1 .. k - 1 : i \in 1 .. n
    BY <1>4, <2>1
  <2> QED BY <1>4, <1>5, <2>1, <2>3, <2>4
<1>13. \A u, e, k : /\ \A i \in 1 .. k - 1 : y[i] = s[i]
                    /\ c[u] = d[u] /\ e \in Nat /\ k \in Nat
                    => /\ AnsweredBy(s, d, u, k) => AnsweredBy(y, c, u, k)
                       /\ Said(s, d, u, e, k) => Said(y, c, u, e, k)
  BY SaidStays
<1>14. Answers(z, y, c)
  <2>1. SUFFICES ASSUME NEW u \in Shell!Tags, u.what = "pwd"
                 PROVE  /\ z.last = u /\ z.now = <<>> => AnsweredBy(y, c, u, Len(y) + 1)
                        /\ \A k \in 1 .. Len(y) : y[k].k = "mark" /\ y[k].by = u => AnsweredBy(y, c, u, k)
    BY DEF Answers
  <2>2. ASSUME z.last = u PROVE AnsweredBy(y, c, u, Len(y) + 1)
    <3>1. ~Opens(R, u)
      BY <2>1 DEF Opens
    <3>2. u = t
      BY <1>2, <2>2, <3>1
    <3>3. y[n + 1] = Shell!Printed(u, c[u])
      BY <1>3, <1>4, <1>5, <3>2
    <3>4. n + 1 \in 1 .. (Len(y) + 1) - 1 /\ \A j \in (n + 1) + 1 .. (Len(y) + 1) - 1 : FALSE
      BY <1>4
    <3> QED BY <3>3, <3>4 DEF AnsweredBy
  <2>3. ASSUME NEW k \in 1 .. Len(y), y[k].k = "mark", y[k].by = u PROVE AnsweredBy(y, c, u, k)
    <3>1. /\ k \in 1 .. n /\ k \in Nat /\ s[k].k = "mark" /\ s[k].by = u /\ c[u] = d[u] /\ 0 \in Nat
          /\ \A i \in 1 .. k - 1 : y[i] = s[i]
      BY <1>12, <2>3
    <3>2. AnsweredBy(s, d, u, k)
      BY <1>1, <2>1, <3>1 DEF Answers, n
    <3> QED BY <1>13, <3>1, <3>2
  <2> QED BY <2>2, <2>3
<1>15. Quiets(R, z, y, c, q)
  <2>1. SUFFICES ASSUME NEW u \in q
                 PROVE  /\ ~IsIn(u, z.typed)
                        /\ Opens(R, u) => z.last # u /\ ~HasRow(y, "mark", u)
                        /\ \E e \in 1 .. Len(y) : QuietAt(z, y, c, u, e)
    BY DEF Quiets
  <2>2. /\ ~IsIn(u, p.typed)
        /\ Opens(R, u) => p.last # u /\ ~HasRow(s, "mark", u)
    BY <1>1 DEF Quiets
  <2>3. PICK e \in 1 .. n : QuietAt(p, s, d, u, e)
    BY <1>1 DEF Quiets, n
  <2>4. e \in 1 .. Len(y) /\ e \in Nat /\ e < n + 1 /\ u \in Shell!Tags
    BY <1>1, <1>4 DEF ShellTyped
  <2>5. y[e].k = "echo" /\ y[e].by = u /\ \A i \in 1 .. Len(y) : y[i].k = "echo" /\ y[i].by = u => i = e
    BY <1>4, <1>6, <2>3 DEF QuietAt, n
  <2>6. ASSUME z.last = u PROVE Said(y, c, u, e, Len(y) + 1)
    <3>1. u = t
      BY <1>2, <2>2, <2>4, <2>6
    <3>2. Said(s, d, u, e, n + 1) /\ d[u] = "none"
      BY <1>2, <1>8, <2>3, <2>4, <2>6, <3>1 DEF QuietAt, n
    <3>3. \A j \in e + 1 .. n : s[j].k # "out"
      BY <1>4, <3>2 DEF Said
    <3>4. \A j \in e + 1 .. (Len(y) + 1) - 1 : j = n + 1 \/ (j \in e + 1 .. n /\ j \in 1 .. n)
      BY <1>4, <2>4
    <3>5. n + 1 \in e + 1 .. (Len(y) + 1) - 1
      BY <1>4, <2>4
    <3>6. y[n + 1] = Shell!Printed(u, c[u]) /\ c[u] # "none"
      BY <1>3, <1>4, <1>5, <2>4, <3>1
    <3>7. \A j \in e + 1 .. (Len(y) + 1) - 1 : y[j].k = "out" => j = n + 1
      BY <1>4, <3>3, <3>4
    <3> QED BY <3>5, <3>6, <3>7 DEF Said
  <2>7. ASSUME NEW k \in 1 .. Len(y), y[k].k = "mark", y[k].by = u PROVE e < k /\ Said(y, c, u, e, k)
    <3>1. /\ k \in 1 .. n /\ k \in Nat /\ s[k].k = "mark" /\ s[k].by = u /\ c[u] = d[u]
          /\ \A i \in 1 .. k - 1 : y[i] = s[i]
      BY <1>12, <2>4, <2>7
    <3>2. e < k /\ Said(s, d, u, e, k)
      BY <2>3, <3>1 DEF QuietAt, n
    <3> QED BY <1>13, <2>4, <3>1, <3>2
  <2>8. QuietAt(z, y, c, u, e)
    BY <2>5, <2>6, <2>7 DEF QuietAt
  <2> QED BY <1>2, <1>7, <2>2, <2>4, <2>8
<1>16. ASSUME NEW r \in HarnessRuns PROVE RunIs(R, m, c, q, r)
  <2>1. Shell!Tag(r, "cmd") \in Shell!Tags /\ Shell!Tag(r, "pwd") \in Shell!Tags
    BY OwnerIs
  <2>2. /\ Shell!Tag(r, "cmd").what = "cmd" /\ Shell!Tag(r, "cmd").who = r
        /\ Shell!Tag(r, "pwd").what = "pwd" /\ Shell!Tag(r, "pwd").who = r
    BY DEF Shell!Tag
  <2>3. m[r].pc = "done" => c[Shell!Tag(r, "cmd")] = d[Shell!Tag(r, "cmd")]
    BY <1>5, <1>8, <2>1, <2>2 DEF IsOver
  <2>4. m[r].probed /\ m[r].dir # "none" => c[Shell!Tag(r, "pwd")] = d[Shell!Tag(r, "pwd")]
    BY <1>5, <1>8, <2>1, <2>2 DEF IsOver
  <2>5. m[r].pc = "done" => \A rows : Prints(rows, Shell!Tag(r, "cmd"), d) => Prints(rows, Shell!Tag(r, "cmd"), c)
    BY <2>3 DEF Prints
  <2> QED BY <1>1, <2>3, <2>4, <2>5, NoPlace DEF RunIs
<1> QED BY <1>2, <1>9, <1>10, <1>11, <1>14, <1>15, <1>16 DEF Paned, z, y, row, t

\* It prints nothing, the question where it is always something.
LEMMA SilenceKeeps ==
  ASSUME Shell!HarnessAssumption, NEW R, NEW p, NEW s, NEW m, NEW d, NEW q, Paned(R, p, s, m, d, q),
         p.at = "busy", p.now # <<>>, Head(p.now).what = "cmd"
  PROVE  Paned(R, [p EXCEPT !.now = Tail(@)], s, m, d, q)
<1> DEFINE z == [p EXCEPT !.now = Tail(@)]
           t == Head(p.now)
<1>1. /\ PaneIs(R, z) /\ z.typed = p.typed /\ z.open = p.open /\ z.ran = p.ran /\ z.last = p.last
      /\ \A u : IsIn(u, z.now) => IsIn(u, p.now)
      /\ \A u \in Shell!Tags : p.last = u /\ ~Opens(R, u) => t = u
  BY HeadPrints
<1>2. LinesLive(p, s, m, d, q) /\ t.what = "cmd"
  BY DEF Paned
<1> HIDE DEF z, t
<1>3. Shell!Owner \notin Shell!Tags /\ Ready(p, s, m, d, q, Shell!Owner)
  BY OwnerIs DEF Ready
<1>4. \A u \in Shell!Tags : u.what = "pwd" => p.last # u
  BY <1>1, <1>2 DEF Opens
<1>5. Takes(p, z, Shell!Owner)
  BY <1>1, <1>2, <1>3, <1>4 DEF Takes, LinesLive, InHand, Pending
<1>6. Paned(R, z, s, m, d, q)
  BY <1>1, <1>3, <1>5, PaneKeeps
<1> QED BY <1>6 DEF z

\* C-c, and a pane that closes.
LEMMA FreshKeeps ==
  ASSUME Shell!HarnessAssumption, NEW R, NEW p, NEW s, NEW m, NEW d, NEW q, Paned(R, p, s, m, d, q),
         NEW w \in Dirs
  PROVE  Paned(R, Shell!Fresh(w), s, m, d, q) /\ Paned(R, Shell!Fresh(w), <<>>, m, d, {})
<1> DEFINE z == Shell!Fresh(w)
<1>1. /\ z.at = "prompt" /\ z.now = <<>> /\ z.ran = <<>> /\ z.open = <<>> /\ z.typed = <<>>
      /\ z.last = Shell!Owner
      /\ z \in PaneType
  <2>1. <<>> \in Seq(PaneLines) /\ Shell!Owner \in PaneLines
    BY DEF PaneLines
  <2> QED BY <2>1 DEF Shell!Fresh, PaneType
<1> HIDE DEF z
<1>2. PaneIs(R, z)
  BY <1>1 DEF PaneIs
<1>3. Shell!Owner \notin Shell!Tags /\ Ready(p, s, m, d, q, Shell!Owner)
  BY OwnerIs DEF Ready
<1>4. \A u : ~IsIn(u, z.typed) /\ ~IsIn(u, z.open) /\ ~IsIn(u, z.ran) /\ ~IsIn(u, z.now)
  BY <1>1, NoLine
<1>5. \A i : i \notin 1 .. Len(z.typed)
  <2>1. Len(<<>>) = 0 /\ \A i : i \notin 1 .. 0
    OBVIOUS
  <2> QED BY <1>1, <2>1
<1>6. Takes(p, z, Shell!Owner)
  BY <1>1, <1>3, <1>4, <1>5 DEF Takes, InHand, Pending
<1>7. Paned(R, z, s, m, d, q)
  BY <1>2, <1>3, <1>6, PaneKeeps
<1>8. Paned(R, z, <<>>, m, d, {})
  BY <1>1, <1>3, <1>7, HistoryGoes
<1> QED BY <1>7, <1>8 DEF z

\* A half line comes or goes.
LEMMA HalfKeeps ==
  ASSUME Shell!HarnessAssumption, NEW R, NEW p, NEW s, NEW m, NEW d, NEW q, Paned(R, p, s, m, d, q),
         NEW b \in BOOLEAN
  PROVE  Paned(R, [p EXCEPT !.half = b], s, m, d, q)
<1> DEFINE z == [p EXCEPT !.half = b]
<1>1. p \in PaneType /\ PaneIs(R, p) /\ LinesLive(p, s, m, d, q)
  BY DEF Paned, PaneIs
<1>2. /\ z.at = p.at /\ z.now = p.now /\ z.ran = p.ran /\ z.open = p.open /\ z.typed = p.typed /\ z.last = p.last
      /\ z \in PaneType
  BY <1>1 DEF PaneType
<1> HIDE DEF z
<1>3. PaneIs(R, z)
  BY <1>1, <1>2 DEF PaneIs
<1>4. Shell!Owner \notin Shell!Tags /\ Ready(p, s, m, d, q, Shell!Owner)
  BY OwnerIs DEF Ready
<1>5. Takes(p, z, Shell!Owner)
  BY <1>1, <1>2, <1>4 DEF Takes, LinesLive, InHand, Pending
<1>6. Paned(R, z, s, m, d, q)
  BY <1>3, <1>4, <1>5, PaneKeeps
<1> QED BY <1>6 DEF z

-----------------------------------------------------------------------------
(* What the processes do.                                                  *)

\* A process goes on.
LEMMA RunKeeps ==
  ASSUME NEW R, NEW p, NEW s, NEW m, NEW d, NEW q, Paned(R, p, s, m, d, q),
         NEW r \in HarnessRuns, NEW v \in RunType, NEW x, x = [m EXCEPT ![r] = v],
         \A t \in Shell!Tags : t.who = r => /\ Unsent(x, t) => Unsent(m, t)
                                            /\ IsOver(x, t) => IsOver(m, t) \/ ~InHand(p, t),
         RunIs(R, x, d, q, r)
  PROVE  Paned(R, p, s, x, d, q)
<1>1. /\ ShellTyped(R, s, m, d, q) /\ PaneIs(R, p) /\ LinesLive(p, s, m, d, q) /\ MarksAre(R, s)
      /\ Answers(p, s, d)
      /\ Quiets(R, p, s, d, q) /\ \A o \in HarnessRuns : RunIs(R, m, d, q, o)
  BY DEF Paned
<1>2. x \in [HarnessRuns -> RunType] /\ \A o \in HarnessRuns : o # r => x[o] = m[o]
  BY <1>1 DEF ShellTyped
<1>3. ShellTyped(R, s, x, d, q)
  BY <1>1, <1>2 DEF ShellTyped
<1>4. ASSUME NEW t \in Shell!Tags
      PROVE  (Unsent(x, t) => Unsent(m, t)) /\ (IsOver(x, t) => IsOver(m, t) \/ ~InHand(p, t))
  <2>1. CASE t.who = r
    BY <2>1
  <2>2. CASE t.who # r
    <3>1. t.who \in HarnessRuns
      BY DEF Shell!Tags
    <3>2. x[t.who] = m[t.who]
      BY <1>2, <2>2, <3>1
    <3> QED BY <3>2 DEF Unsent, IsOver
  <2> QED BY <2>1, <2>2
<1>5. LinesLive(p, s, x, d, q)
  BY <1>1, <1>4 DEF LinesLive
<1>6. \A o \in HarnessRuns : RunIs(R, x, d, q, o)
  <2>1. ASSUME NEW o \in HarnessRuns, o # r PROVE RunIs(R, x, d, q, o)
    BY <1>1, <1>2, <2>1 DEF RunIs
  <2> QED BY <2>1
<1> QED BY <1>1, <1>3, <1>5, <1>6 DEF Paned

\* A process that is under way flushes, sends, waits or gives up.
LEMMA GoesKeeps ==
  ASSUME Shell!HarnessAssumption, NEW R, NEW p, NEW s, NEW m, NEW d, NEW q, Paned(R, p, s, m, d, q),
         NEW r \in HarnessRuns, NEW pc \in {"send", "wait", "failed"}, m[r].pc \notin {"new", "done"},
         pc = "send" => m[r].pc = "flush"
  PROVE  Paned(R, p, s, [m EXCEPT ![r].pc = pc], d, q)
<1> DEFINE v == [m[r] EXCEPT !.pc = pc]
           x == [m EXCEPT ![r] = v]
<1>1. m \in [HarnessRuns -> RunType] /\ RunIs(R, m, d, q, r)
  BY DEF Paned, ShellTyped
<1>2. v \in RunType /\ v.pc = pc /\ v.probed = m[r].probed /\ v.dir = m[r].dir /\ x[r] = v
  BY <1>1 DEF RunType
<1>3. [m EXCEPT ![r].pc = pc] = x
  BY <1>1
<1> HIDE DEF v
<1>4. ASSUME NEW t \in Shell!Tags, t.who = r
      PROVE  (Unsent(x, t) => Unsent(m, t)) /\ (IsOver(x, t) => IsOver(m, t))
  BY <1>2, <1>4 DEF Unsent, IsOver
<1>5. RunIs(R, x, d, q, r)
  BY <1>1, <1>2 DEF RunIs
<1>6. Paned(R, p, s, x, d, q)
  BY <1>2, <1>4, <1>5, RunKeeps
<1> QED BY <1>3, <1>6

\* A line is sent: it was nowhere.
LEMMA SendReadies ==
  ASSUME Shell!HarnessAssumption, NEW d, NEW q, Paned(Ragged, pane, screen, runMu, d, q),
         NEW r \in HarnessRuns, runMu[r].pc = "send"
  PROVE  LET t == Shell!Now(r)
             x == [runMu EXCEPT ![r].pc = "wait"]
         IN /\ Paned(Ragged, pane, screen, x, d, q) /\ t \in Shell!Tags /\ Ready(pane, screen, x, d, q, t)
            /\ ~Unsent(x, t) /\ ~IsOver(x, t) /\ d[t] = "none"
            /\ \A i \in 1 .. Len(screen) : screen[i].by # t
<1> DEFINE t == Shell!Now(r)
           x == [runMu EXCEPT ![r].pc = "wait"]
<1>1. runMu \in [HarnessRuns -> RunType] /\ RunIs(Ragged, runMu, d, q, r) /\ LinesLive(pane, screen, runMu, d, q)
  BY DEF Paned, ShellTyped
<1>2. x[r].pc = "wait" /\ x[r].probed = runMu[r].probed /\ x[r].dir = runMu[r].dir
  BY <1>1 DEF RunType
<1>3. Paned(Ragged, pane, screen, x, d, q)
  BY GoesKeeps
<1>4. t \in Shell!Tags /\ t.who = r /\ t.what = IF runMu[r].probed /\ runMu[r].dir = "none" THEN "pwd" ELSE "cmd"
  BY DEF Shell!Tags, Shell!Tag, Shell!Now, Shell!None
<1> HIDE DEF t, x
<1>5. Unsent(runMu, t) /\ ~Unsent(x, t) /\ ~IsOver(x, t)
  BY <1>1, <1>2, <1>4 DEF Unsent, IsOver, RunIs
<1>6. ~InHand(pane, t) /\ t \notin q /\ d[t] = "none" /\ \A i \in 1 .. Len(screen) : screen[i].by # t
  BY <1>1, <1>4, <1>5 DEF LinesLive
<1>7. ~HasRow(screen, "out", t) /\ ~HasRow(screen, "mark", t)
  BY <1>6 DEF HasRow
<1> QED BY <1>3, <1>4, <1>5, <1>6, <1>7 DEF Ready, t, x

\* A line at a clean prompt whose echo is the last row is quiet.
LEMMA QuietJoins ==
  ASSUME NEW R, NEW z, NEW y, NEW m, NEW d, NEW q, Paned(R, z, y, m, d, q),
         NEW t \in Shell!Tags, ~Unsent(m, t), ~IsOver(m, t), d[t] = "none", ~IsIn(t, z.typed),
         Opens(R, t) => z.last # t, NEW n \in Nat, Len(y) = n + 1,
         y[n + 1].k = "echo" /\ y[n + 1].by = t, \A i \in 1 .. n : y[i].by # t
  PROVE  Paned(R, z, y, m, d, q \cup {t})
<1>1. /\ ShellTyped(R, y, m, d, q) /\ PaneIs(R, z) /\ LinesLive(z, y, m, d, q) /\ MarksAre(R, y)
      /\ Answers(z, y, d)
      /\ Quiets(R, z, y, d, q) /\ \A r \in HarnessRuns : RunIs(R, m, d, q, r)
  BY DEF Paned
<1>2. ShellTyped(R, y, m, d, q \cup {t})
  BY <1>1 DEF ShellTyped
<1>3. LinesLive(z, y, m, d, q \cup {t})
  BY <1>1 DEF LinesLive
<1>4. \A i \in 1 .. Len(y) : i \in 1 .. n \/ i = n + 1
  OBVIOUS
<1>5. ~HasRow(y, "mark", t)
  BY <1>4 DEF HasRow
<1>6. QuietAt(z, y, d, t, n + 1)
  <2>1. \A i \in 1 .. Len(y) : y[i].k = "echo" /\ y[i].by = t => i = n + 1
    BY <1>4
  <2>2. \A j : j \notin (n + 1) + 1 .. (Len(y) + 1) - 1
    OBVIOUS
  <2>3. Said(y, d, t, n + 1, Len(y) + 1)
    BY <2>2 DEF Said
  <2>4. \A i \in 1 .. Len(y) : ~(y[i].k = "mark" /\ y[i].by = t)
    BY <1>5 DEF HasRow
  <2> QED BY <2>1, <2>3, <2>4 DEF QuietAt
<1>7. Quiets(R, z, y, d, q \cup {t})
  <2>1. n + 1 \in 1 .. Len(y)
    OBVIOUS
  <2> QED BY <1>1, <1>5, <1>6, <2>1 DEF Quiets
<1>8. ASSUME NEW r \in HarnessRuns PROVE RunIs(R, m, d, q \cup {t}, r)
  <2>1. m[r].pc = "done" => Shell!Tag(r, "cmd") # t
    <3>1. Shell!Tag(r, "cmd").what = "cmd" /\ Shell!Tag(r, "cmd").who = r
      BY DEF Shell!Tag
    <3> QED BY <3>1 DEF IsOver
  <2> QED BY <1>1, <2>1 DEF RunIs
<1> QED BY <1>1, <1>2, <1>3, <1>7, <1>8 DEF Paned

\* Nothing of nothing is kept, and the last of what is kept is from the last place.
LEMMA LastKept ==
  ASSUME NEW s, NEW I \in SUBSET Int, IsFiniteSet(I)
  PROVE  /\ I = {} => Fan!Kept(s, I) = <<>>
         /\ \A i \in I : (\A j \in I : j <= i) => Fan!Kept(s, I)[Len(Fan!Kept(s, I))] = s[i]
<1> DEFINE K == Cardinality(I)
<1>1. /\ Fan!Kept(s, I) \in Seq({s[i] : i \in I}) /\ Len(Fan!Kept(s, I)) = Cardinality(I)
      /\ Cardinality(I) \in Nat
      /\ \A k \in 1 .. Cardinality(I) : Fan!Nth(I, k) \in I /\ Fan!Kept(s, I)[k] = s[Fan!Nth(I, k)]
      /\ \A i \in I : Fan!Rank(I, i) \in 1 .. Cardinality(I) /\ Fan!Kept(s, I)[Fan!Rank(I, i)] = s[i]
      /\ \A j, k \in 1 .. Cardinality(I) : j < k => Fan!Nth(I, j) < Fan!Nth(I, k)
  BY KeptIs
<1>2. \A i \in I : Fan!Nth(I, Fan!Rank(I, i)) = i
  BY NthIs
<1>3. I = {} => Fan!Kept(s, I) = <<>>
  BY <1>1, FS_EmptySet
<1>4. ASSUME NEW i \in I, \A j \in I : j <= i PROVE Fan!Kept(s, I)[Len(Fan!Kept(s, I))] = s[i]
  <2>1. Fan!Rank(I, i) \in 1 .. K /\ K \in Nat /\ K \in 1 .. K
    <3>1. Fan!Rank(I, i) \in 1 .. K /\ K \in Nat
      BY <1>1
    <3> HIDE DEF K
    <3> QED BY <3>1
  <2>2. Fan!Nth(I, K) \in I
    BY <1>1, <2>1
  <2>3. Fan!Nth(I, K) <= i /\ Fan!Nth(I, K) \in Int /\ i \in Int
    BY <1>4, <2>2
  <2>4. Fan!Rank(I, i) < K => i < Fan!Nth(I, K)
    BY <1>1, <1>2, <2>1
  <2>5. Fan!Rank(I, i) = K
    <3> HIDE DEF K
    <3> QED BY <2>1, <2>3, <2>4
  <2> QED BY <1>1, <2>5
<1> QED BY <1>3, <1>4

\* The harness finds its places as the fan-out does.
LEMMA ShellCounts ==
  /\ \A I : Shell!Least(I) = Fan!Least(I)
  /\ \A s, I : Shell!Kept(s, I) = Fan!Kept(s, I)
BY DEF Shell!Least, Fan!Least, Shell!Greatest, Fan!Greatest, Shell!Kept, Fan!Kept, Shell!Nth, Fan!Nth,
       Shell!Rank, Fan!Rank, Shell!Cardinality, Fan!Cardinality, Shell!IsFiniteSet, Fan!IsFiniteSet

\* The first row with the tag's exit code.
LEMMA FirstMark ==
  ASSUME NEW t, screen \in Seq(PaneRow), Shell!Marked(t) # {}
  PROVE  LET n == Shell!Least(Shell!Marked(t)) IN
         n \in 1 .. Len(screen) /\ screen[n].k = "mark" /\ screen[n].by = t
<1>1. Len(screen) \in Nat /\ DOMAIN screen = 1 .. Len(screen)
  OBVIOUS
<1>2. Shell!Marked(t) \in SUBSET (1 .. Len(screen))
  BY <1>1 DEF Shell!Marked
<1>3. Shell!Least(Shell!Marked(t)) \in Shell!Marked(t)
  BY <1>1, <1>2, PlacesAre, EndsAre, ShellCounts
<1> QED BY <1>1, <1>3 DEF Shell!Marked

\* The quiet line's output is what it printed.
LEMMA SliceIsSaid ==
  ASSUME Paned(Ragged, pane, screen, runMu, did, quiet), NEW t \in quiet, Shell!Marked(t) # {}
  PROVE  Prints(Shell!Slice(t), t, did)
<1> DEFINE n == Shell!Least(Shell!Marked(t))
           I == Shell!Between(t, n)
           K == Cardinality(I)
           w == Shell!Kept(screen, I)
<1>1. screen \in Seq(PaneRow) /\ Quiets(Ragged, pane, screen, did, quiet)
  BY DEF Paned, ShellTyped
<1>2. Len(screen) \in Nat /\ DOMAIN screen = 1 .. Len(screen)
  BY <1>1
<1>3. n \in 1 .. Len(screen) /\ screen[n].k = "mark" /\ screen[n].by = t
  BY <1>1, FirstMark
<1>4. PICK e \in 1 .. Len(screen) : QuietAt(pane, screen, did, t, e)
  BY <1>1 DEF Quiets
<1> HIDE DEF n
<1>5. e < n /\ Said(screen, did, t, e, n)
  BY <1>3, <1>4 DEF QuietAt
<1>6. Shell!Echoed(t) = {e}
  BY <1>2, <1>4 DEF QuietAt, Shell!Echoed
<1>7. Shell!Least({e}) = e
  <2>1. {e} \in SUBSET (1 .. Len(screen)) /\ {e} # {}
    OBVIOUS
  <2>2. Shell!Least({e}) \in {e}
    BY <1>2, <2>1, PlacesAre, EndsAre, ShellCounts
  <2> QED BY <2>2
<1>8. Shell!Slice(t) = w
  BY <1>6 DEF Shell!Slice, n
<1>9. I \in SUBSET (1 .. Len(screen)) /\ \A i : i \in I <=> i \in e + 1 .. n - 1
  <2>1. \A i : i \in I <=> i \in 1 .. Len(screen) /\ e < i /\ i < n
    BY <1>2, <1>6, <1>7 DEF Shell!Between
  <2>2. \A i : i \in 1 .. Len(screen) /\ e < i /\ i < n <=> i \in e + 1 .. n - 1
    BY <1>2, <1>3
  <2> HIDE DEF I
  <2> QED BY <2>1, <2>2
<1> HIDE DEF I
<1>10. I \in SUBSET Int /\ IsFiniteSet(I)
  BY <1>2, <1>9, PlacesAre
<1>11. /\ DOMAIN w = 1 .. K
       /\ \A k \in 1 .. K : Fan!Nth(I, k) \in I /\ w[k] = screen[Fan!Nth(I, k)]
       /\ \A i \in I : Fan!Rank(I, i) \in 1 .. K /\ w[Fan!Rank(I, i)] = screen[i]
  <2>1. /\ w \in Seq({screen[i] : i \in I}) /\ Len(w) = K
        /\ \A k \in 1 .. K : Fan!Nth(I, k) \in I /\ w[k] = screen[Fan!Nth(I, k)]
        /\ \A i \in I : Fan!Rank(I, i) \in 1 .. K /\ w[Fan!Rank(I, i)] = screen[i]
    BY <1>10, KeptIs, ShellCounts
  <2>2. \A S : \A x \in Seq(S) : DOMAIN x = 1 .. Len(x)
    OBVIOUS
  <2> HIDE DEF w, K
  <2> QED BY <2>1, <2>2
<1>12. \A k \in 1 .. K : Fan!Rank(I, Fan!Nth(I, k)) = k
  BY <1>10, NthIs
<1> HIDE DEF w, K
<1>13. CASE did[t] = "none"
  <2>1. \A i \in I : screen[i].k # "out"
    BY <1>5, <1>9, <1>13 DEF Said
  <2>2. Shell!Outputs(w) = {}
    BY <1>11, <2>1 DEF Shell!Outputs
  <2> QED BY <1>8, <1>13, <2>2 DEF Prints
<1>14. CASE did[t] # "none"
  <2>1. PICK i \in e + 1 .. n - 1 : screen[i] = Shell!Printed(t, did[t])
             /\ \A j \in e + 1 .. n - 1 : screen[j].k = "out" => j = i
    BY <1>5, <1>14 DEF Said
  <2>2. i \in I /\ screen[i].k = "out"
    BY <1>9, <2>1 DEF Shell!Printed
  <2>3. \A k \in 1 .. K : w[k].k = "out" => k = Fan!Rank(I, i)
    BY <1>9, <1>11, <1>12, <2>1
  <2>4. Shell!Outputs(w) = {Fan!Rank(I, i)}
    BY <1>11, <2>2, <2>3 DEF Shell!Outputs
  <2> QED BY <1>8, <1>11, <1>14, <2>1, <2>2, <2>4 DEF Prints
<1> QED BY <1>13, <1>14

\* If the last line before the question's echo names a directory, it is the answer.
LEMMA SliceAnswers ==
  ASSUME Paned(Ragged, pane, screen, runMu, did, quiet), NEW t \in Shell!Tags, t.what = "pwd",
         Shell!HarnessAssumption, Shell!Marked(t) # {},
         Shell!PwdOf(Shell!Slice(t)) # "none"
  PROVE  /\ Shell!PwdOf(Shell!Slice(t)) \in PlacesOrNone
         /\ Shell!PwdOf(Shell!Slice(t)) \in Dirs => Shell!PwdOf(Shell!Slice(t)) = did[t]
<1> DEFINE n == Shell!Least(Shell!Marked(t))
           I == Shell!Between(t, n)
<1>1. screen \in Seq(PaneRow) /\ Answers(pane, screen, did)
  BY DEF Paned, ShellTyped
<1>2. Len(screen) \in Nat /\ DOMAIN screen = 1 .. Len(screen)
  BY <1>1
<1>3. n \in 1 .. Len(screen) /\ screen[n].k = "mark" /\ screen[n].by = t
  BY <1>1, FirstMark
<1> HIDE DEF n
<1>4. AnsweredBy(screen, did, t, n)
  BY <1>1, <1>3 DEF Answers
<1>5. PICK i \in 1 .. n - 1 : screen[i] = Shell!Printed(t, did[t])
           /\ \A j \in i + 1 .. n - 1 : screen[j].k # "out"
  BY <1>4 DEF AnsweredBy
<1>6. Shell!Slice(t) # <<>>
  BY DEF Shell!PwdOf, Shell!None
<1>7. Shell!Slice(t) = Shell!Kept(screen, I) /\ Shell!Echoed(t) # {}
  BY <1>6 DEF Shell!Slice, n
<1>8. Shell!Least(Shell!Echoed(t)) \in 1 .. Len(screen)
  <2>1. Shell!Echoed(t) \in SUBSET (1 .. Len(screen))
    BY <1>2 DEF Shell!Echoed
  <2>2. Shell!Least(Shell!Echoed(t)) \in Shell!Echoed(t)
    BY <1>2, <1>7, <2>1, PlacesAre, EndsAre, ShellCounts
  <2> QED BY <2>1, <2>2
<1>9. /\ I \in SUBSET (1 .. Len(screen))
      /\ \A j : j \in I <=> j \in Shell!Least(Shell!Echoed(t)) + 1 .. n - 1
  BY <1>2, <1>3, <1>8 DEF Shell!Between
<1> HIDE DEF I
<1>10. I \in SUBSET Int /\ IsFiniteSet(I)
  BY <1>2, <1>9, PlacesAre
<1>11. I # {}
  BY <1>6, <1>7, <1>10, LastKept, ShellCounts
<1>12. n - 1 \in I /\ (\A j \in I : j <= n - 1) /\ n - 1 \in 1 .. Len(screen)
  <2>1. PICK j \in I : TRUE
    BY <1>11
  <2> QED BY <1>3, <1>8, <1>9, <2>1
<1>13. Shell!PwdOf(Shell!Slice(t)) = screen[n - 1].val
  <2>1. Shell!Kept(screen, I)[Len(Shell!Kept(screen, I))] = screen[n - 1]
    BY <1>10, <1>12, LastKept, ShellCounts
  <2> QED BY <1>6, <1>7, <2>1 DEF Shell!PwdOf
<1>14. screen[n - 1] \in PaneRow
  BY <1>1, <1>12
<1>15. screen[n - 1].val \in Dirs => screen[n - 1] = Shell!Printed(t, did[t])
  <2>1. SUFFICES ASSUME screen[n - 1].val \in Dirs PROVE i = n - 1
    BY <1>5
  <2>2. screen[n - 1].k = "out"
    BY <1>14, <2>1 DEF PaneRow
  <2> QED BY <1>3, <1>5, <2>2
<1> QED BY <1>13, <1>14, <1>15 DEF PaneRow, Shell!Printed

-----------------------------------------------------------------------------
(* The steps.                                                              *)

\* The shell has read a line: it is not at its prompt.
LEMMA ReadsAt ==
  ASSUME NEW R, NEW p, PaneIs(R, p), NEW t
  PROVE  Shell!Reads(p, t).at # "prompt"
<1>1. p \in PaneType /\ (p.at = "prompt" => p.open = <<>>)
  BY DEF PaneIs
<1>2. CASE Shell!OpensQuote(t) /\ p.open = <<>>
  BY <1>1, <1>2 DEF Shell!Reads, PaneType
<1>3. CASE ~Shell!OpensQuote(t) /\ p.open # <<>>
  BY <1>1, <1>3 DEF Shell!Reads
<1>4. CASE ~(Shell!OpensQuote(t) /\ p.open = <<>>) /\ ~(~Shell!OpensQuote(t) /\ p.open # <<>>)
  BY <1>1, <1>4 DEF Shell!Reads, PaneType
<1> QED BY <1>2, <1>3, <1>4

\* A line reaches the pane.
LEMMA LineEnters ==
  ASSUME Shell!HarnessAssumption, NEW m, NEW d, NEW q, Paned(Ragged, pane, screen, m, d, q),
         pane.at = "prompt" => pane.typed = <<>>,
         NEW t \in PaneLines, Ready(pane, screen, m, d, q, t), NEW v \in PlacesOrNone \ Dirs, Shell!Enter(t, v)
  PROVE  /\ Paned(Ragged, pane', screen', m, d, q) /\ (pane'.at = "prompt" => pane'.typed = <<>>)
         /\ screen' = Append(screen, Shell!Echo(t, v))
         /\ pane.at = "prompt" /\ ~pane.half => pane' = Shell!Reads(pane, t)
<1>1. PaneIs(Ragged, pane) /\ pane \in PaneType
  BY DEF Paned, PaneIs
<1>2. screen' = Append(screen, Shell!Echo(t, v))
  BY DEF Shell!Enter
<1>3. CASE pane.at = "busy" \/ pane.typed # <<>>
  <2>1. pane' = [pane EXCEPT !.typed = Append(@, t)] /\ pane.at # "prompt"
    BY <1>3 DEF Shell!Enter
  <2>2. Paned(Ragged, pane', screen', m, d, q)
    BY <1>2, <2>1, TypedAhead
  <2>3. pane'.at = pane.at
    BY <1>1, <2>1 DEF PaneType
  <2> QED BY <1>2, <2>1, <2>2, <2>3
<1>4. CASE ~(pane.at = "busy" \/ pane.typed # <<>>) /\ pane.at = "prompt" /\ pane.half
  <2>1. pane' = [pane EXCEPT !.half = FALSE]
    BY <1>4 DEF Shell!Enter
  <2>2. Paned(Ragged, pane', screen, m, d, q)
    BY <2>1, HalfKeeps
  <2>3. t \in Shell!Tags => ~Unsent(m, t) /\ t \notin q
    BY DEF Ready
  <2>4. Paned(Ragged, pane', screen', m, d, q)
    BY <1>2, <2>2, <2>3, EchoKeeps
  <2>5. pane'.typed = pane.typed
    BY <1>1, <2>1 DEF PaneType
  <2> QED BY <1>2, <1>4, <2>4, <2>5
<1>5. CASE ~(pane.at = "busy" \/ pane.typed # <<>>) /\ ~(pane.at = "prompt" /\ pane.half)
  <2>1. pane' = Shell!Reads(pane, t)
    BY <1>5 DEF Shell!Enter
  <2>2. Paned(Ragged, pane', screen', m, d, q)
    BY <1>2, <1>5, <2>1, ReadKeeps
  <2> QED BY <1>1, <1>2, <2>1, <2>2, ReadsAt
<1> QED BY <1>3, <1>4, <1>5

\* It starts so.
LEMMA ShellInits ==
  ASSUME Shell!HarnessAssumption, Shell!Init
  PROVE  ShellInv
<1>1. /\ Ragged \subseteq HarnessRuns /\ screen = <<>> /\ quiet = {} /\ alive = FALSE /\ anchor = "none"
      /\ runMu = [r \in HarnessRuns |-> Shell!New] /\ did = [t \in Shell!Tags |-> "none"]
  BY DEF Shell!Init, Shell!HarnessAssumption, Shell!None
<1>2. PICK w \in Dirs : pane = Shell!Fresh(w)
  <2>1. (CHOOSE w \in Dirs : TRUE) \in Dirs
    BY DEF Shell!HarnessAssumption
  <2> QED BY <2>1 DEF Shell!Init
<1>3. /\ pane.at = "prompt" /\ pane.now = <<>> /\ pane.ran = <<>> /\ pane.open = <<>> /\ pane.typed = <<>>
      /\ pane.last = Shell!Owner /\ pane \in PaneType
  <2>1. <<>> \in Seq(PaneLines) /\ Shell!Owner \in PaneLines
    BY DEF PaneLines
  <2> QED BY <1>2, <2>1 DEF Shell!Fresh, PaneType
<1>4. /\ Shell!New \in RunType /\ Shell!New.pc = "new" /\ Shell!New.dir = "none" /\ Shell!New.probed = FALSE
  <2>1. <<>> \in Seq(PaneRow) /\ <<>> \in Seq(PaneLines)
    OBVIOUS
  <2> QED BY <2>1 DEF Shell!New, RunType, PlacesOrNone, Shell!None
<1>5. Len(<<>>) = 0 /\ (\A i : i \notin 1 .. 0) /\ <<>> \in Seq(PaneRow)
  OBVIOUS
<1>6. ShellTyped(Ragged, screen, runMu, did, quiet)
  BY <1>1, <1>4, <1>5 DEF ShellTyped, PlacesOrNone
<1>7. PaneIs(Ragged, pane)
  BY <1>3 DEF PaneIs
<1>8. \A u : ~InHand(pane, u) /\ ~Pending(pane, u) /\ ~IsIn(u, pane.typed)
  BY <1>3, NoLine DEF InHand, Pending
<1>9. LinesLive(pane, screen, runMu, did, quiet)
  <2>1. \A t \in Shell!Tags : ~IsOver(runMu, t)
    BY <1>1, <1>4, OwnerIs DEF IsOver
  <2> QED BY <1>1, <1>3, <1>5, <1>8, <2>1 DEF LinesLive
<1>10. MarksAre(Ragged, screen)
  BY <1>1, <1>5 DEF MarksAre
<1>11. Answers(pane, screen, did)
  BY <1>1, <1>3, <1>5, OwnerIs DEF Answers
<1>12. Quiets(Ragged, pane, screen, did, quiet)
  BY <1>1 DEF Quiets
<1>13. \A r \in HarnessRuns : RunIs(Ragged, runMu, did, quiet, r)
  BY <1>1, <1>4 DEF RunIs
<1>14. Paned(Ragged, pane, screen, runMu, did, quiet)
  BY <1>6, <1>7, <1>9, <1>10, <1>11, <1>12, <1>13 DEF Paned
<1> QED BY <1>1, <1>3, <1>14 DEF ShellInv, PlacesOrNone

\* The shell reads on inside a quote.
LEMMA ShellReadsOn ==
  ASSUME Shell!HarnessAssumption, ShellInv, Shell!ReadsOn, Ragged' = Ragged
  PROVE  ShellInv'
<1> DEFINE z == [pane EXCEPT !.typed = Tail(@)]
           t == Head(pane.typed)
<1>1. /\ alive /\ pane.at = "more" /\ pane.typed # <<>>
      /\ pane' = Shell!Reads(z, t) /\ screen' = Append(screen, Shell!Echo(t, Shell!None))
      /\ UNCHANGED <<alive, anchor, runMu, did, quiet>>
  BY DEF Shell!ReadsOn, Shell!GoesOn, Shell!Is
<1>2. Paned(Ragged, pane, screen, runMu, did, quiet) /\ alive \in BOOLEAN /\ anchor \in PlacesOrNone
  BY DEF ShellInv
<1>3. Paned(Ragged, pane', screen', runMu, did, quiet)
  BY <1>1, <1>2, GoesOnKeeps
<1>4. PaneIs(Ragged, z)
  BY <1>1, <1>2, TypedGoes DEF Paned
<1>5. pane'.at # "prompt"
  BY <1>1, <1>4, ReadsAt
<1> QED BY <1>1, <1>2, <1>3, <1>5 DEF ShellInv

\* The running command prints.
LEMMA ShellPrints ==
  ASSUME Shell!HarnessAssumption, ShellInv, Shell!Prints, Ragged' = Ragged
  PROVE  ShellInv'
<1> DEFINE t == Head(pane.now)
           v == IF t.what = "cmd" /\ t # Shell!Owner THEN runMu[t.who].dir ELSE pane.pwd
           z == [pane EXCEPT !.now = Tail(@)]
           c == IF t # Shell!Owner THEN [did EXCEPT ![t] = v] ELSE did
           row == Shell!Printed(t, v)
<1>1. /\ alive /\ pane.at = "busy" /\ pane.now # <<>> /\ pane' = z
      /\ \/ screen' = Append(screen, row) /\ quiet' = quiet
         \/ screen' = <<row>> /\ quiet' = {}
         \/ t.what = "cmd" /\ screen' = screen /\ quiet' = quiet
      /\ did' = IF t # Shell!Owner /\ screen' # screen THEN [did EXCEPT ![t] = row.val] ELSE did
      /\ UNCHANGED <<alive, anchor, runMu>>
  BY DEF Shell!Prints
<1>2. Paned(Ragged, pane, screen, runMu, did, quiet) /\ alive \in BOOLEAN /\ anchor \in PlacesOrNone
  BY DEF ShellInv
<1>3. /\ ShellTyped(Ragged, screen, runMu, did, quiet) /\ LinesLive(pane, screen, runMu, did, quiet)
      /\ pane \in PaneType
  BY <1>2 DEF Paned, PaneIs
<1>4. t \in PaneLines /\ IsIn(t, pane.ran) /\ IsIn(t, pane.now)
  BY <1>1, <1>2, HeadPrints
<1>5. t # Shell!Owner => /\ t \in Shell!Tags /\ ~Unsent(runMu, t) /\ ~HasRow(screen, "out", t)
  <2>1. t # Shell!Owner => t \in Shell!Tags
    BY <1>4 DEF PaneLines
  <2>2. InHand(pane, t) /\ Pending(pane, t)
    BY <1>4 DEF InHand, Pending
  <2> QED BY <1>3, <2>1, <2>2 DEF LinesLive
<1>6. v \in PlacesOrNone /\ v # "none"
  <2>1. CASE t.what = "cmd" /\ t # Shell!Owner
    <3>1. runMu[t.who].dir # "none"
      BY <1>5, <2>1 DEF Unsent
    <3>2. runMu[t.who] \in RunType
      BY <1>3, <1>5, <2>1, OwnerIs DEF ShellTyped
    <3> QED BY <2>1, <3>1, <3>2 DEF RunType
  <2>2. CASE ~(t.what = "cmd" /\ t # Shell!Owner)
    BY <1>3, <2>2, NoPlace DEF PaneType, PlacesOrNone
  <2> QED BY <2>1, <2>2
<1>7. row.val = v /\ row.k = "out" /\ row.by = t
  BY DEF Shell!Printed
<1>8. z.at = "busy"
  BY <1>1, <1>3 DEF PaneType
<1> HIDE DEF v, z, t, row
<1>9. c \in [Shell!Tags -> PlacesOrNone] /\ \A u \in Shell!Tags : c[u] = IF u = t THEN v ELSE did[u]
  <2>1. did \in [Shell!Tags -> PlacesOrNone] /\ v \in PlacesOrNone
    BY <1>3, <1>6 DEF ShellTyped, PlacesOrNone
  <2> QED BY <1>5, <2>1, OwnerIs
<1>10. CASE screen' = Append(screen, row) /\ quiet' = quiet
  <2>1. screen' # screen
    <3>1. screen \in Seq(PaneRow)
      BY <1>3 DEF ShellTyped
    <3>2. \A s \in Seq(PaneRow) : Append(s, row) # s
      OBVIOUS
    <3> QED BY <1>10, <3>1, <3>2
  <2>2. did' = c
    BY <1>1, <1>7, <2>1
  <2> HIDE DEF c
  <2>3. Paned(Ragged, pane', screen', runMu, did', quiet)
    BY <1>1, <1>2, <1>6, <1>9, <1>10, <2>2, PrintKeeps DEF z, row, t
  <2> QED BY <1>1, <1>2, <1>8, <1>10, <2>3 DEF ShellInv
<1>11. CASE screen' = <<row>> /\ quiet' = {}
  <2>1. t # Shell!Owner => screen' # screen
    <3>1. Len(<<row>>) = 1 /\ <<row>>[1] = row /\ 1 \in 1 .. 1
      OBVIOUS
    <3>2. HasRow(<<row>>, "out", t)
      BY <1>7, <3>1 DEF HasRow
    <3> QED BY <1>5, <1>11, <3>2
  <2>2. did' = c
    BY <1>1, <1>7, <2>1
  <2> HIDE DEF c
  <2>3. Paned(Ragged, pane, <<>>, runMu, did, {})
    BY <1>1, <1>2, HistoryGoes
  <2>4. Append(<<>>, row) = <<row>>
    BY OneLine
  <2>5. Paned(Ragged, pane', Append(<<>>, row), runMu, did', {})
    BY <1>1, <2>3, <1>6, <1>9, <2>2, PrintKeeps DEF z, row, t
  <2> QED BY <1>1, <1>2, <1>8, <1>11, <2>4, <2>5 DEF ShellInv
<1>12. CASE t.what = "cmd" /\ screen' = screen /\ quiet' = quiet
  <2>1. did' = did
    BY <1>1, <1>12
  <2>2. Paned(Ragged, pane', screen', runMu, did', quiet)
    BY <1>1, <1>2, <1>12, <2>1, SilenceKeeps DEF z, t
  <2> QED BY <1>1, <1>2, <1>8, <1>12, <2>2 DEF ShellInv
<1> QED BY <1>1, <1>10, <1>11, <1>12

\* The list ends.
LEMMA ShellFinishes ==
  ASSUME Shell!HarnessAssumption, ShellInv, Shell!Finishes, Ragged' = Ragged
  PROVE  ShellInv'
<1>1. Paned(Ragged, pane, screen, runMu, did, quiet) /\ pane \in PaneType
  BY DEF ShellInv, Paned, PaneIs
<1>2. PICK w \in Dirs :
        LET p == [pane EXCEPT !.at = "prompt", !.ran = <<>>, !.last = Shell!Owner, !.pwd = w]
            s == IF pane.last = Shell!Owner THEN screen ELSE Append(screen, Shell!Mark(pane.last, pane.ran))
        IN IF pane.typed = <<>> THEN Shell!Is(p, s) ELSE Shell!GoesOn(p, s)
  <2>1. pane.pwd \in Dirs
    BY <1>1 DEF PaneType
  <2> QED BY <2>1 DEF Shell!Finishes
<1> DEFINE p == [pane EXCEPT !.at = "prompt", !.ran = <<>>, !.last = Shell!Owner, !.pwd = w]
           s == IF pane.last = Shell!Owner THEN screen ELSE Append(screen, Shell!Mark(pane.last, pane.ran))
<1>3. /\ alive /\ pane.at = "busy" /\ pane.now = <<>> /\ UNCHANGED <<alive, anchor, runMu, did, quiet>>
  BY DEF Shell!Finishes
<1>4. /\ Paned(Ragged, p, screen, runMu, did, quiet) /\ p.at = "prompt" /\ p.typed = pane.typed
      /\ pane.last # Shell!Owner =>
           Paned(Ragged, p, Append(screen, Shell!Mark(pane.last, pane.ran)), runMu, did, quiet)
  BY <1>1, <1>3, ListEnds
<1>5. Paned(Ragged, p, s, runMu, did, quiet)
  BY <1>4
<1>6. IF pane.typed = <<>> THEN Shell!Is(p, s) ELSE Shell!GoesOn(p, s)
  BY <1>2
<1> HIDE DEF p, s
<1>7. CASE pane.typed = <<>>
  <2>1. pane' = p /\ screen' = s
    BY <1>6, <1>7 DEF Shell!Is
  <2> QED BY <1>3, <1>4, <1>5, <1>7, <2>1 DEF ShellInv
<1>8. CASE pane.typed # <<>>
  <2> DEFINE z == [p EXCEPT !.typed = Tail(@)]
  <2>1. pane' = Shell!Reads(z, Head(p.typed)) /\ screen' = Append(s, Shell!Echo(Head(p.typed), Shell!None))
    BY <1>6, <1>8 DEF Shell!GoesOn, Shell!Is
  <2>2. p.at # "busy" /\ p.typed # <<>>
    BY <1>4, <1>8
  <2>3. Paned(Ragged, pane', screen', runMu, did, quiet)
    BY <1>5, <2>1, <2>2, GoesOnKeeps
  <2>4. PaneIs(Ragged, z)
    BY <1>5, <2>2, TypedGoes DEF Paned
  <2>5. pane'.at # "prompt"
    BY <2>1, <2>4, ReadsAt
  <2> QED BY <1>3, <2>3, <2>5 DEF ShellInv
<1> QED BY <1>7, <1>8

\* The running program reads what was typed ahead.
LEMMA ShellEats ==
  ASSUME Shell!HarnessAssumption, ShellInv, Shell!Eats, Ragged' = Ragged
  PROVE  ShellInv'
<1>1. /\ alive /\ pane.at = "busy" /\ pane.typed # <<>> /\ pane' = [pane EXCEPT !.typed = Tail(@)]
      /\ UNCHANGED <<alive, anchor, screen, runMu, did, quiet>>
  BY DEF Shell!Eats
<1>2. Paned(Ragged, pane, screen, runMu, did, quiet)
  BY DEF ShellInv
<1>3. Paned(Ragged, pane', screen, runMu, did, quiet) /\ pane'.at = pane.at
  BY <1>1, <1>2, TypedGoes
<1> QED BY <1>1, <1>3 DEF ShellInv

\* The owner types, sends C-c, opens the session, or it ends.
LEMMA ShellOwned ==
  ASSUME Shell!HarnessAssumption, ShellInv, Ragged' = Ragged,
         Shell!OwnerTypes \/ Shell!Key \/ Shell!Ends \/ Shell!Open
  PROVE  ShellInv'
<1>1. /\ Paned(Ragged, pane, screen, runMu, did, quiet) /\ pane \in PaneType /\ pane.pwd \in Dirs
      /\ alive \in BOOLEAN /\ anchor \in PlacesOrNone /\ (pane.at = "prompt" => pane.typed = <<>>)
      /\ (~alive => screen = <<>>)
  BY DEF ShellInv, Paned, PaneIs, PaneType
<1>2. CASE Shell!OwnerTypes
  <2>1. alive /\ UNCHANGED <<alive, anchor, runMu, did, quiet>>
    BY <1>2 DEF Shell!OwnerTypes
  <2>2. CASE pane' = [pane EXCEPT !.half = TRUE] /\ screen' = screen
    <3>1. pane'.at = pane.at /\ pane'.typed = pane.typed
      BY <1>1, <2>2 DEF PaneType
    <3>2. Paned(Ragged, pane', screen', runMu, did, quiet)
      BY <1>1, <2>2, HalfKeeps
    <3> QED BY <1>1, <2>1, <2>2, <3>1, <3>2 DEF ShellInv
  <2>3. ASSUME NEW v \in {Shell!None, Shell!Slashed}, Shell!Enter(Shell!Owner, v) PROVE ShellInv'
    <3>1. Shell!Owner \in PaneLines /\ Ready(pane, screen, runMu, did, quiet, Shell!Owner)
      BY OwnerIs DEF PaneLines, Ready
    <3>2. Paned(Ragged, pane', screen', runMu, did, quiet) /\ (pane'.at = "prompt" => pane'.typed = <<>>)
      BY <1>1, <2>3, <3>1, NoPlace, LineEnters
    <3> QED BY <1>1, <2>1, <3>2 DEF ShellInv
  <2> QED BY <1>2, <2>2, <2>3 DEF Shell!OwnerTypes, Shell!Is
<1>3. ASSUME NEW w \in Dirs PROVE Shell!Fresh(w).typed = <<>>
  BY DEF Shell!Fresh
<1>4. CASE Shell!Key
  <2>1. alive /\ pane' = Shell!Fresh(pane.pwd) /\ UNCHANGED <<alive, anchor, screen, runMu, did, quiet>>
    BY <1>4 DEF Shell!Key, Shell!Is
  <2>2. Paned(Ragged, pane', screen, runMu, did, quiet)
    BY <1>1, <2>1, FreshKeeps
  <2> QED BY <1>1, <1>3, <2>1, <2>2 DEF ShellInv
<1>5. CASE Shell!Ends
  <2>1. alive' = FALSE /\ pane' = Shell!Fresh(pane.pwd) /\ screen' = <<>> /\ quiet' = {}
        /\ UNCHANGED <<anchor, runMu, did>>
    BY <1>5 DEF Shell!Ends, Shell!Is
  <2>2. Paned(Ragged, pane', <<>>, runMu, did, {})
    BY <1>1, <2>1, FreshKeeps
  <2> QED BY <1>1, <1>3, <2>1, <2>2 DEF ShellInv
<1>6. CASE Shell!Open
  <2>1. alive' = TRUE /\ anchor' \in PlacesOrNone /\ UNCHANGED <<pane, screen, runMu, did, quiet>>
    BY <1>1, <1>6 DEF Shell!Open, Shell!HarnessAssumption, PlacesOrNone
  <2> QED BY <1>1, <2>1 DEF ShellInv
<1> QED BY <1>2, <1>4, <1>5, <1>6

\* A process learns its directory.
LEMMA ShellAnchor ==
  ASSUME Shell!HarnessAssumption, ShellInv, Ragged' = Ragged, NEW r \in HarnessRuns, Shell!Anchor(r)
  PROVE  ShellInv'
<1>1. /\ Paned(Ragged, pane, screen, runMu, did, quiet) /\ alive \in BOOLEAN /\ anchor \in PlacesOrNone
      /\ (pane.at = "prompt" => pane.typed = <<>>) /\ (~alive => screen = <<>>)
  BY DEF ShellInv
<1>2. runMu \in [HarnessRuns -> RunType] /\ RunIs(Ragged, runMu, did, quiet, r)
  BY <1>1 DEF Paned, ShellTyped
<1>3. runMu[r].pc = "new" /\ ~runMu[r].probed /\ runMu[r].dir = "none"
      /\ UNCHANGED <<alive, pane, screen, did, quiet>>
  BY <1>2 DEF Shell!Anchor, Shell!RunLeaves, RunIs
<1>4. PICK w \in PlacesOrNone, b \in BOOLEAN :
        /\ runMu' = [runMu EXCEPT ![r] = [runMu[r] EXCEPT !.pc = "flush", !.dir = w, !.probed = b]]
        /\ (w = "none" <=> b) /\ anchor' \in PlacesOrNone
  <2>1. CASE \E d \in Given : anchor' = d /\ runMu' = [runMu EXCEPT ![r].pc = "flush", ![r].dir = d]
    <3>1. PICK d \in Given : anchor' = d /\ runMu' = [runMu EXCEPT ![r].pc = "flush", ![r].dir = d]
      BY <2>1
    <3>2. d \in PlacesOrNone /\ d # "none"
      BY DEF Shell!HarnessAssumption, PlacesOrNone
    <3>3. runMu' = [runMu EXCEPT ![r] = [runMu[r] EXCEPT !.pc = "flush", !.dir = d, !.probed = FALSE]]
      BY <1>2, <1>3, <3>1 DEF RunType
    <3> QED BY <3>1, <3>2, <3>3
  <2>2. CASE anchor # "none" /\ anchor' = anchor /\ runMu' = [runMu EXCEPT ![r].pc = "flush", ![r].dir = anchor]
    <3>1. runMu' = [runMu EXCEPT ![r] = [runMu[r] EXCEPT !.pc = "flush", !.dir = anchor, !.probed = FALSE]]
      BY <1>2, <1>3, <2>2 DEF RunType
    <3> QED BY <1>1, <2>2, <3>1
  <2>3. CASE anchor' = anchor /\ runMu' = [runMu EXCEPT ![r].pc = "flush", ![r].probed = TRUE]
    <3>1. runMu' = [runMu EXCEPT ![r] = [runMu[r] EXCEPT !.pc = "flush", !.dir = "none", !.probed = TRUE]]
      BY <1>2, <1>3, <2>3 DEF RunType
    <3> QED BY <1>1, <2>3, <3>1 DEF PlacesOrNone
  <2> QED BY <2>1, <2>2, <2>3 DEF Shell!Anchor, Shell!None
<1> DEFINE v == [runMu[r] EXCEPT !.pc = "flush", !.dir = w, !.probed = b]
<1>5. v \in RunType /\ v.pc = "flush" /\ v.dir = w /\ v.probed = b /\ runMu'[r] = v
  BY <1>2, <1>4 DEF RunType
<1> HIDE DEF v
<1>6. ASSUME NEW t \in Shell!Tags, t.who = r
      PROVE  (Unsent(runMu', t) => Unsent(runMu, t)) /\ ~IsOver(runMu', t)
  BY <1>3, <1>4, <1>5, <1>6 DEF Unsent, IsOver
<1>7. RunIs(Ragged, runMu', did, quiet, r)
  BY <1>4, <1>5, NoPlace DEF RunIs
<1>8. Paned(Ragged, pane, screen, runMu', did, quiet)
  <2>1. runMu' = [runMu EXCEPT ![r] = v]
    BY <1>4 DEF v
  <2>2. \A t \in Shell!Tags : t.who = r => /\ Unsent(runMu', t) => Unsent(runMu, t)
                                           /\ IsOver(runMu', t) => IsOver(runMu, t) \/ ~InHand(pane, t)
    BY <1>6
  <2>3. v \in RunType
    BY <1>5
  <2> QED BY <1>1, <1>7, <2>1, <2>2, <2>3, RunKeeps
<1> QED BY <1>1, <1>3, <1>4, <1>8 DEF ShellInv

\* A process flushes, sends or gives up.
LEMMA ShellSends ==
  ASSUME Shell!HarnessAssumption, ShellInv, Ragged' = Ragged, NEW r \in HarnessRuns,
         Shell!Flush(r) \/ Shell!Send(r) \/ Shell!Timeout(r)
  PROVE  ShellInv'
<1>1. /\ Paned(Ragged, pane, screen, runMu, did, quiet) /\ alive \in BOOLEAN /\ anchor \in PlacesOrNone
      /\ (pane.at = "prompt" => pane.typed = <<>>) /\ (~alive => screen = <<>>) /\ pane \in PaneType
  BY DEF ShellInv, Paned, PaneIs
<1>2. CASE Shell!Flush(r)
  <2>1. /\ runMu[r].pc = "flush" /\ runMu' = [runMu EXCEPT ![r].pc = "send"]
        /\ pane' = [pane EXCEPT !.half = FALSE] /\ UNCHANGED <<alive, anchor, screen, did, quiet>>
    BY <1>2 DEF Shell!Flush, Shell!Goes, Shell!Is, Shell!RunLeaves
  <2>2. Paned(Ragged, pane, screen, runMu', did, quiet)
    BY <1>1, <2>1, GoesKeeps
  <2>3. Paned(Ragged, pane', screen, runMu', did, quiet)
    BY <2>1, <2>2, HalfKeeps
  <2>4. pane'.at = pane.at /\ pane'.typed = pane.typed
    BY <1>1, <2>1 DEF PaneType
  <2> QED BY <1>1, <2>1, <2>3, <2>4 DEF ShellInv
<1>3. CASE Shell!Timeout(r)
  <2>1. /\ runMu[r].pc = "wait" /\ runMu' = [runMu EXCEPT ![r].pc = "failed"]
        /\ UNCHANGED <<alive, anchor, pane, screen, did, quiet>>
    BY <1>3 DEF Shell!Timeout, Shell!Goes, Shell!RunLeaves
  <2>2. Paned(Ragged, pane, screen, runMu', did, quiet)
    BY <1>1, <2>1, GoesKeeps
  <2> QED BY <1>1, <2>1, <2>2 DEF ShellInv
<1>4. CASE Shell!Send(r) /\ ~alive
  <2>1. /\ runMu[r].pc = "send" /\ runMu' = [runMu EXCEPT ![r].pc = "failed"]
        /\ UNCHANGED <<alive, anchor, pane, screen, did, quiet>>
    BY <1>4 DEF Shell!Send, Shell!Goes, Shell!RunLeaves
  <2>2. Paned(Ragged, pane, screen, runMu', did, quiet)
    BY <1>1, <2>1, GoesKeeps
  <2> QED BY <1>1, <2>1, <2>2 DEF ShellInv
<1>5. CASE Shell!Send(r) /\ alive
  <2> DEFINE t == Shell!Now(r)
             x == [runMu EXCEPT ![r].pc = "wait"]
  <2>1. /\ runMu[r].pc = "send" /\ runMu' = x /\ Shell!Enter(t, Shell!None) /\ UNCHANGED <<alive, anchor, did>>
        /\ quiet' = IF pane.at = "prompt" /\ ~pane.half THEN quiet \cup {t} ELSE quiet
    BY <1>5 DEF Shell!Send, Shell!Goes, Shell!RunLeaves
  <2> HIDE DEF t, x
  <2>2. /\ Paned(Ragged, pane, screen, x, did, quiet) /\ t \in Shell!Tags /\ Ready(pane, screen, x, did, quiet, t)
        /\ ~Unsent(x, t) /\ ~IsOver(x, t) /\ did[t] = "none"
        /\ \A i \in 1 .. Len(screen) : screen[i].by # t
    BY <1>1, <2>1, SendReadies DEF x, t
  <2>3. /\ Paned(Ragged, pane', screen', x, did, quiet) /\ (pane'.at = "prompt" => pane'.typed = <<>>)
        /\ screen' = Append(screen, Shell!Echo(t, Shell!None))
        /\ pane.at = "prompt" /\ ~pane.half => pane' = Shell!Reads(pane, t)
    BY <1>1, <2>1, <2>2, NoPlace, LineEnters DEF PaneLines
  <2>4. CASE ~(pane.at = "prompt" /\ ~pane.half)
    BY <1>1, <1>5, <2>1, <2>3, <2>4 DEF ShellInv
  <2>5. CASE pane.at = "prompt" /\ ~pane.half
    <3>1. PaneIs(Ragged, pane) /\ screen \in Seq(PaneRow)
      BY <1>1 DEF Paned, ShellTyped
    <3>2. pane.open = <<>> /\ pane.typed = <<>> /\ pane.last = Shell!Owner /\ Shell!Owner # t
      BY <1>1, <2>2, <2>5, <3>1, OwnerIs DEF PaneIs
    <3>3. pane'.typed = <<>> /\ (Opens(Ragged, t) => pane'.last = Shell!Owner)
      BY <1>1, <2>3, <2>5, <3>2 DEF Shell!Reads, PaneType, Opens, Shell!OpensQuote
    <3>4. ~IsIn(t, pane'.typed) /\ (Opens(Ragged, t) => pane'.last # t)
      BY <3>2, <3>3, NoLine
    <3>5. Shell!Echo(t, Shell!None).k = "echo" /\ Shell!Echo(t, Shell!None).by = t
      BY DEF Shell!Echo
    <3>6. /\ Len(screen) \in Nat /\ Len(screen') = Len(screen) + 1
          /\ screen'[Len(screen) + 1].k = "echo" /\ screen'[Len(screen) + 1].by = t
          /\ \A i \in 1 .. Len(screen) : screen'[i].by # t
      <4>1. /\ Len(screen) \in Nat /\ Len(screen') = Len(screen) + 1
            /\ screen'[Len(screen) + 1] = Shell!Echo(t, Shell!None)
            /\ \A i \in 1 .. Len(screen) : screen'[i] = screen[i]
        BY <2>3, <3>1
      <4> QED BY <2>2, <3>5, <4>1
    <3>7. Paned(Ragged, pane', screen', x, did, quiet \cup {t})
      BY <2>2, <2>3, <3>4, <3>6, QuietJoins
    <3> QED BY <1>1, <1>5, <2>1, <2>3, <2>5, <3>7 DEF ShellInv
  <2> QED BY <2>4, <2>5
<1> QED BY <1>2, <1>3, <1>4, <1>5

\* A process reads the screen.
LEMMA ShellPolls ==
  ASSUME Shell!HarnessAssumption, ShellInv, Ragged' = Ragged, NEW r \in HarnessRuns, Shell!Poll(r)
  PROVE  ShellInv'
<1> DEFINE t   == Shell!Now(r)
           out == Shell!Slice(t)
           n   == Shell!Least(Shell!Marked(t))
           rc  == screen[n].code
<1>1. /\ Paned(Ragged, pane, screen, runMu, did, quiet) /\ alive \in BOOLEAN /\ anchor \in PlacesOrNone
      /\ (pane.at = "prompt" => pane.typed = <<>>) /\ (~alive => screen = <<>>)
  BY DEF ShellInv
<1>2. /\ runMu \in [HarnessRuns -> RunType] /\ RunIs(Ragged, runMu, did, quiet, r) /\ screen \in Seq(PaneRow)
      /\ MarksAre(Ragged, screen) /\ LinesLive(pane, screen, runMu, did, quiet)
      /\ did \in [Shell!Tags -> PlacesOrNone]
  BY <1>1 DEF Paned, ShellTyped
<1>3. /\ runMu[r].pc = "wait" /\ Shell!Marked(t) # {} /\ UNCHANGED <<alive, pane, screen, did, quiet>>
      /\ IF t.what = "cmd"
           THEN /\ runMu' = [runMu EXCEPT ![r].pc = "done", ![r].out = out, ![r].rc = rc]
                /\ UNCHANGED anchor
         ELSE IF Shell!PwdOf(out) = "none" THEN runMu' = [runMu EXCEPT ![r].pc = "failed"] /\ UNCHANGED anchor
         ELSE /\ anchor' = Shell!PwdOf(out)
              /\ runMu' = [runMu EXCEPT ![r].pc = "flush", ![r].dir = Shell!PwdOf(out)]
  BY DEF Shell!Poll, Shell!RunLeaves, Shell!Goes, Shell!None
<1>4. /\ t = Shell!Tag(r, IF runMu[r].probed /\ runMu[r].dir = "none" THEN "pwd" ELSE "cmd")
      /\ t \in Shell!Tags /\ t.who = r /\ t.what = (IF runMu[r].probed /\ runMu[r].dir = "none" THEN "pwd" ELSE "cmd")
  BY DEF Shell!Now, Shell!None, Shell!Tags, Shell!Tag
<1> HIDE DEF t
<1>5. n \in 1 .. Len(screen) /\ screen[n].k = "mark" /\ screen[n].by = t
  BY <1>2, <1>3, FirstMark
<1> HIDE DEF n
<1>6. ~InHand(pane, t)
  BY <1>2, <1>4, <1>5 DEF LinesLive, HasRow
<1>7. ListOf(Ragged, rc, t) /\ rc \in Seq(PaneLines)
  <2>1. screen[n] \in PaneRow
    BY <1>2, <1>5
  <2> QED BY <1>2, <1>5, <2>1 DEF MarksAre, PaneRow
<1>8. out \in Seq(PaneRow)
  <2>1. ASSUME NEW I \in SUBSET (1 .. Len(screen)) PROVE Shell!Kept(screen, I) \in Seq(PaneRow)
    <3>1. Len(screen) \in Nat /\ \A i \in I : screen[i] \in PaneRow
      BY <1>2
    <3>2. Shell!Kept(screen, I) \in Seq({screen[i] : i \in I})
      BY <3>1, PlacesAre, KeptIs, ShellCounts
    <3>3. \A S, T : S \subseteq T => \A s \in Seq(S) : s \in Seq(T)
      OBVIOUS
    <3>4. {screen[i] : i \in I} \subseteq PaneRow
      BY <3>1
    <3> QED BY <3>2, <3>3, <3>4
  <2>2. Shell!Between(t, n) \in SUBSET (1 .. Len(screen))
    <3>1. DOMAIN screen = 1 .. Len(screen)
      BY <1>2
    <3> QED BY <3>1 DEF Shell!Between
  <2>3. <<>> \in Seq(PaneRow)
    OBVIOUS
  <2> QED BY <2>1, <2>2, <2>3 DEF Shell!Slice, n
<1> HIDE DEF out, rc
<1>9. CASE t.what = "cmd"
  <2> DEFINE v == [runMu[r] EXCEPT !.pc = "done", !.out = out, !.rc = rc]
  <2>1. runMu' = [runMu EXCEPT ![r] = v] /\ anchor' = anchor
    BY <1>2, <1>3, <1>9
  <2>2. /\ v \in RunType /\ v.pc = "done" /\ v.dir = runMu[r].dir /\ v.probed = runMu[r].probed
        /\ v.rc = rc /\ v.out = out
    BY <1>2, <1>7, <1>8 DEF RunType
  <2> HIDE DEF v
  <2>3. runMu'[r] = v
    BY <1>2, <2>1
  <2>4. runMu[r].dir # "none" /\ t = Shell!Tag(r, "cmd")
    BY <1>2, <1>3, <1>4, <1>9 DEF RunIs
  <2>5. ASSUME NEW u \in Shell!Tags, u.who = r
        PROVE  (Unsent(runMu', u) => Unsent(runMu, u))
               /\ (IsOver(runMu', u) => IsOver(runMu, u) \/ ~InHand(pane, u))
    <3>1. u.what = "cmd" => u = t
      BY <1>4, <1>9, <2>5, OwnerIs
    <3> QED BY <1>6, <2>2, <2>3, <2>4, <2>5, <3>1 DEF Unsent, IsOver
  <2>6. t \in quiet => Prints(out, t, did)
    BY <1>1, <1>3, SliceIsSaid DEF out
  <2>7. RunIs(Ragged, runMu', did, quiet, r)
    BY <1>2, <1>7, <2>2, <2>3, <2>4, <2>6 DEF RunIs
  <2>8. Paned(Ragged, pane, screen, runMu', did, quiet)
    BY <1>1, <2>1, <2>2, <2>5, <2>7, RunKeeps
  <2> QED BY <1>1, <1>3, <2>1, <2>8 DEF ShellInv
<1>10. CASE t.what # "cmd" /\ Shell!PwdOf(out) = "none"
  <2>1. runMu' = [runMu EXCEPT ![r].pc = "failed"] /\ anchor' = anchor
    BY <1>3, <1>10
  <2>2. Paned(Ragged, pane, screen, runMu', did, quiet)
    BY <1>1, <1>3, <2>1, GoesKeeps
  <2> QED BY <1>1, <1>3, <2>1, <2>2 DEF ShellInv
<1>11. CASE t.what # "cmd" /\ Shell!PwdOf(out) # "none"
  <2> DEFINE w == Shell!PwdOf(out)
             v == [runMu[r] EXCEPT !.pc = "flush", !.dir = w]
  <2>1. runMu' = [runMu EXCEPT ![r] = v] /\ anchor' = w
    BY <1>2, <1>3, <1>11
  <2>2. t.what = "pwd" /\ t = Shell!Tag(r, "pwd") /\ runMu[r].probed /\ runMu[r].dir = "none"
    BY <1>4, <1>11
  <2>3. (w \in Dirs => w = did[t]) /\ w \in PlacesOrNone /\ w # "none"
    BY <1>1, <1>3, <1>4, <1>11, <2>2, SliceAnswers DEF out
  <2> HIDE DEF w
  <2>4. w \in PlacesOrNone
    BY <2>3
  <2>5. v \in RunType /\ v.pc = "flush" /\ v.dir = w /\ v.probed = runMu[r].probed
    BY <1>2, <2>4 DEF RunType
  <2> HIDE DEF v
  <2>6. runMu'[r] = v
    BY <1>2, <2>1
  <2>7. ASSUME NEW u \in Shell!Tags, u.who = r
        PROVE  (Unsent(runMu', u) => Unsent(runMu, u))
               /\ (IsOver(runMu', u) => IsOver(runMu, u) \/ ~InHand(pane, u))
    <3>1. u.what # "cmd" => u = t
      BY <2>2, <2>7, OwnerIs
    <3> QED BY <1>6, <2>2, <2>3, <2>5, <2>6, <2>7, <3>1 DEF Unsent, IsOver
  <2>8. RunIs(Ragged, runMu', did, quiet, r)
    BY <2>2, <2>3, <2>5, <2>6 DEF RunIs
  <2>9. Paned(Ragged, pane, screen, runMu', did, quiet)
    BY <1>1, <2>1, <2>5, <2>7, <2>8, RunKeeps
  <2> QED BY <1>1, <1>3, <2>1, <2>4, <2>9 DEF ShellInv
<1> QED BY <1>9, <1>10, <1>11

\* Every step keeps the invariant.
LEMMA ShellStays ==
  ASSUME Shell!HarnessAssumption
  PROVE  /\ Shell!Init => ShellInv
         /\ ShellInv /\ [Shell!Next /\ UNCHANGED Ragged]_(Shell!vars) => ShellInv'
<1>1. SUFFICES ASSUME ShellInv, [Shell!Next /\ UNCHANGED Ragged]_(Shell!vars) PROVE ShellInv'
  BY ShellInits
<1>2. CASE UNCHANGED Shell!vars
  BY <1>1, <1>2 DEF ShellInv, Shell!vars
<1>3. CASE Shell!Next /\ UNCHANGED Ragged
  <2>1. CASE Shell!ReadsOn
    BY <1>1, <1>3, <2>1, ShellReadsOn
  <2>2. CASE Shell!Prints
    BY <1>1, <1>3, <2>2, ShellPrints
  <2>3. CASE Shell!Finishes
    BY <1>1, <1>3, <2>3, ShellFinishes
  <2>4. CASE Shell!Eats
    BY <1>1, <1>3, <2>4, ShellEats
  <2>5. CASE Shell!OwnerTypes \/ Shell!Key \/ Shell!Ends \/ Shell!Open
    BY <1>1, <1>3, <2>5, ShellOwned
  <2>6. CASE \E r \in HarnessRuns : Shell!Anchor(r)
    BY <1>1, <1>3, <2>6, ShellAnchor
  <2>7. CASE \E r \in HarnessRuns : Shell!Flush(r) \/ Shell!Send(r) \/ Shell!Timeout(r)
    BY <1>1, <1>3, <2>7, ShellSends
  <2>8. CASE \E r \in HarnessRuns : Shell!Poll(r)
    BY <1>1, <1>3, <2>8, ShellPolls
  <2> QED BY <1>3, <2>1, <2>2, <2>3, <2>4, <2>5, <2>6, <2>7, <2>8 DEF Shell!Next
<1> QED BY <1>1, <1>2, <1>3

\* The invariant gives the types, the exit codes and the outputs.
LEMMA ShellImplies ==
  ASSUME Shell!HarnessAssumption, ShellInv
  PROVE  Shell!TypeOK /\ Shell!RcIsOwn /\ Shell!SliceIsOwn
<1>1. /\ Paned(Ragged, pane, screen, runMu, did, quiet) /\ alive \in BOOLEAN /\ anchor \in PlacesOrNone
      /\ (~alive => screen = <<>>)
  BY DEF ShellInv
<1>2. /\ runMu \in [HarnessRuns -> RunType] /\ (\A r \in HarnessRuns : RunIs(Ragged, runMu, did, quiet, r))
      /\ PaneIs(Ragged, pane) /\ quiet \subseteq Shell!Tags /\ Ragged \subseteq HarnessRuns
  BY <1>1 DEF Paned, ShellTyped
<1>3. ASSUME NEW r \in HarnessRuns, runMu[r].pc = "done"
      PROVE  ListOf(Ragged, runMu[r].rc, Shell!Tag(r, "cmd")) /\ runMu[r].dir # "none"
  BY <1>2, <1>3 DEF RunIs
<1>4. Shell!TypeOK
  <2>1. pane.at \in {"prompt", "busy", "more"} /\ (pane.at = "more" <=> pane.open # <<>>)
    BY <1>2, OneLine DEF PaneIs, PaneType
  <2>2. ASSUME NEW r \in HarnessRuns
        PROVE  /\ runMu[r].pc \in {"new", "flush", "send", "wait", "done", "failed"}
               /\ runMu[r].pc = "done" => runMu[r].dir \in Dirs \cup {Shell!Slashed} /\ runMu[r].rc # <<>>
    <3>1. runMu[r] \in RunType
      BY <1>2
    <3> QED BY <1>3, <3>1, EndIsIn DEF RunType, PlacesOrNone, Shell!Slashed
  <2> QED BY <1>1, <1>2, <2>1, <2>2 DEF Shell!TypeOK, PlacesOrNone, Shell!None, Shell!Slashed
<1>5. Shell!RcIsOwn
  <2>1. SUFFICES ASSUME NEW r \in HarnessRuns, runMu[r].pc = "done"
                 PROVE  \/ runMu[r].rc = <<Shell!Tag(r, "cmd")>>
                        \/ r \in Ragged /\ \E o \in Ragged \ {r} :
                             runMu[r].rc = <<Shell!Tag(o, "cmd"), Shell!Tag(r, "cmd")>>
    BY DEF Shell!RcIsOwn
  <2>2. ListOf(Ragged, runMu[r].rc, Shell!Tag(r, "cmd"))
    BY <1>3, <2>1
  <2>3. CASE \E o \in Shell!Tags : /\ o # Shell!Tag(r, "cmd") /\ Opens(Ragged, o) /\ Opens(Ragged, Shell!Tag(r, "cmd"))
                                   /\ runMu[r].rc = <<o, Shell!Tag(r, "cmd")>>
    <3>1. PICK o \in Shell!Tags : /\ o # Shell!Tag(r, "cmd") /\ Opens(Ragged, o) /\ Opens(Ragged, Shell!Tag(r, "cmd"))
                                  /\ runMu[r].rc = <<o, Shell!Tag(r, "cmd")>>
      BY <2>3
    <3>2. Shell!Tag(r, "cmd").who = r /\ o.what = "cmd" /\ o.who \in Ragged /\ r \in Ragged
      BY <3>1 DEF Opens, Shell!Tag
    <3>3. o = Shell!Tag(o.who, "cmd")
      BY <3>2, OwnerIs
    <3>4. o.who # r
      BY <3>1, <3>3
    <3> QED BY <3>1, <3>2, <3>3, <3>4
  <2> QED BY <2>2, <2>3 DEF ListOf
<1>6. Shell!SliceIsOwn
  BY <1>2 DEF RunIs, Prints, Shell!SliceIsOwn, Shell!None
<1> QED BY <1>4, <1>5, <1>6

\* Whoever else drives the pane, hangs in it or was given up on, a run's exit code is its own
\* command's, or of the list that an open quote and its own made together, and its output and
\* the directory it pins are what its own line printed (internal/cli/jobharness.go).
THEOREM ShellIsOwn ==
  ASSUME Shell!HarnessAssumption
  PROVE  Shell!Spec => [](Shell!TypeOK /\ Shell!RcIsOwn /\ Shell!SliceIsOwn)
<1>1. Shell!Init => ShellInv
  BY ShellStays
<1>2. ShellInv /\ [Shell!Next /\ UNCHANGED Ragged]_(Shell!vars) => ShellInv'
  BY ShellStays
<1>3. ShellInv => Shell!TypeOK /\ Shell!RcIsOwn /\ Shell!SliceIsOwn
  BY ShellImplies
<1> QED BY <1>1, <1>2, <1>3, PTL DEF Shell!Spec
===============================================================================
