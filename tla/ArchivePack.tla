------------------------------ MODULE ArchivePack ------------------------------
(***************************************************************************)
(* mu archive put and get of the case leaves under one directory           *)
(* (internal/archive/archive.go, tar/tar.go, hooks/hooks.go): one batch    *)
(* tar, one tar per leaf, or the chunks a model's pack hook asks for.  The *)
(* site's archive command is external; each of its calls may fail.         *)
(***************************************************************************)
EXTENDS Naturals, Sequences, FiniteSets, SequencesExt

CONSTANTS
  Files,     \* regular files of the leaf
  Asked,     \* chunk suffixes a hook may name, "" an unusable one
  MaxWrites, \* bound on the writes of a file
  MaxPuts    \* bound on the puts

VARIABLES
  leaf,    \* the run's directory here: the write each file holds, or Absent
  size,    \* of the leaf and of the bare case staged beside it: "small", "large", "huge"
  staging, \* tars staged next to the leaf
  tape,    \* the archive: the tars of the leaf, and the batch
  mu,      \* the process: "off", "pack", "put", what is left to pack
  puts,    \* how many were planned
  plan, want, disturbed, complete  \* history: the last put's packs, the leaf when it
                                   \* was planned, whether it changed before all was up

vars == <<leaf, size, staging, tape, mu, puts, plan, want, disturbed, complete>>

Absent == MaxWrites + 1
Names  == Asked \cup {"whole", "rest", "batch"}
Empty  == [f \in Files |-> Absent]
NoTar  == [there |-> FALSE, files |-> Empty]
Off    == [pc |-> "off", left |-> <<>>]
Pack(name, members) == [name |-> name, members |-> members]

Present(d) == {f \in Files : d[f] # Absent}

Init ==
  /\ leaf = [f \in Files |-> 0]
  /\ size \in [{"run", "bare"} -> {"small", "large", "huge"}]
  /\ staging = {} /\ tape = [n \in Names |-> NoTar]
  /\ mu = Off /\ puts = 0
  /\ plan = <<>> /\ want = Empty /\ disturbed = FALSE /\ complete = FALSE

-----------------------------------------------------------------------------
(* Planning.                                                               *)

Group == [suffix: Asked, masks: SUBSET Files]
Manifests == UNION {[1 .. n -> Group] : n \in 0 .. 2}

\* splitPacks: a bad or a repeated suffix, a file claimed twice and a hook that matches
\* nothing are errors; what no group claims goes into the rest.
Broken(m, files) ==
  \/ \E i \in DOMAIN m : m[i].suffix = ""
  \/ \E i, j \in DOMAIN m : i # j /\ (m[i].suffix = m[j].suffix \/ m[i].masks \cap m[j].masks \cap files # {})
  \/ \A i \in DOMAIN m : m[i].masks \cap files = {}

SplitPacks(m, files) ==
  LET claimed == UNION {m[i].masks : i \in DOMAIN m} \cap files
      chunks  == [i \in DOMAIN m |-> Pack(m[i].suffix, m[i].masks \cap files)]
      rest    == files \ claimed
  IN SelectSeq(chunks, LAMBDA p : p.members # {}) \o (IF rest = {} THEN <<>> ELSE <<Pack("rest", rest)>>)

\* A whole directory is tarred without naming its members.
Whole(n) == <<Pack(n, Files)>>

\* leafPack: below the threshold, without a hook, and with a hook that fails or whose
\* manifest is broken, one tar.
LeafPack ==
  {Whole("whole")} \cup
  (IF size["run"] # "huge" THEN {}
   ELSE {SplitPacks(m, Present(leaf)) : m \in {m \in Manifests : ~Broken(m, Present(leaf))}})

\* planDir: the leaf itself, or its parent: a batch if every case leaf is small, guarded
\* ones too; otherwise leaf by leaf, and the bare case, which archives from the permanent
\* tier only, is skipped.
PlanDir(arg) ==
  IF arg = "leaf" \/ \E l \in DOMAIN size : size[l] # "small" THEN LeafPack
  ELSE {Whole("batch")}

Put(arg) ==
  /\ mu.pc = "off" /\ puts < MaxPuts
  /\ puts' = puts + 1
  /\ \E ps \in PlanDir(arg) :
       /\ mu' = [pc |-> "pack", left |-> ps]
       /\ plan' = ps
  /\ want' = leaf /\ disturbed' = FALSE /\ complete' = FALSE
  /\ UNCHANGED <<leaf, size, staging, tape>>

-----------------------------------------------------------------------------
(* runPack, one tar after another.                                         *)

Fail == mu' = Off /\ UNCHANGED complete

\* A tar staged there by somebody stops the put; a member that is gone since the plan fails
\* the tar, which is removed.
Stage ==
  /\ mu.pc = "pack"
  /\ LET p == Head(mu.left) IN
     IF p.name \in staging \/ (p.members # Files /\ ~(p.members \subseteq Present(leaf)))
       THEN Fail /\ UNCHANGED staging
       ELSE /\ staging' = staging \cup {p.name}
            /\ mu' = [mu EXCEPT !.pc = "put"]
            /\ UNCHANGED complete
  /\ UNCHANGED <<leaf, size, tape, puts, plan, want, disturbed>>

\* tar reads the members and archive put -D takes the tar: the same names on the archive are
\* replaced.  A put that failed leaves what was there.
Upload ==
  /\ mu.pc = "put"
  /\ LET p == Head(mu.left) IN
     /\ staging' = staging \ {p.name}
     /\ \/ /\ tape' = [tape EXCEPT ![p.name] =
                 [there |-> TRUE, files |-> [f \in Files |-> IF f \in p.members THEN leaf[f] ELSE Absent]]]
           /\ IF Len(mu.left) = 1
                THEN mu' = Off /\ complete' = TRUE
                ELSE mu' = [pc |-> "pack", left |-> Tail(mu.left)] /\ UNCHANGED complete
        \/ Fail /\ UNCHANGED tape
  /\ UNCHANGED <<leaf, size, puts, plan, want, disturbed>>

Killed ==
  /\ mu.pc # "off" /\ Fail
  /\ UNCHANGED <<leaf, size, staging, tape, puts, plan, want, disturbed>>

\* The owner clears a tar a killed put has left.
Clear ==
  /\ mu.pc = "off" /\ staging # {}
  /\ staging' = {}
  /\ UNCHANGED <<leaf, size, tape, mu, puts, plan, want, disturbed, complete>>

-----------------------------------------------------------------------------
(* get.                                                                    *)

\* chunkNames: the leaf's own tars, those of a leaf whose name begins with its name not, in
\* the order of their names.
Order == <<"whole", "a", "b", "rest">>
\* Mutant: the rest is not a chunk.
ChunkNamesHook == SelectSeq(<<"whole", "a", "b">>, LAMBDA n : n \in Names /\ tape[n].there)

ChunkNames == SelectSeq(Order, LAMBDA n : n \in Names /\ tape[n].there)

Extract(d, ns) ==
  FoldLeft(LAMBDA acc, n : [f \in Files |-> IF tape[n].files[f] # Absent THEN tape[n].files[f] ELSE acc[f]], d, ns)

\* getLeaf: no chunk is an error; a get that fails has extracted some.
Get ==
  /\ mu.pc = "off" /\ ChunkNames # <<>>
  /\ \E n \in 1 .. Len(ChunkNames) : leaf' = Extract(leaf, SubSeq(ChunkNames, 1, n))
  /\ UNCHANGED <<size, staging, tape, mu, puts, plan, want, disturbed, complete>>

\* The job, or its owner, goes on writing; the owner frees the scratch space.
Write(f) ==
  /\ leaf[f] < MaxWrites
  /\ leaf' = [leaf EXCEPT ![f] = @ + 1]
  /\ disturbed' = (disturbed \/ ~complete)
  /\ UNCHANGED <<size, staging, tape, mu, puts, plan, want, complete>>

Free ==
  /\ leaf' = Empty
  /\ disturbed' = (disturbed \/ ~complete)
  /\ UNCHANGED <<size, staging, tape, mu, puts, plan, want, complete>>

Next ==
  \/ \E arg \in {"leaf", "parent"} : Put(arg)
  \/ Stage \/ Upload \/ Killed \/ Clear \/ Get \/ Free
  \/ \E f \in Files : Write(f)

Spec == Init /\ [][Next]_vars

-----------------------------------------------------------------------------

TypeOK ==
  /\ leaf \in [Files -> 0 .. Absent] /\ staging \subseteq Names
  /\ tape \in [Names -> [there: BOOLEAN, files: [Files -> 0 .. Absent]]]
  /\ mu.pc \in {"off", "pack", "put"} /\ (mu.pc = "off" <=> mu.left = <<>>)
  /\ complete => mu.pc = "off" /\ plan # <<>>

OnTape  == {n \in Names \ {"batch"} : tape[n].there}
Planned == {plan[i].name : i \in DOMAIN plan}

\* Once a put has gone through, the leaf undisturbed, extracting what get fetches gives back
\* every regular file as it was, however many puts failed, were killed or were planned
\* otherwise before, as long as no chunk of a plan with other names is left on the archive
\* and the hook took no name of mu's (archive.go: "they union back into the exact dir").
GetReturnsPut ==
  /\ complete /\ ~disturbed
  /\ OnTape = Planned /\ Cardinality(Planned) = Len(plan)
  => Extract(Empty, ChunkNames) = want
=============================================================================
