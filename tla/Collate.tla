-------------------------------- MODULE Collate --------------------------------
(***************************************************************************)
(* The fan-out over the fleet's queues (cli/collate.go): one goroutine per *)
(* target runs the scheduler there under a deadline, with a second one for *)
(* the model hooks beside it (cli/jobhooks.go); the collator counts them   *)
(* in and merges what they left.  collateSite (cli/sitecollate.go) is the  *)
(* same without hooks.                                                     *)
(***************************************************************************)
EXTENDS Places, Sequences

CONSTANTS
  Defs,     \* the configured clusters, in order: [name, nodes, active]
  Fleets,   \* what the fleet list may be
  Ids       \* short job ids: each system counts its own

VARIABLES
  fleet,    \* the configured fleet list
  queues,   \* node -> the ids its scheduler lists
  targets,  \* the targets of this call: [label, node]
  pc,       \* target -> where its goroutine is
  hook,     \* target -> the hooks' goroutine and its channel, which holds one result
  results,  \* target -> what its goroutine left: [ok, jobs, prog]
  done,     \* the dones sent and not yet received
  main      \* the collator: [pc, count, rows, down]

vars == <<fleet, queues, targets, pc, hook, results, done, main>>

Range1(s) == {s[i] : i \in DOMAIN s}
Nodes     == UNION {Range1(Defs[c].nodes) : c \in DOMAIN Defs}
NoNode    == ""

\* What a configuration says that means what it says: clusters have names and nodes of their
\* own, and a node that bears a cluster's name is one of it; a fleet is of configured nodes.
DefsAssumption ==
  /\ Defs \in Seq([name: STRING, nodes: Seq(STRING \ {NoNode}), active: BOOLEAN])
  /\ \A c, d \in DOMAIN Defs : c # d => /\ Defs[c].name # Defs[d].name
                                       /\ Range1(Defs[c].nodes) \cap Range1(Defs[d].nodes) = {}
  /\ \A c \in DOMAIN Defs : Defs[c].name \in Nodes => Defs[c].name \in Range1(Defs[c].nodes)
  /\ Fleets \subseteq Seq(Nodes)

Target(l, n) == [label |-> l, node |-> n]

-----------------------------------------------------------------------------
(* Scopes.                                                                 *)

FleetTargets(ns) == [i \in DOMAIN ns |-> Target(ns[i], ns[i])]

\* One representative a cluster.
ClusterTargets(cs) ==
  [i \in DOMAIN cs |-> Target(cs[i].name, IF cs[i].nodes = <<>> THEN NoNode ELSE cs[i].nodes[1])]

Covered(c) == \E n \in Range1(c.nodes) : n \in Range1(fleet)

FleetScope == IF fleet # <<>> THEN FleetTargets(fleet)
              ELSE ClusterTargets(Kept(Defs, {c \in DOMAIN Defs : Defs[c].active}))
AllSystemsScope ==
  FleetTargets(fleet) \o ClusterTargets(Kept(Defs, {c \in DOMAIN Defs : ~Covered(Defs[c])}))

-----------------------------------------------------------------------------

NoResult == [ok |-> FALSE, jobs |-> {}, prog |-> {}]
Idle     == [pc |-> "idle", count |-> 0, rows |-> <<>>, down |-> <<>>]

CollateFan(ts) ==
  /\ main.pc = "idle" /\ targets = <<>> /\ ts # <<>>
  /\ targets' = ts
  /\ pc' = [i \in DOMAIN ts |-> "fetch"] /\ hook' = [i \in DOMAIN ts |-> "off"]
  /\ results' = [i \in DOMAIN ts |-> NoResult]
  /\ main' = [main EXCEPT !.pc = "wait"]
  /\ UNCHANGED <<fleet, queues, done>>

TargetLeaves == UNCHANGED <<fleet, queues, targets, main>>

Leaves(i, r) ==
  /\ results' = [results EXCEPT ![i] = r]
  /\ pc' = [pc EXCEPT ![i] = "done"]

\* Mutant: the goroutine that fails returns without a word.
FailsSilently(i) == Leaves(i, NoResult) /\ done' = done

\* No node, no scheduler, a host that does not answer, or the deadline.
Fails(i) == Leaves(i, NoResult) /\ done' = done + 1

StartHooks(i) ==
  /\ pc[i] = "fetch" /\ hook[i] = "off" /\ targets[i].node # NoNode
  /\ hook' = [hook EXCEPT ![i] = "running"]
  /\ UNCHANGED <<pc, results, done>> /\ TargetLeaves

FetchFails(i) ==
  /\ pc[i] = "fetch" /\ Fails(i)
  /\ UNCHANGED hook /\ TargetLeaves

Snapshot(i) ==
  /\ pc[i] = "fetch" /\ targets[i].node # NoNode
  /\ results' = [results EXCEPT ![i] = [ok |-> TRUE, jobs |-> queues[targets[i].node], prog |-> {}]]
  /\ pc' = [pc EXCEPT ![i] = "await"]
  /\ UNCHANGED <<hook, done>> /\ TargetLeaves

\* The hooks' own ssh: its result waits in the channel, whoever is there to take it.
HookEnds(i) ==
  /\ hook[i] = "running"
  /\ \E r \in {"data", "nothing"} : hook' = [hook EXCEPT ![i] = r]
  /\ UNCHANGED <<pc, results, done>> /\ TargetLeaves

\* The progress of a job is named by the node it runs on and its id there.
Progress(n) == {[id |-> j, of |-> <<n, j>>] : j \in queues[n]}

\* awaitHookProgress: what the channel holds, or nothing after hookWait.
Await(i) ==
  /\ pc[i] = "await"
  /\ \E take \in BOOLEAN :
       /\ take => hook[i] \in {"data", "nothing"}
       /\ Leaves(i, [results[i] EXCEPT !.prog =
                       IF take /\ hook[i] = "data" THEN Progress(targets[i].node) ELSE {}])
  /\ done' = done + 1
  /\ UNCHANGED hook /\ TargetLeaves

-----------------------------------------------------------------------------

Receive ==
  /\ main.pc = "wait" /\ main.count < Len(targets) /\ done > 0
  /\ done' = done - 1
  /\ main' = [main EXCEPT !.count = @ + 1]
  /\ UNCHANGED <<fleet, queues, targets, pc, hook, results>>

\* Mutant: short ids alone.
KeyId(label, id) == <<id>>

Key(label, id) == <<label, id>>

\* The progress map: a later target overwrites an earlier one under the same key.
Prog(k) ==
  LET at == {i \in DOMAIN targets : \E p \in results[i].prog : Key(targets[i].label, p.id) = k}
      i  == Greatest(at)
  IN IF at = {} THEN <<>>
     ELSE (CHOOSE p \in results[i].prog : Key(targets[i].label, p.id) = k).of

RowOf(i) ==
  [label |-> targets[i].label, at |-> i,
   jobs |-> {[id |-> j, prog |-> Prog(Key(targets[i].label, j))] : j \in results[i].jobs}]

\* mergeResults and applyFleetHookProgress, in the order of the targets.
Merge ==
  /\ main.pc = "wait" /\ main.count = Len(targets)
  /\ LET got == {i \in DOMAIN targets : results[i].ok}
     IN main' = [main EXCEPT
                   !.pc = "back",
                   !.rows = Kept([i \in DOMAIN targets |-> RowOf(i)], got),
                   !.down = Kept([i \in DOMAIN targets |-> targets[i].label], DOMAIN targets \ got)]
  /\ UNCHANGED <<fleet, queues, targets, pc, hook, results, done>>

Init ==
  /\ fleet \in Fleets /\ queues \in [Nodes -> {Ids, {}}]
  /\ targets = <<>> /\ pc = <<>> /\ hook = <<>> /\ results = <<>>
  /\ done = 0 /\ main = Idle

Work(i) == StartHooks(i) \/ FetchFails(i) \/ Snapshot(i) \/ HookEnds(i) \/ Await(i)

Next ==
  \/ CollateFan(FleetScope) \/ CollateFan(AllSystemsScope)
  \/ \E i \in DOMAIN targets : Work(i)
  \/ Receive \/ Merge

Spec == Init /\ [][Next]_vars

-----------------------------------------------------------------------------

TypeOK ==
  /\ done \in 0 .. Len(targets) /\ main.count \in 0 .. Len(targets)
  /\ DOMAIN pc = DOMAIN targets /\ DOMAIN hook = DOMAIN targets /\ DOMAIN results = DOMAIN targets

Back == main.pc = "back"

\* A row shows the progress of its own job, or none: short ids collide across systems
\* (collate.go, mergeResults; jobhooks.go, applyFleetHookProgress).
ProgressIsOwn ==
  \A r \in Range1(main.rows) : \A j \in r.jobs :
    j.prog # <<>> => j.prog = <<targets[r.at].node, j.id>>

\* -e asks every configured system once: what the fleet lists, and one representative of each
\* cluster none of whose nodes the fleet lists (collate.go, allSystemsScope: "without
\* re-querying a cluster's shared scheduler").
AllSystemsOnce ==
  \A c \in DOMAIN Defs :
    LET mine == {i \in DOMAIN AllSystemsScope :
                   \/ AllSystemsScope[i].node \in Range1(Defs[c].nodes)
                   \/ AllSystemsScope[i].label = Defs[c].name}
    IN /\ mine # {}
       /\ Cardinality(mine) > 1 => \A i \in mine : AllSystemsScope[i].node \in Range1(fleet)

\* What comes back is every target once, its rows or a note, in the order of the targets and
\* not of the answers, each row with the progress of its own job or none; and -e's targets are
\* every configured system once (collate.go, collateFan, mergeResults and allSystemsScope).
TableIsWhole ==
  /\ AllSystemsOnce
  /\ Back =>
       /\ ProgressIsOwn
       /\ \A i, j \in DOMAIN main.rows : i < j => main.rows[i].at < main.rows[j].at
       /\ Len(main.rows) + Len(main.down) = Len(targets)
       /\ \A i \in DOMAIN targets :
            IF results[i].ok
            THEN \E r \in Range1(main.rows) :
                   r.at = i /\ {j.id : j \in r.jobs} = queues[targets[i].node]
            ELSE targets[i].label \in Range1(main.down)

\* The fan-out comes back: while the collator waits, a goroutine that has not sent its done can
\* move, or there is a done to receive, and each of them moves finitely often.
FanReturns ==
  main.pc = "wait" => \/ \E i \in DOMAIN targets : pc[i] # "done"
                      \/ done > 0 \/ main.count = Len(targets)
=============================================================================
