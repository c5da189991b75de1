------------------------------ MODULE MCToolkit ------------------------------
(***************************************************************************)
(* Toolkit for TLC: what its parts start from and are given.               *)
(***************************************************************************)
EXTENDS Toolkit

\* An array of two tasks, and a job that one of them submits.
MCBase  == [j \in Jobs |-> IF j = "8" THEN "8" ELSE "7"]
MCIndex == [j \in Jobs |-> CASE j = "7[1]" -> 1 [] j = "7[2]" -> 2 [] OTHER -> 0]

\* Two sets, one with a group root under the other's permanent root; a case with two runs.
D(n)     == [case |-> "", run |-> 0, name |-> n]
C(c)     == [case |-> c, run |-> 0, name |-> ""]
R(c, id) == [case |-> c, run |-> id, name |-> ""]
H == D("home")
W == D("work")
P == D("p")
G == D("g")
MCSets ==
  {[roots |-> <<<<H>>, <<W>>>>, rel |-> <<>>], [roots |-> <<<<H, G>>>>, rel |-> <<D("group")>>]}
MCTree ==
  {<<H>>, <<H, P>>, <<H, P, C("a")>>, <<H, P, C("a"), D("out")>>, <<H, P, R("a", 1)>>, <<H, P, D("data")>>,
   <<H, G>>, <<H, G, C("a")>>,
   <<W>>, <<W, P>>, <<W, P, C("a")>>, <<W, P, R("a", 1)>>, <<W, P, R("a", 2)>>,
   <<W, P, R("a", 1), D("out")>>, <<W, P, D("data")>>, <<W, G>>, <<W, G, R("a", 1)>>}

\* Two clusters that both number a job 1 and a job 2: four rows, and terminals of which one has
\* room for a detail pane below them.
Job(c, n) == [cl |-> c, num |-> n]
MCOrder   == <<Job("A", 1), Job("A", 2), Job("B", 1), Job("B", 2)>>
MCFilters == {{Job("A", 1), Job("A", 2), Job("B", 1)}}
MCHeights == {12, 13}

\* A machine that lists a GPU queue and a debug queue of another name, and one that lists two
\* debug queues, one of them down.
Limit(u, m, n) == [up |-> u, max |-> m, nodes |-> n]
MCListings ==
  {[q \in {"std", "gpu1", "cdebug"} |-> IF q = "std" THEN Limit(TRUE, 2, 1) ELSE Limit(TRUE, 1, 0)],
   [q \in {"std", "debug", "cdebug"} |-> IF q = "std" THEN Limit(TRUE, 0, 0) ELSE Limit(q = "debug", 1, 1)]}
SubmitQueue(d, g) ==
  [k \in {"default", "--gpu", "--debug"} |-> CASE k = "default" -> d [] k = "--gpu" -> g [] OTHER -> ""]
MCConfs == {SubmitQueue("", ""), SubmitQueue("std", "gpu1")}

\* A cluster with two login nodes, an inactive one, and one without nodes.
Cluster(n, ns, a) == [name |-> n, nodes |-> ns, active |-> a]
MCFleets == {<<>>, <<"a2">>, <<"b1", "a2">>}
MCDefs ==
  <<Cluster("A", <<"a1", "a2">>, TRUE), Cluster("B", <<"b1">>, FALSE), Cluster("C", <<>>, TRUE)>>

\* A file with every kind of line, one that starts at its first table, and one that starts with
\* a blank.
Text(k, n, v) == [k |-> k, n |-> n, v |-> v]
Blank         == Text("blank", "", <<>>)
Header(n)     == Text("head", n, <<>>)
Name(n)       == Text("set", "name", <<n>>)
Placeholder(n) == Text("note", n, <<>>)
MCTomlFiles ==
  {<<Text("text", "", <<>>), Placeholder("fleet"), Blank,
     Header("cluster"), Name("a"), Placeholder("account"), Text("set", "cores_per_node", <<"8">>),
     Text("set", "nodes", <<"n1", "n2">>), Blank,
     Header("cluster.node"), Name("n1"), Blank,
     Header("cluster"), Name("b"), Text("set", "nodes", <<"n3">>), Blank,
     Header("cluster.node"), Name("n3"), Text("set", "account", <<"y">>)>>,
   <<Header("cluster"), Name("a"), Text("set", "nodes", <<"n1">>), Blank,
     Header("cluster"), Name("b"), Text("set", "nodes", <<"n3">>)>>,
   <<Blank, Header("cluster"), Name("a"), Text("set", "nodes", <<"n1">>)>>}

Typed(at, key, v) == [at |-> at, key |-> key, v |-> v]
MCTomlEdits ==
  {Typed("", "fleet", <<"n1">>), Typed("", "hpc_user", <<"u">>), Typed("a", "nodes", <<"n2">>),
   Typed("a", "nodes", <<>>), Typed("n2", "cores_per_node", <<>>), Typed("b", "account", <<"x">>),
   Typed("n3", "account", <<>>)}

\* A panel with a leaf of every kind and a section that has an action.
Section(n, a) == [kind |-> "section", kids |-> n, action |-> a]
Leaf(k)       == [kind |-> k, kids |-> 0, action |-> FALSE]
MCPanelRows ==
  <<Section(3, FALSE), Leaf("text"), Section(1, TRUE), Leaf("set"), Leaf("enum"), Leaf("list")>>
MCAtOpen  == [i \in {2, 4, 5, 6} |-> CASE i = 2 -> <<"w">> [] i = 4 -> <<"old">> [] OTHER -> <<>>]
MCMembers == <<"n1", "n2">>

MCMarks == {<<"", "">>, <<"n", "m">>, <<"", "m">>, <<"bad", "n">>}

-----------------------------------------------------------------------------

\* A part that is not the one at work has one state to start from; the picker opens on all the
\* jobs but the last, a command line has a walltime and a node count or neither, and both tiers
\* have a project, its shared data and the group's directory.
Rests(p, there) == IF part = p THEN TRUE ELSE there

MCInit ==
  /\ part \in Parts
  /\ Rests("watch", trees = [i \in {1, 2} |-> "none"])
  /\ Rests("mirror", exists = {<<H>>})
  /\ Rests("pack", size = [s \in {"run", "bare"} |-> "small"])
  /\ Rests("view", stream = <<"text">>)
  /\ Rests("shell", Ragged = {"r2"})
  /\ queue = Pick!AllJobs \ {Job("B", 2)} /\ Rests("pick", ui = Pick!Opened(queue, 12))
  /\ Rests("form", /\ sites = SubmitQueue("", "") /\ qos = FALSE
                   /\ ask = [verb |-> "sub", sel |-> "", wall |-> 0, nodes |-> 0, silent |-> TRUE]
                   /\ listed \in {l \in MCListings : "gpu1" \in DOMAIN l} /\ cache = listed)
  /\ Rests("fan", fleet = <<>> /\ queues = [n \in {"a1", "a2", "b1"} |-> {}])
  /\ Rests("toml", file = CHOOSE f \in TomlFiles : Len(f) < 8)
  /\ Rests("panel", height = 24)
  /\ Rests("project", marks = <<"", "">>)
  /\ ToolkitInit
  /\ (ask.wall = 0) = (ask.nodes = 0)
  /\ part = "mirror" =>
       {<<H, P>>, <<W, P>>, <<H, G>>, <<W, G>>, <<H, P, D("data")>>, <<W, P, D("data")>>} \subseteq exists

\* Bounds: the second task runs where nothing is killed and no job submitted; a second kill
\* falls where a job has been led astray and the case is as it was; the owner acts in a pane
\* where not both runs ask it for its directory; of the jobs listed at first only the first
\* ends; an owner moves once around a marked case; a third piece of work in the dotfiles falls
\* between two pushes; the login name is typed where the file starts with a blank.
MCNext ==
  /\ ToolkitNext
  /\ kills' > 0 \/ pc'["8"] # "unborn" => {pc["7[2]"], pc'["7[2]"]} = {"queued"}
  /\ kills' > 1 => strays # {} /\ case' = [f \in Inputs |-> 0]
  /\ used' > 0 => \E r \in HarnessRuns : ~runMu'[r].probed
  /\ gone' \subseteq {Job("A", 1)}
  /\ marks # <<"", "">> => moves' < 2
  /\ work' > 2 => edits' = 0 /\ syncs > 0 /\ syncOp'.kind = "push"
  /\ file[1].k # "blank" => \A i \in DOMAIN asked'.changes : asked'.changes[i].leaf.key # "hpc_user"

MCSpec == MCInit /\ [][MCNext]_parts
=============================================================================
