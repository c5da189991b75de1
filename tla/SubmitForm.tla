------------------------------ MODULE SubmitForm ------------------------------
(***************************************************************************)
(* What a submission asks for, by flags or by the form (cli/jobform.go,    *)
(* render/form.go, cli/walltime.go, queueSel of cli/job.go), and the queue *)
(* list both read through a cache (cli/queuecache.go).                     *)
(*                                                                         *)
(* "sub" submits a batch script; "held" is a tunnel or a shell, which goes *)
(* through the flags' resolution again after its form.  Walltimes are      *)
(* numbers and 0 is none; so is a limit the site leaves blank.             *)
(***************************************************************************)
EXTENDS Naturals, FiniteSets

CONSTANTS
  Queues,     \* the names of queues
  Gpu,        \* those of the GPU class
  Literal,    \* the conventional name of the debug queue
  DebugLike,  \* the names that carry its word
  Listings,   \* what the machine may list: name -> [up, max, nodes]
  Confs,      \* what the cluster's submit_queue may be: key -> queue, "" when unset
  Walls, Counts,  \* the walltimes and the node counts that may be asked for
  Default,    \* interactive_walltime
  MaxChanges, MaxEdits  \* bounds: the machine's and the owner's

VARIABLES
  conf, qos,  \* the cluster's configuration: queues by name, and by QOS or not
  ask,        \* the command line: [verb, sel, wall, nodes, silent]
  live,       \* what the machine lists
  cache,      \* the cached listing, or None
  form,       \* the open form: [queue, wall, nodes, options, pending, limits, edits]
  op,         \* the command: [pc, by, sel, wall, nodes, debug, list]; list is what the walltime
              \* was read against
  changes,
  failed      \* history: a read of the list failed

vars == <<conf, qos, ask, live, cache, form, op, changes, failed>>

Keys  == {"default", "--gpu", "--debug"}
Limit == [up: BOOLEAN, max: Nat, nodes: Nat]

Sched == "(scheduler default)"
None  == [q \in {} |-> [up |-> FALSE, max |-> 0, nodes |-> 0]]

\* Queues have names of their own, a listing names some of them, and a blank limit is 0.
FormAssumption ==
  /\ IsFiniteSet(Queues) /\ Queues \cap ({"", "--gpu", "--debug", Sched}) = {}
  /\ Gpu \cup {Literal} \subseteq Queues
  /\ \A l \in Listings : l # None /\ DOMAIN l \subseteq Queues /\ l \in [DOMAIN l -> Limit]
  /\ Confs \subseteq [Keys -> Queues \cup {""}]
  /\ Walls \subseteq Nat /\ Counts \subseteq Nat /\ Default \in Nat

Up(l)       == {q \in DOMAIN l : l[q].up}
QueueMax(l, q) == IF q \in DOMAIN l THEN l[q].max ELSE 0

One(S) == IF Cardinality(S) = 1 THEN S ELSE {}

-----------------------------------------------------------------------------
(* The list: the cache, or a fetch, which may fail and is never cached     *)
(* empty.                                                                  *)

CachedQueues == IF cache # None THEN {cache} ELSE {live, None}

Reads(l) == /\ l \in CachedQueues /\ cache' = l
            /\ failed' = (failed \/ l = None)

ReadsNothing == UNCHANGED <<cache, failed>>

Machine ==
  /\ changes < MaxChanges /\ changes' = changes + 1
  /\ live' \in Listings \ {live}
  /\ UNCHANGED <<conf, qos, ask, cache, form, op, failed>>

\* `mu hpc queues`, or a day.
Refresh ==
  /\ cache' \in {live, None} \ {cache}
  /\ changes < MaxChanges /\ changes' = changes + 1
  /\ UNCHANGED <<conf, qos, ask, live, form, op, failed>>

-----------------------------------------------------------------------------
(* The flags.                                                              *)

Configured(sel) == conf[IF sel = "" THEN "default" ELSE sel]

\* resolveLiteralQueue.
LiteralQueue(l) == IF Up(l) = {} \/ Literal \in Up(l) THEN {Literal}
                   ELSE One(Up(l) \cap DebugLike)

NeedsList(sel) == sel \in {"--gpu", "--debug"} /\ Configured(sel) = ""

\* queueSel.resolve: no queue is an error.
Resolve(sel, l) ==
  IF sel \in Queues THEN {sel}
  ELSE IF sel = "" /\ Configured("") = "" THEN IF qos THEN {} ELSE {""}
  ELSE IF Configured(sel) # "" THEN {Configured(sel)}
  ELSE IF l = None THEN {}
  ELSE IF sel = "--gpu" THEN One(Up(l) \cap Gpu) ELSE LiteralQueue(l)

ClampWalltime(l, q, w) ==
  IF QueueMax(l, q) # 0 /\ w > QueueMax(l, q) THEN QueueMax(l, q) ELSE w

ResolveWalltime(l, q, want, dflt, debug) ==
  LET req == IF want = 0 /\ debug THEN QueueMax(l, q) ELSE want
  IN ClampWalltime(l, q, IF req = 0 THEN dflt ELSE req)

Dflt == IF ask.verb = "held" /\ ask.silent THEN Default ELSE 0

Idle == [pc |-> "idle", by |-> "", sel |-> "", wall |-> 0, nodes |-> 0, debug |-> FALSE,
         list |-> None]

Flags ==
  /\ op.pc = "idle"
  /\ op' = [pc |-> "queue", by |-> "flags", sel |-> ask.sel, wall |-> ask.wall,
            nodes |-> ask.nodes, debug |-> ask.sel = "--debug" /\ ask.silent, list |-> None]
  /\ UNCHANGED <<conf, qos, ask, live, cache, form, changes, failed>>

ResolveQueue ==
  /\ op.pc = "queue"
  /\ \E l \in CachedQueues :
       /\ IF NeedsList(op.sel) THEN Reads(l) ELSE ReadsNothing
       /\ op' = IF Resolve(op.sel, l) = {} THEN [op EXCEPT !.pc = "refused"]
                ELSE [op EXCEPT !.pc = "wall", !.sel = CHOOSE q \in Resolve(op.sel, l) : TRUE]
  /\ UNCHANGED <<conf, qos, ask, live, form, changes>>

Wall ==
  /\ op.pc = "wall"
  /\ \E l \in CachedQueues :
       /\ Reads(l)
       /\ op' = [op EXCEPT !.pc = "sent", !.list = l,
                           !.wall = ResolveWalltime(l, op.sel, @, Dflt, op.debug)]
  /\ UNCHANGED <<conf, qos, ask, live, form, changes>>

-----------------------------------------------------------------------------
(* The form.                                                               *)

Shut == [queue |-> Sched, wall |-> 0, nodes |-> 0, options |-> {}, pending |-> FALSE,
         limits |-> None, edits |-> 0]

\* queueSeed, without a fetch.
Seed ==
  LET key == IF ask.sel = "" /\ ask.verb = "held" THEN "" ELSE Configured(ask.sel)
  IN IF ask.sel \in Queues THEN ask.sel
     ELSE IF key # "" THEN key
     ELSE IF ask.sel = "--debug" THEN Literal ELSE Sched

\* Mutant: the form opens on the walltime as it was given.
SeedWallAsGiven(l) == ask.wall

\* seedWalltime, and subForm's own rule: the queue's slot under --debug.
SeedWall(l) ==
  IF ask.wall # 0 \/ ~ask.silent THEN ask.wall
  ELSE IF ask.sel = "--debug" /\ QueueMax(l, Seed) # 0 THEN QueueMax(l, Seed)
  ELSE Dflt

Open ==
  /\ op.pc = "idle"
  /\ \E l \in CachedQueues :
       /\ IF ask.sel = "--debug" /\ ask.silent /\ ask.wall = 0 THEN Reads(l) ELSE ReadsNothing
       /\ form' = [Shut EXCEPT !.queue = Seed, !.wall = SeedWall(l), !.nodes = ask.nodes,
                     !.options = ({Sched, Seed} \cup {conf[k] : k \in DOMAIN conf}) \ {""},
                     !.pending = ask.sel = "--gpu" /\ Configured("--gpu") = ""]
  /\ op' = [Idle EXCEPT !.pc = "loading", !.by = "form"]
  /\ UNCHANGED <<conf, qos, ask, live, changes>>

\* queuePatches, and apply: the match of a class flag that waited replaces the queue.
Load ==
  /\ op.pc = "loading" /\ op' = [op EXCEPT !.pc = "form"]
  /\ \E l \in CachedQueues :
       /\ Reads(l)
       /\ form' =
            IF Up(l) = {} THEN form
            ELSE [form EXCEPT !.options = {Sched} \cup Up(l), !.limits = l,
                    !.queue = IF form.pending /\ One(Up(l) \cap Gpu) # {}
                              THEN CHOOSE q \in Up(l) \cap Gpu : TRUE ELSE @]
  /\ UNCHANGED <<conf, qos, ask, live, changes>>

InForm == op.pc \in {"loading", "form"}

\* A key: the queue cycles through the options; the other fields take text.
Edit ==
  /\ InForm /\ form.edits < MaxEdits
  /\ \/ \E q \in form.options : form' = [form EXCEPT !.queue = q, !.edits = @ + 1]
     \/ \E w \in Walls : form' = [form EXCEPT !.wall = w, !.edits = @ + 1]
     \/ \E n \in Counts : form' = [form EXCEPT !.nodes = n, !.edits = @ + 1]
  /\ UNCHANGED <<conf, qos, ask, live, cache, op, changes, failed>>

\* The validators, armed once the list is there, for the queues that are up.
Over(n, max) == max # 0 /\ n > max
Valid ==
  form.queue \in Up(form.limits) =>
    LET limit == form.limits[form.queue]
    IN ~Over(form.wall, limit.max) /\ ~Over(form.nodes, limit.nodes)

\* Mutant: a queue picked later is not checked against what was typed before.
AcceptsAny == TRUE

Accepts == Valid

\* subForm submits the answers; tunnelForm and shellForm put them where the flags were, to be
\* resolved like them.
Answers ==
  [op EXCEPT !.pc = IF ask.verb = "sub" THEN "wall" ELSE "queue",
             !.sel = IF form.queue = Sched THEN "" ELSE form.queue,
             !.wall = form.wall, !.nodes = form.nodes]

Submit ==
  /\ InForm /\ Accepts
  /\ op' = Answers
  /\ UNCHANGED <<conf, qos, ask, live, cache, form, changes, failed>>

Init ==
  /\ conf \in Confs /\ qos \in BOOLEAN
  /\ ask \in [verb: {"sub", "held"}, sel: {"", "--gpu", "--debug"} \cup Queues, wall: Walls,
              nodes: Counts, silent: BOOLEAN]
  /\ live \in Listings /\ cache \in {live, None}
  /\ form = Shut /\ op = Idle /\ changes = 0 /\ failed = FALSE

Next ==
  \/ Machine \/ Refresh
  \/ Flags \/ ResolveQueue \/ Wall
  \/ Open \/ Load \/ Edit \/ Submit

Spec == Init /\ [][Next]_vars

-----------------------------------------------------------------------------

TypeOK ==
  /\ cache \in Listings \cup {None} /\ form.limits \in Listings \cup {None}
  /\ op.sel \in {"", "--gpu", "--debug"} \cup Queues
  /\ form.queue \in Queues \cup {Sched} /\ form.options \subseteq Queues \cup {Sched}

Sent == op.pc = "sent"

\* A submission asks for no more time than the list it was read against gives its queue, nor,
\* when the form had the list, for more nodes, whatever was edited in what order and however
\* the list changed in between (walltime.go, clampWalltime; form.go, submit; jobform.go,
\* queuePatches).
SentFits ==
  /\ Sent => ~Over(op.wall, QueueMax(op.list, op.sel))
  /\ Sent /\ op.by = "form" /\ form.queue \in Up(form.limits) =>
       /\ ~Over(op.nodes, form.limits[form.queue].nodes)
       /\ ~Over(form.wall, form.limits[form.queue].max)

\* The debug queue the form seeds by convention is one the machine has.
Conventional == ask.sel = "--debug" /\ Configured("--debug") = "" => Resolve("--debug", cache) = {Literal}

\* A form submitted as it opened asks for what the flags alone would, where they resolve
\* (jobform.go, subForm: "or -i would quietly submit a different job than the flags alone
\* would"), unless the list could not be read or changed meanwhile, or the machine has its
\* debug queue under another name.
FormAgreesWithFlags ==
  Sent /\ op.by = "form" /\ form.edits = 0 /\ form.limits # None
    /\ changes = 0 /\ ~failed /\ Conventional =>
      \A q \in Resolve(ask.sel, cache) :
        /\ op.sel = q /\ op.nodes = ask.nodes
        /\ op.wall = ResolveWalltime(cache, q, ask.wall, Dflt, ask.sel = "--debug" /\ ask.silent)
=============================================================================
