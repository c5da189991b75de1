----------------------------- MODULE ProjectSync ------------------------------
(***************************************************************************)
(* mu project sync: push, pull and prune of a project's data between       *)
(* machines that hold it and one cluster, and the manifest the pushes keep *)
(* beside the staged files (internal/cli/projectsync.go, syncprune.go,     *)
(* syncmanifest.go).  A command lists what it would do, waits for a yes,   *)
(* and lets rsync decide anew; owners, jobs and other machines go on       *)
(* meanwhile.                                                              *)
(***************************************************************************)
EXTENDS Integers, FiniteSets

CONSTANTS
  Hosts,     \* machines with a copy of the project, one mu at a time on each
  Sim,       \* the files of simulations/data (and of data/processed, treated alike)
  Raw,       \* the files of data/raw
  Results,   \* the files of results/
  Datasets,  \* subtrees of Sim a path argument may narrow to
  MaxTime    \* bound on the number of edits

ASSUME SyncAssumption ==
  /\ Sim \cap Raw = {} /\ Results \cap (Sim \cup Raw) = {}
  /\ Datasets \subseteq SUBSET Sim
  /\ MaxTime \in Nat

VARIABLES
  local,     \* each machine's files: when its version was written, None if absent
  remote,    \* the cluster's
  manifest,  \* the version each manifest records for each file
  mu,        \* the running command of each machine
  time,      \* the last edit
  spoiled    \* history: a command failed, overlapped another, or had its data edited

vars == <<local, remote, manifest, mu, time, spoiled>>

None     == 0                      \* no file, no entry
Version  == 0 .. MaxTime           \* files match when size and mtime do: the same edit
Tiers    == {Sim, Raw}
Scopes   == Tiers \cup Datasets    \* each has a manifest at its own destination
Shared   == Sim \cup Raw
Paths    == Shared \cup Results

Off == [pc |-> "off", op |-> "", new |-> {}, upd |-> {}, left |-> {}, done |-> {},
        scope |-> {}, todo |-> {}, mem |-> [p \in Shared |-> None]]

Mu == [pc: {"off", "confirm", "next", "rsync", "record", "save"},
       op: {"", "push", "force", "pull", "pullforce", "prune"},
       new: SUBSET Paths, upd: SUBSET Paths,   \* what the command listed
       left: SUBSET (Scopes \cup {Results}),   \* scopes still to move
       done: SUBSET Scopes,                    \* scopes moved and still to record
       scope: Scopes \cup {Results, {}},       \* the scope at work
       todo: SUBSET Paths,                     \* what this rsync has still to look at
       mem: [Shared -> Version]]               \* the manifest to be written

TypeOK ==
  /\ local \in [Hosts -> [Paths -> Version]]
  /\ remote \in [Paths -> Version]
  /\ manifest \in [Scopes -> [Shared -> Version]]
  /\ mu \in [Hosts -> Mu]
  /\ time \in Version
  /\ spoiled \in BOOLEAN

Init ==
  /\ local = [h \in Hosts |-> [p \in Paths |-> None]]
  /\ remote = [p \in Paths |-> None]
  /\ manifest = [s \in Scopes |-> [p \in Shared |-> None]]
  /\ mu = [h \in Hosts |-> Off]
  /\ time = 0
  /\ spoiled = FALSE

At(h, pc)    == mu[h].pc = pc
Op(h)        == mu[h].op
Goto(h, pc)  == mu' = [mu EXCEPT ![h].pc = pc]
Exit(h)      == mu' = [mu EXCEPT ![h] = Off]
Busy(h)      == ~At(h, "off")
Here(h, s)   == {p \in s : local[h][p] # None}
There(s)     == {p \in s : remote[p] # None}
Differ(h, s) == {p \in Here(h, s) \cap There(s) : local[h][p] # remote[p]}

-----------------------------------------------------------------------------
(* The owners and the cluster's jobs.                                      *)

Edit(h, p) ==
  /\ time < MaxTime
  /\ time' = time + 1
  /\ local' = [local EXCEPT ![h][p] = time']
  /\ spoiled' = (spoiled \/ Busy(h))
  /\ UNCHANGED <<remote, manifest, mu>>

Delete(h, p) ==
  /\ local[h][p] # None
  /\ local' = [local EXCEPT ![h][p] = None]
  /\ spoiled' = (spoiled \/ Busy(h))
  /\ UNCHANGED <<remote, manifest, mu, time>>

JobWrites(p) ==
  /\ p \in Results /\ time < MaxTime
  /\ time' = time + 1
  /\ remote' = [remote EXCEPT ![p] = time']
  /\ UNCHANGED <<local, manifest, mu, spoiled>>

-----------------------------------------------------------------------------
(* Listing and confirming.                                                 *)

\* What a command over the scope s would move: classifySync, classifyPull, classifyPrune.
New(h, op, s) ==
  CASE op \in {"push", "force"}     -> Here(h, s) \ There(s)
    [] op \in {"pull", "pullforce"} -> There(s) \ Here(h, s)
    [] op = "prune"                 -> There(s) \ Here(h, s)

Upd(h, op, s) ==
  CASE op = "force"                 -> Differ(h, s)
    [] op = "pull"                  -> {p \in Differ(h, s) : remote[p] > local[h][p]}
    [] op = "pullforce"             -> Differ(h, s)
    [] OTHER                        -> {}

Moves(h, op, s) == New(h, op, s) \cup Upd(h, op, s)

\* resolveTiers, narrowTier, resolvePruneTiers: a selection of tiers or one subtree; raw is
\* never pruned, results/ is all that is pulled.
Selectable(op, sel) ==
  CASE op \in {"push", "force"} -> sel \subseteq Tiers \/ \E d \in Datasets : sel = {d}
    [] op = "prune"             -> sel \subseteq Tiers \ {Raw} \/ \E d \in Datasets : sel = {d}
    [] OTHER                    -> sel = {Results}

\* Mutant: a tier with no local file is pruned like any other.
PlanEmpty(h, op, sel) ==
  /\ At(h, "off") /\ Selectable(op, sel)
  /\ LET left == {s \in sel : Moves(h, op, s) # {}}
     IN  /\ left # {}
         /\ mu' = [mu EXCEPT ![h] =
              [Off EXCEPT !.pc = "confirm", !.op = op, !.left = left,
                          !.new = UNION {New(h, op, s) : s \in left},
                          !.upd = UNION {Upd(h, op, s) : s \in left}]]
  /\ spoiled' = (spoiled \/ \E g \in Hosts \ {h} : Busy(g))
  /\ UNCHANGED <<local, remote, manifest, time>>

\* A tier with nothing to move drops out, and so does one with no local file at all when
\* pruning; a command with nothing to move is over.
Plan(h, op, sel) ==
  /\ At(h, "off") /\ Selectable(op, sel)
  /\ LET left == {s \in sel : Moves(h, op, s) # {} /\ (op = "prune" => Here(h, s) # {})}
     IN  /\ left # {}
         /\ mu' = [mu EXCEPT ![h] =
              [Off EXCEPT !.pc = "confirm", !.op = op, !.left = left,
                          !.new = UNION {New(h, op, s) : s \in left},
                          !.upd = UNION {Upd(h, op, s) : s \in left}]]
  /\ spoiled' = (spoiled \/ \E g \in Hosts \ {h} : Busy(g))
  /\ UNCHANGED <<local, remote, manifest, time>>

Confirm(h) ==
  /\ At(h, "confirm")
  /\ Goto(h, "next")
  /\ UNCHANGED <<local, remote, manifest, time, spoiled>>

\* A dry run, or a no.
Abort(h) ==
  /\ At(h, "confirm")
  /\ Exit(h)
  /\ UNCHANGED <<local, remote, manifest, time, spoiled>>

-----------------------------------------------------------------------------
(* rsync: pushTier, pullResults, pruneTier.  It lists both sides of one    *)
(* scope, then goes through the files.                                     *)

Begin(h, s) ==
  /\ At(h, "next") /\ s \in mu[h].left
  /\ mu' = [mu EXCEPT ![h].pc = "rsync", ![h].scope = s, ![h].left = @ \ {s},
                      ![h].todo = CASE Op(h) \in {"push", "force"} -> Here(h, s)
                                    [] Op(h) = "prune"             -> There(s) \ Here(h, s)
                                    [] OTHER                       -> There(s)]
  /\ UNCHANGED <<local, remote, manifest, time, spoiled>>

Seen(h, p) == [mu[h] EXCEPT !.todo = @ \ {p}]

\* Mutant: the transfer trusts the listing.
SendTrusting(h, p) ==
  /\ At(h, "rsync") /\ Op(h) \in {"push", "force"} /\ p \in mu[h].todo /\ local[h][p] # None
  /\ remote' = [remote EXCEPT ![p] = IF p \in mu[h].new \cup mu[h].upd THEN local[h][p] ELSE @]
  /\ mu' = [mu EXCEPT ![h] = Seen(h, p)]
  /\ UNCHANGED <<local, manifest, time, spoiled>>

\* --ignore-existing, or with --force whatever differs.  A file that vanished fails the rsync.
Send(h, p) ==
  /\ At(h, "rsync") /\ Op(h) \in {"push", "force"} /\ p \in mu[h].todo /\ local[h][p] # None
  /\ remote' = [remote EXCEPT ![p] = IF Op(h) = "force" \/ @ = None THEN local[h][p] ELSE @]
  /\ mu' = [mu EXCEPT ![h] = Seen(h, p)]
  /\ UNCHANGED <<local, manifest, time, spoiled>>

\* Mutant: the same for a pull.
FetchTrusting(h, p) ==
  /\ At(h, "rsync") /\ Op(h) \in {"pull", "pullforce"} /\ p \in mu[h].todo /\ remote[p] # None
  /\ local' = [local EXCEPT ![h][p] =
       IF p \in mu[h].new \cup mu[h].upd THEN remote[p] ELSE @]
  /\ mu' = [mu EXCEPT ![h] = Seen(h, p)]
  /\ UNCHANGED <<remote, manifest, time, spoiled>>

\* -u: not over a newer local file, unless --force.
Fetch(h, p) ==
  /\ At(h, "rsync") /\ Op(h) \in {"pull", "pullforce"} /\ p \in mu[h].todo /\ remote[p] # None
  /\ local' = [local EXCEPT ![h][p] =
       IF Op(h) = "pullforce" \/ @ < remote[p] THEN remote[p] ELSE @]
  /\ mu' = [mu EXCEPT ![h] = Seen(h, p)]
  /\ UNCHANGED <<remote, manifest, time, spoiled>>

\* --delete --existing --ignore-existing.
Remove(h, p) ==
  /\ At(h, "rsync") /\ Op(h) = "prune" /\ p \in mu[h].todo
  /\ remote' = [remote EXCEPT ![p] = None]
  /\ mu' = [mu EXCEPT ![h] = Seen(h, p)]
  /\ UNCHANGED <<local, manifest, time, spoiled>>

\* Mutant: a pull goes on to a manifest, as a push does.
MovedRecords(h) ==
  /\ At(h, "rsync") /\ mu[h].todo = {}
  /\ mu' = [mu EXCEPT ![h].done = @ \cup {mu[h].scope}, ![h].scope = {},
                      ![h].pc = IF Op(h) = "prune" \/ mu[h].left = {} THEN "record" ELSE "next"]
  /\ UNCHANGED <<local, remote, manifest, time, spoiled>>

\* rsync is through with the scope.  A push moves every tier before it records any, a prune
\* records each at once, a pull records nothing.
Moved(h) ==
  /\ At(h, "rsync") /\ mu[h].todo = {}
  /\ LET m == [mu[h] EXCEPT !.done = @ \cup {mu[h].scope}, !.scope = {}]
     IN  mu' = [mu EXCEPT ![h] =
           IF Op(h) \in {"pull", "pullforce"} THEN Off
           ELSE [m EXCEPT !.pc = IF Op(h) = "prune" \/ mu[h].left = {} THEN "record" ELSE "next"]]
  /\ UNCHANGED <<local, remote, manifest, time, spoiled>>

\* A broken connection or a kill, at any point after the yes: what was moved stays, tiers
\* that were moved are not recorded.
Fail(h) ==
  /\ mu[h].pc \in {"next", "rsync", "record", "save"}
  /\ Exit(h)
  /\ spoiled' = TRUE
  /\ UNCHANGED <<local, remote, manifest, time>>

-----------------------------------------------------------------------------
(* writeManifest and updatePruneManifest.                                  *)

\* After the scope at work: the next one to record, the next one to move, or the end.
Onward(h, m) ==
  CASE m.done # {} -> [m EXCEPT !.pc = "record"]
    [] m.done = {} /\ m.left # {} -> [m EXCEPT !.pc = "next"]
    [] OTHER -> Off

\* Mutant: the entries of overwritten files are left as they are.
RecordsNew(h, s) == IF Op(h) = "prune" THEN {} ELSE Here(h, s \cap mu[h].new)

\* The files a push writes entries for: those it listed and still finds.
Entries(h, s) == IF Op(h) = "prune" THEN {} ELSE Here(h, s \cap (mu[h].new \cup mu[h].upd))

\* The merge of the manifest read with what the command did to the scope.
Merged(h, s, read) ==
  [p \in Shared |-> CASE p \in Entries(h, s)                  -> local[h][p]
                      [] Op(h) = "prune" /\ p \in mu[h].new   -> None
                      [] OTHER                                -> read[p]]

\* readManifest.  A manifest that cannot be read counts as empty.  A push with no entry to
\* write and a prune of an empty manifest leave it alone.
Record(h, s) ==
  /\ At(h, "record") /\ s \in mu[h].done
  /\ \E read \in {manifest[s], [p \in Shared |-> None]} :
       /\ spoiled' = (spoiled \/ read # manifest[s])
       /\ LET m == [mu[h] EXCEPT !.done = @ \ {s}]
              empty == IF Op(h) = "prune" THEN \A p \in Shared : read[p] = None
                                          ELSE Entries(h, s) = {}
          IN  mu' = [mu EXCEPT ![h] =
                IF empty THEN Onward(h, m)
                         ELSE [m EXCEPT !.pc = "save", !.scope = s, !.mem = Merged(h, s, read)]]
  /\ UNCHANGED <<local, remote, manifest, time>>

\* saveManifest.  A failure costs a warning.
Save(h) ==
  /\ At(h, "save")
  /\ \/ /\ manifest' = [manifest EXCEPT ![mu[h].scope] = mu[h].mem]
        /\ UNCHANGED spoiled
     \/ /\ spoiled' = TRUE
        /\ UNCHANGED manifest
  /\ mu' = [mu EXCEPT ![h] = Onward(h, [mu[h] EXCEPT !.scope = {}, !.mem = Off.mem])]
  /\ UNCHANGED <<local, remote, time>>

-----------------------------------------------------------------------------

Start(h) ==
  \/ \E op \in {"push", "force", "prune"}, sel \in SUBSET Scopes : Plan(h, op, sel)
  \/ \E op \in {"pull", "pullforce"} : Plan(h, op, {Results})

Step(h) ==
  \/ Confirm(h) \/ Abort(h) \/ Moved(h) \/ Fail(h) \/ Save(h)
  \/ \E s \in Scopes \cup {Results} : Begin(h, s)
  \/ \E s \in Scopes : Record(h, s)
  \/ \E p \in Paths : Send(h, p) \/ Fetch(h, p) \/ Remove(h, p)

Next ==
  \/ \E h \in Hosts : Start(h) \/ Step(h)
  \/ \E h \in Hosts, p \in Paths : Edit(h, p) \/ Delete(h, p)
  \/ \E p \in Results : JobWrites(p)

Spec == Init /\ [][Next]_vars

-----------------------------------------------------------------------------

\* Add-only: a staged file is replaced only while somebody runs a forced push, however old
\* the listing of the other pushes is ("shared data is never silently overwritten").
OverwriteIsForced ==
  [][\A p \in Shared : remote[p] # None /\ remote'[p] \notin {None, remote[p]}
       => \E h \in Hosts : At(h, "rsync") /\ Op(h) = "force"]_vars

\* "local work is never silently discarded": a pull without --force replaces a local file by
\* a newer one only, whatever the owner wrote after the listing.
PullKeepsNewer ==
  [][\A h \in Hosts, p \in Results :
       Op(h) = "pull" /\ local'[h][p] \notin {None, local[h][p]}
       => local'[h][p] > local[h][p]]_vars

\* A prune never touches acquired source-of-truth, and left alone it deletes what it listed
\* and nothing of a tier this machine has no file of ("never mirror-emptied").
PruneStaysInPlan ==
  [][\A p \in Shared : remote[p] # None /\ remote'[p] = None
       => /\ p \notin Raw
          /\ \/ spoiled
             \/ \E h \in Hosts : /\ Op(h) = "prune" /\ p \in mu[h].new
                                /\ Here(h, mu[h].scope) # {}]_vars

\* As long as commands run alone, undisturbed and to the end, the manifests say exactly what
\* is staged, through forced overwrites, prunes and pushes from several machines ("keeping
\* the manifest honest about what is staged").
ManifestIsHonest ==
  ~spoiled /\ (\A h \in Hosts : ~Busy(h)) =>
    /\ \A s \in Scopes, p \in Shared : manifest[s][p] \in {None, remote[p]}
    /\ \A p \in There(Shared) : \E s \in Scopes : manifest[s][p] = remote[p]

\* "a dry pass lists exactly which remote files would go; the real pass deletes those": also
\* when the prompt was answered late.
PruneTakesListed ==
  [][\A p \in Shared : remote[p] # None /\ remote'[p] = None
       => \E h \in Hosts : Op(h) = "prune" /\ p \in mu[h].new]_vars

=============================================================================
