------------------------------ MODULE ConfigSync ------------------------------
(***************************************************************************)
(* mu setup sync and sync pull: config.toml merged between the laptop and  *)
(* a box, the inventory from one and the machine-local seams from the      *)
(* other (internal/cli/sync.go, Split and Assemble in tomledit.go), and    *)
(* the .config repository pushed as a bundle or pulled and merged          *)
(* (internal/cli/dotfiles.go), while both machines' owners go on working.  *)
(***************************************************************************)
EXTENDS Naturals, FiniteSets

CONSTANTS
  MaxEdits,  \* bound on the edits of the two config.toml
  MaxWork,   \* bound on the pieces of work done in the two repositories
  MaxSyncs   \* bound on the runs of mu setup sync

VARIABLES
  conf,   \* machine -> its config.toml: the inventory's version and the two seams
  bak,    \* the laptop's config.toml.bak
  repo,   \* machine -> .config: committed work, uncommitted work in tracked files, work in
          \* untracked ones, backup branch, stashes
  op,     \* the sync under way
  edits, work, syncs

vars == <<conf, bak, repo, op, edits, work, syncs>>

Machines == {"laptop", "box"}
Seams    == {"ssh", "sshfs"}

\* A seam is the machine that wrote it and when; the inventory likewise a version.
None  == [of |-> "", at |-> 0]
Empty == [inv |-> 0, ssh |-> None, sshfs |-> None]

\* What a repository holds is a set of pieces of work: one commit is an ancestor of another
\* when its work is part of the other's, and a merge is the union.
NoRepo == [head |-> {}, dirty |-> {}, loose |-> {}, backup |-> {}, stash |-> {}]

Idle == [phase |-> "idle", kind |-> "push", force |-> FALSE, src |-> Empty, dst |-> Empty,
         blind |-> FALSE, at |-> 0, fetched |-> {}, seen |-> NoRepo, stashed |-> {}]

Source == IF op.kind = "push" THEN "laptop" ELSE "box"
Dest   == IF op.kind = "push" THEN "box" ELSE "laptop"

Phase(p) == op' = [op EXCEPT !.phase = p]

Fixed == UNCHANGED <<edits, work, syncs>>

-----------------------------------------------------------------------------
(* The owners.                                                             *)

Edit(m, field) ==
  /\ edits < MaxEdits
  /\ edits' = edits + 1
  /\ conf' = [conf EXCEPT ![m][field] = IF field = "inv" THEN edits' ELSE [of |-> m, at |-> edits']]
  /\ UNCHANGED <<bak, repo, op, work, syncs>>

\* What is run on the laptop takes its untracked files along, so they count as tracked there.
Work(m) ==
  /\ work < MaxWork
  /\ work' = work + 1
  /\ \/ repo' = [repo EXCEPT ![m].dirty = @ \cup {work'}]
     \/ m = "box" /\ repo' = [repo EXCEPT ![m].loose = @ \cup {work'}]
  /\ UNCHANGED <<conf, bak, op, edits, syncs>>

Commit(m) ==
  /\ \E add \in {{}, repo[m].loose} :
       /\ repo[m].dirty \cup add # {}
       /\ repo' = [repo EXCEPT ![m].head = @ \cup repo[m].dirty \cup add,
                               ![m].dirty = {}, ![m].loose = @ \ add]
  /\ UNCHANGED <<conf, bak, op, edits, work, syncs>>

-----------------------------------------------------------------------------
(* syncConfigTOML.                                                         *)

\* Mutant: the source's seams travel with it.
AssembleAll(src, dst) == src

\* Split and Assemble: the inventory of one, the seams of the other.
Assemble(src, dst) == [dst EXCEPT !.inv = src.inv]

\* A file that ends early ends among the seams, or does not begin.
Short(c, kept) ==
  [inv |-> c.inv, ssh |-> IF "ssh" \in kept THEN c.ssh ELSE None,
   sshfs |-> IF "sshfs" \in kept THEN c.sshfs ELSE None]

\* The local file is read and the box's; what a cat that fails has brought counts as the file.
Read(kind, force, box) ==
  LET laptop == conf["laptop"]
      source == IF kind = "push" THEN laptop ELSE box
  IN /\ op.phase = "idle" /\ syncs < MaxSyncs
     /\ syncs' = syncs + 1
     /\ op' = [Idle EXCEPT !.kind = kind, !.force = force, !.blind = box # conf["box"], !.at = edits,
                 !.src = source, !.dst = IF kind = "push" THEN box ELSE laptop,
                 !.phase = IF source = Empty THEN "idle" ELSE "read"]
     /\ UNCHANGED <<conf, bak, repo, edits, work>>

InSync == op.phase = "read" /\ Assemble(op.src, op.dst) = op.dst /\ Phase("repo")
          /\ UNCHANGED <<conf, bak, repo>> /\ Fixed

\* The confirmation is answered no; --dotfiles goes on with the repository all the same.
Decline == op.phase = "read" /\ Phase("repo") /\ UNCHANGED <<conf, bak, repo>> /\ Fixed

\* Staged and moved into place, by writeLocalConfig with a copy of what was read.
Install ==
  /\ op.phase = "read" /\ Assemble(op.src, op.dst) # op.dst
  /\ conf' = [conf EXCEPT ![Dest] = Assemble(op.src, op.dst)]
  /\ bak' = IF op.kind = "pull" /\ op.dst # Empty THEN op.dst ELSE bak
  /\ Phase("synced")
  /\ UNCHANGED repo /\ Fixed

\* The connection ends while the box's cat reads: it ends at the end of its input, and what
\* it has is moved into place.
Cut ==
  /\ op.phase = "read" /\ op.kind = "push"
  /\ \E kept \in SUBSET Seams :
       conf' = [conf EXCEPT !["box"] = Short(Assemble(op.src, op.dst), kept)]
  /\ Phase("idle")
  /\ UNCHANGED <<bak, repo>> /\ Fixed

Synced == op.phase = "synced" /\ \E p \in {"repo", "idle"} : Phase(p)
          /\ UNCHANGED <<conf, bak, repo>> /\ Fixed

-----------------------------------------------------------------------------
(* --dotfiles, push: seedConfigRepo's script on the box.                   *)

\* The laptop's HEAD is bundled, copied and fetched.
Bundle ==
  /\ op.phase = "repo" /\ op.kind = "push" /\ repo["laptop"].head # {}
  /\ op' = [op EXCEPT !.fetched = repo["laptop"].head, !.phase = "seed"]
  /\ UNCHANGED <<conf, bak, repo>> /\ Fixed

\* Mutant: a box that is only clean is reset, whatever it has committed.
CleanOnly(r, fetched) == r.dirty = {}

\* A box with no commit is not looked at; else nothing may be uncommitted in a tracked file, and
\* the box's HEAD is an ancestor of the bundle's.
MayReset(r, fetched) == r.head = {} \/ (r.dirty = {} /\ r.head \subseteq fetched)

\* A diverged box aborts the script, or with --force its work is put aside first, in a branch
\* that replaces the one of an earlier push, and a stash that may fail and leaves untracked files.
Check ==
  /\ op.phase = "seed"
  /\ \/ /\ MayReset(repo["box"], op.fetched)
        /\ op' = [op EXCEPT !.phase = "reset", !.seen = repo["box"]]
        /\ UNCHANGED repo
     \/ /\ ~MayReset(repo["box"], op.fetched) /\ ~op.force
        /\ Phase("idle") /\ UNCHANGED repo
     \/ /\ ~MayReset(repo["box"], op.fetched) /\ op.force
        /\ \E stashed \in BOOLEAN :
             LET r   == repo["box"]
                 new == IF stashed THEN [r EXCEPT !.stash = @ \cup r.dirty, !.dirty = {}] ELSE r
             IN /\ repo' = [repo EXCEPT !["box"] = [new EXCEPT !.backup = r.head]]
                /\ op' = [op EXCEPT !.phase = "reset", !.seen = repo'["box"]]
  /\ UNCHANGED <<conf, bak>> /\ Fixed

\* Untracked files are overwritten where the bundle has files of their names.
Reset ==
  /\ op.phase = "reset"
  /\ \E named \in SUBSET repo["box"].loose :
       repo' = [repo EXCEPT !["box"].head = op.fetched, !["box"].dirty = {}, !["box"].loose = @ \ named]
  /\ Phase("idle")
  /\ UNCHANGED <<conf, bak>> /\ Fixed

-----------------------------------------------------------------------------
(* --dotfiles, pull: pullDotfiles on the laptop.                           *)

Fetch ==
  /\ op.phase = "repo" /\ op.kind = "pull" /\ repo["box"].head # {}
  /\ \E p \in IF repo["box"].head \subseteq repo["laptop"].head THEN {"idle"}
              ELSE {"confirmed", "idle"} :
       op' = [op EXCEPT !.fetched = repo["box"].head, !.phase = p]
  /\ UNCHANGED <<conf, bak, repo>> /\ Fixed

\* The branch is set, which needs a commit, and what is uncommitted is stashed if that works.
Backup ==
  /\ op.phase = "confirmed" /\ repo["laptop"].head # {}
  /\ \E stashed \in {{}, repo["laptop"].dirty} :
       /\ repo' = [repo EXCEPT !["laptop"].backup = repo["laptop"].head,
                               !["laptop"].dirty = @ \ stashed, !["laptop"].stash = @ \cup stashed]
       /\ op' = [op EXCEPT !.stashed = stashed, !.phase = "merge"]
  /\ UNCHANGED <<conf, bak>> /\ Fixed

Merge ==
  /\ op.phase = "merge"
  /\ repo' = [repo EXCEPT !["laptop"].head = @ \cup op.fetched]
  /\ Phase("idle")
  /\ UNCHANGED <<conf, bak>> /\ Fixed

\* The stash goes back into the tree.
PopStash(r, stashed) == [r EXCEPT !.dirty = @ \cup stashed, !.stash = @ \ stashed]

\* The merge stops, for a conflict or for work in its way, and is undone.
Conflict ==
  /\ op.phase = "merge" /\ ~(repo["laptop"].head \subseteq op.fetched /\ repo["laptop"].dirty = {})
  /\ repo' = [repo EXCEPT !["laptop"] = PopStash(@, op.stashed)]
  /\ Phase("idle")
  /\ UNCHANGED <<conf, bak>> /\ Fixed

\* The connection or the terminal goes at any point before the files are touched.
Die == op.phase \in {"read", "repo", "seed", "reset", "confirmed", "merge"} /\ op' = Idle
       /\ UNCHANGED <<conf, bak, repo>> /\ Fixed

Init ==
  /\ conf = [m \in Machines |-> [inv |-> 0, ssh |-> [of |-> m, at |-> 0], sshfs |-> None]]
  /\ bak = Empty /\ repo = [m \in Machines |-> NoRepo]
  /\ op = Idle /\ edits = 0 /\ work = 0 /\ syncs = 0

Next ==
  \/ \E m \in Machines : \E f \in {"inv", "ssh", "sshfs"} : Edit(m, f)
  \/ \E m \in Machines : Work(m) \/ Commit(m)
  \/ \E k \in {"push", "pull"}, force \in BOOLEAN :
     \E box \in {Short(conf["box"], kept) : kept \in SUBSET Seams} \cup {Empty} : Read(k, force, box)
  \/ InSync \/ Decline \/ Install \/ Cut \/ Synced
  \/ Bundle \/ Check \/ Reset \/ Fetch \/ Backup \/ Merge \/ Conflict \/ Die

Spec == Init /\ [][Next]_vars

-----------------------------------------------------------------------------

TypeOK ==
  /\ \A m \in Machines : conf[m].inv \in 0 .. MaxEdits
  /\ \A m \in Machines : repo[m].head \cup repo[m].dirty \cup repo[m].loose \subseteq 1 .. MaxWork
  /\ syncs \in 0 .. MaxSyncs

\* No run brings one machine's ssh or mount settings to another (sync.go: localSeams "never
\* travel between machines"), and none changes those of the machine it writes to, unless that
\* one could not be read, or not to its end, was edited since, or the connection was cut.
SeamsStayHome ==
  [][\A m \in Machines, s \in Seams :
       /\ conf'[m][s].of \in {m, ""}
       /\ \/ conf'[m][s] = conf[m][s]
          \/ edits' > edits
          \/ op.blind \/ op.at # edits
          \/ op.phase = "read" /\ op'.phase = "idle"]_vars

Held(r) == r.head \cup r.dirty \cup r.loose \cup r.backup \cup r.stash

\* No run without --force loses work of either machine but untracked files of the box, and on a
\* box without a commit, which is not looked at, what was never committed; one with --force
\* loses besides at most what an earlier --force put aside and what the stash would not take
\* (dotfiles.go: "saves that work to branch mu-onboard-backup + a git stash"). Work that
\* turns up on the box between the script's check and its reset is the exception.
WorkIsKept ==
  [][\A m \in Machines :
       LET r    == repo[m]
           lost == Held(r) \ Held(repo'[m])
       IN
       \/ lost = {}
       \/ /\ m = "box" /\ op.phase \in {"seed", "reset"}
          /\ lost \subseteq r.loose \cup (IF op.force \/ r.head = {} THEN r.dirty ELSE {})
                                 \cup (IF op.force THEN r.backup ELSE {})
       \/ m = "box" /\ op.phase = "reset" /\ op.seen # r]_vars
=============================================================================
