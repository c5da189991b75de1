----------------------------- MODULE CommandProofs -----------------------------
(***************************************************************************)
(* Proofs about single commands of mu: setup sync (ConfigSync), project    *)
(* submit (ProjectSubmit) and job watch (JobWatch).                        *)
(***************************************************************************)
EXTENDS CommandParts, TLAPS

-----------------------------------------------------------------------------
(* mu setup sync.                                                          *)

Phases == {"idle", "read", "synced", "repo", "seed", "reset", "confirmed", "merge"}
Seam   == [of: Config!Machines \cup {""}, at: Nat]
Conf   == [inv: Nat, ssh: Seam, sshfs: Seam]
Repo   == [head: SUBSET Nat, dirty: SUBSET Nat, loose: SUBSET Nat, backup: SUBSET Nat, stash: SUBSET Nat]
Sync   == [phase: Phases, kind: {"push", "pull"}, force: BOOLEAN, src: Conf, dst: Conf,
           blind: BOOLEAN, at: Nat, fetched: SUBSET Nat, seen: Repo, stashed: SUBSET Nat]

SyncTyped ==
  /\ confs \in [Config!Machines -> Conf] /\ repo \in [Config!Machines -> Repo] /\ syncOp \in Sync
  /\ edits \in Nat /\ work \in Nat /\ syncOp.at <= edits

\* The settings of a file are its machine's own, or gone.
OwnSeams(c, m) == \A s \in Config!Seams : c[s].of \in {m, ""}

\* A run that goes on holds the seams of the machine it will write to, as they are unless that
\* one could not be read or was edited since.
Kept ==
  syncOp.phase = "read" =>
    /\ OwnSeams(syncOp.dst, Config!Dest)
    /\ ~syncOp.blind /\ syncOp.at = edits => \A s \in Config!Seams : syncOp.dst[s] = confs[Config!Dest][s]

\* What the laptop put aside before a merge it still has: its history only grows.
Backed == repo["laptop"].backup \subseteq repo["laptop"].head

\* Before the reset the script has seen the box clean and behind or without a commit, or has
\* set its branch.
Checked ==
  syncOp.phase = "reset" =>
    \/ Config!MayReset(syncOp.seen, syncOp.fetched)
    \/ syncOp.force /\ syncOp.seen.head \subseteq syncOp.seen.backup

SyncInv == SyncTyped /\ (\A m \in Config!Machines : OwnSeams(confs[m], m)) /\ Kept /\ Backed /\ Checked


\* What the records are made of.
LEMMA Records ==
  /\ Config!None \in Seam /\ Config!Empty \in Conf /\ Config!NoRepo \in Repo /\ Config!Idle \in Sync
  /\ Config!Idle.phase = "idle" /\ Config!Idle.at = 0 /\ \A m \in Config!Machines : OwnSeams(Config!Empty, m)
<1>1. Config!None \in Seam /\ Config!None.of = ""
  BY DEF Config!None, Seam
<1>2. Config!Empty \in Conf /\ Config!Empty["ssh"] = Config!None /\ Config!Empty["sshfs"] = Config!None
  BY <1>1 DEF Config!Empty, Conf
<1>3. Config!NoRepo \in Repo
  BY DEF Config!NoRepo, Repo
<1>4. Config!Idle \in Sync /\ Config!Idle.phase = "idle" /\ Config!Idle.at = 0
  BY <1>2, <1>3 DEF Config!Idle, Sync, Phases
<1> QED BY <1>1, <1>2, <1>3, <1>4 DEF OwnSeams, Config!Seams

\* The invariant holds before anybody has done anything.
LEMMA SyncInit == Config!Init => SyncInv
<1> SUFFICES ASSUME Config!Init PROVE SyncInv
  OBVIOUS
<1>1. \A m \in Config!Machines : [of |-> m, at |-> 0] \in Seam
  BY DEF Seam
<1>2. \A m \in Config!Machines : confs[m] \in Conf /\ OwnSeams(confs[m], m)
  <2> SUFFICES ASSUME NEW m \in Config!Machines PROVE confs[m] \in Conf /\ OwnSeams(confs[m], m)
    OBVIOUS
  <2>1. confs[m] = [inv |-> 0, ssh |-> [of |-> m, at |-> 0], sshfs |-> Config!None]
    BY DEF Config!Init
  <2>2. confs[m]["ssh"].of = m /\ confs[m]["sshfs"].of = ""
    <3>1. confs[m]["ssh"] = [of |-> m, at |-> 0] /\ confs[m]["sshfs"] = Config!None
      BY <2>1
    <3>2. [of |-> m, at |-> 0].of = m /\ Config!None.of = ""
      BY DEF Config!None
    <3> QED BY <3>1, <3>2
  <2>3. confs[m] \in Conf
    BY <1>1, <2>1, Records DEF Conf
  <2> QED BY <2>2, <2>3 DEF OwnSeams, Config!Seams
<1>3. confs \in [Config!Machines -> Conf] /\ repo \in [Config!Machines -> Repo]
  BY <1>2, Records DEF Config!Init
<1>4. Backed
  BY DEF Config!Init, Backed, Config!Machines, Config!NoRepo
<1> QED BY <1>2, <1>3, <1>4, Records DEF Config!Init, SyncInv, SyncTyped, Kept, Checked

\* A file that ends early has the seams of the whole one, or none.
LEMMA Shortened ==
  ASSUME NEW c \in Conf, NEW m \in Config!Machines, OwnSeams(c, m), NEW kept \in SUBSET Config!Seams
  PROVE  Config!Short(c, kept) \in Conf /\ OwnSeams(Config!Short(c, kept), m)
<1> DEFINE d == Config!Short(c, kept)
<1>1. d \in Conf
  BY Records DEF Conf, Config!Short
<1>2. /\ d["ssh"] \in {c["ssh"], Config!None} /\ d["sshfs"] \in {c["sshfs"], Config!None}
      /\ Config!None.of = ""
  BY DEF Config!Short, Config!None
<1>3. c["ssh"].of \in {m, ""} /\ c["sshfs"].of \in {m, ""}
  BY DEF OwnSeams, Config!Seams
<1> HIDE DEF d
<1>4. OwnSeams(d, m)
  BY <1>2, <1>3 DEF OwnSeams, Config!Seams
<1> QED BY <1>1, <1>4 DEF d

-----------------------------------------------------------------------------
(* The owners.                                                             *)

\* An edit makes the file a run has read stale, and leaves its machine's seams its own.
LEMMA EditStep ==
  ASSUME SyncInv, NEW m \in Config!Machines, NEW f \in {"inv", "ssh", "sshfs"}, Config!Edit(m, f)
  PROVE  SyncInv'
<1>1. edits' = edits + 1 /\ UNCHANGED <<repo, syncOp, work>>
  BY DEF Config!Edit
<1>2. confs' = [confs EXCEPT ![m] = confs'[m]] /\ confs'[m] \in Conf /\ OwnSeams(confs'[m], m)
  <2>1. confs[m] \in Conf /\ OwnSeams(confs[m], m) /\ edits' \in Nat
    BY <1>1 DEF SyncInv, SyncTyped
  <2>2. [of |-> m, at |-> edits'] \in Seam
    BY <2>1 DEF Seam
  <2>3. CASE f = "inv"
    <3>1. confs' = [confs EXCEPT ![m] = [confs[m] EXCEPT !.inv = edits']]
      BY <2>3 DEF Config!Edit
    <3>2. confs'[m] = [confs[m] EXCEPT !.inv = edits'] /\ confs' = [confs EXCEPT ![m] = confs'[m]]
      BY <3>1 DEF SyncInv, SyncTyped
    <3>3. confs'[m] = [inv |-> edits', ssh |-> confs[m].ssh, sshfs |-> confs[m].sshfs]
      BY <2>1, <3>2 DEF Conf
    <3>4. confs'[m]["ssh"] = confs[m]["ssh"] /\ confs'[m]["sshfs"] = confs[m]["sshfs"]
      BY <3>3
    <3> QED BY <2>1, <3>2, <3>3, <3>4 DEF Conf, OwnSeams, Config!Seams
  <2>4. CASE f \in Config!Seams
    <3>1. confs' = [confs EXCEPT ![m] = [confs[m] EXCEPT ![f] = [of |-> m, at |-> edits']]]
      BY <2>4 DEF Config!Edit, Config!Seams
    <3>2. confs'[m] = [confs[m] EXCEPT ![f] = [of |-> m, at |-> edits']]
          /\ confs' = [confs EXCEPT ![m] = confs'[m]]
      BY <3>1 DEF SyncInv, SyncTyped
    <3>3. confs'[m] \in Conf
      BY <2>1, <2>2, <2>4, <3>2 DEF Conf, Config!Seams
    <3>4. \A s \in Config!Seams : confs'[m][s] \in {confs[m][s], [of |-> m, at |-> edits']}
      BY <2>1, <2>4, <3>2 DEF Conf, Config!Seams
    <3>5. [of |-> m, at |-> edits'].of = m
      OBVIOUS
    <3>6. \A s \in Config!Seams : confs'[m][s].of \in {m, ""}
      BY <2>1, <3>4, <3>5 DEF OwnSeams
    <3> QED BY <3>2, <3>3, <3>6 DEF OwnSeams
  <2> QED BY <2>3, <2>4 DEF Config!Seams
<1>3. confs' \in [Config!Machines -> Conf] /\ \A n \in Config!Machines : OwnSeams(confs'[n], n)
  BY <1>2 DEF SyncInv, SyncTyped
<1>4. edits \in Nat /\ syncOp.at \in Nat /\ syncOp.at <= edits
  BY DEF SyncInv, SyncTyped, Sync
<1>5. syncOp.at <= edits' /\ syncOp.at # edits' /\ edits' \in Nat
  BY <1>1, <1>4
<1>6. SyncTyped'
  BY <1>1, <1>3, <1>5 DEF SyncInv, SyncTyped
<1> QED BY <1>1, <1>3, <1>5, <1>6 DEF SyncInv, Kept, Backed, Checked, Config!MayReset,
    Config!Dest, OwnSeams

\* One machine's repository changes, the run at most turns a page.
LEMMA RepoStep ==
  ASSUME SyncInv, NEW m \in Config!Machines, NEW r \in Repo,
         repo' = [repo EXCEPT ![m] = r], m = "laptop" => r.backup \subseteq r.head,
         syncOp' \in Sync, syncOp'.at <= edits, syncOp'.phase # "read", Checked', work' \in Nat,
         UNCHANGED <<confs, edits>>
  PROVE  SyncInv'
<1>1. SyncTyped'
  BY DEF SyncInv, SyncTyped
<1>2. Backed'
  BY DEF SyncInv, SyncTyped, Backed, Config!Machines
<1> QED BY <1>1, <1>2 DEF SyncInv, Kept, OwnSeams

\* Work is added and committed; no run looks at it.
LEMMA WorkStep ==
  ASSUME SyncInv, NEW m \in Config!Machines, Config!Work(m) \/ Config!Commit(m) PROVE SyncInv'
<1>1. repo[m] \in Repo /\ work' \in Nat /\ UNCHANGED <<confs, syncOp, edits>>
  BY DEF SyncInv, SyncTyped, Config!Work, Config!Commit
<1>2. /\ repo' \in [Config!Machines -> Repo] /\ repo'[m].backup = repo[m].backup
      /\ repo[m].head \subseteq repo'[m].head
      /\ \A n \in Config!Machines \ {m} : repo'[n] = repo[n]
  <2>1. CASE Config!Work(m)
    <3>1. \/ repo' = [repo EXCEPT ![m] = [repo[m] EXCEPT !.dirty = repo[m].dirty \cup {work'}]]
          \/ repo' = [repo EXCEPT ![m] = [repo[m] EXCEPT !.loose = repo[m].loose \cup {work'}]]
      BY <2>1 DEF Config!Work
    <3> QED BY <1>1, <3>1 DEF SyncInv, SyncTyped, Repo
  <2>2. CASE Config!Commit(m)
    <3>1. PICK add \in {{}, repo[m].loose} :
            repo' = [repo EXCEPT ![m].head = @ \cup repo[m].dirty \cup add,
                                 ![m].dirty = {}, ![m].loose = @ \ add]
      BY <2>2 DEF Config!Commit
    <3>2. repo' = [repo EXCEPT ![m] = [repo[m] EXCEPT !.head = repo[m].head \cup repo[m].dirty \cup add,
                                                     !.dirty = {}, !.loose = repo[m].loose \ add]]
      BY <3>1 DEF SyncInv, SyncTyped
    <3> QED BY <1>1, <3>1, <3>2 DEF SyncInv, SyncTyped, Repo
  <2> QED BY <2>1, <2>2
<1>3. Backed'
  BY <1>2 DEF SyncInv, Backed, Config!Machines
<1> QED BY <1>1, <1>2, <1>3 DEF SyncInv, SyncTyped, Kept, Checked, Config!MayReset, OwnSeams,
    Config!Dest

-----------------------------------------------------------------------------
(* The files.                                                              *)

\* What is read of the box's file, all of it, its beginning or nothing, has the box's seams.
LEMMA Heard ==
  ASSUME SyncInv, NEW box \in {Config!Short(confs["box"], kept) : kept \in SUBSET Config!Seams} \cup {Config!Empty}
  PROVE  box \in Conf /\ OwnSeams(box, "box")
<1>1. CASE box = Config!Empty
  BY <1>1, Records DEF Config!Machines
<1>2. ASSUME NEW kept \in SUBSET Config!Seams, box = Config!Short(confs["box"], kept)
      PROVE  box \in Conf /\ OwnSeams(box, "box")
  <2>1. "box" \in Config!Machines /\ confs["box"] \in Conf /\ OwnSeams(confs["box"], "box")
    BY DEF SyncInv, SyncTyped, Config!Machines
  <2>2. /\ Config!Short(confs["box"], kept) \in Conf
        /\ OwnSeams(Config!Short(confs["box"], kept), "box")
    BY <1>2, <2>1, Shortened
  <2> QED BY <1>2, <2>2
<1>3. box = Config!Empty \/ \E kept \in SUBSET Config!Seams : box = Config!Short(confs["box"], kept)
  OBVIOUS
<1>4. CASE \E kept \in SUBSET Config!Seams : box = Config!Short(confs["box"], kept)
  <2>1. PICK kept \in SUBSET Config!Seams : box = Config!Short(confs["box"], kept)
    BY <1>4
  <2> QED BY <1>2, <2>1
<1> QED BY <1>1, <1>3, <1>4

\* What a run reads of the machine it will write to are that machine's seams as they are.
LEMMA ReadStep ==
  ASSUME SyncInv, NEW kind \in {"push", "pull"}, NEW force \in BOOLEAN,
         NEW box \in {Config!Short(confs["box"], kept) : kept \in SUBSET Config!Seams} \cup {Config!Empty},
         Config!Read(kind, force, box)
  PROVE  SyncInv'
<1> DEFINE src   == IF kind = "push" THEN confs["laptop"] ELSE box
           dst   == IF kind = "push" THEN box ELSE confs["laptop"]
           ph    == IF src = Config!Empty THEN "idle" ELSE "read"
           blind == box # confs["box"]
<1>1. syncOp' = [Config!Idle EXCEPT !.kind = kind, !.force = force, !.blind = blind, !.at = edits,
                         !.src = src, !.dst = dst, !.phase = ph]
      /\ UNCHANGED <<confs, repo, edits, work>>
  BY DEF Config!Read
<1>2. src \in Conf /\ dst \in Conf /\ ph \in {"idle", "read"} /\ blind \in BOOLEAN
  BY Heard DEF SyncInv, SyncTyped, Config!Machines
<1>3. /\ kind = "push" => OwnSeams(dst, "box") /\ (~blind => dst = confs["box"])
      /\ kind = "pull" => OwnSeams(dst, "laptop") /\ dst = confs["laptop"]
  BY Heard DEF SyncInv, Config!Machines
<1> HIDE DEF src, dst, ph, blind
<1>4. /\ syncOp' \in Sync /\ syncOp'.at = edits /\ syncOp'.phase = ph /\ syncOp'.kind = kind /\ syncOp'.dst = dst
      /\ syncOp'.blind <=> blind
  BY <1>1, <1>2, Records DEF Config!Idle, Sync, Phases, SyncInv, SyncTyped
<1>5. Kept'
  BY <1>1, <1>3, <1>4 DEF Kept, Config!Dest
<1>6. Backed' /\ Checked'
  BY <1>1, <1>2, <1>4 DEF SyncInv, Backed, Checked
<1> QED BY <1>1, <1>4, <1>5, <1>6 DEF SyncInv, SyncTyped

\* A page is turned.
LEMMA PhaseStep ==
  ASSUME SyncInv, NEW p \in Phases \ {"read", "reset"}, Config!Phase(p), UNCHANGED <<confs, repo>>, Config!Fixed
  PROVE  SyncInv'
<1>1. syncOp'.phase = p /\ syncOp' \in Sync /\ syncOp'.at = syncOp.at
  BY DEF Config!Phase, SyncInv, SyncTyped, Sync
<1> QED BY <1>1 DEF SyncInv, SyncTyped, Kept, Backed, Checked, Config!Fixed

\* A machine's file is replaced by one whose seams are its own, and the run is past the reading.
LEMMA ConfStep ==
  ASSUME SyncInv, NEW c \in Conf, OwnSeams(c, Config!Dest), confs' = [confs EXCEPT ![Config!Dest] = c],
         NEW p \in {"synced", "idle"}, Config!Phase(p), UNCHANGED repo, Config!Fixed
  PROVE  SyncInv'
<1>1. syncOp'.phase = p /\ syncOp' \in Sync /\ syncOp'.at = syncOp.at
  BY DEF Config!Phase, SyncInv, SyncTyped, Sync, Phases
<1>2. Config!Dest \in Config!Machines
  BY DEF Config!Dest, Config!Machines
<1>3. confs' \in [Config!Machines -> Conf] /\ \A m \in Config!Machines : OwnSeams(confs'[m], m)
  BY <1>2 DEF SyncInv, SyncTyped
<1> QED BY <1>1, <1>3 DEF SyncInv, SyncTyped, Kept, Backed, Checked, Config!Fixed

\* The merged file has the seams of the one it replaces.
LEMMA Assembled ==
  ASSUME NEW a \in Conf, NEW b \in Conf
  PROVE  Config!Assemble(a, b) \in Conf /\ \A s \in Config!Seams : Config!Assemble(a, b)[s] = b[s]
BY DEF Config!Assemble, Conf, Config!Seams

\* The file is installed.
LEMMA InstallStep == ASSUME SyncInv, Config!Install PROVE SyncInv'
<1>1. syncOp.src \in Conf /\ syncOp.dst \in Conf /\ OwnSeams(syncOp.dst, Config!Dest)
  BY DEF Config!Install, SyncInv, SyncTyped, Sync, Kept
<1>2. Config!Assemble(syncOp.src, syncOp.dst) \in Conf /\ OwnSeams(Config!Assemble(syncOp.src, syncOp.dst), Config!Dest)
  BY <1>1, Assembled DEF OwnSeams
<1>3. confs' = [confs EXCEPT ![Config!Dest] = Config!Assemble(syncOp.src, syncOp.dst)] /\ Config!Phase("synced") /\ UNCHANGED repo /\ Config!Fixed
  BY DEF Config!Install
<1> QED BY <1>2, <1>3, ConfStep

\* The file arrives cut short.
LEMMA CutStep == ASSUME SyncInv, Config!Cut PROVE SyncInv'
<1>1. syncOp.src \in Conf /\ syncOp.dst \in Conf /\ OwnSeams(syncOp.dst, Config!Dest) /\ Config!Dest = "box"
  BY DEF Config!Cut, SyncInv, SyncTyped, Sync, Kept, Config!Dest
<1> DEFINE merged == Config!Assemble(syncOp.src, syncOp.dst)
<1>2. merged \in Conf /\ OwnSeams(merged, "box") /\ "box" \in Config!Machines
  BY <1>1, Assembled DEF OwnSeams, Config!Machines
<1>3. PICK kept \in SUBSET Config!Seams : confs' = [confs EXCEPT !["box"] = Config!Short(merged, kept)]
  BY DEF Config!Cut
<1>4. Config!Phase("idle") /\ UNCHANGED repo /\ Config!Fixed
  BY DEF Config!Cut
<1> HIDE DEF merged
<1>5. Config!Short(merged, kept) \in Conf /\ OwnSeams(Config!Short(merged, kept), "box")
  BY <1>2, <1>3, Shortened
<1> QED BY <1>1, <1>3, <1>4, <1>5, ConfStep

-----------------------------------------------------------------------------
(* The repositories.                                                       *)

\* A repository's fields.
LEMMA Fields ==
  ASSUME SyncInv, NEW m \in Config!Machines
  PROVE  /\ repo[m] \in Repo /\ repo[m].head \in SUBSET Nat /\ repo[m].dirty \in SUBSET Nat
         /\ repo[m].loose \in SUBSET Nat /\ repo[m].backup \in SUBSET Nat /\ repo[m].stash \in SUBSET Nat
         /\ syncOp.fetched \in SUBSET Nat /\ syncOp.stashed \in SUBSET Nat
BY DEF SyncInv, SyncTyped, Repo, Sync

\* What has been bundled or fetched.
LEMMA FetchStep == ASSUME SyncInv, Config!Bundle \/ Config!Fetch PROVE SyncInv'
<1>1. UNCHANGED <<confs, repo>> /\ Config!Fixed
  BY DEF Config!Bundle, Config!Fetch
<1>2. PICK m \in Config!Machines, p \in {"seed", "idle", "confirmed"} :
        syncOp' = [syncOp EXCEPT !.fetched = repo[m].head, !.phase = p]
  BY DEF Config!Bundle, Config!Fetch, Config!Machines
<1>3. syncOp'.phase = p /\ syncOp' \in Sync /\ syncOp'.at = syncOp.at
  BY <1>2, Fields DEF SyncInv, SyncTyped, Sync, Phases
<1> QED BY <1>1, <1>3 DEF SyncInv, SyncTyped, Kept, Backed, Checked, Config!Fixed

\* The script's verdict: it goes on to the reset only if nothing is lost, or the branch is set.
LEMMA CheckStep == ASSUME SyncInv, Config!Check PROVE SyncInv'
<1>1. UNCHANGED <<confs, confBak>> /\ Config!Fixed /\ "box" \in Config!Machines /\ "box" # "laptop"
  BY DEF Config!Check, Config!Machines
<1>2. CASE /\ Config!MayReset(repo["box"], syncOp.fetched)
           /\ syncOp' = [syncOp EXCEPT !.phase = "reset", !.seen = repo["box"]] /\ UNCHANGED repo
  <2>1. /\ syncOp' \in Sync /\ syncOp'.at = syncOp.at /\ syncOp'.phase = "reset" /\ syncOp'.seen = repo["box"]
        /\ syncOp'.fetched = syncOp.fetched
    BY <1>1, <1>2, Fields DEF SyncInv, SyncTyped, Sync, Phases
  <2>2. Checked'
    BY <1>2, <2>1 DEF Checked
  <2> QED BY <1>1, <1>2, <2>1, <2>2 DEF SyncInv, SyncTyped, Kept, Backed, Config!Fixed
<1>3. CASE Config!Phase("idle") /\ UNCHANGED repo
  BY <1>1, <1>3, PhaseStep DEF Phases
<1>4. CASE syncOp.force /\ \E stashed \in BOOLEAN :
             LET r   == repo["box"]
                 new == IF stashed THEN [r EXCEPT !.stash = @ \cup r.dirty, !.dirty = {}] ELSE r
             IN /\ repo' = [repo EXCEPT !["box"] = [new EXCEPT !.backup = r.head]]
                /\ syncOp' = [syncOp EXCEPT !.phase = "reset", !.seen = repo'["box"]]
  <2> DEFINE b == repo["box"]
             q(stashed) == IF stashed THEN [b EXCEPT !.stash = b.stash \cup b.dirty, !.dirty = {}] ELSE b
  <2>1. PICK stashed \in BOOLEAN :
          /\ repo' = [repo EXCEPT !["box"] = [q(stashed) EXCEPT !.backup = b.head]]
          /\ syncOp' = [syncOp EXCEPT !.phase = "reset", !.seen = repo'["box"]]
    BY <1>4
  <2> DEFINE n == [q(stashed) EXCEPT !.backup = b.head]
  <2>2. b \in Repo /\ b.head \in SUBSET Nat /\ b.dirty \in SUBSET Nat /\ b.stash \in SUBSET Nat
    BY <1>1, Fields
  <2>3. q(stashed) \in Repo /\ q(stashed).head = b.head
    BY <2>2 DEF Repo
  <2> HIDE DEF q
  <2>4. n \in Repo /\ n.head = b.head /\ n.backup = b.head
    BY <2>2, <2>3 DEF Repo
  <2>5. repo' = [repo EXCEPT !["box"] = n] /\ syncOp' = [syncOp EXCEPT !.phase = "reset", !.seen = repo'["box"]]
    BY <2>1
  <2> HIDE DEF n
  <2>6. repo'["box"] = n
    BY <1>1, <2>5 DEF SyncInv, SyncTyped
  <2>7. /\ syncOp' \in Sync /\ syncOp'.at = syncOp.at /\ syncOp'.phase = "reset" /\ syncOp'.seen = n /\ syncOp'.force = syncOp.force
    BY <2>4, <2>5, <2>6 DEF SyncInv, SyncTyped, Sync, Phases
  <2>8. Checked'
    BY <1>4, <2>4, <2>7 DEF Checked
  <2> QED BY <1>1, <2>4, <2>5, <2>7, <2>8, RepoStep DEF SyncInv, SyncTyped, Config!Fixed
<1> QED BY <1>2, <1>3, <1>4 DEF Config!Check

\* The reset.
LEMMA ResetStep == ASSUME SyncInv, Config!Reset PROVE SyncInv'
<1>1. "box" \in Config!Machines /\ "box" # "laptop" /\ UNCHANGED <<confs, confBak>> /\ Config!Fixed /\ Config!Phase("idle")
  BY DEF Config!Machines, Config!Reset
<1>2. \E n \in Repo : repo' = [repo EXCEPT !["box"] = n]
  <2>1. PICK named \in SUBSET repo["box"].loose :
          repo' = [repo EXCEPT !["box"].head = syncOp.fetched, !["box"].dirty = {}, !["box"].loose = @ \ named]
    BY DEF Config!Reset
  <2> DEFINE n == [repo["box"] EXCEPT !.head = syncOp.fetched, !.dirty = {}, !.loose = @ \ named]
  <2>2. repo' = [repo EXCEPT !["box"] = n]
    BY <1>1, <2>1 DEF SyncInv, SyncTyped
  <2>3. n \in Repo
    BY <1>1, <2>1, Fields DEF Repo
  <2> QED BY <2>2, <2>3
<1>3. syncOp' \in Sync /\ syncOp'.at = syncOp.at /\ syncOp'.phase = "idle"
  BY <1>1 DEF Config!Phase, SyncInv, SyncTyped, Sync, Phases
<1> QED BY <1>1, <1>2, <1>3, RepoStep DEF SyncInv, SyncTyped, Config!Fixed, Checked

\* The branch is set and the tree stashed, if that works, before the merge.
LEMMA BackupStep == ASSUME SyncInv, Config!Backup PROVE SyncInv'
<1>1. PICK stashed \in {{}, repo["laptop"].dirty} :
        /\ repo' = [repo EXCEPT !["laptop"].backup = repo["laptop"].head,
                                !["laptop"].dirty = @ \ stashed, !["laptop"].stash = @ \cup stashed]
        /\ syncOp' = [syncOp EXCEPT !.stashed = stashed, !.phase = "merge"]
  BY DEF Config!Backup
<1> DEFINE l == repo["laptop"]
           n == [l EXCEPT !.backup = l.head, !.dirty = l.dirty \ stashed, !.stash = l.stash \cup stashed]
<1>2. "laptop" \in Config!Machines /\ UNCHANGED <<confs, confBak>> /\ Config!Fixed
  BY DEF Config!Machines, Config!Backup
<1>3. l \in Repo /\ l.head \in SUBSET Nat /\ l.dirty \in SUBSET Nat /\ l.stash \in SUBSET Nat
  BY <1>2, Fields
<1>4. repo' = [repo EXCEPT !["laptop"] = n] /\ n \in Repo /\ n.backup = n.head
  <2>1. n \in Repo /\ n.backup = n.head
    BY <1>1, <1>3 DEF Repo
  <2>2. repo \in [Config!Machines -> Repo]
    BY DEF SyncInv, SyncTyped
  <2>3. repo' = [repo EXCEPT !["laptop"] = n]
    BY <1>1, <1>2, <2>2
  <2> QED BY <2>1, <2>3
<1>5. syncOp' \in Sync /\ syncOp'.at = syncOp.at /\ syncOp'.phase = "merge"
  BY <1>1, <1>3 DEF SyncInv, SyncTyped, Sync, Phases
<1> HIDE DEF n
<1> QED BY <1>2, <1>4, <1>5, RepoStep DEF SyncInv, SyncTyped, Config!Fixed, Checked

\* The merge, or its end with the stash back in the tree.
LEMMA MergeStep == ASSUME SyncInv, Config!Merge \/ Config!Conflict PROVE SyncInv'
<1> DEFINE l == repo["laptop"]
<1>1. "laptop" \in Config!Machines /\ UNCHANGED <<confs, confBak>> /\ Config!Fixed /\ Config!Phase("idle")
  BY DEF Config!Machines, Config!Merge, Config!Conflict
<1>2. /\ l \in Repo /\ l.head \in SUBSET Nat /\ l.dirty \in SUBSET Nat /\ l.stash \in SUBSET Nat
      /\ l.backup \in SUBSET Nat /\ syncOp.fetched \in SUBSET Nat /\ syncOp.stashed \in SUBSET Nat
      /\ l.backup \subseteq l.head
  BY <1>1, Fields DEF SyncInv, Backed
<1>3. \E n \in Repo : repo' = [repo EXCEPT !["laptop"] = n] /\ n.backup \subseteq n.head
  <2>1. CASE Config!Merge
    <3> DEFINE n == [l EXCEPT !.head = l.head \cup syncOp.fetched]
    <3>1. n \in Repo /\ n.backup = l.backup /\ n.head = l.head \cup syncOp.fetched
      BY <1>2 DEF Repo
    <3>2. repo' = [repo EXCEPT !["laptop"] = n]
      BY <1>1, <2>1 DEF Config!Merge, SyncInv, SyncTyped
    <3> HIDE DEF n
    <3> QED BY <1>2, <3>1, <3>2
  <2>2. CASE Config!Conflict
    <3> DEFINE n == [l EXCEPT !.dirty = l.dirty \cup syncOp.stashed, !.stash = l.stash \ syncOp.stashed]
    <3>1. n \in Repo /\ n.backup = l.backup /\ n.head = l.head
      BY <1>2 DEF Repo
    <3>2. repo' = [repo EXCEPT !["laptop"] = n]
      BY <1>1, <2>2 DEF Config!Conflict, Config!PopStash, SyncInv, SyncTyped
    <3> HIDE DEF n
    <3> QED BY <1>2, <3>1, <3>2
  <2> QED BY <2>1, <2>2
<1>4. syncOp' \in Sync /\ syncOp'.at = syncOp.at /\ syncOp'.phase = "idle"
  BY <1>1 DEF Config!Phase, SyncInv, SyncTyped, Sync, Phases
<1> QED BY <1>1, <1>3, <1>4, RepoStep DEF SyncInv, SyncTyped, Config!Fixed, Checked

\* Every step keeps the invariant.
LEMMA SyncNext == SyncInv /\ [Config!Next]_Config!vars => SyncInv'
<1> SUFFICES ASSUME SyncInv, [Config!Next]_Config!vars PROVE SyncInv'
  OBVIOUS
<1>1. CASE UNCHANGED Config!vars
  BY <1>1 DEF Config!vars, SyncInv, SyncTyped, OwnSeams, Kept, Backed, Checked, Config!Dest,
      Config!MayReset
<1>2. CASE \/ \E m \in Config!Machines : \E f \in {"inv", "ssh", "sshfs"} : Config!Edit(m, f)
           \/ \E m \in Config!Machines : Config!Work(m) \/ Config!Commit(m)
  BY <1>2, EditStep, WorkStep
<1>3. CASE \E k \in {"push", "pull"}, force \in BOOLEAN :
           \E box \in {Config!Short(confs["box"], kept) : kept \in SUBSET Config!Seams} \cup {Config!Empty} :
             Config!Read(k, force, box)
  BY <1>3, ReadStep
<1>4. CASE Config!InSync \/ Config!Decline \/ Config!Synced
  <2>1. \E p \in {"repo", "idle"} : Config!Phase(p) /\ UNCHANGED <<confs, repo>> /\ Config!Fixed
    BY <1>4 DEF Config!InSync, Config!Decline, Config!Synced
  <2> QED BY <2>1, PhaseStep DEF Phases
<1>5. CASE Config!Install \/ Config!Cut
  BY <1>5, InstallStep, CutStep
<1>6. CASE Config!Bundle \/ Config!Check \/ Config!Reset \/ Config!Fetch \/ Config!Backup \/ Config!Merge \/ Config!Conflict
  BY <1>6, FetchStep, CheckStep, ResetStep, BackupStep, MergeStep
<1>7. CASE Config!Die
  BY <1>7, Records DEF Config!Die, SyncInv, SyncTyped, Kept, Backed, Checked, Config!Fixed
<1> QED BY <1>1, <1>2, <1>3, <1>4, <1>5, <1>6, <1>7 DEF Config!Next

\* The invariant holds in every run.
THEOREM SyncInvariance == Config!Spec => []SyncInv
<1> QED BY SyncInit, SyncNext, PTL DEF Config!Spec

-----------------------------------------------------------------------------
(* The settings.                                                           *)

\* No run brings one machine's settings to another, or changes those of the machine it writes
\* to, unless that one could not be read, or not to its end, was edited since, or the connection
\* was cut (sync.go, localSeams: "never travel between machines").
THEOREM SeamsAreKept == Config!Spec => Config!SeamsStayHome
<1>1. ASSUME SyncInv, SyncInv', [Config!Next]_Config!vars, NEW m \in Config!Machines, NEW s \in Config!Seams
      PROVE  /\ confs'[m][s].of \in {m, ""}
             /\ \/ confs'[m][s] = confs[m][s]
                \/ edits' > edits
                \/ syncOp.blind \/ syncOp.at # edits
                \/ syncOp.phase = "read" /\ syncOp'.phase = "idle"
  <2>1. confs'[m][s].of \in {m, ""}
    BY <1>1 DEF SyncInv, OwnSeams
  <2>2. CASE UNCHANGED confs
    BY <2>1, <2>2
  <2>3. CASE \E n \in Config!Machines : \E f \in {"inv", "ssh", "sshfs"} : Config!Edit(n, f)
    <3>1. edits' = edits + 1 /\ edits \in Nat
      BY <1>1, <2>3 DEF Config!Edit, SyncInv, SyncTyped
    <3>2. edits' > edits
      BY <3>1
    <3> QED BY <2>1, <3>2
  <2>4. CASE Config!Install
    <3>1. syncOp.src \in Conf /\ syncOp.dst \in Conf
      BY <1>1 DEF SyncInv, SyncTyped, Sync
    <3>2. confs' = [confs EXCEPT ![Config!Dest] = Config!Assemble(syncOp.src, syncOp.dst)] /\ syncOp.phase = "read"
      BY <2>4 DEF Config!Install
    <3>3. ~syncOp.blind /\ syncOp.at = edits => confs[Config!Dest][s] = Config!Assemble(syncOp.src, syncOp.dst)[s]
      BY <1>1, <3>1, <3>2, Assembled DEF SyncInv, Kept
    <3>4. confs'[m] = IF m = Config!Dest THEN Config!Assemble(syncOp.src, syncOp.dst) ELSE confs[m]
      BY <1>1, <3>2 DEF SyncInv, SyncTyped
    <3> QED BY <2>1, <3>3, <3>4
  <2>5. CASE Config!Cut
    <3>1. syncOp.phase = "read" /\ syncOp'.phase = "idle"
      BY <1>1, <2>5 DEF Config!Cut, Config!Phase, SyncInv, SyncTyped, Sync
    <3> QED BY <2>1, <3>1
  <2>6. CASE ~(Config!Install \/ Config!Cut \/ \E n \in Config!Machines : \E f \in {"inv", "ssh", "sshfs"} : Config!Edit(n, f))
    <3>1. UNCHANGED confs
      BY <1>1, <2>6 DEF Config!Next, Config!vars, Config!Work, Config!Commit, Config!Read,
          Config!InSync, Config!Decline, Config!Synced, Config!Bundle, Config!Check,
                        Config!Reset, Config!Fetch, Config!Backup, Config!Merge, Config!Conflict,
                        Config!Die
    <3> QED BY <2>2, <3>1
  <2> QED BY <2>3, <2>4, <2>5, <2>6
<1>2. SyncInv /\ SyncInv' /\ [Config!Next]_Config!vars =>
        [\A m \in Config!Machines, s \in Config!Seams :
           /\ confs'[m][s].of \in {m, ""}
           /\ \/ confs'[m][s] = confs[m][s]
              \/ edits' > edits
              \/ syncOp.blind \/ syncOp.at # edits
              \/ syncOp.phase = "read" /\ syncOp'.phase = "idle"]_Config!vars
  BY <1>1
<1> QED BY <1>2, SyncInvariance, PTL DEF Config!Spec, Config!SeamsStayHome

-----------------------------------------------------------------------------
(* The work.                                                               *)

Lost(m) == Config!Held(repo[m]) \ Config!Held(repo'[m])

\* Whatever a step does to one repository, the other keeps all.
LEMMA OtherKeeps ==
  ASSUME SyncInv, NEW n \in Config!Machines, NEW r, repo' = [repo EXCEPT ![n] = r], NEW m \in Config!Machines, m # n
  PROVE  Lost(m) = {}
BY DEF Lost, SyncInv, SyncTyped

\* Owners, the laptop's backup, its merge and a merge undone lose nothing of either machine.
LEMMA KeepsAll ==
  ASSUME SyncInv, NEW m \in Config!Machines,
         \/ \E n \in Config!Machines : Config!Work(n) \/ Config!Commit(n)
         \/ Config!Backup \/ Config!Merge \/ Config!Conflict
  PROVE  Lost(m) = {}
<1> DEFINE r == repo[m]
<1>1. /\ r \in Repo /\ repo \in [Config!Machines -> Repo] /\ "laptop" \in Config!Machines
      /\ repo["laptop"].backup \subseteq repo["laptop"].head
  BY DEF SyncInv, SyncTyped, Backed, Config!Machines
<1>2. CASE repo'[m] = r
  BY <1>2 DEF Lost
<1>3. CASE Config!Work(m)
  <2>1. \/ repo'[m] = [r EXCEPT !.dirty = r.dirty \cup {work'}]
        \/ repo'[m] = [r EXCEPT !.loose = r.loose \cup {work'}]
    BY <1>1, <1>3 DEF Config!Work
  <2>2. /\ r.dirty \subseteq repo'[m].dirty /\ r.loose \subseteq repo'[m].loose /\ repo'[m].head = r.head
        /\ repo'[m].backup = r.backup /\ repo'[m].stash = r.stash
    BY <1>1, <2>1 DEF Repo
  <2> QED BY <2>2 DEF Lost, Config!Held
<1>4. CASE Config!Commit(m)
  <2>1. PICK add \in {{}, r.loose} :
          repo' = [repo EXCEPT ![m].head = @ \cup repo[m].dirty \cup add,
                               ![m].dirty = {}, ![m].loose = @ \ add]
    BY <1>4 DEF Config!Commit
  <2>2. repo'[m] = [r EXCEPT !.head = r.head \cup r.dirty \cup add, !.dirty = {}, !.loose = r.loose \ add]
    BY <1>1, <2>1
  <2>3. /\ repo'[m].loose = r.loose \ add /\ repo'[m].head = r.head \cup r.dirty \cup add
        /\ repo'[m].backup = r.backup /\ repo'[m].stash = r.stash
    BY <1>1, <2>2 DEF Repo
  <2> QED BY <2>3 DEF Lost, Config!Held
<1>5. CASE Config!Backup /\ m = "laptop"
  <2>1. PICK stashed \in {{}, r.dirty} :
          repo' = [repo EXCEPT !["laptop"].backup = repo["laptop"].head,
                               !["laptop"].dirty = @ \ stashed, !["laptop"].stash = @ \cup stashed]
    BY <1>5 DEF Config!Backup
  <2>2. repo'[m] = [r EXCEPT !.backup = r.head, !.dirty = r.dirty \ stashed, !.stash = r.stash \cup stashed]
    BY <1>1, <1>5, <2>1
  <2>3. /\ repo'[m].dirty = r.dirty \ stashed /\ repo'[m].head = r.head
        /\ repo'[m].backup = r.head /\ repo'[m].stash = r.stash \cup stashed /\ repo'[m].loose = r.loose
    BY <1>1, <2>2 DEF Repo
  <2> QED BY <1>1, <1>5, <2>3 DEF Lost, Config!Held
<1>6. CASE Config!Merge /\ m = "laptop"
  <2>1. repo'[m] = [r EXCEPT !.head = r.head \cup syncOp.fetched]
    BY <1>1, <1>6 DEF Config!Merge
  <2>2. /\ repo'[m].dirty = r.dirty /\ repo'[m].head = r.head \cup syncOp.fetched
        /\ repo'[m].backup = r.backup /\ repo'[m].stash = r.stash /\ repo'[m].loose = r.loose
    BY <1>1, <2>1 DEF Repo
  <2> QED BY <2>2 DEF Lost, Config!Held
<1>7. CASE Config!Conflict /\ m = "laptop"
  <2>1. repo'[m] = [r EXCEPT !.dirty = r.dirty \cup syncOp.stashed, !.stash = r.stash \ syncOp.stashed]
    BY <1>1, <1>7 DEF Config!Conflict, Config!PopStash
  <2>2. /\ repo'[m].dirty = r.dirty \cup syncOp.stashed /\ repo'[m].head = r.head
        /\ repo'[m].backup = r.backup /\ repo'[m].stash = r.stash \ syncOp.stashed /\ repo'[m].loose = r.loose
    BY <1>1, <2>1 DEF Repo
  <2> QED BY <2>2 DEF Lost, Config!Held
<1>8. CASE (Config!Backup \/ Config!Merge \/ Config!Conflict) /\ m # "laptop"
  BY <1>1, <1>2, <1>8 DEF Config!Backup, Config!Merge, Config!Conflict
<1>9. CASE \E n \in Config!Machines \ {m} : Config!Work(n) \/ Config!Commit(n)
  BY <1>1, <1>2, <1>9 DEF Config!Work, Config!Commit
<1> QED BY <1>3, <1>4, <1>5, <1>6, <1>7, <1>8, <1>9

\* What the script may cost a box that is as it was looked at.
Costs(r) == r.loose \cup (IF syncOp.force \/ r.head = {} THEN r.dirty ELSE {})
                   \cup (IF syncOp.force THEN r.backup ELSE {})

\* The script on the box loses no more than that.
LEMMA BoxKeeps ==
  ASSUME SyncInv, NEW m \in Config!Machines, Config!Check \/ Config!Reset
  PROVE  \/ Lost(m) = {}
         \/ m = "box" /\ syncOp.phase \in {"seed", "reset"} /\ Lost(m) \subseteq Costs(repo[m])
         \/ m = "box" /\ syncOp.phase = "reset" /\ syncOp.seen # repo[m]
<1> DEFINE b == repo["box"]
<1>1. b \in Repo /\ repo \in [Config!Machines -> Repo] /\ "box" \in Config!Machines
  BY DEF SyncInv, SyncTyped, Config!Machines
<1>2. CASE repo'[m] = repo[m]
  BY <1>2 DEF Lost
<1>3. CASE m # "box"
  BY <1>1, <1>2, <1>3 DEF Config!Check, Config!Reset
<1>4. CASE m = "box" /\ Config!Check /\ repo'[m] # repo[m]
  <2> DEFINE n(stashed) == IF stashed THEN [b EXCEPT !.stash = b.stash \cup b.dirty, !.dirty = {}] ELSE b
  <2>1. syncOp.phase = "seed" /\ syncOp.force /\ \E stashed \in BOOLEAN :
                      repo' = [repo EXCEPT !["box"] = [n(stashed) EXCEPT !.backup = b.head]]
    BY <1>4 DEF Config!Check
  <2>2. PICK stashed \in BOOLEAN : repo' = [repo EXCEPT !["box"] = [n(stashed) EXCEPT !.backup = b.head]]
    BY <2>1
  <2>3. /\ n(stashed) \in Repo /\ n(stashed).head = b.head /\ n(stashed).loose = b.loose
        /\ n(stashed).dirty \cup n(stashed).stash = b.dirty \cup b.stash
    BY <1>1 DEF Repo
  <2> HIDE DEF n
  <2>4. /\ repo'["box"].head = b.head /\ repo'["box"].backup = b.head /\ repo'["box"].loose = b.loose
        /\ repo'["box"].dirty \cup repo'["box"].stash = b.dirty \cup b.stash
    BY <1>1, <2>2, <2>3 DEF Repo
  <2> QED BY <1>4, <2>1, <2>4 DEF Lost, Config!Held, Costs
<1>5. CASE m = "box" /\ Config!Reset /\ syncOp.seen = repo[m]
  <2>1. PICK named \in SUBSET b.loose :
          repo' = [repo EXCEPT !["box"].head = syncOp.fetched, !["box"].dirty = {}, !["box"].loose = @ \ named]
    BY <1>5 DEF Config!Reset
  <2>2. repo'["box"] = [b EXCEPT !.head = syncOp.fetched, !.dirty = {}, !.loose = b.loose \ named]
    BY <1>1, <2>1
  <2>3. /\ repo'["box"].head = syncOp.fetched /\ repo'["box"].dirty = {}
        /\ repo'["box"].backup = b.backup /\ repo'["box"].stash = b.stash
    BY <1>1, <2>2 DEF Repo
  <2>4. syncOp.phase = "reset"
    BY <1>5 DEF Config!Reset
  <2>5. CASE Config!MayReset(b, syncOp.fetched)
    BY <1>5, <2>3, <2>4, <2>5 DEF Config!MayReset, Lost, Config!Held, Costs
  <2>6. CASE syncOp.force /\ b.head \subseteq b.backup
    BY <1>5, <2>3, <2>4, <2>6 DEF Lost, Config!Held, Costs
  <2> QED BY <1>5, <2>4, <2>5, <2>6 DEF SyncInv, Checked
<1> QED BY <1>2, <1>3, <1>4, <1>5 DEF Config!Reset

\* No run without --force loses work of either machine but untracked files of the box and, where
\* it has no commit, what was never committed; one with --force besides at most what an earlier
\* one put aside and what the stash would not take (dotfiles.go: "saves that work to branch
\* mu-onboard-backup + a git stash"), however many syncs, edits and failures went before.
THEOREM NoWorkIsLost == Config!Spec => Config!WorkIsKept
<1>1. ASSUME SyncInv, [Config!Next]_Config!vars, NEW m \in Config!Machines
      PROVE  \/ Lost(m) = {}
             \/ m = "box" /\ syncOp.phase \in {"seed", "reset"} /\ Lost(m) \subseteq Costs(repo[m])
             \/ m = "box" /\ syncOp.phase = "reset" /\ syncOp.seen # repo[m]
  <2>1. CASE UNCHANGED repo
    BY <2>1 DEF Lost
  <2>2. CASE (\E n \in Config!Machines : Config!Work(n) \/ Config!Commit(n)) \/ Config!Backup \/ Config!Merge \/ Config!Conflict
    BY <1>1, <2>2, KeepsAll
  <2>3. CASE Config!Check \/ Config!Reset
    BY <1>1, <2>3, BoxKeeps
  <2>4. CASE ~((\E n \in Config!Machines : Config!Work(n) \/ Config!Commit(n)) \/ Config!Backup \/ Config!Merge \/ Config!Conflict \/ Config!Check \/ Config!Reset)
    <3>1. UNCHANGED repo
      BY <1>1, <2>4 DEF Config!Next, Config!vars, Config!Edit, Config!Read, Config!InSync,
          Config!Decline, Config!Install, Config!Cut, Config!Synced, Config!Bundle, Config!Fetch,
          Config!Die
    <3> QED BY <2>1, <3>1
  <2> QED BY <2>2, <2>3, <2>4
<1>2. SyncInv /\ [Config!Next]_Config!vars =>
        [\A m \in Config!Machines :
           LET r    == repo[m]
               lost == Config!Held(r) \ Config!Held(repo'[m])
           IN
           \/ lost = {}
           \/ /\ m = "box" /\ syncOp.phase \in {"seed", "reset"}
              /\ lost \subseteq r.loose \cup (IF syncOp.force \/ r.head = {} THEN r.dirty ELSE {})
                                     \cup (IF syncOp.force THEN r.backup ELSE {})
           \/ m = "box" /\ syncOp.phase = "reset" /\ syncOp.seen # r]_Config!vars
  BY <1>1 DEF Lost, Costs
<1> QED BY <1>2, SyncInvariance, PTL DEF Config!Spec, Config!WorkIsKept

-----------------------------------------------------------------------------
(* mu project submit.                                                      *)

\* What the proof needs to know of the variables' types.
StampType == [commit: Nat, dirty: BOOLEAN]
CloneType == [ready: BOOLEAN, head: Nat, tree: Nat, on: BOOLEAN, untracked: SUBSET Nat]
StageType == [versions: SUBSET Nat, extras: SUBSET Nat, stamp: StampType, doubt: BOOLEAN]
SubmitType == [phase: {"idle", "confirm", "copy", "submit"}, clean: BOOLEAN, keep: BOOLEAN,
               stamp: StampType, at: Nat, doubt: BOOLEAN]

ProjectTyped ==
  /\ laptop \in [head: Nat, tree: Nat, past: SUBSET Nat]
  /\ clone \in CloneType
  /\ stage \in StageType
  /\ projectOp \in SubmitType
  /\ moves \in Nat
  /\ projectOp.at <= moves

\* Nobody has moved since the submit took its stamp, and git told it and the node's clone the
\* truth.
Still == projectOp.at = moves /\ ~projectOp.doubt

\* A stamp says what it says of the files: this is what a run inherits from the stage.
NamesWork(stamp, s) ==
  ~stamp.dirty => stamp.commit \in s.versions /\ s.versions \subseteq {stamp.commit} \cup s.extras

\* Up to the staging the stamp is that of the laptop as it is, and a clean submit's is clean.
Stamped ==
  projectOp.phase \in {"confirm", "copy"} /\ Still =>
    projectOp.stamp = Project!Stamp(laptop, TRUE) /\ (projectOp.clean => ~projectOp.stamp.dirty)

\* What was pushed is out on the node.
Pushed == projectOp.phase = "copy" => projectOp.clean /\ (Still => clone.tree = laptop.head)

\* What is staged is what the stamp names, before it is written.
Carried == projectOp.phase = "submit" /\ Still => NamesWork(projectOp.stamp, stage)

\* Once it is written, the stage may be trusted unless it is in doubt.
Sound(s) == ~s.doubt => NamesWork(s.stamp, s)

ProjectInv ==
  /\ ProjectTyped
  /\ Stamped /\ Pushed /\ Carried
  /\ Sound(stage) /\ \A r \in runs : Sound(r)

-----------------------------------------------------------------------------

\* It holds before anybody has done anything.
LEMMA ProjectInit == Project!Init => ProjectInv
BY DEF Project!Init, ProjectInv, ProjectTyped, StampType, CloneType, StageType, SubmitType, Stamped, Pushed, Carried, Sound,
    NamesWork, Project!NoClone, Project!NoStamp, Project!Idle, Still

\* An owner's move makes every stamp under way stale: Still is false until the next submit.
LEMMA MoveBreaks ==
  ASSUME ProjectInv, Project!Move, ProjectTyped', UNCHANGED <<projectOp, stage, runs>>
  PROVE  ProjectInv'
<1>1. ~Still'
  BY DEF ProjectInv, ProjectTyped, Project!Move, Still
<1>2. Stamped' /\ Carried'
  BY <1>1 DEF Stamped, Carried
<1>3. Pushed'
  BY <1>1 DEF ProjectInv, Pushed
<1> QED BY <1>2, <1>3 DEF ProjectInv, Sound, NamesWork

\* No submit is under way.
LEMMA IdleTyped ==
  /\ Project!Idle \in SubmitType
  /\ Project!Idle.at = 0 /\ Project!Idle.phase = "idle"
BY DEF Project!Idle, Project!NoStamp, StampType, SubmitType

\* What a stamp says of the laptop, when it is told of the edits.
LEMMA StampSays ==
  ASSUME ProjectInv
  PROVE  /\ Project!Stamp(laptop, TRUE).commit = laptop.head
         /\ ~Project!Stamp(laptop, TRUE).dirty => laptop.tree = laptop.head
         /\ \A told \in BOOLEAN : Project!Stamp(laptop, told) \in StampType
BY DEF ProjectInv, ProjectTyped, Project!Stamp, StampType

\* The two owners.
LEMMA OwnerStep ==
  ASSUME ProjectInv, Project!EditCase \/ Project!CommitCase \/ Project!EditClone \/ Project!CommitClone \/ Project!Checkout
  PROVE  ProjectInv'
<1>1. Project!Move /\ UNCHANGED <<projectOp, stage, runs>>
  BY DEF Project!EditCase, Project!CommitCase, Project!EditClone, Project!CommitClone,
      Project!Checkout
<1>2. ProjectTyped'
  <2>1. moves' = moves + 1 /\ moves' \in Nat /\ projectOp'.at <= moves' /\ UNCHANGED <<projectOp, stage>>
    BY <1>1 DEF ProjectInv, ProjectTyped, SubmitType, Project!Move
  <2>2. CASE Project!EditCase
    BY <2>1, <2>2 DEF ProjectInv, ProjectTyped, Project!EditCase
  <2>3. CASE Project!CommitCase
    <3>1. laptop'.head = laptop.tree /\ laptop'.tree = laptop.tree
          /\ laptop'.past = laptop.past \cup {laptop.tree}
          /\ laptop' = [head |-> laptop'.head, tree |-> laptop'.tree, past |-> laptop'.past]
      BY <2>3 DEF ProjectInv, ProjectTyped, Project!CommitCase
    <3>2. laptop' \in [head: Nat, tree: Nat, past: SUBSET Nat]
      BY <3>1 DEF ProjectInv, ProjectTyped
    <3> QED BY <2>1, <2>3, <3>2 DEF ProjectInv, ProjectTyped, Project!CommitCase
  <2>4. CASE Project!EditClone \/ Project!CommitClone \/ Project!Checkout
    <3>1. moves' \in Nat /\ clone \in CloneType /\ laptop' = laptop
      BY <2>1, <2>4 DEF ProjectInv, ProjectTyped, Project!EditClone, Project!CommitClone,
          Project!Checkout
    <3>2. \/ clone' = [clone EXCEPT !.tree = moves']
          \/ clone' = [clone EXCEPT !.untracked = clone.untracked \cup {moves'}]
          \/ clone' = [clone EXCEPT !.head = clone.tree]
          \/ clone' = [clone EXCEPT !.on = FALSE, !.tree = moves']
      BY <2>4 DEF Project!EditClone, Project!CommitClone, Project!Checkout
    <3>3. clone' \in CloneType
      BY <3>1, <3>2 DEF CloneType
    <3> QED BY <2>1, <3>1, <3>3 DEF ProjectInv, ProjectTyped
  <2> QED BY <2>2, <2>3, <2>4
<1> QED BY <1>1, <1>2, MoveBreaks

\* A push that goes through leaves the tree as it is, if the branch is not out or nothing was
\* to be sent, or at what was pushed.
LEMMA Received ==
  ASSUME NEW c \in CloneType, NEW d \in Project!Receive(c, laptop.head), laptop.head \in Nat
  PROVE  d \in CloneType /\ (~Project!LeftAsIs(c) => d.tree = laptop.head)
<1>1. CASE c.head = laptop.head
  BY <1>1 DEF Project!Receive, Project!LeftAsIs
<1>2. CASE c.head # laptop.head
  <2>1. d = [c EXCEPT !.head = laptop.head, !.tree = IF c.on THEN laptop.head ELSE c.tree]
    BY <1>2 DEF Project!Receive
  <2> QED BY <1>2, <2>1 DEF CloneType, Project!LeftAsIs
<1> QED BY <1>1, <1>2

\* mu project clone runs beside no submit.
LEMMA CloneStep == ASSUME ProjectInv, Project!ProjectClone PROVE ProjectInv'
<1> DEFINE ready == [clone EXCEPT !.ready = TRUE]
<1>1. ready \in CloneType
  BY DEF ProjectInv, ProjectTyped, CloneType
<1>2. clone' = ready \/ clone' \in Project!Receive(ready, laptop.head)
  BY DEF Project!ProjectClone
<1>3. laptop.head \in Nat
  BY DEF ProjectInv, ProjectTyped
<1> HIDE DEF ready
<1>4. clone' \in CloneType
  BY <1>1, <1>2, <1>3, Received
<1>5. projectOp.phase = "idle" /\ UNCHANGED <<laptop, stage, projectOp, runs, moves>>
  BY DEF Project!ProjectClone
<1> QED BY <1>4, <1>5 DEF ProjectInv, ProjectTyped, Stamped, Pushed, Carried, Sound, NamesWork,
    Still

\* The stamp a submit takes is the laptop's, unless the status failed; a clean submit is refused
\* unless it is clean.
LEMMA BeginStep ==
  ASSUME ProjectInv, NEW clean \in BOOLEAN, NEW force \in BOOLEAN, NEW keep \in BOOLEAN,
         NEW told \in BOOLEAN, Project!Begin(clean, force, keep, told)
  PROVE  ProjectInv'
<1> DEFINE stamp == Project!Stamp(laptop, told)
           blind == stamp # Project!Stamp(laptop, TRUE)
<1>1. /\ projectOp' = [phase |-> "confirm", clean |-> clean, keep |-> keep, stamp |-> stamp,
                       at |-> moves, doubt |-> blind]
      /\ clean => ~stamp.dirty
      /\ UNCHANGED <<laptop, clone, stage, runs, moves>>
  BY DEF Project!Begin
<1>2. stamp \in StampType /\ blind \in BOOLEAN
  BY StampSays
<1>3. Still' => stamp = Project!Stamp(laptop, TRUE)
  BY <1>1 DEF Still
<1> HIDE DEF stamp, blind
<1>4. /\ projectOp' \in SubmitType /\ projectOp'.phase = "confirm" /\ projectOp'.stamp = stamp
      /\ projectOp'.clean = clean /\ projectOp'.at = moves
  BY <1>1, <1>2 DEF ProjectInv, ProjectTyped, SubmitType
<1>5. ProjectTyped'
  BY <1>1, <1>4 DEF ProjectInv, ProjectTyped
<1>6. Stamped'
  BY <1>1, <1>3, <1>4 DEF Stamped, Project!Stamp
<1>7. Pushed' /\ Carried' /\ Sound(stage)' /\ (\A r \in runs : Sound(r))'
  BY <1>1, <1>4 DEF ProjectInv, Pushed, Carried, Sound, NamesWork
<1> QED BY <1>5, <1>6, <1>7 DEF ProjectInv

\* What a staging of the commit leaves is named by its stamp; the submit it belongs to, and its
\* stamp, stay the same.
LEMMA StagedStep ==
  ASSUME ProjectInv, NEW tree \in Nat, NEW along \in SUBSET Nat, Project!Staged(tree, along),
         Still /\ ~projectOp.stamp.dirty => tree = projectOp.stamp.commit,
         UNCHANGED <<laptop, clone, runs, moves>>
  PROVE  ProjectInv'
<1> DEFINE extras == along \cup (IF projectOp.keep THEN stage.versions ELSE {})
<1>1. /\ stage' = [stage EXCEPT !.versions = {tree} \cup extras, !.extras = extras, !.doubt = TRUE]
      /\ projectOp' = [projectOp EXCEPT !.phase = "submit"]
  BY DEF Project!Staged
<1>2. extras \in SUBSET Nat
  BY DEF ProjectInv, ProjectTyped, StageType
<1> HIDE DEF extras
<1>3. stage' \in StageType /\ stage'.versions = {tree} \cup extras /\ stage'.extras = extras /\ stage'.doubt
  BY <1>1, <1>2 DEF ProjectInv, ProjectTyped, StageType
<1>4. /\ projectOp' \in SubmitType /\ projectOp'.phase = "submit" /\ projectOp'.stamp = projectOp.stamp
      /\ projectOp'.at = projectOp.at /\ projectOp'.doubt = projectOp.doubt
  BY <1>1 DEF ProjectInv, ProjectTyped, SubmitType
<1>5. ProjectTyped'
  BY <1>3, <1>4 DEF ProjectInv, ProjectTyped
<1>6. Carried'
  BY <1>3, <1>4 DEF Carried, NamesWork, Still
<1> QED BY <1>3, <1>4, <1>5, <1>6 DEF ProjectInv, Stamped, Pushed, Sound

\* One that fails half way leaves the stage in doubt and the submit at its end.
LEMMA MixedStep ==
  ASSUME ProjectInv, NEW tree \in Nat, NEW along \in SUBSET Nat, Project!Mixed(tree, along),
         UNCHANGED <<laptop, clone, runs, moves>>
  PROVE  ProjectInv'
<1>1. /\ stage' = [stage EXCEPT !.versions = stage.versions \cup along \cup {tree}, !.doubt = TRUE]
      /\ projectOp' = Project!Idle
  BY DEF Project!Mixed
<1>2. stage' \in StageType /\ stage'.doubt
  BY <1>1 DEF ProjectInv, ProjectTyped, StageType
<1>3. ProjectTyped' /\ projectOp'.phase = "idle"
  BY <1>1, <1>2, IdleTyped DEF ProjectInv, ProjectTyped
<1> QED BY <1>2, <1>3 DEF ProjectInv, Stamped, Pushed, Carried, Sound

\* Iterate: without a move in between, a clean stamp means the tree is the commit.
LEMMA RsyncStep == ASSUME ProjectInv, Project!Rsync PROVE ProjectInv'
<1>1. projectOp.phase = "confirm" /\ UNCHANGED <<laptop, clone, runs, moves>>
  BY DEF Project!Rsync
<1>2. laptop.tree \in Nat
  BY DEF ProjectInv, ProjectTyped
<1>3. Still /\ ~projectOp.stamp.dirty => laptop.tree = projectOp.stamp.commit
  BY <1>1, StampSays DEF ProjectInv, Stamped
<1> QED BY <1>1, <1>2, <1>3, StagedStep, MixedStep DEF Project!Rsync

\* Clean: the node is at the laptop's commit when the push has gone through.
LEMMA PushStep == ASSUME ProjectInv, Project!Push PROVE ProjectInv'
<1> DEFINE left == projectOp.doubt \/ Project!LeftAsIs(clone)
<1>1. /\ projectOp.phase = "confirm" /\ projectOp.clean /\ clone' \in Project!Receive(clone, laptop.head)
      /\ projectOp' = [projectOp EXCEPT !.phase = "copy", !.doubt = left]
      /\ UNCHANGED <<laptop, stage, runs, moves>>
  BY DEF Project!Push
<1>2. clone' \in CloneType /\ (~left => clone'.tree = laptop.head)
  BY <1>1, Received DEF ProjectInv, ProjectTyped
<1>3. left \in BOOLEAN /\ (~left => ~projectOp.doubt)
  BY DEF ProjectInv, ProjectTyped, SubmitType, CloneType, Project!LeftAsIs
<1> HIDE DEF left
<1>4. /\ projectOp' \in SubmitType /\ projectOp'.phase = "copy" /\ projectOp'.clean = projectOp.clean
      /\ projectOp'.stamp = projectOp.stamp /\ projectOp'.at = projectOp.at /\ projectOp'.doubt = left
  BY <1>1, <1>3 DEF ProjectInv, ProjectTyped, SubmitType
<1>5. ProjectTyped'
  BY <1>1, <1>2, <1>4 DEF ProjectInv, ProjectTyped
<1>6. Still' => Still /\ clone'.tree = laptop.head
  BY <1>1, <1>2, <1>3, <1>4 DEF Still
<1>7. Stamped' /\ Pushed'
  BY <1>1, <1>4, <1>6 DEF ProjectInv, Stamped, Pushed, Project!Stamp
<1> QED BY <1>1, <1>4, <1>5, <1>7 DEF ProjectInv, Carried, Sound, NamesWork

\* The copy takes the checkout, which is the stamp's commit if nobody has moved.
LEMMA CopyStep == ASSUME ProjectInv, Project!Copy PROVE ProjectInv'
<1>1. projectOp.phase = "copy" /\ UNCHANGED <<laptop, clone, runs, moves>>
  BY DEF Project!Copy
<1>2. clone.tree \in Nat /\ clone.untracked \in SUBSET Nat
  BY DEF ProjectInv, ProjectTyped, CloneType
<1>3. Still => clone.tree = projectOp.stamp.commit
  BY <1>1, StampSays DEF ProjectInv, Stamped, Pushed
<1> QED BY <1>1, <1>2, <1>3, StagedStep, MixedStep DEF Project!Copy

\* The stamp is written, and the doubt is lifted only if it is the stage's.
LEMMA SubmitStep == ASSUME ProjectInv, Project!Submit PROVE ProjectInv'
<1> DEFINE moved == projectOp.doubt \/ projectOp.at # moves
<1>1. /\ projectOp.phase = "submit" /\ projectOp' = Project!Idle /\ UNCHANGED <<laptop, clone, runs, moves>>
      /\ stage' = [stage EXCEPT !.stamp = projectOp.stamp, !.doubt = moved]
  BY DEF Project!Submit
<1>2. moved \in BOOLEAN /\ (~moved => Still) /\ projectOp.stamp \in StampType
  BY DEF ProjectInv, ProjectTyped, SubmitType, Still
<1> HIDE DEF moved
<1>3. /\ stage' \in StageType /\ stage'.stamp = projectOp.stamp /\ stage'.versions = stage.versions
      /\ stage'.extras = stage.extras /\ stage'.doubt = moved
  BY <1>1, <1>2 DEF ProjectInv, ProjectTyped, StageType
<1>4. ProjectTyped' /\ projectOp'.phase = "idle"
  BY <1>1, <1>3, IdleTyped DEF ProjectInv, ProjectTyped
<1>5. Sound(stage')
  BY <1>1, <1>2, <1>3 DEF ProjectInv, Carried, Sound, NamesWork
<1> QED BY <1>1, <1>4, <1>5 DEF ProjectInv, Stamped, Pushed, Carried, Sound

\* Every step keeps the invariant.
LEMMA ProjectNext == ProjectInv /\ [Project!Next]_Project!vars => ProjectInv'
<1> SUFFICES ASSUME ProjectInv, [Project!Next]_Project!vars PROVE ProjectInv'
  OBVIOUS
<1>1. CASE UNCHANGED Project!vars
  BY <1>1 DEF Project!vars, ProjectInv, ProjectTyped, Stamped, Pushed, Carried, Sound, NamesWork,
      Still, Project!Stamp
<1>2. CASE Project!EditCase \/ Project!CommitCase \/ Project!EditClone \/ Project!CommitClone \/ Project!Checkout
  BY <1>2, OwnerStep
<1>3. CASE Project!ProjectClone
  BY <1>3, CloneStep
<1>4. CASE \E clean, force, keep, told \in BOOLEAN : Project!Begin(clean, force, keep, told)
  BY <1>4, BeginStep
<1>5. CASE Project!Stop
  BY <1>5, IdleTyped DEF Project!Stop, ProjectInv, ProjectTyped, Stamped, Pushed, Carried, Sound,
      NamesWork
<1>6. CASE Project!Rsync \/ Project!Push \/ Project!Copy \/ Project!Submit
  BY <1>6, RsyncStep, PushStep, CopyStep, SubmitStep
<1>7. CASE Project!JobStarts
  <2>1. runs' = runs \cup {stage} /\ UNCHANGED <<laptop, clone, stage, projectOp, moves>>
    BY <1>7 DEF Project!JobStarts
  <2> QED BY <2>1 DEF ProjectInv, ProjectTyped, Stamped, Pushed, Carried, Sound, NamesWork,
      Still, Project!Stamp
<1> QED BY <1>1, <1>2, <1>3, <1>4, <1>5, <1>6, <1>7 DEF Project!Next

-----------------------------------------------------------------------------

\* A run recorded with a clean commit ran that commit's files, and beside them only what
\* --keep-extra left and untracked files of the node's clone, whichever way and however often
\* the case was staged, however many submits and moves there were, unless the stage was in
\* doubt when the job took it (project.go, Stamp; prep.go, runTOML).
THEOREM CleanRunsAreOfTheirCommit == Project!Spec => []Project!RecordedCommitIsRun
<1>1. ProjectInv => Project!RecordedCommitIsRun
  BY DEF ProjectInv, Sound, NamesWork, Project!RecordedCommitIsRun
<1> QED BY <1>1, ProjectInit, ProjectNext, PTL DEF Project!Spec

-----------------------------------------------------------------------------
(* mu job watch.                                                           *)

\* What the proof needs to know of the variables' types.
Counter == [last: Pcts \cup {Watch!NoPct}, have: BOOLEAN, unchanged: Nat, stalled: BOOLEAN]

WatchTyped ==
  /\ count \in Counter
  /\ numbers \in Seq(Pcts)

\* The counters stand for the end of what was read: unchanged counts back over the run of
\* numbers equal to the last, to its beginning and no further.
Run(s, n, p) ==
  /\ n < Len(s) /\ p = s[Len(s)]
  /\ \A i \in Len(s) - n .. Len(s) : s[i] = p
  /\ Len(s) - n > 1 => s[Len(s) - n - 1] # p

CountsMade ==
  /\ ~count.have => numbers = <<>> /\ count.unchanged = 0
  /\ count.have  => numbers # <<>> /\ Run(numbers, count.unchanged, count.last)
  /\ count.stalled <=> count.unchanged >= StallTicks

WatchInv == WatchTyped /\ CountsMade

-----------------------------------------------------------------------------

\* A run of n unchanged numbers is quiet if n is StallTicks or more, and only then.
LEMMA RunQuiet ==
  ASSUME NEW s \in Seq(Pcts), NEW n \in Nat, NEW p, Run(s, n, p), StallTicks \in Nat
  PROVE  Watch!Stalls!Quiet(s) <=> n >= StallTicks
<1>1. CASE n >= StallTicks
  BY <1>1 DEF Run, Watch!Stalls!Quiet
<1>2. CASE n < StallTicks
  <2> SUFFICES ASSUME Watch!Stalls!Quiet(s) PROVE FALSE
    BY <1>2
  <2>1. Len(s) > StallTicks /\ Len(s) - n - 1 \in Len(s) - StallTicks .. Len(s)
    BY <1>2 DEF Watch!Stalls!Quiet
  <2> QED BY <1>2, <2>1 DEF Run, Watch!Stalls!Quiet
<1> QED BY <1>1, <1>2

\* One more of the same, one that differs, the first.
LEMMA RunGrows ==
  ASSUME NEW s \in Seq(Pcts), NEW n \in Nat, NEW p \in Pcts, Run(s, n, p)
  PROVE  Run(Append(s, p), n + 1, p)
<1> DEFINE t == Append(s, p)
<1>1. /\ Len(s) \in Nat /\ Len(t) = Len(s) + 1 /\ t[Len(t)] = p
      /\ \A i \in 1 .. Len(s) : t[i] = s[i]
  OBVIOUS
<1>2. Len(t) - (n + 1) = Len(s) - n /\ n < Len(s)
  BY <1>1 DEF Run
<1> HIDE DEF t
<1>3. \A i \in Len(t) - (n + 1) .. Len(t) : t[i] = p
  BY <1>1, <1>2, SMTT(20) DEF Run
<1>4. Len(t) - (n + 1) > 1 => t[Len(t) - (n + 1) - 1] # p
  BY <1>1, <1>2 DEF Run
<1>5. Run(t, n + 1, p)
  BY <1>1, <1>2, <1>3, <1>4 DEF Run
<1> QED BY <1>5 DEF t

\* A read that differs ends the run.
LEMMA RunBreaks ==
  ASSUME NEW s \in Seq(Pcts), NEW p \in Pcts, s # <<>> => s[Len(s)] # p
  PROVE  Run(Append(s, p), 0, p)
<1>1. Len(s) \in Nat /\ (Len(s) > 0 => s # <<>>)
  OBVIOUS
<1> QED BY <1>1 DEF Run

\* The run length and the flag of a counter.
LEMMA Longer ==
  ASSUME NEW c \in Counter, NEW b \in BOOLEAN,
         NEW d, d = [c EXCEPT !.unchanged = c.unchanged + 1, !.stalled = b]
  PROVE  /\ (d.have <=> c.have) /\ d.last = c.last /\ d.unchanged = c.unchanged + 1 /\ (d.stalled <=> b)
         /\ d \in Counter
<1> DEFINE n == c.unchanged + 1
           e == [c EXCEPT !.unchanged = n]
<1>1. d \in Counter
  <2>1. n \in Nat
    BY DEF Counter
  <2> HIDE DEF n
  <2>2. e \in Counter
    BY <2>1 DEF Counter
  <2>3. d = [e EXCEPT !.stalled = b]
    BY DEF n
  <2> HIDE DEF e
  <2> QED BY <2>2, <2>3 DEF Counter
<1>2. d.last = c.last /\ d.unchanged = c.unchanged + 1 /\ d.stalled = b /\ d.have = c.have
  BY DEF Counter
<1> QED BY <1>1, <1>2

\* The stall flag is the abstract silence.
LEMMA StalledIsQuiet ==
  ASSUME WatchInv, StallTicks \in Nat \ {0}
  PROVE  count.stalled <=> Watch!Stalls!Quiet(numbers)
<1>1. CASE count.have
  BY <1>1, RunQuiet DEF WatchInv, WatchTyped, Counter, CountsMade
<1>2. CASE ~count.have
  BY <1>2 DEF WatchInv, WatchTyped, CountsMade, Watch!Stalls!Quiet
<1> QED BY <1>1, <1>2

\* Nothing read, nothing counted.
LEMMA AnewInv ==
  ASSUME StallTicks \in Nat \ {0}, Watch!Anew
  PROVE  WatchInv' /\ Watch!Stalls!Restart
BY DEF Watch!Anew, Watch!Fresh, WatchInv, WatchTyped, Counter, CountsMade, Watch!Stalls!Restart

\* The judgement of one number: the counters go on standing for what was read, and the marker
\* is the one the abstract detector writes.
LEMMA JudgeStep ==
  ASSUME StallTicks \in Nat \ {0}, WatchInv, Watch!Judge
  PROVE  WatchInv' /\ (\/ UNCHANGED <<numbers, markers>>
                   \/ \E p \in Pcts : Watch!Stalls!Read(p))
<1> DEFINE p == Watch!Last(log).pct
           m == Watch!Marker(p)
<1>1. CASE UNCHANGED <<count, log, numbers, markers>>
  BY <1>1 DEF WatchInv, WatchTyped, CountsMade
<1>2. CASE /\ p \in Pcts
           /\ count' = Watch!Counted(p) /\ numbers' = Append(numbers, p)
           /\ IF m = "" THEN UNCHANGED <<log, markers>>
              ELSE log' = Append(log, Watch!Event(m)) /\ markers' = Append(markers, m)
  <2> HIDE DEF p
  <2>1. /\ p \in Pcts /\ count' = Watch!Counted(p) /\ numbers' = Append(numbers, p)
        /\ markers' = IF Watch!Marker(p) = "" THEN markers ELSE Append(markers, Watch!Marker(p))
        /\ numbers \in Seq(Pcts) /\ numbers' \in Seq(Pcts) /\ numbers' # <<>>
    <3>1. p \in Pcts /\ count' = Watch!Counted(p) /\ numbers' = Append(numbers, p) /\ numbers \in Seq(Pcts)
      BY <1>2 DEF WatchInv, WatchTyped
    <3>2. markers' = IF Watch!Marker(p) = "" THEN markers ELSE Append(markers, Watch!Marker(p))
      <4>1. CASE Watch!Marker(p) = ""
        BY <1>2, <4>1
      <4>2. CASE Watch!Marker(p) # ""
        BY <1>2, <4>2
      <4> QED BY <4>1, <4>2
    <3>3. numbers' \in Seq(Pcts) /\ numbers' # <<>>
      BY <3>1
    <3> QED BY <3>1, <3>2, <3>3
  <2>2. CASE Watch!Unmoved(p)
    <3>1. /\ (count'.have <=> count.have) /\ count'.last = count.last
          /\ count'.unchanged = count.unchanged + 1
          /\ count'.stalled <=> count.stalled \/ count.unchanged + 1 >= StallTicks
          /\ count' \in Counter
      <4> DEFINE long == count.stalled \/ count.unchanged + 1 >= StallTicks
      <4>1. long \in BOOLEAN /\ count \in Counter
        BY DEF WatchInv, WatchTyped, Counter
      <4>2. count' = [count EXCEPT !.unchanged = count.unchanged + 1, !.stalled = long]
        BY <2>1, <2>2 DEF Watch!Counted
      <4> HIDE DEF long
      <4>3. ASSUME NEW b \in BOOLEAN, count' = [count EXCEPT !.unchanged = count.unchanged + 1, !.stalled = b]
            PROVE  /\ (count'.have <=> count.have) /\ count'.last = count.last
                   /\ count'.unchanged = count.unchanged + 1 /\ (count'.stalled <=> b) /\ count' \in Counter
        BY <4>1, <4>3, Longer, ZenonT(30)
      <4>4. /\ (count'.have <=> count.have) /\ count'.last = count.last
            /\ count'.unchanged = count.unchanged + 1 /\ (count'.stalled <=> long) /\ count' \in Counter
        BY <4>1, <4>2, <4>3
      <4> QED BY <4>4 DEF long
    <3>2. Run(numbers, count.unchanged, p) /\ count.have /\ count.last = p /\ count.unchanged \in Nat
      BY <2>2 DEF Watch!Unmoved, WatchInv, CountsMade, WatchTyped, Counter
    <3>3. Run(numbers', count'.unchanged, p)
      BY <2>1, <3>1, <3>2, RunGrows
    <3>4. count'.stalled <=> count'.unchanged >= StallTicks
      BY <3>1, <3>2 DEF WatchInv, CountsMade
    <3>5. WatchInv'
      BY <2>1, <3>1, <3>2, <3>3, <3>4 DEF WatchInv, WatchTyped, CountsMade
    <3>6. /\ Watch!Marker(p) = IF Watch!Stalls!Quiet(numbers') /\ ~Watch!Stalls!Quiet(numbers) THEN "stall" ELSE ""
          /\ Watch!Stalls!Quiet(numbers) => Watch!Stalls!Quiet(numbers')
      <4>1. Watch!Stalls!Quiet(numbers') <=> count.unchanged + 1 >= StallTicks
        BY <2>1, <3>1, <3>2, <3>3, RunQuiet DEF Counter
      <4>2. Watch!Stalls!Quiet(numbers) <=> count.stalled
        BY StalledIsQuiet
      <4>3. count.stalled <=> count.unchanged >= StallTicks
        BY DEF WatchInv, CountsMade
      <4>4. CASE Watch!Stalls!Quiet(numbers)
        BY <2>2, <3>2, <4>1, <4>2, <4>3, <4>4 DEF Watch!Marker
      <4>5. CASE ~Watch!Stalls!Quiet(numbers) /\ Watch!Stalls!Quiet(numbers')
        BY <2>2, <3>2, <4>1, <4>2, <4>5 DEF Watch!Marker
      <4>6. CASE ~Watch!Stalls!Quiet(numbers) /\ ~Watch!Stalls!Quiet(numbers')
        BY <2>2, <3>2, <4>1, <4>2, <4>6 DEF Watch!Marker
      <4> QED BY <4>4, <4>5, <4>6
    <3>7. Watch!Stalls!Read(p)
      BY <2>1, <3>6 DEF Watch!Stalls!Read
    <3> QED BY <2>1, <3>5, <3>7
  <2>3. CASE ~Watch!Unmoved(p)
    <3>1. /\ count'.have /\ count'.last = p /\ count'.unchanged = 0 /\ ~count'.stalled
          /\ count' \in Counter
      BY <2>1, <2>3 DEF Watch!Counted, Counter
    <3>2. numbers # <<>> => numbers[Len(numbers)] # p
      BY <2>3 DEF Watch!Unmoved, WatchInv, CountsMade, WatchTyped, Run
    <3>3. Run(numbers', 0, p)
      BY <2>1, <3>2, RunBreaks
    <3>4. WatchInv'
      <4>1. count'.stalled <=> count'.unchanged >= StallTicks
        BY <3>1
      <4>2. Run(numbers', count'.unchanged, count'.last)
        BY <3>1, <3>3
      <4>3. CountsMade'
        BY <2>1, <3>1, <4>1, <4>2 DEF CountsMade
      <4> QED BY <2>1, <3>1, <4>3 DEF WatchInv, WatchTyped
    <3>5. ~Watch!Stalls!Quiet(numbers')
      <4>1. 0 \in Nat /\ StallTicks \in Nat /\ ~(0 >= StallTicks)
        OBVIOUS
      <4> QED BY <2>1, <3>3, <4>1, RunQuiet
    <3>6. Watch!Marker(p) = IF Watch!Stalls!Quiet(numbers) THEN "resumed" ELSE ""
      BY <2>3, StalledIsQuiet DEF Watch!Marker
    <3>7. Watch!Stalls!Read(p)
      BY <2>1, <3>5, <3>6 DEF Watch!Stalls!Read
    <3> QED BY <2>1, <3>4, <3>7
  <2> QED BY <2>2, <2>3
<1> QED BY <1>1, <1>2 DEF Watch!Judge

\* The sidecar implements the detector: each step keeps the invariant and is a reading, a
\* restart or nothing to it.
LEMMA StepMaps ==
  ASSUME StallTicks \in Nat \ {0}, WatchInv, [Watch!Next]_Watch!vars
  PROVE  WatchInv' /\ [Watch!Stalls!Next]_<<numbers, markers>>
<1>1. CASE UNCHANGED Watch!vars
  BY <1>1 DEF Watch!vars, WatchInv, WatchTyped, CountsMade
<1>2. CASE Watch!Start \/ Watch!Stop
  BY <1>2, AnewInv DEF Watch!Start, Watch!Stop, Watch!Dies, Watch!Stalls!Next
<1>3. CASE Watch!Checkout \/ Watch!Tick
  BY <1>3 DEF Watch!Checkout, Watch!Tick, WatchInv, WatchTyped, CountsMade
<1>4. CASE Watch!Judge
  BY <1>4, JudgeStep DEF Watch!Stalls!Next
<1> QED BY <1>1, <1>2, <1>3, <1>4 DEF Watch!Next

\* mu job watch says stall after StallTicks unchanged numbers in a row and not before, once,
\* and resumed when they move, whatever failed, absent or odd readings lie between and wherever
\* it is stopped (watch.go, Watch).  A detector that needs no unchanged number at all, StallTicks
\* 0, would say stall at the first one; the code, which sets 10, at the second.
THEOREM WatchDetectsStalls ==
  ASSUME StallTicks \in Nat \ {0}
  PROVE  Watch!Spec => Watch!StallsAreEarned
<1>1. Watch!Init => WatchInv /\ Watch!Stalls!Init
  BY DEF Watch!Init, Watch!Fresh, WatchInv, WatchTyped, Counter, CountsMade, Watch!Stalls!Init
<1>2. WatchInv /\ [Watch!Next]_Watch!vars => WatchInv' /\ [Watch!Stalls!Next]_<<numbers, markers>>
  BY StepMaps
<1> QED BY <1>1, <1>2, PTL DEF Watch!Spec, Watch!StallsAreEarned, Watch!Stalls!Spec
================================================================================
