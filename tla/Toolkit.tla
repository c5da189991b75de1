------------------------------- MODULE Toolkit -------------------------------
(***************************************************************************)
(* The smaller parts of mu side by side: a behaviour is one of one part,   *)
(* the others stay where they start.  The parts share no state, so their   *)
(* sum is all there is to see of them together.  Job directories are       *)
(* JobPrep itself, the other parts instances.                              *)
(***************************************************************************)
EXTENDS JobPrep, ScreenParts, CommandParts

CONSTANTS
  MirrorSets, MirrorTree, DataDir, RunIds,         \* the mirror
  LeafFiles, Suffixes, MaxWrites, MaxPuts,         \* the archive
  MaxLines,                                        \* the allocation's stream
  TomlFiles, TomlEdits, MaxSaves                   \* config.toml

VARIABLES part

-----------------------------------------------------------------------------
(* The mirror, the archive, and the view of an interactive allocation.    *)

VARIABLES shellCwd, exists, mtime, came

Mirrors == INSTANCE Mirror WITH
  cwd <- shellCwd, Sets <- MirrorSets, Tree <- MirrorTree, Ids <- RunIds

ASSUME MirrorsAssumption == Mirrors!MirrorAssumption

VARIABLES leaf, size, staging, tape, putMu, puts, plan, want, disturbed, complete

Pack == INSTANCE ArchivePack WITH mu <- putMu, Files <- LeafFiles, Asked <- Suffixes

VARIABLES stream, pos, buf, held, phase, said, spin, house, out, ended

View == INSTANCE AllocView

-----------------------------------------------------------------------------
(* config.toml.                                                            *)

VARIABLES file, fileBak, asked, saves

ConfigFile == INSTANCE TomlEdit WITH bak <- fileBak, Files <- TomlFiles, Edits <- TomlEdits

-----------------------------------------------------------------------------

prep    == <<case, head, dir, env, given, origin, pc, cwd, todo, kills, lost, muted, strays, doubtful>>
watch   == <<trees, watchPc, count, log, from, numbers, markers>>
mirrors == <<shellCwd, exists, mtime, came>>
pack    == <<leaf, size, staging, tape, putMu, puts, plan, want, disturbed, complete>>
view    == <<stream, pos, buf, held, phase, said, spin, house, out, ended>>
shell   == <<Ragged, alive, anchor, pane, screen, runMu, used, did, quiet>>
pick    == <<queue, queueChanges, ui, flight, pickMu, meant, gone, killed>>
forms   == <<sites, qos, ask, listed, cache, form, subOp, listChanges, failed>>
fan     == <<fleet, queues, targets, fanPc, hook, results, done, main>>
toml    == <<file, fileBak, asked, saves>>
panel   == <<value, expanded, marked, cursor, top, height, sub, toggled, state>>
config  == <<confs, confBak, repo, syncOp, edits, work, syncs>>
project == <<laptop, clone, stage, marks, projectOp, queued, runs, moves, submits>>
parts   == <<part, prep, watch, mirrors, pack, view, shell, pick, forms, fan, toml, panel, config, project>>

Parts == {"prep", "watch", "mirror", "pack", "view", "shell", "pick", "form", "fan", "toml",
          "panel", "config", "project"}

ToolkitInit ==
  /\ part \in Parts /\ Init
  /\ Watch!Init /\ Mirrors!Init /\ Pack!Init /\ View!Init /\ Shell!Init /\ Pick!Init /\ Form!Init
  /\ Fan!Init /\ ConfigFile!Init /\ Panels!Init /\ Config!Init /\ Project!Init

ToolkitNext ==
  /\ UNCHANGED part
  /\ \/ /\ part = "prep" /\ Next
        /\ UNCHANGED <<watch, mirrors, pack, view, shell, pick, forms, fan, toml, panel, config, project>>
     \/ /\ part = "watch" /\ Watch!Next
        /\ UNCHANGED <<prep, mirrors, pack, view, shell, pick, forms, fan, toml, panel, config, project>>
     \/ /\ part = "mirror" /\ Mirrors!Next
        /\ UNCHANGED <<prep, watch, pack, view, shell, pick, forms, fan, toml, panel, config, project>>
     \/ /\ part = "pack" /\ Pack!Next
        /\ UNCHANGED <<prep, watch, mirrors, view, shell, pick, forms, fan, toml, panel, config, project>>
     \/ /\ part = "view" /\ View!Next
        /\ UNCHANGED <<prep, watch, mirrors, pack, shell, pick, forms, fan, toml, panel, config, project>>
     \/ /\ part = "shell" /\ Shell!Next /\ UNCHANGED Ragged
        /\ UNCHANGED <<prep, watch, mirrors, pack, view, pick, forms, fan, toml, panel, config, project>>
     \/ /\ part = "pick" /\ Pick!Next
        /\ UNCHANGED <<prep, watch, mirrors, pack, view, shell, forms, fan, toml, panel, config, project>>
     \/ /\ part = "form" /\ Form!Next
        /\ UNCHANGED <<prep, watch, mirrors, pack, view, shell, pick, fan, toml, panel, config, project>>
     \/ /\ part = "fan" /\ Fan!Next
        /\ UNCHANGED <<prep, watch, mirrors, pack, view, shell, pick, forms, toml, panel, config, project>>
     \/ /\ part = "toml" /\ ConfigFile!Next
        /\ UNCHANGED <<prep, watch, mirrors, pack, view, shell, pick, forms, fan, panel, config, project>>
     \/ /\ part = "panel" /\ Panels!Next
        /\ UNCHANGED <<prep, watch, mirrors, pack, view, shell, pick, forms, fan, toml, config, project>>
     \/ /\ part = "config" /\ Config!Next
        /\ UNCHANGED <<prep, watch, mirrors, pack, view, shell, pick, forms, fan, toml, panel, project>>
     \/ /\ part = "project" /\ Project!Next
        /\ UNCHANGED <<prep, watch, mirrors, pack, view, shell, pick, forms, fan, toml, panel, config>>

ToolkitSpec == ToolkitInit /\ [][ToolkitNext]_parts

-----------------------------------------------------------------------------
(* What each part is held to; its module says what that is.                *)

\* Every part's state is of its type, the part at work being the one that could leave it
\* (the state each module's VARIABLES models).
WellTyped ==
  CASE part = "prep" -> TypeOK [] part = "watch" -> Watch!TypeOK
    [] part = "mirror" -> Mirrors!TypeOK [] part = "pack" -> Pack!TypeOK
    [] part = "view" -> View!TypeOK [] part = "shell" -> Shell!TypeOK
    [] part = "pick" -> Pick!TypeOK [] part = "form" -> Form!TypeOK
    [] part = "fan" -> Fan!TypeOK [] part = "toml" -> ConfigFile!TypeOK
    [] part = "panel" -> Panels!TypeOK [] part = "config" -> Config!TypeOK
    [] part = "project" -> Project!TypeOK

\* The sidecar's log is one of StallDetector: stalls are called when they are there and once
\* (internal/job/watch.go, Watch).
StallsAreEarned == Watch!StallsAreEarned

\* Classified places do not share an archive path (internal/mirror/mirror.go, Container).
ArchiveKeepsApart == part = "mirror" => Mirrors!ArchiveKeepsApart

\* Swapping stays in the case and comes back (internal/mirror/mirror.go, Swap).
SwapKeepsCase == Mirrors!SwapKeepsCase

\* What a put has put up, a get gives back (internal/archive/archive.go, splitPacks, Get).
GetReturnsPut == part = "pack" => Pack!GetReturnsPut

\* Each of the shell's lines comes through once, none of the scheduler's (internal/cli/allocview.go).
EveryLineOnce == part = "view" => View!EveryLineOnce

\* A run passes on its own command's exit code (internal/cli/jobharness.go).
RcIsOwn == part = "shell" => Shell!RcIsOwn

\* A run reads its own command's output, and its own pwd's (internal/cli/jobharness.go, harnessSlice).
SliceIsOwn == part = "shell" => Shell!SliceIsOwn

\* The picker's cursor is on the screen (internal/render/select.go, clampScroll).
CursorIsDrawn == part = "pick" => Pick!CursorIsDrawn

\* Cancels reach marked jobs only, and the report accounts for each (internal/cli/mdel.go).
CancelIsMeant == part = "pick" => Pick!CancelIsMeant

\* No submission asks beyond the limits it was checked against (internal/cli/jobform.go, walltime.go).
SentFits == part = "form" => Form!SentFits

\* The form left as it opens submits what the flags would (internal/cli/jobform.go, subForm).
FormAgreesWithFlags == part = "form" => Form!FormAgreesWithFlags

\* Every target comes back once, in order, with its own progress (internal/cli/collate.go).
TableIsWhole == part = "fan" => Fan!TableIsWhole

\* The collator never waits for a goroutine that is gone (internal/cli/collate.go, collateFan).
FanReturns == part = "fan" => Fan!FanReturns

\* A save of config.toml says what was typed and nothing else (internal/cli/tomledit.go).
SaveSaysWhatWasAsked == ConfigFile!SaveSaysWhatWasAsked

\* The panel's cursor is on the screen (internal/render/editor.go, clampScroll).
CursorOnScreen == part = "panel" => Panels!CursorOnScreen

\* A set loses and gains what was toggled, no more (internal/render/collection.go).
SetChangesAsToggled == Panels!SetChangesAsToggled

\* No sync moves a machine's own settings to another (internal/cli/sync.go, assemble).
SeamsStayHome == Config!SeamsStayHome

\* No sync without --force loses work of either machine (internal/cli/dotfiles.go).
WorkIsKept == Config!WorkIsKept

\* A job with a clean record ran the commit it names (internal/cli/project.go, Stamp).
RecordedCommitIsRun == part = "project" => Project!RecordedCommitIsRun
=============================================================================
