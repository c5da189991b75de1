# mu: a verification project

`mu` (this repository) is a command-line toolkit for work on HPC clusters: it
mounts cluster file systems on a laptop, submits and watches jobs, holds tunnels
to them, moves project data to and fro and packs it for the archive. Each command
is a short-lived process. What makes them hard to get right is what they leave to
one another: records in `$XDG_STATE_HOME`, files on the cluster, ssh masters that
outlive the process, mounts, a queue that moves on its own, and an unattended
agent that launchd starts every minute or so. Others are hard within one process:
pickers whose rows change under the cursor, a pane several processes type into, a
text that is edited line by line. This directory models those parts in TLA+,
checks them with TLC and proves the safety of most of them with TLAPS.

## The system's parts

| part | state it keeps | operations | what is hard |
|---|---|---|---|
| sshfs mounts and registry (`sshfs/sshfs.go`, `cli/sshfs*.go`) | registry file, the kernel's mount table | mount, umount, set, add, rm, doctor | a mount table that does not answer in time reads as "not mounted"; an unmount may fail; verbs run beside the guard |
| mount guard (`sshfs/guard.go`, `cli/sshfs_guard.go`) | guard state file | one tick: sample, decide, act, save | acts before it saves; a tick may be lost at any point; debts and cooldowns span hours |
| tunnel (`cli/jobtunnel.go`, `tunnelreg.go`, `tunnelmanage.go`) | tunnel records, ssh masters, local ports, jobs | open, ls, reattach, close | mu exits and the master lives on; sockets and ports are reused; jobs end, requeue, outlive the record |
| ssh session (`hpc/session.go`) | a control socket | open, run, forward, close | stale sockets, two users of one socket |
| staged scripts (`cli/job.go`, `jobstage.go`, `stagereg.go`) | staged records, copies on the cluster | sub, clean, sweep | sweeps that race submits, lost answers, failed removals |
| job prep, env, watch (`job/`, `hooks/`) | run directories, `run.toml`, the progress log | env, prep, watch | chained jobs inherit an environment and a directory, array tasks the digits of an id; requeues and kills cut each step short, readings fail |
| harness (`cli/jobharness.go`) | a tmux pane, an anchor file | open, run, key, pin | many typists, one screen: queued commands, timeouts, sentinels that scroll away |
| interactive allocation (`cli/allocview.go`) | a partial line, a phase | filter a pty | chunks end anywhere; a prompt has no newline |
| queue list and submit form (`cli/jobform.go`, `walltime.go`, `queuecache.go`, `render/form.go`) | a cached list, an open form | open, patch, edit, submit | the list lands late and changes; flags and form must agree |
| queue picker (`render/select.go`, `cli/mdel.go`, `mstat.go`) | marks, cursor, window | pick, resolve, confirm, cancel | rows change under the cursor; the plan is older than the act |
| fan-out (`cli/collate.go`, `sitecollate.go`, `jobhooks.go`) | none | ask every system | answers in any order or none; ids collide |
| project sync (`cli/projectsync.go`, `sync*.go`) | data tiers on both sides, manifest | push, pull, prune, verify, status | plan, prompt and transfer are apart; the manifest is read, merged, written |
| project submit, clone (`project/`, `cli/project*.go`) | node marker, the node's clone, the staged case and its stamp | clone, submit in two modes | stamp, staging and job start are apart; two owners |
| archive, tar (`archive/`, `tar/`) | tars on the archive | put, get | chunks of earlier puts, puts cut short |
| mirror (`mirror/`) | none: paths | project, swap | nested roots; runs come and go |
| config panel (`cli/config.go`, `tomledit/`, `render/editor.go`, `collection.go`) | `config.toml`, the open panel | move, fold, edit, mark, save, retire a node | edits renumber the lines of the edits after them |
| config sync and dotfiles (`cli/sync.go`, `dotfiles.go`) | `config.toml` and `.config` on both machines | push, pull, `--force` | read, confirm and write are apart; two owners |
| exec, probe, ticket (`hpc/`) | ticket cache | run a command on a cluster | lost answers |
| queue parsers, rsync arguments, git, ps, log, cast, doctor, setup, shell libraries | none that others rely on | display, checks, one-time setup | sequential |

They meet in few places. The guard and the owner's verbs share the mount table,
the registry and the ticket. `job tunnel` and `job sub` push scripts to the same
directory; `job sub` and `job clean` sweep the staged registry, `tunnel close`
removes its own script. A job submitted by `project submit` or `job sub` runs `job env`
and `job prep` on its node, which read the stamp that the submit left in the staged case. `job sub -i`,
`tunnel -i` and `shell -i` open the same form on the same cached queue list; `mstat -i` picks from
what the fan-out collates. Tunnels, `ls`, `reattach` and `close` share the tunnel
registry, the control sockets and the local ports. All of them act on a queue that
moves by itself. `PROJECT.json` lists the parts with their status, and the hazards
of the code at their lines.

## The modules

### GuardEngine and SshfsGuard: the mount guard

`GuardEngine` is `Decide` (`sshfs/guard.go`) as operators: what one tick makes of
its memory of each mount, and which actions it orders. The code subtracts time
stamps from now; the model keeps the ages themselves, saturating at `Horizon`,
beyond which no comparison can tell two ages apart.

`SshfsGuard` is the laptop: `registry`, the mount table `mnt` (down, up, hung),
`held` (the owner is inside), `ticket`, the state file `disk`, and the running
`tick`. `BeginTick` samples and decides; `Take`, `RemountSkip`, `RemountLaunch`,
`RemountEnd` and `Warn` are the acts of `runGuardTick`, one mount at a time;
`SaveTick` writes the state; `LoseTick` is a sleep, a kill or a failed save at any
point. Starting sshfs is two steps, so the owner's verbs interleave with the wait.
The owner's verbs (`OwnerMount` .. `OwnerLeave`), failing endpoints, the ticket and
the clock run at any time. `Flaky` lets the mount table miss its deadline.

`owed`, `parks`, `tried` are history: what the guard really did, as opposed to what
it remembers.

### Tunnel: the tunnel registry and the ssh masters

One laptop, one cluster. `job` is the queue, `master` the sockets that answer,
`fwd` the forward each carries, `rec` the registry, `mu` the process that sets up,
holds or reattaches a tunnel. `Open`, `Submit`, `Running`, `GoUp`, `Release`
follow `jobTunnel`; `GiveUp` is every error return and Ctrl-C, with the deferred
`Close`; `Killed` cleans nothing up. `Ls` is `tunnelStates` and `splitByMaster`;
`StartReattach`, `List`, `Reforward` follow `reattachTunnel`; `Close` is
`closeTunnel`, whose cancel may fail. Names of sockets matter: a persisted one is
named for the local port (`tunnelSockID`), a foreground one for its process.
`Adopters`, `Timed`, `Foreground` fix the flags of each tunnel (`--job`, a known
walltime, `--foreground`), `Requeues` the jobs the scheduler may put back.

### StagedScripts: pushed scripts and their sweeps

`Sub` is the one remote call that stages and submits, `Save` the record, `Load`,
`List`, `Remove`/`RemoveFails`, `Forget` the legs of `sweepStagedOn`, run by every
`sub` and by `clean`; `Stop` ends a process anywhere. Records, the queue and the
copies are read at different times by processes that run at once.

### ProjectSync: push, pull and prune of a project's data

Several machines with a copy of the project, one cluster. A file is the edit that
wrote its version, or absent, which is what size and mtime tell apart. `Plan` is the
listing of `syncShared`, `projectSyncPull` and `projectSyncPrune` (what is new, what
differs, what has no local counterpart), `Confirm` and `Abort` the prompt, `Begin`
one scope's rsync, `Send`, `Fetch` and `Remove` what it does to one file,
`Moved` the end of it, `Record` and `Save` the manifest's read and write, `Fail` a
broken connection or a kill. rsync decides file by file on what it finds, not on
the listing. Each scope, a tier or a dataset a path narrows to, has its own
manifest. `spoiled` is history: a command failed, overlapped another or had its
data edited under it. rsync itself is external: within one file its check and its
rename are one step.

### JobPrep, JobWatch and StallDetector: a job on its node

`JobPrep` follows jobs, tasks of one array among them, from the queue to their end. A directory is a path: the authored case is
empty, and `<submitdir>_<id>` the path of `<submitdir>` with the id appended. An id is the digits it begins with and an index, so that the
tasks of an array, whose ids begin alike (`Base`), differ in the index only. `Env` is `mu job env` (`Exported` what it
leaves in the environment, or nothing when it fails), `JobContext` the variables the id, the index and the submit directory are taken from,
`Look`, `Copy`, `Walk`, `Record` and `Fill` are `Prep` with `copyTree`, file by file, and the write of
`run.toml` in their parts, `Abort` its errors, `MuKilled` and `Requeue` the crashes, `Compute`
the job itself. `Chain` is a job that submits the next one, or an array, from where it stands and with its own environment; a job
submitted from a run directory takes that directory's files and `run.toml` along. `RunTOML` asks git, which answers, is not there, or
knows the commit and fails to tell the status. The owner edits and commits the case meanwhile. `lost`, `muted`, `strays` and `doubtful` are
history; `strays` are the run directories a job took for its own by the `MU_*` of the one that submitted it. The case is a checkout here: a staged copy,
which records its stamp instead, is `ProjectSubmit`'s. One file's copy is one step.

`StallDetector` says what the sidecar promises without its counters: stall when the last
`StallTicks + 1` numbers are one, resumed when they stop being one. `JobWatch` is `Watch` line by
line: `Tick` runs the hook (`Exec` folds exit, timeout and output into a number or none) and writes,
`Judge` counts and marks, `Stop` ends it anywhere. `numbers` and `markers` are history, what this watch has judged and
written; the type invariant says that they are what the log holds. `INSTANCE StallDetector WITH read <- numbers,
said <- markers` is the refinement mapping, and `StallsAreEarned`, the abstract specification, a property of the detailed one.

### Mirror and ArchivePack: places and tars

`Mirror` has `locate`, `classify`, `Archive` and `Swap` as operators on paths (sequences of components), and a
shell that swaps while runs are started. `ArchivePack` plans a put (`leafPack`, `splitPacks`, the batch tier), stages and uploads
one tar after another, is killed anywhere, and gets: `ChunkNames` selects, `Extract` unions in the
order of the names. `plan`, `want`, `disturbed`, `complete` are history.

### Harness and AllocView: interactive work

`Harness` is one tmux pane: `pane` is the shell (at a prompt, busy, or waiting for a quote to close) with
what was typed ahead, `screen` what `capture-pane` reads, row by row: lines typed, output, marks. A row's value is the directory it names, if it
looks like one; `Slice` keeps every row between the typed line and its mark, and `PwdOf` takes the last. `Anchor`, `Flush`, `Send`, `Poll`, `Timeout` are the legs
of `harness run`; the owner types, sends C-c, programs read what was meant for the shell, output floods the
history, the allocation ends and is opened again. The shell goes on by itself to what was typed ahead, also inside a quote that was
itself typed ahead (`ReadsOn`). `AllocView` has the fields of `allocView`, halves of lines
as its input; `Write` takes any number of halves at a time, `Flush` is the end of the session. The spinner turns from the first queued line
until something stops it: an error is printed over it, and a partial line is passed on under it, as in the code.

### QueuePick, SubmitForm and Collate: the queue

`QueuePick` is `selectModel` key by key, with its fetches in flight, and around it the command that
resolves, confirms and cancels cluster by cluster. `SubmitForm` has the command line, the cached and the live queue list, and the
form: `Open` seeds it, `Load` is the patch when the list lands, `Edit` and `Submit` with their checks, against
`ResolveQueue` and `Wall`, the path of the flags; a tunnel or a shell goes through that path again after its form. `Collate` is
the fan-out: a goroutine per target, one for its hooks with a channel of capacity one, the count of dones, the merge.

### TomlEdit, Panel and ConfigSync: configuration

`TomlEdit` keeps the file as lines. A save parses them (`Parse`), edits lines and spans as `tomledit.go` does (`Set`, `Insert`, which shifts
the spans in place, `InsertTable` and `DeleteTable`, which parse again), and the lines it leaves are read back as TOML (`Says`, `Broken`). `Shown` is
what a leaf shows before it is edited, `RawLine` what is written for it: quotes go around a string only, so that any other key that is emptied
is a line with nothing behind its `=`. `Panel` is the editor and the sub-editor of
lists and sets key by key; a set's rows are the universe and what the leaf holds beyond it, each name once, as `newCollEditor` makes them (`News`). `ConfigSync` is one run of `setup sync` or `sync pull` at a time: read, confirm, install or be cut, then the bundle
and the script on the box, or fetch, backup and merge on the laptop, with both owners at work. A repository is the set of
pieces of work it holds, which is what ancestry and loss are about; on the box, work in untracked files (`loose`) is told from work in tracked
ones, since the script's check looks at the latter alone and at neither where there is no commit. `Short` is a file read or written only in part: without
some of its seams, or without anything.

### ProjectSubmit: from a commit to a run

The laptop's repository, the node's clone with its untracked files, the staged case, its stamp, and the jobs. `Begin` is every check before the
confirm and the stamp, whose git status may fail (`told`); `Rsync` is the iterate mode, `Push` and `Copy` the clean mode, either with `--keep-extra` (`keep`)
or without, and either may fail half way (`Mixed`). `Submit` is the one remote line that writes the stamp and submits,
`JobStarts` the copy of inputs and stamp that `job prep` takes. git's push is external: refused unless it is a fast-forward and
the checkout is clean; past a checkout of another branch it moves the branch alone; and with nothing to send it succeeds without a look at the checkout
(`Receive`, `LeftAsIs`).

### Toolkit and MCToolkit: the small parts together

These thirteen parts share no state, and most are small. `Toolkit` is their sum: `part` names the one at work in a behaviour, the
others stay in an initial state, so the states of the run are the union, not the product, of the parts' states, and one run
checks each part under its own properties. A property of a part is restated there under its own name and guarded with
`part` where it is an invariant; an action property holds of a resting part because it stutters. The parts are separate
modules with their own constants and specifications. `ScreenParts` (picker, form, fan-out, panel, harness) and `CommandParts` (sidecar, config sync,
project submit) declare the constants and variables of those that are proved about and hold their instances; `Toolkit` extends both and
adds the others. `JobPrep` is extended rather than instanced, so its constants are the configuration's and its assumption is
evaluated; the sum has names of its own for what it adds (`ToolkitSpec`, `WellTyped`).

`MCToolkit` gives the constants their values and is the specification TLC runs: `MCInit` is `ToolkitInit` with one initial state, not all
of them, for each part that is not the one at work (`Rests`), and some of those of the mirror and the form at work; `MCNext` is `ToolkitNext` with a few
bounds. What each leaves out is named with the bounds below. Every behaviour of `MCSpec` is thus one of `ToolkitSpec`, about which the theorems are; it leaves out
what a resting part may rest in otherwise, and what the bounds name. Its 1.2 million states take about two minutes.

## The runs

| run | shows |
|---|---|
| `guard` | with every interleaving of ticks, owner, failures and lost ticks: a debt is remembered (`OwedIsRemembered`) and paid unless the mount is benched, which is to stay down (`OwedIsPaid`), a mount parked `TripLimit` times is not cycled (`NoCycling`), cooldowns hold (`CooldownHolds`) |
| `guard_bench` | violated: a benched mount does not stay down until mounted by hand |
| `guard_idle` | violated: a mount idled out and brought back by its owner is idled out by the next tick |
| `tunnel` | no `ls`, `reattach` or race drops the record of a live job (`NothingStranded`); failed setups and reattaches leave no master behind (`MasterAccounted`) |
| `tunnel_port` | violated: `ls` drops a record whose master still holds the port |
| `tunnel_reuse` | violated: a record's socket may be answered by another tunnel's master |
| `tunnel_requeue` | violated: the record of a requeued job is dropped while it runs |
| `sync` | a file on the cluster is replaced by a forced push only (`OverwriteIsForced`), a pull replaces local files by newer ones only (`PullKeepsNewer`), a prune spares raw and, left alone, deletes what it listed of tiers that are not empty here (`PruneStaysInPlan`), undisturbed commands leave honest manifests (`ManifestIsHonest`) |
| `sync_narrow` | violated: with narrowed pushes two manifests name different versions of one file |
| `sync_prompt` | violated: a prune answered late deletes what it never listed, up to the whole tier |
| `toolkit` | the thirteen small parts, see below |
| `staged` | a queued job keeps its script, a forgotten copy is gone, an ended job's copy is reaped |

What `toolkit` shows, part by part:

| module | property | says |
|---|---|---|
| `JobPrep` | `PrepKeeps` | no prep changes what a job wrote into a run directory, nor its first whole record, strays apart |
| | `OwnRunDir` | two jobs, tasks of one array among them, share a directory only if the environment one inherited was never put right or its mu died without a word; only such a death leaves a job where it was submitted from |
| | `CleanRecordIsTrue` | the record of a run prepared from the case that says clean names the commit the inputs are of, unless the case moved between copy and record, git status failed or the directory is a stray |
| `JobWatch` | `StallsAreEarned` | its log is a behaviour of `StallDetector`, whatever readings fail |
| `Mirror` | `ArchiveKeepsApart` | two classified places never share an archive path, nested roots included |
| | `SwapKeepsCase` | a swap stays in its case; to and fro from the permanent tier comes back, but to a stray copy of a run |
| `ArchivePack` | `GetReturnsPut` | after a put went through, get gives back the leaf, whatever puts failed before |
| `AllocView` | `EveryLineOnce` | the shell's lines once and in order, none of the scheduler's raw; of a session that ends before the scheduler spoke, every whole line |
| `Harness` | `RcIsOwn`, `SliceIsOwn` | exit code, output (among the lines others typed ahead) and pinned directory are one's own command's |
| `QueuePick` | `CursorIsDrawn` | the row the next key acts on is on the screen |
| | `CancelIsMeant` | only marked or named jobs are cancelled, and each one asked for is accounted for |
| `SubmitForm` | `SentFits` | nothing is sent beyond the limits it was checked against |
| | `FormAgreesWithFlags` | the form left alone submits what the flags would |
| `Collate` | `FanReturns` | the collator never waits for a goroutine that is gone |
| | `TableIsWhole` | every target once, in order, each row with its own progress |
| `TomlEdit` | `SaveSaysWhatWasAsked` | a save says what was typed and nothing else, and leaves a readable file unless it emptied a list, a map or a number |
| `Panel` | `CursorOnScreen`, `SetChangesAsToggled` | the cursor's row is drawn; a set changes by what was toggled |
| `ConfigSync` | `SeamsStayHome`, `WorkIsKept` | machine-local settings do not travel; without `--force` no work is lost but what the box's script never looks at: untracked files, and a tree without a commit |
| `ProjectSubmit` | `RecordedCommitIsRun` | a run with a clean stamp ran that commit, whatever an owner, `--keep-extra` or a push that had nothing to send left about |

Several of these speak of all cases but some, which they name. Each exception is a behaviour the model has and the code does
not guard against; without it the property fails:

- a job whose `mu job env` failed keeps the `MU_*` of the job that submitted it, and shares its run directory (`prep.go:30`):
  its prep, or a later attempt of the first one's, may copy inputs over what the other has computed, after the record was written;
  a job that is no array task keeps an inherited index; a `mu` that is killed prints nothing, so the script computes where it was submitted;
- a `git status` that fails makes a record, and a submit's stamp, that says clean (`prep.go:179`, `project/project.go:273`), though
  "provenance degrades to fewer fields" (`prep.go:194-195`);
- a job submitted from a run directory is prepped from it, and the `run.toml` copied along is kept (`prep.go:32`, `:85`): it names its parent's commit and id;
- a run directory whose copy, or whose `run.toml`, was cut short is taken for complete (`prep.go:78`, `:85`);
- a watch restarted by a requeue forgets that it had called a stall (`watch.go:79`);
- chunks of an earlier split stay on the archive and sort after the newer whole tar; a hook's chunk named `rest` collides with mu's own (`archive.go:218`, `:371`);
- a command typed ahead gets the end of its predecessor's output too, and a flood that scrolls the echo away gives no output with exit code 0 (`jobharness.go:501`);
  the lines others type ahead while a command runs are printed with its output (`:516`), and a session is pinned to one that begins with a slash if it is the last before the mark of `pwd` (`:531`);
- a session that ends before the scheduler has spoken loses a last line without a newline (`allocview.go:216`), though "a session that never reached salloc
  still owes the user whatever it printed" (`:212-213`); an `error:` line, and a partial line passed on, leave the spinner turning (`:149`, `:68-82`);
- `/` takes a line from the picker's page without scrolling (`select.go:262`); a fetch that fails empties it, though the comment at `mdel.go:79` has it keep its last frame;
- the node limit is checked by a form that has the list, not by flags or a form sent before it landed; a queue picked before the list landed is replaced by a class flag's late match; with `--debug` and no configured queue the form seeds the literal `debug`;
- a new root key of a file that starts with a table lands in that table (`tomledit.go:125`); emptying a key that is not a string (`fleet`, `nodes`, `cores_per_node`, the queue maps) writes
  `key = ` (`config.go:683`), and `config.toml` can no longer be parsed, though "Empty clears the key" (`config.go:68`) and "clearing a key is a valid edit" (`:83`);
- a remote `config.toml` that cannot be read counts as absent, one read in part as whole (`sync.go:147`), and a cut upload may be moved into place (`sync.go:276`);
- a box whose `.config` has no commit is reset without a look at what it holds (`dotfiles.go:71`, `:75`), and on any box untracked files of names the bundle tracks are overwritten, with or without
  `--force` (`:76`); a second `--force` replaces the first one's backup branch, and a failed stash is ignored (`:80-81`);
- the stamp of a submit is taken before the confirm and written after the staging (`project.go:161`): an owner who moves on, or a job that starts in between, makes a record that is not of its files; so does a clone with another branch checked out, or one that already has the commit and was edited since, which
  a push that has nothing to send does not look at (`:290`) and the copy takes as it is (`:302`); `--keep-extra` and the clone's untracked files put others' files beside the commit's.

Bounds. `guard`: one mount (the guard treats mounts independently but for the
tick they share, and the proofs hold for any number), a tick may take one unit of
time, `TripLimit` 2, `Park` 2 and `TripWindow` 4 so that two parks fall into a
window, the cooldown of the second ends inside it and the first then leaves it, a
tick (at least one unit) is shorter than `Park`, `Idle` 2 is crossed by waiting, and
no age beyond `Horizon` 4 is ever compared. `tunnel`: three tunnels on one
port, so that reuse and refusal happen; one is timed, one adopts another's job in
the foreground, one is requeued; walltime 1, so jobs outlive it in two ticks.
`staged`: two scripts and two processes, enough for a sweep to race a submit and
another sweep. `sync`: two machines, two files of `simulations/data`
(so that one can be pruned while the tier is not empty) and one of each other kind,
`MaxTime` 3 edits, so that a file can be staged, changed on both sides and forced;
machines and files of a tier are symmetric; the violation runs need one machine and two files of one tier.
`MaxTime`, in the guards of `Edit` and `JobWrites`, is the only bound on a counter of these
runs. `sync` switches the deadlock check off,
because the owners stop at `MaxTime` and every mu may be done by then.

`toolkit`, by part. `JobPrep`: an array of two tasks and a job one of them submits, from the case or from its run directory; one input, one edit, two kills or
requeues. Sharing needs two jobs, a torn record one kill, inputs copied over what another job computed a second one. The second task runs only where nothing is killed and nothing
submitted, a second kill falls where a job has been led astray and the case is as it was (`MCNext`). `JobWatch`: two values, stalls after two, six lines: a stall, a
movement and a second run fit. `Mirror`: two sets, the group root of one inside the permanent root of the other, one case with two runs and a stray copy of one on the permanent tier;
every set of directories closed under parents that has the project, its shared data and the group's directory on both tiers is tried (`MCInit`), so that a case, a run or a
file below them may lack its counterpart. `ArchivePack`: two files, two puts, one write: a split and an other plan after it.
`AllocView`: every stream of up to three lines, cut at every half. `Harness`: two runs, one with an open quote, two directories, one act of
the owner, who leaves the pane alone where both runs ask it for its directory (`MCNext`): they race one another, or one of them races him. `QueuePick`: four jobs on two clusters
with ids that collide, the last of them not there at first, a filter that leaves one cluster whole and one in part, terminals of 12 and 13 rows, of which one has room for a
detail pane below the list, one change of the queue: the last job's arrival or the end of the first, the row whose end moves all others (`MCNext`).
`SubmitForm`: two listings, two configurations, one edit, one change of the list; a command line has both a walltime and a node count or neither (`MCInit`), edits change one of them. `Collate`: three clusters, one without nodes, one not active, three fleets, one id that collides.
`TomlEdit`: two files with every kind of line and one that begins with a blank, two saves of up to two edits and a retired node each, and an undo; the seven edits write a placeholder, lists, new lines, a block that
is there and one that is not yet, and empty a list, a number and a string; the login name, a new root key, is typed only where the file starts with a blank (`MCNext`). `Panel`: six rows of every kind, heights that show all rows or a few.
`ConfigSync`: one edit of the files, two syncs, three pieces of work, the third between two pushes (`MCNext`): what a second `--force` loses takes three. `ProjectSubmit`: four moves of the owners, two submits, four combinations of markers, with one move around a marked case (`MCNext`).
Whatever `MCInit` and `MCNext` leave out of `JobPrep`, `Harness`, `QueuePick`, `Mirror`, `SubmitForm`, `ConfigSync` and `ProjectSubmit`, the theorems below cover: each
property of these seven parts in the table above is proved of all their initial states and steps. What they leave out of `TomlEdit` is the login name typed into a file that does not
start with a blank, which is the case `NoRoot` leaves out or one more new line.
`MaxLines`, `MaxLogLines`, `MaxKills`, `MaxEdits`, `MaxFormEdits`, `MaxSyncEdits`, `MaxWrites`, `MaxPuts`, `MaxOwner`, `MaxChanges`, `MaxRows`, `MaxSaves`, `MaxWork`, `MaxSyncs`, `MaxMoves` and `MaxSubmits` bound
the counters, each in the guard of what it counts. The run does not check for deadlock: every part comes to an end.

Fairness. `SshfsGuard`: launchd goes on firing ticks, and the calls of a tick are
bounded by timeouts, so time, ticks, their acts and their saves go on; a tick with
a ticket and a readable mount table that is possible again and again happens, and
a mount that is tried again and again succeeds at some time (strong fairness). The
owner owes nothing. `StagedScripts`: the owner goes on submitting or cleaning on
this cluster, and a remote call made again and again works at some time. `Tunnel`
and `ProjectSync` have no liveness: each verb runs when its owner runs it, and none retries. Nor have the
parts of `toolkit`: what must come back, the fan-out, is stated as a safety property (`FanReturns`: whoever waits, somebody can move, and
each moves finitely often).

## The proofs

Eight modules prove what the runs check for every value of the constants. Each states the inductive invariant (`IInv`, or one per part:
`PickInv`, `FormInv`, `FanInv`, `WatchInv`, `SyncInv`, `ProjectInv`) as a conjunction of named parts, one lemma per action (or per group
of actions that disturb the same parts), and derives the properties from it.

| module | theorem | for all | needs |
|---|---|---|---|
| `SshfsGuardProofs` | `Typed`, `DebtsAreRemembered`, `TripLimitHolds`, `CooldownsHold` | mounts, tunings | `TuningAssumption`, `EnvironmentAssumption` |
| `StagedScriptsProofs` | `Typed`, `ScriptsOutliveJobs`, `NoPhantoms` | processes, scripts | |
| `TunnelProofs` | `TypeCorrect`, `MastersAccounted`, `TrustedIsKept` | tunnels, ports, flags, walltimes | `TunnelAssumption` |
| | `NoneStranded` | the same | `Timed` and `Requeues` disjoint |
| `ProjectSyncProofs` | `TypeCorrect`, `OnlyForceOverwrites`, `PullsOnlyRenew`, `PrunesKeepToPlan` | machines, tiers, files, edits | `SyncAssumption` |
| | `ManifestsAreHonest` | the same | `Datasets = {}` |
| `JobPrepProofs` | `JobsComputeApart`, `CleanRecordsAreTrue`, `PrepsKeep` | jobs, inputs, edits, kills | `PrepAssumption` |
| `ToolkitProofs` | `PickerIsDrawn`, `CancelsAreMeant` | listings, filters, terminals, changes of the queue | `PickAssumption` |
| | `SubmitsFit`, `FormsAgree` | queues, limits, configurations, flags, edits | `FormAssumption` |
| | `TablesAreWhole`, `FansReturn` | clusters, fleets, answers | `DefsAssumption` |
| | `PanelCursorIsDrawn`, `SetsChangeAsToggled` | trees, universes, words, terminals | `PanelAssumption` |
| | `RunsGetOwnCode`, `RunsGetOwnOutput` | runs, open quotes, directories, acts of the owner | `HarnessAssumption` |
| | `ArchivesKeepApart`, `SwapsComeBack` | mirror sets, trees, runs | `MirrorAssumption` |
| | `StallsAreCalled` | values, log lengths | `WatchAssumption` |
| | `CommitsAreRun` | moves, submits, markers | |
| | `SeamsTravelNowhere`, `SyncLosesNothing` | edits, work, syncs | |

`ToolkitProofs` is short but for the mirror, whose proofs it holds: a behaviour of the toolkit is one of each part (`PickAlone` .. `MirrorAlone`), and the theorems are those of the parts,
which `ScreenProofs` (picker, form, fan-out, panel, harness, and the lemmas about places in a set they share) and `CommandProofs` (sidecar, config
sync, project submit) prove.

The three hypotheses beyond the modules' own assumptions are where the code's promise ends. `NoneStranded` is false when a
job with a known walltime is requeued, as `tunnel_requeue` shows; `TrustedIsKept` is what remains without the hypothesis.
`ManifestsAreHonest` is false with narrowed pushes, as `sync_narrow` shows; the run `sync` has no
subtree (`Datasets = {}`), so it meets the hypothesis. With `StallTicks` 0 the abstract detector would call a stall at the first number and
the code at the second; the code sets 10.

The assumptions on the constants say what the code's inputs are. `DefsAssumption` is the one the code does not enforce: clusters have names and nodes of
their own, a node that bears a cluster's name is one of that cluster, and a fleet lists configured nodes. The loader of the configuration checks none of
this; with a node listed under two clusters the fan-out may ask the wrong one, since `resolve` takes the first match. `PanelAssumption` asks for a tree
with a row, as the configuration's sections make it, and for sets whose members are not blank, as `parseList` drops blank ones. `HarnessAssumption` tells the runs from
the owner and the directories from none; a session is opened in one of them.
`MirrorAssumption` is again what the configuration must be and its loader does not check: no root in a case and none twice; where a root lies below a scratch root, one lies in
the same place below the permanent one, or a swap to that place would not come back; and the `archive_rel` of one set is not that of another nor, read from another's, the name of something directly under
that one's roots, or two sets would share a place in the archive. A set whose `archive_rel` is `group` is apart from the default pair, whose own is empty, only as
long as neither `$HOME` nor `$WORKDIR` has a directory or a case of that name.

*The guard.* `OwedIsRemembered` is not inductive: a tick works on a copy of the
state, and what it saves replaces the disk. The invariant is a double-entry book:
`Debt` says that a mount owed a remount is down, and is on the books both of the
disk and of the running tick; `Ledger` that the stamp and the trips in the books
are those of the parks that really happened; `Plan` that what a tick has left to
do is one thing per mount and is allowed by its books. `TripLimitHolds` and
`CooldownsHold` follow because sshfs is started only on a mount the plan says to
remount (`Starting`).

*Staged scripts.* The invariant adds what a process carries from
one step to the next (`Carried`): what it pushed was submitted, what it holds for
dead has ended (a job does not come back), and once it forgets, the copies are gone.

*Tunnels.* A record is dropped on a listing and on a clock of mu's own. The invariant relates to the queue what each mu at
work knows of its job and socket (`MuKnows`) and what each record says (`RecordKnows`): the clock of a record never runs
ahead of the scheduler's (`ClockBehind`), so that a tunnel that looks expired has ended, and a trusted tunnel whose record
is gone has a job that is over and does not come back (`TrustKnows`). `MasterAccounted` itself is part of `IInv`: every
master that answers belongs to a mu at a step that will close or record it, or is recorded, or has a reason to be there.

*Project sync.* A command decides on a listing and acts later, file by file, so the invariant says what of the listing is
still known: no version is newer than the last edit (`Past`), undisturbed commands run one at a time (`Sole`), a command
has only the scopes of its verb and moves only files of its scope (`Scoped`), a prune left alone finds no more than it
listed (`PruneKnows`), and a manifest names files of its own scope (`OwnFiles`). For the manifests, `LInv` adds that with nobody at work every manifest is right (`Even`) and the books of a command (`Books`, `FileBooks` per file): of each file, manifest, cluster and the
running command's plan name the version it has or is about to have, as long as nothing spoiled the command. Stating that
took two strengthenings (what a push knows of a file it has listed and not yet moved), and it made the end of a scope
(`Moved`) a plain alternative: the two cases it had before overlapped.

*Job directories.* The invariant says where each job is led (`Led`: to a directory of its own, or its `mu job env` failed and the directory is a
stray) and sent (`Sent`), and follows each directory through copy and record: only the job it is named for makes it (`Making`) and puts anything
there before the copy is done, so no job has been submitted from it (`Walking`, `Untouched`), no record is there until it is filled (`Filling`), and what
was copied from the case is what the case has until the record says so (`Traced`: `FreshIn`, then `CleanIn`). That two jobs never name one directory
of their own comes from the ids: those that begin alike differ in the index (`OwnIds`, `SharedIsStray`). The proof of
`CleanRecordIsTrue` did not go through as the property first stood, and TLC found why with one kill more than the run
allowed: a job led by another's `MU_JOBID` copies inputs over a directory that has its record. The properties now name
these directories (`strays`), and the run allows the second kill where there is one.

*The sidecar.* The proof that each step of `JobWatch` is a step of `StallDetector` or none rests on `Counts`: the counter
reaches back over the run of numbers equal to the last, to its beginning and no further (`Run`), so that it has reached
`StallTicks` exactly when the detector is quiet (`RunQuiet`).

*The picker.* `CursorIsDrawn` needs the window of every key to be kept by the scroll that ends it (`Scrolled`), for a list whose rows are
filtered, refreshed and removed under the cursor. The property as it stood before was false beyond the run's bounds, and TLC confirmed it with two more heights: a resize from 13
to 12 rows under the open filter box scrolls the page for fewer lines than are left when the box closes; `squeezed` names that state, and the run
now has both heights. `Picked` follows a job from the mark to its cancel: what is pending or sent was marked, and what is not yet accounted for is still on the list to be cancelled.

*The form.* `Answered` says what each phase of a submit has in hand, `Fits` that what was checked fits the limits of the list it was checked against, which the
list may since have replaced. `FormAgreesWithFlags` is proved under a second invariant, `Agrees`: as long as nobody has edited and the list has not changed (`Calm`), each field
holds what `ResolveQueue` and `Wall` would make of the flags, over every order of opening the form and the landing of the list.

*The fan-out.* `Counted` says that the dones received and those on their way are the goroutines that have ended, `Own` what each goroutine holds of its own target (its hook's channel too), `Merged`
that the rows merged so far are those of the results in order. Duplicates are dropped by a loop the model writes as the members of a set of places in order (`Places`, `Kept`): what such a list
holds, and in which order, is proved from cardinalities once (`RankIs`, `NthIs`, `KeptIs`) instead of by an induction over the list.

*The edit panel.* `CursorOnScreen` is true because `clampScroll` finds what it looks for: the window that starts at the cursor's row shows it, whatever it and its complaint
take (`TopIsInWindow`), so the least scroll that does exists (`ScrollKeepsCursor`); `TreeTyped` keeps the cursor on a row no folded section hides.
For the sets, `AsToggled` says that every row of an open sub-editor is checked exactly if its name was a member and not toggled or toggled and not a member, that no name has two rows, and that every member
and every toggled name has one; what `literal` writes follows. It is where the `seen` of `newCollEditor` matters: with two rows of one name the set written back would depend on both.

*The harness.* Many type into one screen, and a run reads from it what it takes for its own. The invariant `ShellInv` says where a line can be: typed once, echoed once and
answered once (`LinesLive`), the list the shell works on ending with the line whose mark it will print (`ListOf`). Then the first mark with a run's tag is its own,
and `RcIsOwn` follows. For `SliceIsOwn`, `Quiets` says that between the only echo of a line typed at a clean prompt and its mark there is its output and no other,
whatever is queued behind it, and `Answers` that the last output before the mark of a `pwd` is its answer; the rows in between may also be lines typed ahead, which are no output and
name no directory the shell has been in. The proof found an error of the model, which no run was deep enough
to show: lines typed ahead behind a quote that was itself typed ahead were never read. `ReadsOn` is the step that was missing. What `Slice` keeps is written with `Kept` of `Places`, as in the fan-out,
so that what it holds needs no induction over the screen.

*The mirror.* The paths are sequences, and both properties come down to what can be read off one. An archive path of a case or a run is the path below the root with two
components for one (`ContainerIs`), the second of which no path has (`MarksAreApart`); so the container says which path and, by the guards, which tier it is of (`ContainersAreApart`),
the shared data being whole paths of scratch, and `SetsAreApart` leaves one set. A swap replaces at most the first case or run component (`SwapIs`, `Moved`), so the case stays (`CaseIsKept`). For the way back the root found for the
counterpart must be the one swapped to: a longer one would have a permanent root in its place that is a longer prefix of the path left (`BackIs`). The state needs
little: the shell stands where it came to by a swap (`CameBySwap`). The proof showed `SwapKeepsCase` false as it stood: from a stray copy of a run on the permanent tier, which `Swap` does not refuse as `Archive`
does, the way leads to the case on scratch and back to the case's own directory. The property now names these copies, and the run has one.

*Project submit.* `Stamped`, `Pushed` and `Carried` follow the stamp of one submit as long as nobody has moved and nothing put it in doubt (`Still`): it is the
laptop's; after a push that did not leave the clone's tree as it was, that tree is at its commit; what is staged is what it names, and what came along beside it
is known for it (`NamesWork`). A stage out of doubt is then sound (`Sound`), and so is every run that took it.

*Config sync.* `Kept`: what a run has read of the machine it will write to are that machine's own seams (`OwnSeams`, of a file read in part too, `Shortened`), as they are unless
it was edited since or not read whole. `Checked` and `Backed`: before a reset the box was seen clean and behind, or without a commit, or its branch was set; and the
laptop's history contains what its backup branch points to. What a reset may cost is then read off the box as it was seen (`Costs`).

Only model-checked: the properties of `ArchivePack`, `AllocView` and `TomlEdit`, and `WellTyped`, which is the sum of the parts' types. Those of
`TomlEdit`, `ArchivePack` and `AllocView` are about sequences that are
filtered, spliced or folded; a fact about what such an operator returns for every input needs an induction over data, which
the proof system's backends cannot instantiate. That `numbers` and `markers` of `JobWatch` are what the log holds is
checked and not proved for the same reason. All liveness is model-checked: fairness and `ENABLED` are out of the provers' reach.

## What is not modelled

Parsers, formatting, logging and help; walltime estimates and the hours preflight, which warn and stop nothing; the account and
usage caches; the parts `PROJECT.json` lists as `not_modelled`, with the reason or the plan. In
the modelled parts: the registry of mounts is edited in one step though the code
reads and writes it apart; a queue listing is taken to know a job as soon as its
submit has been answered; handles (`newTunnelID`, the staged id) are taken to be
fresh although two bytes can collide; a file a job or a staging copies is copied in one step; a half line printed in front of a program's output
in the harness's pane, files that git ignores in a staged case, and a `config.toml` cut inside the inventory rather than among the seams are left out.

## The plan

1. Proofs: the types of the parts as `WellTyped` states them, of `Mirror`, `ArchivePack`, `AllocView` and `TomlEdit` above all.
2. `ProjectSync` further: the 2 s mtime window of the listing against the exact compare
   of the transfer, the fleet loop.
3. The sshfs registry as a file that verbs read and write in two steps; `Tunnel` composed with
   `StagedScripts`; a second cluster that shares the staged registry.
4. The account and usage caches, whose rows are keyed by node or by cluster.
