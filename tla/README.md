# cmdshape, modelled in TLA+

cmdshape runs a command, reads its stdout and stderr line by line, lets a YAML
filter drop, keep, rewrite or group the lines, and prints the result. This
directory holds TLA+ modules translated from its Go source, TLC configurations
that check them on small instances, and TLAPS proofs of what matters most.
Paths below are relative to the repository (`src/` in PROJECT.json's `map`).

    tlc -workers 2 -config MCEngine.cfg MCEngine     # one run of the table below
    tlapm EngineProofs.tla                           # the proofs: of the engine,
    tlapm RunnerProofs.tla                           # of a whole run,
    tlapm MetricsProofs.tla                          # of the metrics,
    tlapm FilterProofs.tla                           # of project filters and arguments,
    tlapm HomeProofs.tla                             # of home filters and upgrades,
    tlapm CaptureProofs.tla                          # of replay fixtures,
    tlapm RecoveryProofs.tla                         # of recovery artifacts,
    tlapm WorkspacesProofs.tla                       # of reports, purges and the registry

## Inventory

| Component (source) | State | Operations | Interacts with | What makes it correct |
|---|---|---|---|---|
| Ordered engine (`internal/engine/engine.go`, `buffer.go`) | raw entries and their bytes, filtered buffer, next sequence number, passthrough flag, recovery copy | `Stdout`, `Stderr`, `Exit` under one mutex | asks the filter for an action per line and at exit; called by both drains and the main goroutine | no line lost, doubled or moved; giving up is verbatim and final; memory bounded |
| YAML filter execution (`internal/filters/yaml/yaml_filter.go`) | active case, hidden counts, collected groups, open boundary section, variables | action for a line, actions at exit, preparation of arguments | reads the engine's buffer through `contracts.Context` | limits hold, omissions are announced, kept lines shown, footer once |
| Runner (`internal/runner.go`) | command, two pipes, two drains, output recorders and lock, result | `run`, `runRaw`, `runAttached`, replay | engine, process control, recovery, metrics, audit | every entry written once; errors surface; the run ends |
| Process control (`process*.go`) | context and its cause, process group | forward a signal, kill after 2 s | runner, operating system | an interrupted run ends with the right code |
| Filter loading and registry (`filters/yaml/loader.go`, `engine/registry.go`, `filtermappings`) | sources, compiled filters, tool map | load, merge, resolve | trust, home and project files | first source wins, untrusted project filters never run |
| Filter trust (`filtertrust/trust.go`) | store of approved digests | evaluate, trust, untrust | loader, lifecycle commands | what is run is what was approved |
| Metrics (`metrics/spool.go`, `store.go`) | spool files, bolt buckets `runs` and `events` | append, consolidate, purge, inspect | runner, gain, other processes | each run counted once, none lost |
| Recovery artifacts (`recovery/recovery.go`) | directories of one failed run each | store, list, rotate, purge | runner, other processes | complete artifacts, bounded number |
| Capture and replay fixtures (`lifecycle/capture.go`, `replay/fixture.go`) | staged and promoted artifacts, sequence counter | capture, promote, read, replay | native command | a fixture is one recording, in arrival order |
| Lifecycle lock, materialization, repair (`lifecycle/reconcile.go`, `filter_sync.go`, `repair.go`, `filter_bootstrap.go`) | lock file with its age, home filters, mappings | acquire, take over, release, add missing, rewrite | every invocation | one writer at a time, user filters survive |
| Atomic files (`projectfiles/atomic.go`) | temporary and destination | write | all of the above | old or new content, never a mixture |
| Init, upgrade, uninstall (`lifecycle/*.go`) | binary, backup, adapters' files, workspaces | install, replace, roll back, remove | agents, network | a working binary at every step |
| Agent adapters (`lifecycle/agents`) | blocks in an agent's configuration | apply, remove | init, uninstall | idempotent, leaves foreign text alone |
| Arguments and recorded command lines (`filters/operations`, `parser.go`) | none | read, match, add to, quote, split | YAML filters, recovery, capture | attached and split options alike; what is recorded is read again |
| Workspaces index (`workspaces/*.go`) | bolt bucket of registered directories | upsert, list, delete | runs, init, reports, purge, uninstall | whatever has state can be found |
| Reports (`lifecycle/gain*.go`, `filter_performance.go`, `metrics/store.go`) | none | query one source, join several, format | metrics, workspaces | joined answers equal one answer; each run once |
| Audit, command line, developer tools | log, none | append, dispatch | everything | - |

Hard behaviours, each listed with its line under `hazards` in PROJECT.json: two
drains and the main goroutine between three locks; a limit that is hit in the
middle of a stream; failing destinations and pipes; signals racing the
command's own exit; several cmdshape processes sharing spool, trust store,
recovery directory and lock file; crashes between the steps of a promotion,
consolidation or upgrade.

## Modules

| Module | Models | Extends |
|---|---|---|
| `Filter` | one filter case: scopes, rules, limits, groups, exit texts | - |
| `Engine` | `engine.State` driving that case; one action per way through `applyStream` and `Exit` | `Filter` |
| `EngineProperties` | what the engine promises | `Engine` |
| `EngineProofs` | the proofs | `EngineProperties` |
| `Runner` | one execution, filtered, raw or attached, with its goroutines and faults | `EngineProperties` |
| `RunnerProofs` | the proofs | `Runner`, `EngineProofs` |
| `RunLedger` | abstract: a run is recorded, counted at most once, forgotten for good | - |
| `MetricsSpool` | the processes that append, move, purge and inspect runs | instance of `RunLedger` |
| `MetricsProofs` | the proofs | `MetricsSpool` |
| `FilterLookup` | which filter a tool gets | - |
| `FilterTrust` | users who edit projects, processes that trust, untrust and execute | `FilterLookup` |
| `Arguments` | how arguments select and change a case; command lines written and read | - |
| `FilterUse` | both, for what a command gets of a project's filters | `FilterTrust`, `Arguments` |
| `FilterProofs` | the proofs | `FilterUse` |
| `HomeFilters` | the startup lock; bootstrap and repair, which add or rewrite the home filters | - |
| `Upgrade` | upgrades of the binary, which run a repair, beside everything in `HomeFilters` | `HomeFilters` |
| `HomeProofs` | the proofs | `Upgrade` |
| `Capture` | recording, promoting and verifying a replay fixture | - |
| `CaptureProofs` | the proofs | `Capture` |
| `Redaction` | confidential values in output that arrives in pieces | - |
| `RecoveryStore` | storing, rotating, listing and purging recovery artifacts | - |
| `RecoveryProofs` | the proofs | `RecoveryStore` |
| `Reports` | queries of one metrics database and how --global joins several | - |
| `Workspaces` | projects, their registry, and the commands that go by it | `Reports` |
| `WorkspacesProofs` | the proofs | `Workspaces` |
| `MCEngine`, `MCRunner`, `MCMetricsSpool`, `MCFilterTrust`, `MCUpgrade`, `MCCapture`, `MCRecoveryStore`, `MCWorkspaces` | instances for TLC; `MCCapture` also instantiates `Redaction` | |

How they compose: `Runner` drives the engine, which drives the filter case, all in
one state; `Upgrade` runs the repair of `HomeFilters` under its lock; `Workspaces`
asks the queries of `Reports` of one project after the other. The others meet
through files and are cut there: what a run appends to the spool is in
`MetricsSpool`, which of its lines a recovery artifact gets in `Runner`, the
artifact's files in `RecoveryStore`.

### Filter

A case is a record: `passthrough`, `scope` (a function from the scopes it
declares to the kinds of rules, the limit of `lines.max` and the length of
`max.print`) and `footer` (the length of `finally.print`). An invocation that
matches no case behaves like a case without scopes and without footer.
Variables: `activeCase`, `hidden` (lines dropped by max), `collected` (lines a
group took), `inSection` (a boundary group is open), the last three per scope as
in `compiledScope`.

Abstraction: text is known by its length, the lines whose content it *shows*,
the lines it contains *exactly*, and what the filter *adds* to it (omission
text, footer). Which rule a line matches is chosen by the printing command,
`MayMatch` says which the code can reach. Rendered groups are any length in
`RenderSizes` and any non-empty part of the collected lines: wording, regular
expressions, counters and `{{ }}` variables only change those two. Regular
expressions and JSON filters are outside; arguments are in `Arguments`.

### Engine

| TLA+ | Go |
|---|---|
| `raw`, `rawBytes`, `recovery`, `next`, `passthrough`, `exitCode` | the fields of `State` |
| `buffer`, `held` | `OrderedBuffer`; `transformedBytes` per stream |
| `PassLine`, `Overflow`, `EmitLine`, `IgnoreLine`, `KeepLine`, `ReplaceLine` | the ways through `applyStream`, in the order of its tests |
| `ExitPassthrough`, `ExitNative`, `ExitUnscoped`, `ExitCombinedKeep`, `ExitCombinedReplace`, `ExitCombinedUnsafe`, `ExitSplit` | `Exit` with what `OnStdoutExitActions` answers |
| `Finalize`, `GiveUp`, `Replacement` | `finalizeExitEntries`, `takeRawEntries`, `applyExitReplacement` |
| `returned` | the result of a caller's last call |
| `received`, `released`, `kept` | history; no action reads them |

Every method holds the mutex, so a call is one step. Lists are sets: what the
engine returns is sorted by sequence number and no two entries of one list
share one. `BufferLimit = 0` is the unlimited engine of replay, which feeds the
recorded events to `EngineNext` one by one.

### Runner

`ChildPrints`, `ChildExits`, `Break` are the environment (the command and the
destinations). `DrainConsume`, `DrainSink`, `DrainEnds` are the body of
`drainStream`: consuming and writing are separate steps because they hold
different locks. The main goroutine goes through `WaitExitCode`, `EngineExit`,
`WriteRest`, `Flush`, `FilteredRunResult`, `MaybeStoreRecovery`, `AppendMetrics`,
`FinishAudit`, in the order of `run`. What the engine answers is a set; `Write` appends
to each destination the entries `For` it, `InOrder` of their numbers. A destination, once broken, stays broken,
and its recorder swallows what follows. Bytes (`Bytes` in the engine, `BytesWritten` of what
the destinations got) are counted one by one, as the cardinality of a set of pairs of an entry and
a position in it: a sum that can be reasoned about.

Each entry reaches its destination through a writer that replaces `confidential` values
by `***` and holds the last bytes back until a flush, since a value may begin with them. What
that does to a text is in `Redaction`. Here it matters that lengths change: what the recorders
have counted at the flush (`keptBytes`) is any number `Redacted` allows, less or more than
what was written, and is what was written in a run without such values. A flush may fail (`FlushFails`),
which is an error of the output. A run with confidential values keeps no recovery
copy (`WantsRecovery`, `runner.go:225`), and `recovery.Store` keeps nothing of what is empty
or larger than an artifact may be, without an error (`FitsArtifact`).

`Cancel` sets the cause of the context; from then on `HardKill` may end the command (grace period).

`mode` says what kind of run it is. A raw run copies each stream without an
engine, which is what the engine does in a passthrough case, so it takes one;
its drains and faults are the same. An attached run has no drains, the command
writes to the terminal itself. Both end with `UnfilteredResult` and
`FinishUnfiltered`: no recovery and no metrics, and another order of result and audit
log than a filtered run.

### MetricsSpool

| TLA+ | Go |
|---|---|
| `files` | the `.pb` files of the spool directory; `spooled = {}` stands for a directory that does not exist yet |
| `runs`, `marks` | the bolt buckets `runs` (how many entries each run has) and `events` (the markers) |
| `lock` | the file lock bolt holds while a process has the database open |
| `pc`, `todo`, `cutoff`, `failed`, `due`, `sum` | where a process is, its listing, the cutoff of its purge, the error it joins up, and for a report what it has added up |
| `AppendProject`, `SpoolProjectMetric` | a run gets timestamp and event id, then its file by an atomic rename; an error may leave the file behind |
| `ListSpool`, `OpenDatabase`, `MoveRun`, `RemoveFile`, `CloseDatabase` | `consolidateProjectSpool`: list without the lock, then per file read and commit (`CommitSpoolEvent`, one transaction with pruning) and remove |
| `MoveMissing`, `MoveFails`, `OpenFails` | a file another process removed, a failed transaction, a lock that is not released in time |
| `PurgeProjectBefore`, `PurgeBefore` | consolidate, and if that succeeded delete older entries in one transaction; markers stay |
| `InspectStorage` | count pending files, then open and count entries |
| `Crash` | any process at any step; the operating system drops its lock |
| `stamps`, `due`, `forgotten`, `purgedTo`, `erased` | history for the properties; `stamps` is also what a run carries |

A process does one operation at a time and then may start another, so two of
them stand for any number of invocations of which two overlap. An event id is
unique, so a run is its number; identifiers are in the order of their
timestamps. Pruning is limited to 100 entries per bucket and transaction:
`SpoolAssumption` bounds the runs by that, so a transaction prunes all that are
due. Left out: the store's own `Append` (the path before the spool existed),
malformed files and records, what the reports compute from the entries.

While one process moves what another has listed, the other counts missing files
as failures (`MoveMissing`), and its purge is then reported as failed although
nothing is wrong; deleting nothing is the safe side, and `ErasedStaysErased`
only speaks of purges that succeeded.

### FilterLookup and FilterTrust

A source is a record of its visible YAML files and its mappings. A file is its
rank in the order of names, so that "after", "last" and "the exact file of a
tool" (`Exact`) mean what they mean in `loader.go`. Of its content only what the
searches tell apart remains: it defines a tool and compiles (`ok`) or not
(`broken`), does not parse (`invalid`), or cannot be read (`unreadable`). A
missing and an invalid mapping file both are no mappings. `FilterLookup` has no
state: it states the search of an execution, which reads only what it needs, as a
function from sources to a choice, and the inventory, which compiles everything,
as another.

| TLA+ | Go |
|---|---|
| `dirs`, `Home` | `.cmdshape/filters` of each project, and the home filters |
| `store` | `~/.config/cmdshape/filter-trust.json`: at most one digest per canonical root |
| `Edit` | a user, an editor or `git checkout` writes, removes or remaps a file |
| `Begin`, `List`, `ReadFile` | `readSourceFiles`: the directory is listed, then each name is read; a file that has gone makes the source unsafe |
| `Evaluate` | `EvaluateSource`: the digest of what was read is compared with the store; an execution does this twice (listing its sources, then loading the filter) and gives up the project when either fails |
| `LoadDefaultStore`, `WriteDefaultStore` | `Trust` and `Untrust`: read the whole store, change one entry, write the whole store |
| `Select` | `LoadExecutionFilterFromSources` on the files that were read, then home |
| `Stop` | the process ends, fails or is killed |
| `granted`, `decided` | history: what was ever approved, and what each project's last command decided |

Processes read files and store one by one while edits and other processes go on.
A digest is the record it is computed from, as if there were no collisions. The
home source is a constant: no property is about its edits. Left out:
canonical roots and symbolic links, permissions, development builds (which trust
every project), the text and order of status rows, the timing record.

### Arguments

An argument is a token: `--f`, `--f=v`, a cluster of short flags, a word, `--`.
`ParseArguments` is a fold over the tokens (a value flag that waits for its value,
the separator, the views it builds); `CaseForArgs` and `PrepareCommand` are the
selection of a case and what it adds to the command. `RenderCommandArgs` quotes a command as it is
recorded, `SplitCommandLine` reads it character by character. Nothing changes, so
`FormsAgree` and `RecordedIsRead` are evaluated in the initial states of `filters`:
every list of up to two tokens around an option in both its forms, every command of
one or two arguments with four characters among a letter, blank, `$`, quotes,
backslash and `;`, which go by their names (`Chars`). `Added` is what a case adds to
the command, `NamesOptions` which values the cases do not also want as a bare word.
`ArgumentsAssumption` says that value flags are options and that what cases ask for and
add are tokens. The forms agree for cases that name options; a case that wants a
bare word compares it with the arguments as they stand, in either form.

### HomeFilters and Upgrade

| TLA+ | Go |
|---|---|
| `lock` | the startup lock file, and whether it is ten seconds old |
| `home`, `mapFile` | `~/.config/cmdshape`: each filter and alias by the version that wrote it; `.mappings.yaml` as a file |
| `exe`, `backup` | the installed binary; on Windows the one moved aside |
| `Acquire`, `StatLock`, `TakeOver`, `AcquireAgain`, `Release` | `acquireStartupMaintenanceLock` and the deferred release: each file operation is a step |
| `CheckFile`, `WriteFile`, `ReadMappings`, `WriteMappings` | bootstrap and `repair --no`: add what is missing |
| `ClearFile` to `Rewritten` | `repair --yes`: remove everything, write everything |
| `Replace`, `MoveAside`, `Place`, `RemovePartial`, `Restore` | installing a binary on Unix and on Windows, with rollback |
| `RunRepair`, `ChildCrashes`, `ScheduleRemove`, `ScriptDeletes` | the repair by the new binary, and the removal of the backup |
| `WriteFails`, `Crash`, `LockAges`, `Edit` | failing file operations, kills, a clock, users; together at most `MaxIncidents` |
| `others`, `wiped`, `deleted`, `settled` | history |

A bootstrap and a repair that preserves do the same, so they are one kind. A
release that does not verify changes nothing and is not started (`Verified` is the
guard). An atomic write is one step that may also fail after its rename, when the
directory is synced. Each process has a backup name of its own.

### Capture and Redaction

The two readers of a capture are interleaved at the points where the code takes
locks: reading the first byte, drawing a number and staging, which `RecordingIsOrdered`
relates to what had been printed. Then the fixture is promoted file by file, the
streams are replayed, and the expectations follow. A verification reads the
command, the streams and each expectation as separate steps. A recording is known
by its number, a file by the recording and how much of it it holds. One command is
recorded at a time (`recorder`); two of the four expectations suffice, since they
differ only in order. Left out: the outputs a verification writes, which nothing
reads.

`Redaction` models a stage per confidential value (`Drain` holds back what may
be the beginning of the value, `Through` hands the rest to the next stage) and the
writer that gives the text back to the events it
came with (`WriteAttributed`). Both streams of a capture are one text there. `RedactionIgnoresCuts` compares
it with replacing value by value in the whole text, for every text of five characters
over two letters, cut anywhere, and lists of up to two values; it is
evaluated in the initial state of `capture`.

### RecoveryStore

A store creates a directory, writes three files one by one and rotates; a rotation
reads the directory, inspects every entry and removes what is too old or too much;
a list rotates, reads again and looks at each artifact. A removal is what `os.RemoveAll`
does: it tries to remove the directory as an empty one (`RemoveAll`), reads the names in it and
unlinks them one by one, in any order and going on when one cannot be
removed (`Unlink`), and removes the directory (`RemoveDir`). Nothing excludes
other processes, so each of these is a step. A store that fails removes what it has
written in the same way (`undo`). A store that is killed, or cannot remove its work, leaves
it (`left`); a removal that is killed or fails halfway leaves any part of the artifact, maybe
the command file alone (`cut`).

### Reports and Workspaces

`Reports` has no state: `Query` is what a dataset of one database is (grouped sums as
functions from group to row, history and builds as the records themselves), `Joined`
what --global does with several, `Finished` the limit and order. A database is a set of
records, each with the number of its run, and a sum over records is the cardinality of
their `Units`. Ratios and averages
are compared as quotients of sums. Days, ISO weeks and months are multiples of a
length (`Calendar`).

In `Workspaces` runs end and register their project, `init` registers a directory,
a report, purge or uninstall goes through the registered directories one by one. `Recorded`
is the record of a run that ends now. A
killed report leaves nothing, so only uninstall may crash. One command works at a
time and one kind of command is given in a behaviour (`given`); uninstall is given
once. Left out: the total line of a global report, which is the sum of its rows,
and the edits of each agent's files, of which only content and link are known.

## Runs

| Run | Instance | Result | Shows |
|---|---|---|---|
| `engine` | `MCEngine.cfg`: 9 cases, 4 lines of length 1-2, limit 5, codes 0 and 1 | pass, about 524,000 states | 5 invariants and 2 action properties |
| `runner` | `Runner.cfg`: 4 cases, 3 modes, 3 lines, limit 2, with and without confidential values, all faults | pass, about 3,271,000 states | writing, result, recovery and metric of a run |
| `runner_live` | `RunnerLive.cfg`: 3 modes, 2 lines, limit 1, confidential values, failing destinations, signal | pass, about 113,000 states | every run ends, pipes are drained |
| `metrics` | `MCMetricsSpool.cfg`: 2 processes, 2 runs, clock to 2, retention 1, all faults | pass, about 279,000 states | 3 properties, and that spool and database implement `RunLedger` |
| `filters` | `MCFilterTrust.cfg`: 2 projects, 2 processes, 2 tools, 3 file names, 3 edits and commands; arguments and lines | pass, about 277,000 states | 3 invariants on approvals and lookups, 2 on arguments |
| `untrust_race` | `UntrustRace.cfg`: 2 edits and commands | violation | two commands of different projects: the decision of one is lost |
| `upgrade` | `MCUpgrade.cfg`: 2 processes, 2 operations, 2 incidents, 2 versions, both platforms | pass, about 1,130,000 states | 5 invariants and an action property on lock, home filters and binary |
| `downgrade_race` | `DowngradeRace.cfg`: 2 upgrades at a time | violation | the older release may replace the newer one |
| `capture` | `MCCapture.cfg`: 2 captures, 1 verification, 2 records, 1 fault; redaction | pass, about 1,300,000 states | 3 invariants on fixtures, 1 on redaction |
| `recovery` | `MCRecoveryStore.cfg`: 2 processes, 2 stores, 2 lists or purges, 1 incident | pass, about 2,750,000 states | the bound on artifacts, and lists of whole ones |
| `workspaces` | `MCWorkspaces.cfg`: 2 projects, a directory below, 3 runs, clock to 2 | pass, about 1,950,000 states | reports, purges and uninstall over the registry |
| `purge_below_root` | `PurgeBelowRoot.cfg` | violation | a purge given below a project's root leaves what is in the spool |

Properties worth knowing, beyond their comments: `GivingUpIsVerbatim` (three
independent reasons to give up, one promise), `EverythingRecoverable` and
`FailureIsRecoverable` (engine and run), `HandedBackOnce` (overflow, emit and
exit may each return a line), `ReaderIsTold` (what is kept is printed, what is left out
is announced), `WrittenOnce` (through all interleavings and
failing destinations), `MetricIsHonest`, `StatusCoversDurable` (two reads that
are not atomic still miss nothing, because of their order), `ErasedStaysErased`
(no file left by a crash brings a purged run back), `AddingKeeps` (reading and
writing are steps apart), `SettledStays` (a repair that was reported as done stays
in force, also after a takeover by an older binary), `BinarySurvives`,
`OldestLast` (the order of promotion makes a mixed fixture recognizable),
`GlobalIsOneHistory` (what is cut and averaged per project can still be joined),
`UninstallFindsAll` (the registry outlives all that it names).

Bounds. Four lines are enough for two lines of each stream, a line before and
after the overflow, a second line at a limit of one, and a group plus a retained
line; the limit 5 is exceeded by the third or fourth line of length 2 and never
by four lines of length 1. `AllCases` has each routing (`combined`, `stdout`,
`stderr`, both, none), each kind of rule, scopes with and without `max`, and
with and without footer. Rendered groups of length 1 and 3 are shorter and
longer than the lines they replace. In `runner` lines have length 1, the limit
is exceeded by the third line, and a pipe holds one line so that the command can
block. Codes are success, failure and 137 (SIGKILL), signal code 130.
In `metrics` two processes suffice for one to move, crash over or purge what
the other has listed; two runs for a listing with a file before and after the
one that fails, and for one run expired and one not. At time 2 a run of time 0
is older than the retention; a cutoff is any time up to now. The processes are
interchangeable, so the run uses symmetry; it checks no liveness.
In `filters` three file names are the two exact files of one tool and one file
that is exact for the other, so a definition can be exact, an override before or
after the exact file, or a legacy definition under a foreign name; two tools
suffice for an alias and its target, or a cycle. Three steps are an approval or
an execution with two edits between its reads, or two commands and an edit; the
searches are pure, so every layout within three edits of the initial ones is a
test of `TidySourcesAgree` and `AliasBindsInItsSource`, and the proofs cover the
others. One project is edited: the other is there for the shared store.
In `upgrade` two operations are all that can overlap of two processes, and two
incidents are a lapsed lock and a second thing that goes wrong while it is taken
over, or a failure and the failure of its rollback. The second version ships one filter
and one alias more than the first, and the home starts empty or with the first.
`others` and `settled` keep the properties about undisturbed operations from
excusing too much: they name exactly what was changed by whom.
In `capture` two records on one or two streams are before and after each other; two
captures into one directory overlap, or one writes over the other's fixture while a
verification reads. In `recovery` one artifact is kept of two, so each store makes
rotation remove something, and at time 1 the first may be too old; the incident is a kill
or a failure in the middle of a store, a rotation or a purge, and an artifact that it has left in parts
meets what the other process stores, lists and removes afterwards.
In `runner` a replaced value grows its text up to threefold, so that the kept bytes get
below and above the raw ones, and an artifact has room for one line and not for two.
In `workspaces` the three runs differ in what reports group, filter and sum by (a
failure, growth, passthrough, a build with timing, a run whose build was not
recorded); they end in any project at any time up to 2, with days of one tick. The
limit of lists is 1, so that joining has something to cut. Reports with --global are
given below a root, where the directory that is registered is not the project's.

Stopping: every execution ends with its command, and the bounds on operations end
the other behaviours, so the configurations switch
deadlock checking off; that nothing stops too early is `runner_live`.

Fairness: weak fairness of each drain and of the main goroutine (the Go
scheduler runs a runnable goroutine) and of `HardKill` (the loop in
`configureManagedCommand` ends after two seconds). Nothing is assumed about the
command: it may never exit, so properties start from an exit or a signal. The
kill is fair only after `Cancel`, as in the code.

## Proofs

`EngineProofs` proves, for every set of cases, lengths, limit and exit codes
that satisfy `FilterAssumption` and `EngineAssumption`:

- `TypeCorrect`: `EngineSpec => []EngineTypeOK`. It is proved and no longer part of a
  run, like the other types and `MemoryIsBounded`, `EachRunCountsOnce`. A line per action; the texts of
  exit are typed by lemmas about `Buffered`, `ScopeTexts`, `Replacement` and
  `Finalize`; `LeastNat`, from the library's minimum of a well-founded order, gives
  the place of a replacement.
- `NothingIsLost`, `GivesUpVerbatim`, `AllIsRecoverable`, `MemoryIsBounded`:
  from one inductive invariant, `DeliveryInv`. The four properties are not
  inductive alone: `GivingUpIsVerbatim` after an overflow needs `NothingLost`
  before it, and the disjointness in `NothingLost` needs that the sequence number
  of a new line is new (`SeqsAreOld`), which needs the types. `RetainedIsBounded`
  is part of it so that each step is a single case analysis.
- `GivingUpIsForGood`: `EngineSpec => GivingUpIsFinal`, from the type invariant.
- `TheReaderIsTold` and `StreamsAreKept`, from `ReaderInv`: `DeliveryInv`, `LinesInv`
  (lines are verbatim and known by their numbers), `RetainedInv` and the two
  properties. They only speak of what is out; what they need of the state before is
  that an entry in the buffer shows the one retained line of its number and stream,
  that a group has collected lines of its own scope, and that what the filter kept is
  still there. There is a lemma per kind of answer (`RawAnswers`, `BufferAnswers`, ...).
- `NothingComesTwice`: `EngineSpec => HandedBackOnce`, from `ReaderInv`: what is
  released was received, and what is retained was not released.
- `FilteringPays`: `EngineSpec => []AnswerInv`, after the exit what was handed back
  is shorter than what was printed, or lacks no line and has at most the footer more. It rests on `LedgerInv`: until the exit `rawBytes` and `held` are the bytes of what is
  retained, which is what `takeRawEntries` compares. Bytes are a cardinality, so `BytesAdd`
  and `CountedIs` follow from the library's theorems on finite sets.

Assumptions are those two ASSUMEs, which TLC evaluates in every run.

`RunnerProofs` proves, for any such engine and any number of lines, capacity of a pipe,
codes, modes and faults (`RunnerAssumption`), with every interleaving of the drains and
the main goroutine:

- `TheRunKeepsTypes`, and `TheRunIsDelivered`: the safety properties of the engine hold
  of every run. A step of the run is a step of the engine or leaves it alone, so
  `ReaderInv` is one part of the invariant.
- `EntriesAreWrittenOnce`, `OutputIsOrdered`, `SuccessMeansComplete`, from `RunnerInv`,
  which TLC has checked in every state of `runner` before. Its parts:
  `HandsInv` says that what goroutines hold is disjoint and in no output, so that
  writing it cannot write twice; that an answer is new when it is taken is
  `DeliveryInv`. `OrderInv` is what order needs while an answer waits between the two
  locks: until the exit only lines of unfiltered streams are out, each with the drain
  of its own stream, and what waits comes after what is written (`RetainInv`: what is
  retained is of filtered streams). After an overflow this is false, and so is
  the order. `CountInv` (a printed line is in a pipe or was read), `ControlInv` (why a
  drain or the main goroutine is where it is) and `ResultInv` (what has been
  checked when the run goes on) make success complete.
  `RanksExist` and `InOrderIs` show that a finite answer has an order and `InOrder`
  chooses it; `WriteIs` says what writing does to outputs and hands.
- `MetricsAreHonest`, from `MeasureInv`: `LedgerInv` and `AnswerInv` of the engine, and that the code
  on its way into the metric is the command's or that of the signal (`TrueCode`). The
  comparison of kept with raw bytes is that of `AnswerInv`: a run that measures has
  written what was handed back (`RunnerInv`, `PrintedIsReleased`), and from the flush on what its
  recorders have counted is what was written, unless confidential values were
  replaced (`CountedInv`). With such values the theorem leaves that comparison out, as the property
  does: it is false there.
- `FailuresAreRecoverable`, from `RunnerInv`, `MeasureInv` and `RecoverInv`: storing was tried after each
  failed run that was reduced by filtering and is `Storable` (no confidential values, neither
  empty nor too large), and what is stored is of a failed run that is; a passthrough case has
  nothing to recover. That output which is not shorter than the input lacks no line is
  `AnswerInv` again, which is why the invariant needs `CountedInv`.
- `TheRunHandsBackOnce`: `HandedBackOnce` and `GivingUpIsFinal` of a run, since each of its steps is
  one of the engine or leaves it alone.

There is one lemma per kind of step: the environment, consuming, writing, ending a drain, the
exit, and the bookkeeping of the main goroutine.

`MetricsProofs` proves every property of `metrics` and `CountedOnce` for any set of processes (also
an infinite one), any clock and retention, up to 100 runs and every set of
faults (`SpoolAssumption`):

- `SpoolTypeCorrect`, which includes that at most one process holds the database,
  from `Typed` (types), `Held` (the holder is the process that moves) and `Summed`.
- `EachRunCountsOnce`, from `Marked`: a run with an entry has a marker, and a
  forgotten one has a marker too or is so old that the transaction that writes it
  again prunes it again.
  `CountedOnce` alone is not inductive: it does not say what the next move does.
- `NoRunIsForgotten`, from `Kept`: a run whose file is about to be removed is
  settled (counted, or forgotten and then old), and only old runs are forgotten.
- `ErasedIsErased`, from `Fresh` and `Gone`: no run that a purge is due to delete
  or has deleted has a file that any process could still turn into an entry.
- `StatusIsComplete`, from `Reported`: between the two reads, what was due and is
  no longer pending is counted or forgotten. `EntriesAreRuns` turns the entries of
  the database into the set of counted runs, so that cardinalities can be compared.
- `SpoolIsALedger`: every step of files and transactions is `Record`, `Settle` or
  a stutter of `RunLedger` (`LedgerStep`), given `Marked`.

Each invariant has its own step lemma under the ones before it. `Acts` groups
the actions by process; `OthersRest` says that a step of one leaves the state
of the others alone, `MoveChanges`, `PurgeChanges` and `DatabaseSteps` what a
step does to the database, so the lemmas treat only steps that matter to them.

`FilterProofs` proves every property of `filters`, for any projects, processes, tools, number
and names of files, edits and commands (`LookupAssumption`, `TrustAssumption`), and any cases,
options, values and bounds on arguments and lines (`ArgumentsAssumption`):

- `TrustTypeCorrect` and `ApprovedFiltersOnly`, from `FilterInv`: types, `Granted`
  (each copy of the store, also an outdated one, holds only what was granted to
  the project under which it stands) and `Checked` (a process selects from what it
  has read only if exactly that was approved; otherwise it has dropped it). The
  second is why `OnlyApprovedRuns` holds although the directory may be another
  one by then; it needs that an execution still has an evaluation before it, hence
  the conjunct about `rounds`. `OwnStep` is the common part of all steps that
  change only the process that takes them.
- `TidySources`: `TidyExact` shows that the exact file and the last override after
  it are the last definition, `TidySource` that the two searches treat an alias
  alike, `TidyLookupsAgree` that they stop at the same source. `LastIs` (from
  `GreatestNat`) says that a set of files has a last one.
- `AliasesBind`: `SourceAnswers` and `ChoiceAnswers`, for any sources, tidy or not.
- `FormsAgreeAlways`: after the two forms the views of the arguments are `Similar`, the same but for the
  tokens the option was given in (`TailReads`: whatever follows keeps them so), and no
  part of a `when` can tell similar views apart, nor can what is added to the command.
- `CommandIsRead`, and with it `RecordedIsReadAlways`: reading the line of a command one
  is, before each argument, where nothing was begun (`At`) and after it where this argument
  is all there is to flush (`IsReadTo`); `EscapedIsRead` is one quoted character.

  Arguments and lines are read by folds of the library. `FoldExists` and `UnfoldedIs`
  show that what `FoldLeft` chooses is `Folded`, the sequence of intermediate results, and
  `FoldedAppend` that it grows with the sequence; `FlattenFolds` that `FlattenSeq` is a fold,
  too. Induction is over a set instead of a predicate: `AllSequences` says that a set that has the
  empty sequence, and with a sequence each longer one, has all of them.

`HomeProofs` proves every property of `upgrade`, for any processes, finite sets of files and
aliases, versions and number of operations and incidents (`HomeAssumption`: nobody is a
process, files are numbered, an alias that is shipped is shipped with its target):

- `OneHolderAtATime`, from `LockInv`: until a lock file has got ten seconds old nobody is
  on the way to remove one (`Taking`), and who works is who created it. The first is what
  `OneHolder` lacks: the lock is removed by its name. Steps that spare the lock are
  covered by two lemmas, `LockRests` and `LockStays`.
- `AddingNeverOverwrites`, from `CareInv`: between its look and its write, what a
  process has seen stands or is among the changes of others. It does not mention the
  lock, so adding is safe even when two processes believe to hold it. A step
  is one that only changes the state of its process (`OwnOnly`) or one that writes and tells
  everybody (`Writing`, `Told`); the lemmas sort every action into the two.
- `TypesHold`, from `Typed`; the ones below rest on it.
- `ABinarySurvives`, from `SurvivalInv`: while no binary is in place some process that is
  moving one, or has failed or was killed while it did, has a backup that is not due for removal
  (`StandsBy`); without the last the scheduled removal of one upgrade could take it.
- `AliasesHaveFilters`, from `ServedInv`: who is about to add mappings has found or
  written the filters of its version, and the aliases it has read had theirs. As the
  lock does not appear, a lapsed lock changes nothing.
- `UpgradesAreEffective`, from `ApplyInv`: what a rewrite has passed has the content of its
  version or was changed by others. That the installed binary is the one of the
  upgrade needs that no other upgrade is on its way (`AloneInv`), so the theorem is
  about `~MayRace`, as the run is; `NoDowngradeAlone` shows from the same invariant that
  the race in `downgrade_race` is the only way to a downgrade.
- `WhatIsSettledStays`, from `SettleInv` with `LockInv`: while the lock has not lapsed only its
  holder works, so what it has looked at still stands when it reports, or a user has
  unsettled everything.

`CaptureProofs` proves the three properties of `capture`, for any number of
captures, verifications, records and faults and any list of expectations
(`CaptureAssumption`):

- `RecordingsAreOrdered`, from `RecordingInv`: a record is staged, in hand or in the pipe
  of its stream, in this order (`RecordsInv`); the numbers drawn are those staged
  (`DrawnInv`); what was staged when a record was printed has smaller numbers (`AfterInv`).
  The property looks only at the end; nothing but these three hold on the way to it.
- `FilesAgeInOrder` and `FixturesAreWhole`, from `FixtureInv`: `Place` and `FilesInv` (types that
  depend on where a process is), `AloneInv` with `Stage` (what a capture that is
  alone has already put into the fixture, file by file, and that the rest is older),
  `AgesInv`, `WholeInv`, and `Steady` (what an undisturbed verification has seen so far).
  `OldestLast` needs `AloneInv`, since a capture that writes the next file must be the
  newest one.

`RecoveryProofs` proves both properties of `recovery`, for any finite set of processes and
any bounds:

- `RecoveryTypesHold`, from which identifiers are finite and directories countable.
- `NeverTooMany`: its bound on all stores together is not inductive and says nothing
  of who will remove what. `Budget` does: for any set of stores that are
  rotating, one of them still has all their artifacts (and those of ended stores) in its
  listing, or there are no more than the limit. The last of them to read the directory
  is that one. The second half, about one process, is `UndisturbedInv`.
- `ListsAreFaithful`, from `FoundInv`: a store that runs has written the files up to where it
  is (`Progress`), and they stay unless a removal has read their names (`Spoiled`), so an
  artifact that lacks a file has a store that runs or was killed, or a removal that
  runs or was cut short. The order in which a removal unlinks files does not matter, and no
  order would help: a command file may be the last one it leaves. That an undisturbed list
  shows every whole artifact is `UndisturbedInv` (`Covered`).

`WorkspacesProofs` proves every property of `workspaces`, for any directories, runs, requests and
failures (`WorkspacesAssumption`):

- `NothingIsForgotten`, from `FindInv`: an uninstall leaves a registry entry only
  after it has gone through the directory (`Progress`: what is not in its list any more has
  nothing left), and what it goes through is all it knew of.
- `ErasedForGood` and `EveryRunIsReported`, from `RecordsInv` (a run has one record, in the database or
  the spool of one project), `SourcesInv` (a command goes through distinct projects), `ErasedInv` (what
  the purge is to erase from a source it has passed is gone) and `ReportInv` (what a source had when the
  report asked is read or still there, and was not read from another). The properties only speak
  of the end of a command; these say what is true between its sources.
- `GlobalAddsUp`, from `RowsInv`: the rows joined so far are the rows of all records read so far.
  `JoinedAsOne` is the step: no record is in two databases, so counts, sums and groups of
  the union are those of the parts (`TalliesAdd`, `SumsMerge`). Sums are cardinalities of `Units`,
  and that they add up is a fact about disjoint finite sets.

Only model-checked:

- liveness (`ExitEndsTheRun`, `SignalEndsTheRun`, `PipesAreDrained`): fairness and ENABLED
  are out of the prover's reach;
- `RedactionIgnoresCuts`: folds within folds over pieces, and recursive functions over the
  positions in a text. Nothing in it is out of the prover's reach (the lemmas about folds in
  `FilterProofs` would serve); the proof, stage by stage, has not been carried out.

## What the code does differently from its documents

Three runs expect a violation, see `findings` in PROJECT.json: the trust store, an
upgrade beside an upgrade, a purge below the root of a project. Noted while
modelling, without a run:

Filters and runs

- a passthrough case prints no footer (`yaml_filter.go:95`), FILTERS.md:319-321 promises one;
- `max` of a combined scope holds per stream (`yaml_filter.go:735`, FILTERS.md:409);
- an overflow can reorder the lines of one stream, because consuming and writing are
  under different locks (`runner.go:590`, ARCHITECTURE.md:130-131);
- grouped stdout lines of a combined scope are rendered to stderr when only
  stderr has retained lines (`engine.go:140-155`); `StreamIsKept` excludes it;
- rendered groups replace kept lines of the same scope
  (`yaml_filter.go:139-144`, FILTERS.md:463); `KeptIsShown` excludes it;
- a drain that ends with a read error leaves its pipe unread, so a command that
  goes on writing blocks until it is interrupted (`runner.go:594-598`);
- a grandchild that keeps the pipes open delays the end of a killed run;
- a raw run finishes its audit log also when its output could not be written, a
  filtered one does not;
- `append_if_missing` adds its option after a `--`, or as the value of a value flag
  that ends the arguments.

Lookup

- `filter status` can show a filter that an execution does not get (`loader.go:280`);
- the exact file of an alias target is preferred to a definition of the tool
  itself in a file with another name (`executionFilterTargets`), while ARCHITECTURE.md:75-81
  and the inventory prefer the tool's own; `Tidy` excludes it;
- a file of home that cannot be read makes an execution fall back to passthrough
  when the search meets it, while `filter status` leaves the whole source out;
  `Tidy` is about sources without one.

Home filters, upgrade

- two processes that find the same old lock may both remove it, the second one the
  lock the first has just created; and a release removes whoever's lock is there, so
  `OneHolder` ends with the first lapse;
- a filter that a killed rewrite has left cut is "there" for every bootstrap that
  follows; only `repair --yes` replaces it;
- an alias that a user adds between the read and the write of the mappings is lost;
- a failing directory sync or chmod after the rename reports a failed upgrade with the
  new binary in place and no repair.

Fixtures, artifacts

- a verification may accept a fixture of two recordings, or a cut one, after a capture that
  failed; it compares what is there with what is there;
- a list that finds an artifact gone while it rotates shows none at all;
- a purge or a rotation that is killed, or cannot remove a file, may leave
  `command.yaml` alone, which every later list shows as a whole artifact with empty output
  (`recovery.go:259`, `:296`, `:318`); `ListIsFaithful` excepts what a removal has cut.

Metrics, workspaces

- with --global, an unreadable registry silently means the current project alone
  (`gain_global.go:377`); a global report registers the current directory, also one
  below a project's root and one without a database; a global purge from the root
  passes over what only a directory below has registered;
- a report's total and its rows are separate queries, so a run may be in one of them; rows
  clamp growth each for itself, so their dropped bytes may add up to more than the total's;
- one project's rows and joined rows break ties of their order differently;
- an uninstall leaves the metrics spool; one that cannot read an agent's settings has
  removed the link and left the hook; the user's own `context.fileName` is overwritten
  for one agent.

## Plan

1. Done: `Filter`, `Engine`, `EngineProofs`, `Runner` with its modes.
2. Done: `RunLedger`, `MetricsSpool`, `MetricsProofs`.
3. Done: `HomeFilters`, `Upgrade`, `HomeProofs` with all their properties.
4. Done: `FilterLookup`, `FilterTrust`, `FilterProofs`.
5. Done: `Capture`, `RecoveryStore`, `Reports`, `Workspaces`, `Arguments`, `Redaction`.
6. Done: `CaptureProofs`, `RecoveryProofs`, `WorkspacesProofs`.
7. Done: `RunnerProofs`. The abstract delivery in which an entry is taken once and
   written or lost with an error is there as an invariant, `HandsInv`, since nothing
   else would implement it.
8. Done: sums as cardinalities, and with them every invariant of `runner` and `workspaces`; the
   folds over arguments and lines. Left to TLC: liveness and redaction.

## Not modelled

Regular expressions, JSON filters, the wording of rendered groups and reports, and the
decoding of YAML: sequential text work whose results the modules choose freely.
Schema validation of filter documents is used only for which cases exist. The
containment of paths and symbolic links, permissions and modes; process groups and
`taskkill` on Windows; the release feed and the retry of its downloads; the edits of
each agent's configuration; `cli/parse.go`, which decides whether a shell command is measured;
benchmark and coverage tools; processes that outlive the group of their command
(the one hazard without a property).
