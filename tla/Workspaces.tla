----------------------------- MODULE Workspaces -----------------------------
(***************************************************************************)
(* The projects of one user and what ties them together: the registry of   *)
(* workspaces in the home directory (internal/workspaces).  Commands       *)
(* record their runs in the database of their project and register it;     *)
(* `init` integrates agents in a directory and registers that; reports and *)
(* purges with --global, and `uninstall`, go by what is registered.        *)
(*                                                                         *)
(* One such command (op) works at a time, step by step, while runs end in  *)
(* any project.  How a run gets from the spool into the database is in     *)
(* MetricsSpool: here it is in one of them when the run is over.           *)
(***************************************************************************)
EXTENDS Reports

CONSTANTS
  Roots,     \* projects
  Subs,      \* directories below a project where commands are given, too
  RootOf,    \* the project of each of them
  Kinds,     \* commands that are given: "report", "purge", "uninstall"
  Requests,  \* reports: command, cwd, global, opts
  Windows,   \* how far back a purge begins
  (* Bounds: *)
  Shapes,    \* the runs that end, in their order, but for when and where
  Calls,     \* directories the other commands are given in, with --global or without
  MaxInits, MaxTime

Dirs == Roots \union Subs
Home == "home"
Project(d) == IF d \in Roots THEN d ELSE RootOf[d]
Unlisted == "unlisted"
NoMetrics == "none"

Options ==
  [tool : STRING, failed : BOOLEAN, since : Int, period : {""} \union DOMAIN Calendar,
   format : {"text", "table", "data"}]

ASSUME WorkspacesAssumption ==
  /\ IsFiniteSet(Dirs) /\ Home \notin Dirs /\ {Unlisted, NoMetrics} \intersect Roots = {}
  /\ Calls \subseteq [cwd : Dirs, global : BOOLEAN]
  /\ Requests \subseteq [command : {"gain", "history", "performance"}, cwd : Dirs, global : BOOLEAN, opts : Options]
  /\ RootOf \in [Subs -> Roots]
  /\ Shapes \in Seq(ToSet(Shapes))
  /\ \A i \in DOMAIN Shapes : \A f \in {"raw", "kept", "duration"} : f \in DOMAIN Shapes[i] /\ Shapes[i][f] \in Nat
  /\ Day \in Nat \ {0} /\ Calendar \in [{"day", "week", "month"} -> Nat \ {0}]
  /\ MissedLimit \in Nat \ {0}

VARIABLES
  now,       \* the clock
  runs,      \* how many runs have ended
  stored,    \* [Roots -> records in the project's database]
  spooled,   \* [Roots -> records still in the project's spool]
  files,     \* projects with a database
  damaged,   \* projects whose database cannot be read
  registry,  \* [Dirs -> the database its entry names, NoMetrics or Unlisted]
  artifacts, \* [Dirs and Home -> the agents' files there: "content", "link"]
  op,        \* the command at work
  inits,     \* how often `init` was given
  given,     \* the kind of command that is given in this behaviour (a bound)
  uninstalling, \* `uninstall` was given
  (* History: *)
  promised,  \* [by -> runs that purges have erased]: "root" when the purge named the
             \* project by its root, "sub" when by a directory below it
  known,     \* directories that were registered when an uninstall began
  late       \* projects in which a run ended since then

store == <<stored, spooled, files, damaged>>
setup == <<inits, given, uninstalling>>
history == <<promised, known, late>>
vars == <<now, runs, store, registry, artifacts, op, setup, history>>

Idle == [kind |-> "idle"]

Init ==
  /\ now = 0 /\ runs = 0 /\ inits = 0
  /\ stored = [r \in Roots |-> {}] /\ spooled = [r \in Roots |-> {}]
  /\ files = {} /\ damaged = {}
  /\ registry = [d \in Dirs |-> Unlisted]
  /\ artifacts = [p \in Dirs \union {Home} |-> {}]
  /\ op = Idle /\ given \in Kinds /\ uninstalling = FALSE
  /\ promised = [root |-> {}, sub |-> {}] /\ known = {} /\ late = {}

-----------------------------------------------------------------------------
(* The registry.                                                           *)

(* mergedWorkspaceEntry: a directory without metrics keeps the database    *)
(* that was registered with it.                                            *)
Upserted(d, root) ==
  [registry EXCEPT ![d] = IF root = NoMetrics /\ @ # Unlisted THEN @ ELSE root]

(* The registry may be locked for too long: nobody insists.                *)
Upsert(d, root) == registry' \in {registry, Upserted(d, root)}

-----------------------------------------------------------------------------
(* A run ends: its record reaches the database, with those that waited, or *)
(* waits in the spool itself.                                              *)

(* The record of a run that ends now.                                      *)
Recorded(shape) ==
  [f \in {"run", "at"} \union DOMAIN shape |->
     IF f = "run" THEN runs + 1 ELSE IF f = "at" THEN now ELSE shape[f]]

EndRun(root) ==
  /\ runs < Len(Shapes)
  /\ runs' = runs + 1
  /\ LET record == Recorded(Shapes[runs + 1])
     IN  \/ /\ stored' = [stored EXCEPT ![root] = @ \union spooled[root] \union {record}]
            /\ spooled' = [spooled EXCEPT ![root] = {}]
            /\ files' = files \union {root}
            /\ Upsert(root, root)
         \/ /\ spooled' = [spooled EXCEPT ![root] = @ \union {record}]
            /\ IF root \in files THEN Upsert(root, root) ELSE UNCHANGED registry
            /\ UNCHANGED <<stored, files>>
  /\ late' = IF uninstalling THEN late \union {root} ELSE late
  /\ UNCHANGED <<now, damaged, artifacts, op, setup, promised, known>>

(* init: an agent's content is written before the link to it; the          *)
(* directory is registered when both are.                                  *)
RunInit(d, place) ==
  /\ op = Idle /\ given = "uninstall" /\ ~uninstalling /\ inits < MaxInits
  /\ inits' = inits + 1
  /\ \/ /\ artifacts' = [artifacts EXCEPT ![place] = {"content", "link"}]
        /\ Upsert(d, NoMetrics)
     \/ /\ artifacts' = [artifacts EXCEPT ![place] = @ \union {"content"}]
        /\ UNCHANGED registry
  /\ UNCHANGED <<now, runs, store, op, given, uninstalling, history>>

Tick ==
  /\ now < MaxTime /\ given # "uninstall"
  /\ now' = now + 1
  /\ UNCHANGED <<runs, store, registry, artifacts, op, setup, history>>

(* A record that does not decode fails every query of its database.        *)
Damage(root) ==
  /\ given = "report" /\ root \in files /\ damaged = {}
  /\ damaged' = {root}
  /\ UNCHANGED <<now, runs, stored, spooled, files, registry, artifacts, op, setup, history>>

-----------------------------------------------------------------------------
(* The databases a command works on.  Entries come before the current      *)
(* directory, in the order of their directories, which sorts a project     *)
(* before what is below it; the first to name a database stands for it.    *)

Naming(root, entries) == {d \in entries : registry[d] = root}

(* Of the directories that name a database, the one that stands for it.    *)
NamedBy(root, entries, cwd) ==
  IF root \in Naming(root, entries) THEN root
  ELSE IF Naming(root, entries) # {} THEN CHOOSE d \in Naming(root, entries) : TRUE ELSE cwd

Reached(entries, cwd) == {r \in files : Naming(r, entries) # {} \/ r = Project(cwd)}

(* Mutant: a database is a source for every directory that names it. *)
SourcesTwice(entries, cwd) ==
  SetToSeq(UNION {{<<d, r>> : d \in Naming(r, entries) \union ({cwd} \intersect {d \in Dirs : Project(d) = r})} :
                    r \in Reached(entries, cwd)})

GlobalMetricsSources(entries, cwd) ==
  SetToSeq({<<NamedBy(r, entries, cwd), r>> : r \in Reached(entries, cwd)})

(* ListPath fails when the registry is locked for too long; reports and    *)
(* purges then go on without entries.  The current directory is registered *)
(* with the database of its project whether there is one yet or not.       *)
Registered == {d \in Dirs : registry[d] # Unlisted}

Sources(global, cwd, entries) ==
  IF global THEN GlobalMetricsSources(entries, cwd) ELSE <<<<cwd, Project(cwd)>>>>

UpsertCurrent(global, cwd) ==
  IF global THEN Upsert(cwd, Project(cwd)) ELSE UNCHANGED registry

(* What a report or a purge speaks for, and whether it is known by its     *)
(* root.                                                                   *)
Due(global, cwd, entries) ==
  IF ~global THEN {<<cwd, Project(cwd)>>}
  ELSE {<<NamedBy(r, entries, cwd), r>> : r \in Reached(entries, cwd)}

Held(due) == [r \in {s[2] : s \in due} |-> stored[r]]

Is(kind) == op.kind = kind

-----------------------------------------------------------------------------
(* gain, history, filter performance: dataset after dataset, source after  *)
(* source.                                                                 *)

StartReport(r, plan) ==
  /\ Is("idle") /\ given = "report"
  /\ \E entries \in {{}, Registered} :
       op' = [kind |-> "report", global |-> r.global, opts |-> r.opts, plan |-> plan,
              sources |-> Sources(r.global, r.cwd, entries), left |-> Sources(r.global, r.cwd, entries),
              asked |-> now, warned |-> {}, rows |-> NoRows(Head(plan)), finished |-> "none",
              (* History: *)
              due |-> Due(r.global, r.cwd, entries), read |-> <<>>,
              before |-> Held(Due(r.global, r.cwd, entries))]
  /\ UpsertCurrent(r.global, r.cwd)
  /\ UNCHANGED <<now, runs, store, artifacts, setup, history>>

RunGain(r) == r.command = "gain" /\ StartReport(r, GainPlan(r.opts, r.global))
RunHistory(r) == r.command = "history" /\ StartReport(r, <<"history">>)
RunFilterPerformance(r) ==
  r.command = "performance" /\ StartReport(r, <<"performance", "missed", "builds">>)

Dataset == Head(op.plan)
Period(dataset) == IF dataset = "trend" THEN TrendPeriod(op.opts) ELSE op.opts.period

(* A trend looks back from the time it is asked for.                       *)
Since ==
  CASE Dataset = "trend"                        -> TrendSince(op.opts, op.asked)
    [] Dataset \in {"total", "summary", "tools"} -> EffectiveSince(op.opts)
    [] OTHER                                    -> op.opts.since

Wanted(records) == {r \in records : MatchesOptions(r, op.opts, Threshold(Since, now))}

(* One source answers one query, in one transaction.  A failure ends a     *)
(* local report; a global one skips the source and warns of it.            *)
QuerySource ==
  /\ Is("report") /\ op.plan # <<>> /\ op.left # <<>>
  /\ LET root == Head(op.left)[2]
         records == Wanted(stored[root])
     IN  \/ /\ root \in files \ damaged
            /\ op' = [op EXCEPT !.left = Tail(@), !.finished = "none",
                                !.rows = Joined(Dataset, @, Query(Dataset, Period(Dataset), records)),
                                !.read = Append(@, records)]
         \/ /\ root \notin files /\ op' = [op EXCEPT !.left = Tail(@), !.finished = "none"]
         \/ /\ root \in damaged /\ op.global
            /\ op' = [op EXCEPT !.left = Tail(@), !.finished = "none", !.warned = @ \union {root}]
         \/ /\ root \in damaged /\ ~op.global /\ op' = Idle
  /\ UNCHANGED <<now, runs, store, registry, artifacts, setup, history>>

(* The rows are complete: they are sorted, cut and printed.                *)
FinishDataset ==
  /\ Is("report") /\ op.plan # <<>> /\ op.left = <<>> /\ op.finished = "none"
  /\ op' = [op EXCEPT !.finished = Dataset,
                      !.rows = Finished(Dataset, Period(Dataset), op.asked, @)]
  /\ UNCHANGED <<now, runs, store, registry, artifacts, setup, history>>

NextDataset ==
  /\ Is("report") /\ op.finished # "none"
  /\ op' = IF Len(op.plan) = 1 THEN Idle
           ELSE [op EXCEPT !.plan = Tail(@), !.left = op.sources, !.asked = now,
                           !.rows = NoRows(Head(Tail(op.plan))), !.read = <<>>, !.finished = "none", !.before = Held(op.due)]
  /\ UNCHANGED <<now, runs, store, registry, artifacts, setup, history>>

-----------------------------------------------------------------------------
(* history purge: source after source until one fails.                     *)

Runs(records) == {r.run : r \in records}
Older(records, cutoff) == {r \in records : r.at < cutoff}

StartPurge(cwd, global, window) ==
  /\ Is("idle") /\ given = "purge"
  /\ \E entries \in {{}, Registered} :
       op' = [kind |-> "purge", left |-> Sources(global, cwd, entries), cutoff |-> now - window,
              (* History: *)
              due |-> Due(global, cwd, entries), before |-> stored, waiting |-> spooled]
  /\ UpsertCurrent(global, cwd)
  /\ UNCHANGED <<now, runs, store, artifacts, setup, history>>

(* Mutant: the database is purged as it is. *)
PurgeSourceAlone ==
  /\ Is("purge") /\ op.left # <<>>
  /\ LET root == Head(op.left)[2]
     IN  stored' = [stored EXCEPT ![root] = @ \ Older(@, op.cutoff)]
  /\ op' = [op EXCEPT !.left = Tail(@)]
  /\ UNCHANGED <<spooled, files, now, runs, damaged, registry, artifacts, setup, history>>

(* purgeHistorySource: what the project itself names is purged with what   *)
(* waits in its spool, any other database as it is.                        *)
PurgeSource ==
  /\ Is("purge") /\ op.left # <<>>
  /\ LET root == Head(op.left)[2]
         contained == Head(op.left)[1] = root
         records == IF contained THEN stored[root] \union spooled[root] ELSE stored[root]
     IN  \/ /\ stored' = [stored EXCEPT ![root] = records \ Older(records, op.cutoff)]
            /\ spooled' = [spooled EXCEPT ![root] = IF contained THEN {} ELSE @]
            /\ files' = IF records # {} THEN files \union {root} ELSE files
            /\ op' = [op EXCEPT !.left = Tail(@)]
         \/ /\ op' = Idle          \* the database stays locked too long
            /\ UNCHANGED <<stored, spooled, files>>
  /\ UNCHANGED <<now, runs, damaged, registry, artifacts, setup, history>>

(* "Purged n history records"                                              *)
FinishPurge ==
  /\ Is("purge") /\ op.left = <<>>
  /\ LET Erased(roots) ==
           UNION {Runs(Older(op.before[r] \union op.waiting[r], op.cutoff)) : r \in roots}
     IN  promised' = [root |-> promised.root \union Erased({s[2] : s \in {s \in op.due : s[1] = s[2]}}),
                      sub |-> promised.sub \union Erased({s[2] : s \in {s \in op.due : s[1] # s[2]}})]
  /\ op' = Idle
  /\ UNCHANGED <<now, runs, store, registry, artifacts, setup, known, late>>

-----------------------------------------------------------------------------
(* uninstall without --tools: the agents' files of every scope, then the   *)
(* state of the workspaces, then the home directory, then the executable.  *)
(* It ends where something fails; given again, it starts over.             *)

StartUninstall(cwd) ==
  /\ Is("idle") /\ given = "uninstall" /\ ~uninstalling
  /\ uninstalling' = TRUE
  /\ \E entries \in {{}, Registered} :    \* {}: not read, and the user is told
       /\ op' = [kind |-> "uninstall", step |-> "adapters", scopes |-> {cwd} \union entries,
                 left |-> <<cwd>> \o SetToSeq(entries \ {cwd})]
       /\ known' = entries
  /\ UNCHANGED <<now, runs, store, registry, artifacts, inits, given, promised, late>>

(* What may be left of the files of a place when its adapters fail: the    *)
(* content goes first.                                                     *)
Remains(place) == {artifacts[place], artifacts[place] \ {"content"}, {}}

(* Mutant: the next scope follows a failed one. *)
RemoveIntegrationsAnyway ==
  /\ Is("uninstall") /\ op.step = "adapters" /\ op.left # <<>>
  /\ \E here \in Remains(Head(op.left)), home \in Remains(Home) :
       artifacts' = [artifacts EXCEPT ![Head(op.left)] = here, ![Home] = home]
  /\ op' = [op EXCEPT !.left = Tail(@), !.step = IF Tail(op.left) = <<>> THEN "state" ELSE @]
  /\ UNCHANGED <<now, runs, store, registry, setup, history>>

RemoveIntegrations ==
  /\ Is("uninstall") /\ op.step = "adapters" /\ op.left # <<>>
  /\ \E here \in Remains(Head(op.left)), home \in Remains(Home) :
       /\ artifacts' = [artifacts EXCEPT ![Head(op.left)] = here, ![Home] = home]
       /\ op' = IF here = {} /\ home = {}
                THEN [op EXCEPT !.left = Tail(@), !.step = IF Tail(op.left) = <<>> THEN "state" ELSE @]
                ELSE Idle
  /\ UNCHANGED <<now, runs, store, registry, setup, history>>

(* removeWorkspaceState tries all of them and reports what failed.  The    *)
(* spool is not among what it removes.                                     *)
RemoveWorkspaceState ==
  /\ Is("uninstall") /\ op.step = "state"
  /\ \E stuck \in SUBSET (op.scopes \intersect files) :
       /\ files' = files \ (op.scopes \ stuck)
       /\ stored' = [r \in Roots |-> IF r \in files' THEN stored[r] ELSE {}]
       /\ damaged' = damaged \intersect files'
       /\ op' = IF stuck = {} THEN [op EXCEPT !.step = "home"] ELSE Idle
  /\ UNCHANGED <<now, runs, spooled, registry, artifacts, setup, history>>

(* removeGlobalCmdshapeState: the registry is one of the files there.      *)
RemoveGlobalState ==
  /\ Is("uninstall") /\ op.step = "home"
  /\ \/ registry' = [d \in Dirs |-> Unlisted] /\ op' = [op EXCEPT !.step = "executable"]
     \/ registry' \in {registry, [d \in Dirs |-> Unlisted]} /\ op' = Idle
  /\ UNCHANGED <<now, runs, store, artifacts, setup, history>>

RemoveExecutable ==
  /\ Is("uninstall") /\ op.step = "executable"
  /\ op' \in {Idle, [kind |-> "uninstalled"]}
  /\ UNCHANGED <<now, runs, store, registry, artifacts, setup, history>>

(* A command may end between any two steps; a report that does leaves      *)
(* nothing behind.                                                         *)
Crash ==
  /\ op.kind \in {"purge", "uninstall"}
  /\ op' = Idle
  /\ UNCHANGED <<now, runs, store, registry, artifacts, setup, history>>

-----------------------------------------------------------------------------
Next ==
  \/ Tick \/ Crash
  \/ \E root \in Roots : EndRun(root)
  \/ \E root \in Roots : Damage(root)
  \/ \E d \in Dirs : \E place \in {d, Home} : RunInit(d, place)
  \/ \E r \in Requests : RunGain(r) \/ RunHistory(r) \/ RunFilterPerformance(r)
  \/ QuerySource \/ FinishDataset \/ NextDataset
  \/ \E c \in Calls, window \in Windows : StartPurge(c.cwd, c.global, window)
  \/ PurgeSource \/ FinishPurge
  \/ \E c \in Calls : StartUninstall(c.cwd)
  \/ RemoveIntegrations \/ RemoveWorkspaceState \/ RemoveGlobalState \/ RemoveExecutable

Spec == Init /\ [][Next]_vars

-----------------------------------------------------------------------------
(* A report over several databases says what a report over one database    *)
(* with all their records would: sums, cut lists and percentiles survive   *)
(* being joined (aggregateGlobalRows and its kin).                         *)
GlobalIsOneHistory ==
  (Is("report") /\ op.finished # "none") =>
    op.rows = Finished(op.finished, Period(op.finished), op.asked,
                       Query(op.finished, Period(op.finished), UNION {op.read[i] : i \in DOMAIN op.read}))

(* Every run that was recorded when a dataset was asked for is in it, and  *)
(* no run twice, whatever is recorded meanwhile: of each project that is   *)
(* registered, the current one included, unless the user is warned of it.  *)
EachRunOnce ==
  (Is("report") /\ op.finished # "none") =>
    /\ \A i, j \in DOMAIN op.read : \A r \in op.read[i], s \in op.read[j] :
         r.run = s.run => i = j /\ r = s
    /\ \A s \in op.due : s[2] \notin op.warned =>
         Runs(Wanted(op.before[s[2]])) \subseteq UNION {Runs(op.read[i]) : i \in DOMAIN op.read}

(* A run that a purge has erased from a project it knows by its root never *)
(* comes back, and none that a registered project held is passed over.     *)
RegisteredAreErased == \A r \in Roots : Runs(stored[r]) \intersect promised.root = {}

(* "remove recorded command history older than a duration"                 *)
PurgedStaysPurged ==
  \A r \in Roots : Runs(stored[r]) \intersect (promised.root \union promised.sub) = {}

(* However an uninstall ends, what is left of a directory it knew of can   *)
(* still be found by the next one; one that succeeds leaves nothing.       *)
UninstallFindsAll ==
  /\ \A d \in known :
       (artifacts[d] # {} \/ d \in files \ late) => registry[d] # Unlisted
  /\ Is("uninstalled") => artifacts[Home] = {}
=============================================================================
