---------------------------- MODULE HomeFilters ----------------------------
(***************************************************************************)
(* The home filters of cmdshape and the processes that maintain them       *)
(* (internal/lifecycle: reconcile.go, filter_bootstrap.go, filter_sync.go, *)
(* repair.go; filters/shipped.go).  Every invocation of a tool first adds  *)
(* the shipped filters that are missing ("bootstrap"; `repair --no` does   *)
(* the same on request), `repair --yes` deletes and rewrites them          *)
(* ("rewrite").  They exclude each other by a lock file that is taken over *)
(* when it is ten seconds old.                                             *)
(*                                                                         *)
(* An item is a filter file or an alias of .mappings.yaml.  Its content is *)
(* the version of cmdshape it was shipped with, or says that the user      *)
(* wrote it, that it is being written, or that it does not exist.          *)
(***************************************************************************)
EXTENDS Integers, FiniteSets

CONSTANTS
  Procs,        \* processes of one user; each runs one operation at a time
  Nobody,       \* the lock file does not exist
  Files,        \* filter files: their rank in the order of their names
  Aliases,      \* keys of .mappings.yaml
  Target,       \* Target[a]: the file an alias is shipped for
  MaxVersion,   \* versions of cmdshape are 1..MaxVersion
  Shipped,      \* Shipped[v]: the items embedded in version v
  Kinds,        \* the operations that may be started
  MaxStarts,    \* bound: operations started
  MaxIncidents  \* bound: failing file operations, killed processes, changes by
                \* the user and lock files that get ten seconds old, together

Versions == 1..MaxVersion
Items == Files \cup Aliases
User == 0
Absent == -1
Partial == -2
Content == Versions \cup {User, Absent, Partial}

ASSUME HomeAssumption ==
  /\ Nobody \notin Procs
  /\ Files \subseteq Nat /\ IsFiniteSet(Files) /\ Files \cap Aliases = {}
  /\ Target \in [Aliases -> Files]
  /\ MaxVersion \in Nat \ {0}
  /\ Shipped \in [Versions -> SUBSET Items]
  /\ \A v \in Versions : \A a \in Shipped[v] \cap Aliases : Target[a] \in Shipped[v]
  /\ Kinds \subseteq {"bootstrap", "rewrite", "upgrade"}
  /\ MaxStarts \in Nat /\ MaxIncidents \in Nat

VARIABLES
  lock,      \* the lock file: who created it, and whether it is ten seconds old
  home,      \* content of each item
  mapFile,   \* .mappings.yaml itself: "none", "broken" or "ok"
  exe,       \* version of the installed binary, or Absent
  pc, kind, version,   \* of each process: where it is, what it does, its binary
  todo,      \* the files a process has still to look at or to write
  seen,      \* the aliases a process has read
  failed,    \* whether the running operation of a process has failed
  starts, faults, crashes, edits, lapses,  \* counters of the bounds
  others,    \* history: items changed by others since the operation started and
             \* since it has written them itself
  wiped,     \* history: a rewrite has begun to delete
  deleted,   \* history: items the user removed
  settled    \* history: the version that last rewrote the home filters, and those
             \* that added to them, undisturbed; until an edit, a rewrite or a lapse

lockVars == <<lock, lapses>>
fileVars == <<home, mapFile, others, wiped, deleted, settled>>
procVars == <<pc, kind, version, todo, seen, failed>>
countVars == <<starts, faults, crashes, edits>>
homeVars == <<lockVars, fileVars, exe, procVars, countVars>>

Incident == faults + crashes + edits + lapses < MaxIncidents

Unsettled == [exact |-> 0, added |-> {}]
NoAliases == [a \in Aliases |-> Absent]
FilesOf(v) == Shipped[v] \cap Files

Locked == lock.owner # Nobody
\* What a process does while it believes to hold the lock.
Adding == {"add", "write", "merge"}
Rewriting == {"clear", "map", "fillMap", "rewrite", "fill"}
Holding(p) == pc[p] \in Adding \cup Rewriting \cup {"release"}
Rewrites(k) == k \in {"rewrite", "upgrade"}

HomeTypeOK ==
  /\ lock \in [owner : Procs \cup {Nobody}, stale : BOOLEAN]
  /\ home \in [Items -> Content]
  /\ mapFile \in {"none", "broken", "ok"}
  /\ exe \in Versions \cup {Absent}
  /\ kind \in [Procs -> {"bootstrap", "rewrite", "upgrade"}]
  /\ version \in [Procs -> Versions]
  /\ todo \in [Procs -> SUBSET Files]
  /\ seen \in [Procs -> [Aliases -> Content]]
  /\ failed \in [Procs -> BOOLEAN]
  /\ starts \in Nat /\ faults \in Nat /\ crashes \in Nat /\ edits \in Nat
  /\ lapses \in Nat
  /\ others \in [Procs -> SUBSET Items]
  /\ wiped \in BOOLEAN
  /\ deleted \in SUBSET Items
  /\ settled \in [exact : Versions \cup {0}, added : SUBSET Versions]

HomeInit ==
  /\ lock = [owner |-> Nobody, stale |-> FALSE]
  /\ \/ home = [x \in Items |-> Absent] /\ mapFile = "none"
     \/ home = [x \in Items |-> IF x \in Shipped[1] THEN 1 ELSE Absent] /\ mapFile = "ok"
  /\ exe = 1
  /\ pc = [p \in Procs |-> "idle"]
  /\ kind = [p \in Procs |-> "bootstrap"]
  /\ version = [p \in Procs |-> 1]
  /\ todo = [p \in Procs |-> {}]
  /\ seen = [p \in Procs |-> NoAliases]
  /\ failed = [p \in Procs |-> FALSE]
  /\ starts = 0 /\ faults = 0 /\ crashes = 0 /\ edits = 0 /\ lapses = 0
  /\ others = [p \in Procs |-> {}]
  /\ wiped = FALSE
  /\ deleted = {}
  /\ settled = Unsettled

-----------------------------------------------------------------------------
(* The lock file.                                                          *)

Goto(p, label) == pc' = [pc EXCEPT ![p] = label]

\* An operation is over: the process exits, its local state is forgotten.
End(p) ==
  /\ Goto(p, "idle")
  /\ kind' = [kind EXCEPT ![p] = "bootstrap"]
  /\ version' = [version EXCEPT ![p] = 1]
  /\ todo' = [todo EXCEPT ![p] = {}]
  /\ seen' = [seen EXCEPT ![p] = NoAliases]
  /\ failed' = [failed EXCEPT ![p] = FALSE]
  /\ others' = [others EXCEPT ![p] = {}]

Locals == <<kind, version, todo, seen, failed>>

\* A process of the installed binary starts an operation.
Start(p, k) ==
  /\ pc[p] = "idle" /\ exe # Absent /\ starts < MaxStarts
  /\ starts' = starts + 1
  /\ Goto(p, "acquire")
  /\ kind' = [kind EXCEPT ![p] = k]
  /\ version' = [version EXCEPT ![p] = exe]
  /\ UNCHANGED <<lockVars, fileVars, exe, todo, seen, failed, faults, crashes, edits>>

\* What a process does once it has the lock.
FirstStep(p) == IF Rewrites(kind[p]) THEN "clear" ELSE "add"

\* Mutant: the lock file is opened when it exists.
CreateLockShared(p) ==
  /\ lock' = [owner |-> p, stale |-> FALSE]
  /\ Goto(p, FirstStep(p))
  /\ todo' = [todo EXCEPT ![p] = FilesOf(version[p])]
  /\ UNCHANGED <<kind, version, seen, failed, others>>

\* The lock file is created, exclusively.
CreateLock(p) ==
  /\ ~Locked
  /\ lock' = [owner |-> p, stale |-> FALSE]
  /\ Goto(p, FirstStep(p))
  /\ todo' = [todo EXCEPT ![p] = FilesOf(version[p])]
  /\ UNCHANGED <<kind, version, seen, failed, others>>

\* Mutant: the refused repair of an upgrade counts as done.
GiveUpSilently(p) ==
  /\ IF kind[p] = "upgrade"
     THEN Goto(p, "repaired") /\ UNCHANGED <<kind, version, todo, seen, failed, others>>
     ELSE End(p)
  /\ UNCHANGED lock

\* os.ErrExist: bootstrap goes on without, a repair fails.  An upgrade, which
\* runs the repair as a child, goes on with its failure.
GiveUp(p) ==
  /\ IF kind[p] = "upgrade"
     THEN /\ Goto(p, "repaired")
          /\ failed' = [failed EXCEPT ![p] = TRUE]
          /\ UNCHANGED <<kind, version, todo, seen, others>>
     ELSE End(p)
  /\ UNCHANGED lock

Acquire(p) ==
  /\ pc[p] = "acquire"
  /\ \/ CreateLock(p)
     \/ Locked /\ Goto(p, "stat") /\ UNCHANGED <<lock, Locals, others>>
  /\ UNCHANGED <<lapses, home, mapFile, wiped, deleted, settled, exe, countVars>>

\* The age of the lock is looked at; a young or vanished one is a refusal.
StatLock(p) ==
  /\ pc[p] = "stat"
  /\ \/ Locked /\ lock.stale /\ Goto(p, "takeover") /\ UNCHANGED <<lock, Locals, others>>
     \/ ~(Locked /\ lock.stale) /\ GiveUp(p)
  /\ UNCHANGED <<lapses, home, mapFile, wiped, deleted, settled, exe, countVars>>

\* The lock file is removed, whoever has created it by now.
TakeOver(p) ==
  /\ pc[p] = "takeover"
  /\ lock' = [owner |-> Nobody, stale |-> FALSE]
  /\ Goto(p, "again")
  /\ UNCHANGED <<lapses, fileVars, exe, Locals, countVars>>

AcquireAgain(p) ==
  /\ pc[p] = "again"
  /\ CreateLock(p) \/ (Locked /\ GiveUp(p))
  /\ UNCHANGED <<lapses, home, mapFile, wiped, deleted, settled, exe, countVars>>

\* The lock file gets ten seconds old.
LockAges ==
  /\ Locked /\ ~lock.stale /\ Incident
  /\ lock' = [lock EXCEPT !.stale = TRUE]
  /\ lapses' = lapses + 1
  /\ settled' = Unsettled
  /\ UNCHANGED <<home, mapFile, others, wiped, deleted, exe, procVars, countVars>>

\* The deferred release removes the lock file, whoever has created it by now;
\* its own failure is ignored.
Release(p) ==
  /\ pc[p] = "release"
  /\ \/ lock' = [owner |-> Nobody, stale |-> FALSE] /\ UNCHANGED faults
     \/ Incident /\ faults' = faults + 1 /\ UNCHANGED lock
  /\ settled' = IF failed[p] \/ others[p] # {} \/ lapses > 0 THEN settled
                ELSE [exact |-> IF Rewrites(kind[p]) THEN version[p] ELSE settled.exact,
                      added |-> settled.added \cup {version[p]}]
  /\ IF kind[p] = "upgrade"
     THEN Goto(p, "repaired") /\ UNCHANGED <<Locals, others>>
     ELSE End(p)
  /\ UNCHANGED <<lapses, home, mapFile, wiped, deleted, exe, starts, crashes, edits>>

-----------------------------------------------------------------------------
(* The files.                                                              *)

\* The items that change are changed under the eyes of everybody else.
Touch(me, changed) ==
  others' = [q \in Procs |->
    IF q = me THEN others[q] \ changed
    ELSE IF pc[q] = "idle" THEN {} ELSE others[q] \cup changed]

\* The file of the lowest name that a process has still to treat.
Next1(p) == CHOOSE f \in todo[p] : \A g \in todo[p] : f <= g

Put(p, f, content) ==
  /\ home' = [home EXCEPT ![f] = content]
  /\ Touch(p, {f})
  /\ UNCHANGED mapFile

PutAliases(p, aliases, state) ==
  /\ home' = [x \in Items |-> IF x \in Aliases THEN aliases[x] ELSE home[x]]
  /\ mapFile' = state
  /\ Touch(p, {a \in Aliases : aliases[a] # home[a]})

\* Mutant: an existing file is replaced too.
CheckFileReplaces(p) ==
  /\ pc[p] = "add" /\ todo[p] # {}
  /\ Goto(p, "write")
  /\ UNCHANGED <<lockVars, fileVars, exe, kind, version, todo, seen, failed, countVars>>

\* Adding: an existing file is left alone ...
CheckFile(p) ==
  /\ pc[p] = "add" /\ todo[p] # {}
  /\ IF home[Next1(p)] = Absent
     THEN Goto(p, "write") /\ UNCHANGED todo
     ELSE todo' = [todo EXCEPT ![p] = @ \ {Next1(p)}] /\ UNCHANGED pc
  /\ UNCHANGED <<lockVars, fileVars, exe, kind, version, seen, failed, countVars>>

\* ... a missing one is renamed into place.
WriteFile(p) ==
  /\ pc[p] = "write"
  /\ Put(p, Next1(p), version[p])
  /\ todo' = [todo EXCEPT ![p] = @ \ {Next1(p)}]
  /\ Goto(p, "add")
  /\ UNCHANGED <<lockVars, wiped, deleted, settled, exe, kind, version, seen, failed, countVars>>

\* Mutant: the mappings come first.
ReadMappingsFirst(p) ==
  /\ pc[p] = "add" /\ mapFile # "broken"
  /\ Goto(p, "merge")
  /\ seen' = [seen EXCEPT ![p] = [a \in Aliases |-> home[a]]]
  /\ UNCHANGED <<lockVars, fileVars, exe, kind, version, todo, failed, countVars>>

\* The mappings come last: they are read ...
ReadMappings(p) ==
  /\ pc[p] = "add" /\ todo[p] = {}
  /\ IF mapFile = "broken"
     THEN /\ Goto(p, "release")
          /\ failed' = [failed EXCEPT ![p] = TRUE]
          /\ UNCHANGED seen
     ELSE /\ Goto(p, "merge")
          /\ seen' = [seen EXCEPT ![p] = [a \in Aliases |-> home[a]]]
          /\ UNCHANGED failed
  /\ UNCHANGED <<lockVars, fileVars, exe, kind, version, todo, countVars>>

\* Mutant: the shipped target wins.
MergedShipped(current, v) ==
  [a \in Aliases |-> IF a \in Shipped[v] THEN v ELSE current[a]]

\* An alias that exists keeps its target.
Merged(current, v) ==
  [a \in Aliases |-> IF current[a] = Absent /\ a \in Shipped[v] THEN v ELSE current[a]]

\* ... and the file is replaced by what was read and what was missing.
WriteMappings(p) ==
  /\ pc[p] = "merge"
  /\ PutAliases(p, Merged(seen[p], version[p]), "ok")
  /\ Goto(p, "release")
  /\ UNCHANGED <<lockVars, wiped, deleted, settled, exe, Locals, countVars>>

\* Rewriting: everything is removed, one file after the other ...
ClearFile(p) ==
  /\ pc[p] = "clear"
  /\ \/ \E f \in Files : home[f] # Absent /\ Put(p, f, Absent)
     \/ mapFile # "none" /\ PutAliases(p, NoAliases, "none")
  /\ wiped' = TRUE
  /\ settled' = Unsettled
  /\ UNCHANGED <<lockVars, deleted, exe, procVars, countVars>>

Cleared(p) ==
  /\ pc[p] = "clear" /\ mapFile = "none" /\ \A f \in Files : home[f] = Absent
  /\ wiped' = TRUE
  /\ Goto(p, "map")
  /\ UNCHANGED <<lockVars, home, mapFile, others, deleted, settled, exe, Locals, countVars>>

\* ... then each shipped file is created empty and filled: first, by its name,
\* .mappings.yaml ...
CreateMappings(p) ==
  /\ pc[p] = "map"
  /\ PutAliases(p, NoAliases, "broken")
  /\ Goto(p, "fillMap")
  /\ UNCHANGED <<lockVars, wiped, deleted, settled, exe, Locals, countVars>>

FillMappings(p) ==
  /\ pc[p] = "fillMap"
  /\ PutAliases(p, Merged(NoAliases, version[p]), "ok")
  /\ Goto(p, "rewrite")
  /\ UNCHANGED <<lockVars, wiped, deleted, settled, exe, Locals, countVars>>

\* ... then the filters.
CreateFile(p) ==
  /\ pc[p] = "rewrite" /\ todo[p] # {}
  /\ Put(p, Next1(p), Partial)
  /\ Goto(p, "fill")
  /\ UNCHANGED <<lockVars, wiped, deleted, settled, exe, Locals, countVars>>

FillFile(p) ==
  /\ pc[p] = "fill"
  /\ Put(p, Next1(p), version[p])
  /\ todo' = [todo EXCEPT ![p] = @ \ {Next1(p)}]
  /\ Goto(p, "rewrite")
  /\ UNCHANGED <<lockVars, wiped, deleted, settled, exe, kind, version, seen, failed, countVars>>

Rewritten(p) ==
  /\ pc[p] = "rewrite" /\ todo[p] = {}
  /\ Goto(p, "release")
  /\ UNCHANGED <<lockVars, fileVars, exe, Locals, countVars>>

\* A file operation fails: the operation ends with the files as they are.  An
\* atomic write may fail after the rename, when the directory is synced.
WriteFails(p) ==
  /\ pc[p] \in Adding \cup Rewriting /\ Incident
  /\ faults' = faults + 1
  /\ \/ UNCHANGED <<home, mapFile, others>>
     \/ pc[p] = "write" /\ Put(p, Next1(p), version[p])
     \/ pc[p] = "merge" /\ PutAliases(p, Merged(seen[p], version[p]), "ok")
  /\ Goto(p, "release")
  /\ failed' = [failed EXCEPT ![p] = TRUE]
  /\ UNCHANGED <<lockVars, wiped, deleted, settled, exe, kind, version, todo, seen,
                 starts, crashes, edits>>

\* A process is killed: its lock file and its half-written files stay.
Crash(p) ==
  /\ pc[p] # "idle" /\ Incident
  /\ crashes' = crashes + 1
  /\ End(p)
  /\ UNCHANGED <<lockVars, home, mapFile, wiped, deleted, settled, exe, starts, faults, edits>>

\* The user writes or removes a filter, or repoints or removes an alias.
Edit(x, content) ==
  /\ Incident
  /\ home[x] # content
  /\ edits' = edits + 1
  /\ home' = [home EXCEPT ![x] = content]
  /\ mapFile' = IF x \in Aliases THEN "ok" ELSE mapFile
  /\ Touch(Nobody, {x})
  /\ deleted' = IF content = Absent THEN deleted \cup {x} ELSE deleted
  /\ settled' = Unsettled
  /\ UNCHANGED <<lockVars, wiped, exe, procVars, starts, faults, crashes>>

LockStep(p) == Acquire(p) \/ StatLock(p) \/ TakeOver(p) \/ AcquireAgain(p) \/ Release(p)
AddStep(p) == CheckFile(p) \/ WriteFile(p) \/ ReadMappings(p) \/ WriteMappings(p)
RewriteStep(p) ==
  \/ ClearFile(p) \/ Cleared(p) \/ CreateMappings(p) \/ FillMappings(p)
  \/ CreateFile(p) \/ FillFile(p) \/ Rewritten(p)

HomeStep(p) ==
  \/ LockStep(p) \/ AddStep(p) \/ RewriteStep(p) \/ WriteFails(p) \/ Crash(p)
  \/ \E k \in Kinds \ {"upgrade"} : Start(p, k)

EnvironmentStep ==
  \/ \E x \in Items, content \in {User, Absent} : Edit(x, content)
  \/ LockAges

-----------------------------------------------------------------------------
(* Properties.                                                             *)

\* As long as no lock file gets ten seconds old, at most one process at a time
\* is between taking the lock and releasing it, whatever crashes and however the
\* steps of taking over interleave.  (The lock is removed by name: once one was
\* taken over, a late process may remove the lock of the next holder.)
OneHolder ==
  lapses = 0 => \A p, q \in Procs : Holding(p) /\ Holding(q) => p = q

\* Adding leaves alone what was there when it began: an item is changed by it
\* only if somebody else has changed it in the meantime.
AddingKeeps ==
  [][\A p \in Procs : pc[p] \in Adding /\ (AddStep(p) \/ WriteFails(p)) =>
       \A x \in Items \ others[p] : home[x] # Absent => home'[x] = home[x]]_homeVars

\* Mappings are added after the filters they name, so a crash, a fault or a
\* second process never leaves a shipped alias without its filter, unless a
\* rewrite was started, or the user removed the filter.
AliasHasFilter ==
  ~wiped => \A a \in Aliases :
    home[a] \in Versions => home[Target[a]] # Absent \/ Target[a] \in deleted

\* Once an operation has succeeded, and as long as users and the clock leave it
\* alone, nothing its version ships is missing, since other processes only add;
\* and after a rewrite every shipped item has the content of its version, also
\* when processes of an older binary that were already running add their own.
SettledStays ==
  /\ \A v \in settled.added : mapFile = "ok" /\ \A x \in Shipped[v] : home[x] # Absent
  /\ settled.exact # 0 => \A x \in Shipped[settled.exact] : home[x] = settled.exact
=============================================================================
