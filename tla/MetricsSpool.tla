---------------------------- MODULE MetricsSpool ----------------------------
(***************************************************************************)
(* How runs are recorded (internal/metrics/spool.go and store.go): every   *)
(* cmdshape process of a project writes its run as a file of its own into  *)
(* the spool directory, then moves whatever it finds there into the        *)
(* database; a marker per run makes the move idempotent.  Other processes  *)
(* purge the history or inspect it, and any process may crash.             *)
(*                                                                         *)
(* The database is a file that one process at a time holds open.  Spool    *)
(* files are written and listed without it, and read, committed and        *)
(* removed while holding it.  A transaction is atomic.                     *)
(***************************************************************************)
EXTENDS FiniteSetsExt, Sequences, Integers

CONSTANTS
  Procs,      (* processes working on one project                           *)
  MaxRuns,    (* runs recorded at most                                      *)
  MaxTime,    (* the clock stops here                                       *)
  Retention,  (* defaultRetention                                           *)
  Faults      (* what may go wrong: subset of FaultKinds                    *)

FaultKinds == {"write", "open", "commit", "remove", "crash"}

(* One transaction prunes up to pruneBatchLimit (100) entries of a bucket: *)
(* with no more runs than that, all that are due.                          *)
ASSUME SpoolAssumption ==
  /\ MaxRuns \in 1..100
  /\ MaxTime \in Nat /\ Retention \in Nat
  /\ Faults \subseteq FaultKinds

VARIABLES
  now,       (* the clock                                                   *)
  stamps,    (* timestamps of the runs, in the order of their event ids     *)
  files,     (* runs with a file in the spool directory                     *)
  runs,      (* bucket runs: the number of entries of each run              *)
  marks,     (* bucket events: runs with a marker                           *)
  lock,      (* processes that hold the database: none or one               *)
  (* Of each process: *)
  pc,        (* its next step                                               *)
  todo,      (* the runs it still has to write or to move                   *)
  cutoff,    (* of its purge; 0 when it does not purge                      *)
  failed,    (* moving one of the runs failed                               *)
  due,       (* what was durable when its purge or report began             *)
  sum,       (* what its report has added up                                *)
  (* History, read by no action. *)
  spooled,   (* runs whose file was written                                 *)
  forgotten, (* runs whose entries were deleted                             *)
  purgedTo,  (* the latest cutoff of a purge                                *)
  erased     (* runs a successful purge has promised to delete              *)

db      == <<runs, marks>>
job     == <<todo, cutoff, failed, due, sum>>
history == <<spooled, forgotten, purgedTo, erased>>
vars    == <<now, stamps, files, db, lock, pc, job, history>>

RunIds == 1..MaxRuns
Drawn  == DOMAIN stamps

Places == {"idle", "spool", "list", "open", "move", "remove", "purge", "inspect", "reported"}
Is(p, place)   == pc[p] = place
Goto(p, place) == pc' = [pc EXCEPT ![p] = place]
Starts(p, place, moves, before, durable) ==
  /\ Is(p, "idle") /\ Goto(p, place)
  /\ todo' = [todo EXCEPT ![p] = moves] /\ cutoff' = [cutoff EXCEPT ![p] = before]
  /\ due' = [due EXCEPT ![p] = durable]
Ends(p) ==
  /\ Goto(p, "idle")
  /\ todo' = [todo EXCEPT ![p] = {}] /\ cutoff' = [cutoff EXCEPT ![p] = 0]
  /\ failed' = [failed EXCEPT ![p] = FALSE]
  /\ due' = [due EXCEPT ![p] = {}] /\ sum' = [sum EXCEPT ![p] = 0]

SpoolInit ==
  /\ now = 0 /\ stamps = <<>> /\ files = {} /\ lock = {}
  /\ runs = [e \in RunIds |-> 0] /\ marks = {}
  /\ pc = [p \in Procs |-> "idle"] /\ todo = [p \in Procs |-> {}]
  /\ cutoff = [p \in Procs |-> 0] /\ failed = [p \in Procs |-> FALSE]
  /\ due = [p \in Procs |-> {}] /\ sum = [p \in Procs |-> 0]
  /\ spooled = {} /\ forgotten = {} /\ purgedTo = 0 /\ erased = {}

Tick ==
  /\ now < MaxTime /\ now' = now + 1
  /\ UNCHANGED <<stamps, files, db, lock, pc, job, history>>

-----------------------------------------------------------------------------
(* AppendProject: the run gets its timestamp and its event id, then a file *)
(* that appears at once; an error after that leaves the file behind.       *)

AppendProject(p) ==
  /\ Len(stamps) < MaxRuns
  /\ stamps' = Append(stamps, now)
  /\ Starts(p, "spool", {Len(stamps) + 1}, 0, {})
  /\ UNCHANGED <<now, files, db, lock, failed, sum, history>>

SpoolProjectMetric(p) ==
  /\ Is(p, "spool")
  /\ \/ /\ files' = files \union todo[p] /\ spooled' = spooled \union todo[p]
        /\ Goto(p, "list") /\ UNCHANGED job
     \/ /\ "write" \in Faults
        /\ \E written \in {{}, todo[p]} :
             files' = files \union written /\ spooled' = spooled \union written
        /\ Ends(p)
  /\ UNCHANGED <<now, stamps, db, lock, forgotten, purgedTo, erased>>

-----------------------------------------------------------------------------
(* consolidateProjectSpool: a purge goes on when it succeeded, an append   *)
(* is over in any case.                                                    *)

Consolidated(p) ==
  IF cutoff[p] > 0 /\ ~failed[p] THEN Goto(p, "purge") /\ UNCHANGED job ELSE Ends(p)

ListSpool(p) ==
  /\ Is(p, "list")
  /\ IF spooled = {} THEN Consolidated(p)
     ELSE /\ Goto(p, "open") /\ todo' = [todo EXCEPT ![p] = files]
          /\ UNCHANGED <<cutoff, failed, due, sum>>
  /\ UNCHANGED <<now, stamps, files, db, lock, history>>

OpenDatabase(p) ==
  /\ Is(p, "open") /\ lock = {}
  /\ lock' = {p}
  /\ Goto(p, "move")
  /\ UNCHANGED <<now, stamps, files, db, job, history>>

(* The database stays locked too long or is not available. *)
OpenFails(p) ==
  /\ "open" \in Faults /\ pc[p] \in {"open", "purge", "inspect"}
  /\ Ends(p)
  /\ UNCHANGED <<now, stamps, files, db, lock, history>>

Expired(e) == stamps[e] + Retention < now

(* Mutant: the marker is not written. *)
CommitSpoolEventUnmarked(e) ==
  IF runs[e] > 0 THEN UNCHANGED <<db, forgotten>>
  ELSE LET added == [runs EXCEPT ![e] = @ + 1]
           old   == {d \in Drawn : Expired(d)}
       IN  /\ runs' = [d \in RunIds |-> IF d \in old THEN 0 ELSE added[d]]
           /\ marks' = marks
           /\ forgotten' = forgotten \union {d \in old : added[d] > 0}

(* One transaction: a run without marker gets an entry and a marker, and   *)
(* both buckets are pruned.                                                *)
CommitSpoolEvent(e) ==
  IF e \in marks THEN UNCHANGED <<db, forgotten>>
  ELSE LET added == [runs EXCEPT ![e] = @ + 1]
           old   == {d \in Drawn : Expired(d)}
       IN  /\ runs' = [d \in RunIds |-> IF d \in old THEN 0 ELSE added[d]]
           /\ marks' = (marks \union {e}) \ old
           /\ forgotten' = forgotten \union {d \in old : added[d] > 0}

NextFile(p) == Min(todo[p])

MoveRun(p) ==
  /\ Is(p, "move") /\ todo[p] # {} /\ NextFile(p) \in files
  /\ CommitSpoolEvent(NextFile(p))
  /\ Goto(p, "remove")
  /\ UNCHANGED <<now, stamps, files, lock, job, spooled, purgedTo, erased>>

Passed(p) == todo' = [todo EXCEPT ![p] = @ \ {NextFile(p)}]

(* Another process moved it since the directory was listed. *)
MoveMissing(p) ==
  /\ Is(p, "move") /\ todo[p] # {} /\ NextFile(p) \notin files
  /\ Passed(p) /\ failed' = [failed EXCEPT ![p] = TRUE]
  /\ UNCHANGED <<now, stamps, files, db, lock, pc, cutoff, due, sum, history>>

(* Mutant: the file is removed nevertheless. *)
MoveFailsRemoves(p) ==
  /\ "commit" \in Faults
  /\ Is(p, "move") /\ todo[p] # {} /\ NextFile(p) \in files
  /\ files' = files \ {NextFile(p)}
  /\ lock' = {}
  /\ Ends(p)
  /\ UNCHANGED <<now, stamps, db, history>>

(* A transaction that fails ends the consolidation. *)
MoveFails(p) ==
  /\ "commit" \in Faults
  /\ Is(p, "move") /\ todo[p] # {} /\ NextFile(p) \in files
  /\ lock' = {}
  /\ Ends(p)
  /\ UNCHANGED <<now, stamps, files, db, spooled, forgotten, purgedTo, erased>>

RemoveFile(p) ==
  /\ Is(p, "remove") /\ Passed(p) /\ Goto(p, "move")
  /\ \/ files' = files \ {NextFile(p)} /\ UNCHANGED failed
     \/ /\ "remove" \in Faults
        /\ failed' = [failed EXCEPT ![p] = TRUE] /\ UNCHANGED files
  /\ UNCHANGED <<now, stamps, db, lock, cutoff, due, sum, history>>

CloseDatabase(p) ==
  /\ Is(p, "move") /\ todo[p] = {}
  /\ lock' = {}
  /\ Consolidated(p)
  /\ UNCHANGED <<now, stamps, files, db, history>>

-----------------------------------------------------------------------------
(* PurgeProjectBefore: consolidate, then delete what is older than before. *)

(* Mutant: without consolidation. *)
PurgeProjectBeforeAtOnce(p, before) ==
  /\ Starts(p, "purge", {}, before, spooled)
  /\ UNCHANGED <<now, stamps, files, db, lock, failed, sum, history>>

PurgeProjectBefore(p, before) ==
  /\ Starts(p, "list", {}, before, spooled)
  /\ UNCHANGED <<now, stamps, files, db, lock, failed, sum, history>>

(* The entries go, the markers stay. *)
PurgeBefore(p) ==
  LET old == {e \in Drawn : stamps[e] < cutoff[p]} IN
  /\ Is(p, "purge") /\ lock = {}
  /\ runs' = [e \in RunIds |-> IF e \in old THEN 0 ELSE runs[e]]
  /\ forgotten' = forgotten \union {e \in old : runs[e] > 0}
  /\ purgedTo' = Max({purgedTo, cutoff[p]})
  /\ erased' = erased \union (due[p] \intersect old)
  /\ Ends(p)
  /\ UNCHANGED <<now, stamps, files, marks, lock, spooled>>

-----------------------------------------------------------------------------
(* InspectStorage: pending files first, then the entries of the database.  *)

Entries  == UNION {{e} \X (1..runs[e]) : e \in RunIds}
Observed == Cardinality(Entries)

Inspect(p, first, second) ==
  /\ \/ Starts(p, "inspect", {}, 0, spooled) /\ sum' = [sum EXCEPT ![p] = first] /\ UNCHANGED failed
     \/ /\ Is(p, "inspect") /\ lock = {} /\ Goto(p, "reported")
        /\ sum' = [sum EXCEPT ![p] = @ + second] /\ UNCHANGED <<todo, cutoff, failed, due>>
     \/ Is(p, "reported") /\ Ends(p)
  /\ UNCHANGED <<now, stamps, files, db, lock, history>>

(* Mutant: the database first. *)
InspectStorageReversed(p) == Inspect(p, Observed, Cardinality(files))

InspectStorage(p) == Inspect(p, Cardinality(files), Observed)

-----------------------------------------------------------------------------
(* The operating system releases the lock of a crashed process. *)
Crash(p) ==
  /\ "crash" \in Faults /\ ~Is(p, "idle")
  /\ lock' = lock \ {p}
  /\ Ends(p)
  /\ UNCHANGED <<now, stamps, files, db, history>>

SpoolNext ==
  \/ Tick
  \/ \E p \in Procs :
       \/ AppendProject(p) \/ SpoolProjectMetric(p)
       \/ ListSpool(p) \/ OpenDatabase(p) \/ OpenFails(p)
       \/ MoveRun(p) \/ MoveMissing(p) \/ MoveFails(p) \/ RemoveFile(p) \/ CloseDatabase(p)
       \/ \E before \in 1..now : PurgeProjectBefore(p, before)
       \/ PurgeBefore(p)
       \/ InspectStorage(p)
       \/ Crash(p)

SpoolSpec == SpoolInit /\ [][SpoolNext]_vars
-----------------------------------------------------------------------------
(* Properties *)

SpoolTypeOK ==
  /\ now \in 0..MaxTime
  /\ stamps \in Seq(Nat) /\ Len(stamps) <= MaxRuns
  /\ files \subseteq Drawn /\ marks \subseteq Drawn
  /\ runs \in [RunIds -> Nat]
  /\ lock = {p \in Procs : pc[p] \in {"move", "remove"}} /\ Cardinality(lock) <= 1
  /\ pc \in [Procs -> Places] /\ failed \in [Procs -> BOOLEAN]
  /\ todo \in [Procs -> SUBSET Drawn] /\ due \in [Procs -> SUBSET Drawn]
  /\ cutoff \in [Procs -> Nat] /\ sum \in [Procs -> Nat]
  /\ spooled \subseteq Drawn /\ forgotten \subseteq Drawn /\ erased \subseteq Drawn
  /\ purgedTo \in Nat

(* No run is counted twice, whichever process crashes between committing a *)
(* run and removing its file, and whoever moves the file then              *)
(* (commitSpoolEvent).                                                     *)
CountedOnce == \A e \in RunIds : runs[e] <= 1

(* A run whose file was written is in the spool directory or is counted    *)
(* until it is older than the retention or than the cutoff of a purge      *)
(* (consolidateSpoolEvent commits before it removes).                      *)
NothingForgotten ==
  \A e \in spooled :
    \/ e \in files \/ runs[e] > 0
    \/ stamps[e] < purgedTo \/ Expired(e)

(* After a purge that succeeded, the runs that were durable when it began  *)
(* and are older than its cutoff are gone for good, also those that were   *)
(* still pending or whose file a crash left behind (PurgeProjectBefore     *)
(* consolidates first, and deletes nothing if that failed).                *)
ErasedStaysErased == \A e \in erased : runs[e] = 0

(* A storage status accounts for every run that was durable when it was    *)
(* asked for, though pending and observed are read one after the other     *)
(* while other processes move runs from one to the other.                  *)
StatusCoversDurable ==
  \A p \in Procs :
    Is(p, "reported") => sum[p] >= Cardinality(due[p] \ forgotten)

(* The files, the transactions and the crashes implement the ledger.       *)
Ledger == INSTANCE RunLedger
            WITH recorded <- spooled, counted <- {e \in RunIds : runs[e] > 0}
ImplementsLedger == Ledger!LedgerSpec
=============================================================================
