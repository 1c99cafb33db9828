------------------------------- MODULE Runner -------------------------------
(***************************************************************************)
(* One filtered execution (internal/runner.go, run): the command writes    *)
(* into two pipes, one drain goroutine per pipe feeds the engine and       *)
(* writes what it answers, and the main goroutine waits for both, for the  *)
(* command, and then closes the engine, writes the rest and does the       *)
(* bookkeeping.                                                            *)
(*                                                                         *)
(* A drain reads a record and has the engine consume it in one step (only  *)
(* this drain reads its pipe, and the engine serialises calls); writing    *)
(* the answer takes another lock and is another step, so the other drain   *)
(* may run in between.                                                     *)
(*                                                                         *)
(* A run with --raw and confidential values copies the pipes; without any, *)
(* and on a terminal, the command has the terminal for itself (attached).  *)
(* Neither uses the engine: what a copy passes on is what the engine       *)
(* returns in a passthrough case, and only that is taken of it.            *)
(*                                                                         *)
(* Confidential values are replaced on the way to a destination, and the   *)
(* last bytes written are held back until a flush, because a value may     *)
(* begin with them.  What that does to a text is in Redaction; here it     *)
(* matters that lengths change and that a flush may fail.                  *)
(***************************************************************************)
EXTENDS EngineProperties, SequencesExt

CONSTANTS
  MaxLines,         (* lines the command prints at most                     *)
  PipeCapacity,     (* lines a pipe holds                                   *)
  HardKillCode,     (* exit code of a command killed with SIGKILL           *)
  SignalCode,       (* exit code that reports the forwarded signal          *)
  RecoveryEnabled,  (* failure recovery was switched on                     *)
  Modes,            (* kinds of runs: subset of ModeKinds                   *)
  Confidential,     (* whether a run names confidential values              *)
  MaxGrowth,        (* bytes that replacing values makes of one             *)
  MaxArtifactSize,  (* bytes that a recovery artifact holds                 *)
  Faults            (* what may go wrong: subset of FaultKinds              *)

ModeKinds == {"filtered", "raw", "attached"}
FaultKinds == {"read", "write", "wait", "recovery", "metrics", "audit", "signal", "cancel"}

ASSUME RunnerAssumption ==
  /\ MaxLines \in Nat /\ PipeCapacity \in Nat \ {0}
  /\ HardKillCode \in Nat /\ SignalCode \in Nat
  /\ RecoveryEnabled \in BOOLEAN
  /\ Modes \subseteq ModeKinds /\ Confidential \subseteq BOOLEAN
  /\ MaxGrowth \in Nat \ {0} /\ MaxArtifactSize \in Nat
  /\ Faults \subseteq FaultKinds

VARIABLES
  mode,      (* the kind of the run                                         *)
  confidential, (* confidential values were named                           *)
  printed,   (* lines the command has written                               *)
  pipe,      (* per stream, the lengths of the lines in the pipe            *)
  child,     (* "running" or "exited"; an exited command has closed its pipes*)
  childCode, (* the code the command exited with                            *)
  cause,     (* why the context is done: "none", "signal" or "cancelled"    *)
  drain,     (* per stream, what its goroutine does next                    *)
  main,      (* what the main goroutine does next                           *)
  broken,    (* destinations that accept no more output                     *)
  out,       (* per destination, the entries written                        *)
  writeErr,  (* destinations whose recorder holds an error                  *)
  readErr,   (* streams whose drain ended with a read error                 *)
  flushErr,  (* destinations that failed when what was held back came       *)
  waitErr,   (* waiting for the command failed                              *)
  result,    (* what run returns: exit code and whether with an error       *)
  keptBytes, (* bytes that reached the destinations, counted at the flush   *)
  stored,    (* the recovery artifact: "none", "stored" or "failed"          *)
  metric     (* the metrics recorded, none or one                           *)

childVars  == <<printed, child, childCode, cause, broken>>
outVars    == <<out, writeErr>>
resultVars == <<result, keptBytes, stored, metric>>
runnerVars == <<mode, confidential, engineVars, childVars, pipe, drain, main, outVars,
                readErr, flushErr, waitErr, resultVars>>

RunnerInit ==
  /\ EngineInit
  /\ printed = 0 /\ pipe = [s \in Streams |-> <<>>]
  /\ child = "running" /\ childCode = 0 /\ cause = "none"
  /\ mode \in Modes /\ (mode # "filtered" => activeCase.passthrough)
  /\ confidential \in Confidential
  /\ (mode = "raw" => confidential) /\ (mode = "attached" => ~confidential)
  /\ drain = [s \in Streams |-> IF mode = "attached" THEN "done" ELSE "read"] /\ main = "wait"
  /\ broken = {} /\ out = [s \in Streams |-> <<>>]
  /\ writeErr = {} /\ readErr = {} /\ flushErr = {} /\ waitErr = FALSE
  /\ result = [code |-> 0, error |-> FALSE]
  /\ keptBytes = 0 /\ stored = "none" /\ metric = {}

(* The outcomes of a step that fails only when the fault is allowed. *)
Fails(fault) == {FALSE} \union {f \in {TRUE} : fault \in Faults}

-----------------------------------------------------------------------------
(* The command, its consumers and the signals: nothing here is scheduled   *)
(* by the runner.                                                          *)

ChildPrints(s, size) ==
  /\ mode # "attached" /\ child = "running" /\ printed < MaxLines /\ Len(pipe[s]) < PipeCapacity
  /\ printed' = printed + 1
  /\ pipe' = [pipe EXCEPT ![s] = Append(@, size)]
  /\ UNCHANGED <<engineVars, child, childCode, cause, broken, drain, main, outVars,
                 readErr, flushErr, waitErr, resultVars, mode, confidential>>

ChildExits(code) ==
  /\ child = "running" /\ child' = "exited"
  /\ childCode' = code
  /\ UNCHANGED <<engineVars, printed, cause, broken, pipe, drain, main, outVars,
                 readErr, flushErr, waitErr, resultVars, mode, confidential>>

(* The context is done: Cancel signals the process group and, when it is   *)
(* still there after the grace period, kills it.                           *)
Cancel(why) ==
  /\ cause = "none" /\ main # "done"
  /\ \/ why = "signal" /\ "signal" \in Faults
     \/ why = "cancelled" /\ "cancel" \in Faults
  /\ cause' = why
  /\ UNCHANGED <<engineVars, printed, child, childCode, broken, pipe, drain, main,
                 outVars, readErr, flushErr, waitErr, resultVars, mode, confidential>>

(* Mutant: a forwarded signal is not followed by a kill. *)
HardKillOnCancelOnly == cause = "cancelled" /\ ChildExits(HardKillCode)

HardKill == cause # "none" /\ ChildExits(HardKillCode)

(* From now on writes to the destination fail. *)
Break(d) ==
  /\ "write" \in Faults /\ d \notin broken
  /\ broken' = broken \union {d}
  /\ UNCHANGED <<engineVars, printed, child, childCode, cause, pipe, drain, main,
                 outVars, readErr, flushErr, waitErr, resultVars, mode, confidential>>

-----------------------------------------------------------------------------
(* The drains *)

DrainConsume(s) ==
  /\ drain[s] = "read" /\ pipe[s] # <<>>
  /\ Consume(s, Head(pipe[s]))
  /\ pipe' = [pipe EXCEPT ![s] = Tail(@)]
  /\ drain' = [drain EXCEPT ![s] = "sink"]
  /\ UNCHANGED <<childVars, main, outVars, readErr, flushErr, waitErr,
                 resultVars, mode, confidential>>

(* Entries by their sequence numbers, which no two entries of an answer    *)
(* for one destination share.                                              *)
InOrder(entries) ==
  CHOOSE q \in [1..Cardinality(entries) -> entries] :
    \A i, j \in DOMAIN q : i < j => q[i].seq < q[j].seq

For(d, entries) == {e \in entries : e.stream = d}

(* Mutants: a failing destination keeps the entries of the other one back; *)
(* the entries are written last one first.                                 *)
WriteStopsAtError(entries) ==
  LET failed == {d \in broken : For(d, entries) # {}}
  IN  /\ out' = [d \in Streams |-> IF failed # {} THEN out[d]
                                   ELSE out[d] \o InOrder(For(d, entries))]
      /\ writeErr' = writeErr \union failed

WriteReversed(entries) ==
  /\ out' = [d \in Streams |-> IF d \in broken THEN out[d]
                               ELSE out[d] \o Reverse(InOrder(For(d, entries)))]
  /\ writeErr' = writeErr \union {d \in broken : For(d, entries) # {}}

(* writeEntries: each entry goes to the recorder of its stream, which      *)
(* keeps its first error and swallows everything after it.                 *)
Write(entries) ==
  /\ out' = [d \in Streams |-> IF d \in broken THEN out[d]
                               ELSE out[d] \o InOrder(For(d, entries))]
  /\ writeErr' = writeErr \union {d \in broken : For(d, entries) # {}}

(* Mutant: a drain ends with its first write error. *)
DrainSinkGivesUp(s) ==
  /\ drain[s] = "sink"
  /\ Write(returned[s])
  /\ drain' = [drain EXCEPT ![s] = IF writeErr' = {} THEN "read" ELSE "done"]
  /\ UNCHANGED <<engineVars, childVars, pipe, main, readErr, flushErr, waitErr,
                 resultVars, mode, confidential>>

DrainSink(s) ==
  /\ drain[s] = "sink"
  /\ Write(returned[s])
  /\ drain' = [drain EXCEPT ![s] = "read"]
  /\ UNCHANGED <<engineVars, childVars, pipe, main, readErr, flushErr, waitErr,
                 resultVars, mode, confidential>>

(* What is held back for a destination that has failed since is lost, and  *)
(* the destination has an error if there was anything.                     *)
FlushFails(dests) ==
  \E lost \in SUBSET {d \in dests \intersect broken : confidential /\ out[d] # <<>>} :
    flushErr' = flushErr \union lost

(* Mutant: a drain waits for the other one to end. *)
DrainEndsLast(s) ==
  /\ drain[s] = "read" /\ pipe[s] = <<>> /\ child = "exited"
  /\ \E t \in Streams \ {s} : drain[t] = "done"
  /\ drain' = [drain EXCEPT ![s] = "done"]
  /\ UNCHANGED <<engineVars, childVars, pipe, main, outVars, readErr, flushErr, waitErr,
                 resultVars, mode, confidential>>

DrainEnds(s) ==
  /\ drain[s] = "read"
  /\ \/ pipe[s] = <<>> /\ child = "exited" /\ UNCHANGED readErr
     \/ "read" \in Faults /\ readErr' = readErr \union {s}
  /\ IF mode = "raw" THEN FlushFails({s}) ELSE UNCHANGED flushErr
  /\ drain' = [drain EXCEPT ![s] = "done"]
  /\ UNCHANGED <<engineVars, childVars, pipe, main, outVars, waitErr,
                 resultVars, mode, confidential>>

-----------------------------------------------------------------------------
(* The main goroutine *)

WaitExitCode ==
  /\ main = "wait" /\ \A s \in Streams : drain[s] = "done"
  /\ child = "exited"
  /\ waitErr' \in Fails("wait")
  /\ main' = IF mode = "filtered" THEN "exit" ELSE "unfiltered"
  /\ UNCHANGED <<engineVars, childVars, pipe, drain, outVars, readErr, flushErr,
                 resultVars, mode, confidential>>

EngineExit ==
  /\ main = "exit"
  /\ Exit(IF waitErr THEN 1 ELSE childCode)
  /\ main' = "write"
  /\ UNCHANGED <<childVars, pipe, drain, outVars, readErr, flushErr, waitErr,
                 resultVars, mode, confidential>>

WriteRest ==
  /\ main = "write"
  /\ Write(returned["main"])
  /\ main' = "flush"
  /\ UNCHANGED <<engineVars, childVars, pipe, drain, readErr, flushErr, waitErr,
                 resultVars, mode, confidential>>

(* The bytes of everything written, entry by entry.                        *)
BytesWritten(seq) == Cardinality(UNION {{i} \X (1..seq[i].text.size) : i \in DOMAIN seq})

(* What a destination gets of that many: confidential values become "***". *)
Redacted(n) == {n} \union {m \in 3..(MaxGrowth * n) : confidential}

(* What was held back is written, and the recorders have counted all.      *)
Flush ==
  /\ main = "flush"
  /\ FlushFails(Streams)
  /\ \E o \in Redacted(BytesWritten(out["stdout"])), e \in Redacted(BytesWritten(out["stderr"])) :
       keptBytes' = o + e
  /\ main' = "result"
  /\ UNCHANGED <<engineVars, childVars, pipe, drain, outVars, readErr, waitErr,
                 result, stored, metric, mode, confidential>>

(* Mutant: read errors do not count. *)
OutputErrOfWrites == writeErr # {}

OutputErr == writeErr # {} \/ readErr # {} \/ flushErr # {}

(* filteredRunResult: an error ends the run before any bookkeeping. *)
RunResult ==
  CASE cause = "signal" ->
         [code |-> IF exitCode = HardKillCode THEN SignalCode ELSE exitCode,
          error |-> OutputErr]
    [] cause = "cancelled" -> [code |-> 1, error |-> TRUE]
    [] cause = "none" ->
         [code  |-> IF waitErr \/ (OutputErr /\ exitCode = 0) THEN 1 ELSE exitCode,
          error |-> waitErr \/ OutputErr]

FilteredRunResult ==
  /\ main = "result"
  /\ result' = RunResult
  /\ main' = IF RunResult.error THEN "done" ELSE "recover"
  /\ UNCHANGED <<engineVars, childVars, pipe, drain, outVars, readErr, flushErr, waitErr,
                 keptBytes, stored, metric, mode, confidential>>

RawBytes == Bytes(received)

(* Mutant: wanted only when nothing at all was printed. *)
WantsRecoveryOfSilence ==
  result.code # 0 /\ RawBytes # 0 /\ keptBytes = 0 /\ ~confidential /\ RecoveryEnabled

WantsRecovery ==
  /\ result.code # 0 /\ RawBytes # 0 /\ keptBytes < RawBytes
  /\ ~confidential /\ ~passthrough /\ ~activeCase.passthrough
  /\ RecoveryEnabled

(* recovery.Store keeps nothing of what is empty or too large for an       *)
(* artifact, and reports neither.                                          *)
FitsArtifact == recovery # {} /\ Bytes(recovery) <= MaxArtifactSize

MaybeStoreRecovery ==
  /\ main = "recover"
  /\ IF WantsRecovery /\ FitsArtifact
     THEN \E failed \in Fails("recovery") : stored' = IF failed THEN "failed" ELSE "stored"
     ELSE stored' = "none"
  /\ main' = "measure"
  /\ UNCHANGED <<engineVars, childVars, pipe, drain, outVars, readErr, flushErr, waitErr,
                 result, keptBytes, metric, mode, confidential>>

(* Mutant: the bytes the engine still counts, not those that were read. *)
AppendMetricsOfEngine ==
  /\ main = "measure"
  /\ metric' = {[passthrough |-> activeCase.passthrough \/ passthrough,
                 code |-> result.code, raw |-> rawBytes, kept |-> keptBytes]}
  /\ main' = "finish"
  /\ UNCHANGED <<engineVars, childVars, pipe, drain, outVars, readErr, flushErr, waitErr,
                 result, keptBytes, stored, mode, confidential>>

AppendMetrics ==
  /\ main = "measure"
  /\ \E failed \in Fails("metrics") :
       metric' = IF failed THEN {}
                 ELSE {[passthrough |-> activeCase.passthrough \/ passthrough,
                        code |-> result.code, raw |-> RawBytes, kept |-> keptBytes]}
  /\ main' = "finish"
  /\ UNCHANGED <<engineVars, childVars, pipe, drain, outVars, readErr, flushErr, waitErr,
                 result, keptBytes, stored, mode, confidential>>

FinishAudit ==
  /\ main = "finish"
  /\ \E failed \in Fails("audit") :
       result' = IF ~failed THEN result
                 ELSE [code |-> IF result.code = 0 THEN 1 ELSE result.code, error |-> TRUE]
  /\ main' = "done"
  /\ UNCHANGED <<engineVars, childVars, pipe, drain, outVars, readErr, flushErr, waitErr,
                 keptBytes, stored, metric, mode, confidential>>

(* runRaw and runAttached: the audit log is finished also when the output  *)
(* failed, and nothing is measured or stored.                              *)
UnfilteredResult(auditFailed) ==
  LET code == IF waitErr THEN 1 ELSE childCode IN
  CASE cause = "signal" ->
         [code |-> IF code = HardKillCode THEN SignalCode ELSE code, error |-> OutputErr]
    [] cause = "cancelled" -> [code |-> 1, error |-> TRUE]
    [] cause = "none" ->
         [code  |-> IF code = 0 /\ (auditFailed \/ OutputErr) THEN 1 ELSE code,
          error |-> auditFailed \/ OutputErr \/ waitErr]

FinishUnfiltered ==
  /\ main = "unfiltered"
  /\ \E failed \in Fails("audit") : result' = UnfilteredResult(failed)
  /\ main' = "done"
  /\ UNCHANGED <<engineVars, childVars, pipe, drain, outVars, readErr, flushErr, waitErr,
                 keptBytes, stored, metric, mode, confidential>>

-----------------------------------------------------------------------------
Drain(s) == DrainConsume(s) \/ DrainSink(s) \/ DrainEnds(s)

Main == \/ WaitExitCode \/ EngineExit \/ WriteRest \/ Flush \/ FilteredRunResult
        \/ MaybeStoreRecovery \/ AppendMetrics \/ FinishAudit \/ FinishUnfiltered

RunnerNext ==
  \/ \E s \in Streams, size \in Sizes : ChildPrints(s, size)
  \/ \E code \in ExitCodes : ChildExits(code)
  \/ \E why \in {"signal", "cancelled"} : Cancel(why)
  \/ HardKill
  \/ \E d \in Streams : Break(d)
  \/ \E s \in Streams : Drain(s)
  \/ Main

(* The Go scheduler runs both drains and the main goroutine, and the grace *)
(* period ends; the command may run for ever.                              *)
RunnerSpec ==
  /\ RunnerInit /\ [][RunnerNext]_runnerVars
  /\ \A s \in Streams : WF_runnerVars(Drain(s))
  /\ WF_runnerVars(Main) /\ WF_runnerVars(HardKill)
-----------------------------------------------------------------------------
(* Safety *)

Written == UNION {ToSet(out[d]) : d \in Streams}

(* What the engine handed back and no goroutine has written yet. *)
Unwritten == UNION ({returned[s] : s \in {t \in Streams : drain[t] = "sink"}}
                    \union {returned["main"] : m \in {main} \intersect {"write"}})

(* Every entry the engine hands back is written exactly once, to the       *)
(* destination of its stream, however the two drains and the exit are      *)
(* interleaved; only a destination that failed goes without                *)
(* (consume and sink are separate steps of drainStream).                   *)
WrittenOnce ==
  /\ Written \intersect Unwritten = {}
  /\ Written \union Unwritten \subseteq released
  /\ \A e \in released \ (Written \union Unwritten) : e.stream \in writeErr
  /\ \A d \in Streams : IsInjective(out[d]) /\ \A e \in ToSet(out[d]) : e.stream = d

(* A destination shows its lines in sequence order unless the retained     *)
(* lines overflowed the limit.                                             *)
Ordered(seq) == \A i, j \in DOMAIN seq : i < j => seq[i].seq < seq[j].seq
Overflowed   == passthrough /\ BufferLimit > 0 /\ rawBytes > BufferLimit
InOrderUnlessOverflow == Overflowed \/ \A d \in Streams : Ordered(out[d])

(* A run that returns no error has written everything the engine handed    *)
(* back and all that the command printed was read; if nothing was          *)
(* cancelled its code is the code of the command                           *)
(* (filteredRunResult checks the errors of both drains and of the flush).  *)
SuccessIsComplete ==
  main = "done" /\ ~result.error =>
    /\ Written = released
    /\ Cardinality(received) = printed
    /\ cause = "none" => result.code = childCode

(* After a failed command a line the reader did not see is in the stored   *)
(* recovery artifact; one is stored, if storing works, whenever output was *)
(* reduced, unless values are confidential or the lines too large for it   *)
(* (SECURITY.md: neither is stored, and neither was).                      *)
FailureIsRecoverable ==
  main = "done" /\ ~result.error =>
    /\ result.code # 0 /\ RecoveryEnabled /\ ~confidential =>
         \/ received \subseteq Written
         \/ stored = "failed" \/ Bytes(recovery) > MaxArtifactSize
         \/ stored = "stored" /\ received \subseteq Written \union recovery
    /\ stored = "stored" =>
         result.code # 0 /\ ~confidential /\ Bytes(recovery) <= MaxArtifactSize

(* The recorded metric is true to the run: passthrough means that nothing  *)
(* was saved, anything else that less was written than read or that only   *)
(* the footer was added, and the bytes kept are those written, unless      *)
(* confidential values were replaced among them.                           *)
PrintedBytes == BytesWritten(out["stdout"]) + BytesWritten(out["stderr"])
MetricIsHonest ==
  \A m \in metric :
    /\ \/ waitErr \/ m.code = childCode
       \/ cause = "signal" /\ childCode = HardKillCode /\ m.code = SignalCode
    /\ m.passthrough => Written = received /\ PrintedBytes = m.raw
    /\ ~m.passthrough => PrintedBytes <= m.raw + activeCase.footer
    /\ ~confidential => m.kept = PrintedBytes

-----------------------------------------------------------------------------
(* Liveness *)

(* A command that exits, or a run that is interrupted, comes to an end.    *)
ExitEndsTheRun  == child = "exited" ~> main = "done"
SignalEndsTheRun == cause # "none" ~> main = "done"

(* The command never blocks for ever on a full pipe, also when the         *)
(* destination of its output has failed (countingErrorWriter swallows).    *)
PipesAreDrained == \A s \in Streams : pipe[s] # <<>> ~> pipe[s] = <<>>
=============================================================================
