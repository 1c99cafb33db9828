------------------------------ MODULE Capture ------------------------------
(***************************************************************************)
(* Replay fixtures (internal/lifecycle/capture.go and verify.go,           *)
(* internal/replay/fixture.go).  `capture` runs a command once: two        *)
(* goroutines number the records of its two streams from one counter and   *)
(* stage them in a directory of their own.  Only then the fixture is       *)
(* written, file by file, and replayed to obtain the expected outputs.     *)
(* `verify` reads a fixture and writes its own outputs beside it.          *)
(*                                                                         *)
(* A recording is known by its number and by the sequence numbers of the   *)
(* events of each stream; a file by the recording it holds and how much of *)
(* it.  Redaction is in Redaction, what a replay prints in Engine.         *)
(***************************************************************************)
EXTENDS Integers, Sequences, SequencesExt, FiniteSets

CONSTANTS
  Procs,       \* processes that use one fixture directory
  Expected,    \* the expectation files, in the order they are promoted
  MaxCaptures, \* bound: captures started
  MaxVerifies, \* bound: verifications started
  MaxRecords,  \* bound: records a command prints
  MaxFaults    \* bound: failing operations, killed processes, interrupts, together

Streams == {"stdout", "stderr"}
Files == {"command"} \cup Streams \cup ToSet(Expected)

ASSUME CaptureAssumption ==
  /\ Expected \in Seq(ToSet(Expected)) /\ Expected # <<>> /\ IsInjective(Expected)
  /\ ({"command"} \cup Streams) \cap ToSet(Expected) = {}
  /\ MaxCaptures \in Nat /\ MaxVerifies \in Nat /\ MaxRecords \in Nat /\ MaxFaults \in Nat

VARIABLES
  \* The command being recorded, and its two readers.
  recorder,  \* the process whose command runs; {} or a singleton
  child,     \* "running" or "exited"
  cause,     \* why its context is done: "none", "signal", "cancelled"
  unread,    \* per stream, the records in the pipe, by their number of printing
  hand,      \* per stream, the record whose first byte was read; 0 for none
  sequence,  \* the shared counter
  staged,    \* per stream, the staged events: sequence number and record
  lost,      \* reading or staging has failed
  printed,   \* history: per record, its stream and what was staged when it was printed
  \* The fixture directory and the processes that use it.
  file,      \* content of each file
  recording, \* of each recording and stream, the sequence numbers of its events
  pc, doing, \* of each process: where it is, and "capture" or "verify"
  rec,       \* the recording a capture writes, or of the command a verify has read
  seen,      \* what a process has read of the streams
  at,        \* how many expectations it has promoted
  captures, verifies, faults,
  whole,     \* history: the recording of the last capture that succeeded, until
             \* another one begins to write; 0 if none
  steady,    \* history: verifications since whose start whole has not changed
  alone,     \* history: the capture that writes, if none other has meanwhile
  overlapped \* history: two captures were writing at a time

recorderVars == <<recorder, child, cause, unread, hand, sequence, staged, lost, printed>>
fixtureVars == <<file, recording, whole, steady, alone, overlapped>>
procVars == <<pc, doing, rec, seen, at>>
vars == <<recorderVars, fixtureVars, procVars, captures, verifies, faults>>

Fault == faults < MaxFaults /\ faults' = faults + 1

\* The content of a file: the recording, how many of its events are there (of a
\* file without events, 1 for all of it), and whether a cut one follows.  An
\* expectation also has the streams it was replayed from.
Content(r, size, torn) == [rec |-> r, size |-> size, torn |-> torn, from |-> <<>>]
NoFile == Content(0, 0, FALSE)
Replayed(r, streams) == [Content(r, 1, FALSE) EXCEPT !.from = streams]

\* Complete files of recording r.
AllOf(r, s) == Content(r, Cardinality(recording[r][s]), FALSE)
StreamsOf(r) == <<AllOf(r, "stdout"), AllOf(r, "stderr")>>

Writing(p) == doing[p] = "capture" /\
  pc[p] \in {"openStdout", "openStderr", "write", "flushStderr", "reopen", "replay",
             "promote"}

Init ==
  /\ recorder = {} /\ child = "exited" /\ cause = "none"
  /\ unread = [s \in Streams |-> <<>>] /\ hand = [s \in Streams |-> 0]
  /\ sequence = 0 /\ staged = [s \in Streams |-> <<>>] /\ lost = FALSE
  /\ printed = <<>>
  /\ file = [f \in Files |-> NoFile] /\ recording = <<>>
  /\ pc = [p \in Procs |-> "idle"] /\ doing = [p \in Procs |-> "verify"]
  /\ rec = [p \in Procs |-> 0] /\ seen = [p \in Procs |-> <<>>] /\ at = [p \in Procs |-> 0]
  /\ captures = 0 /\ verifies = 0 /\ faults = 0
  /\ whole = 0 /\ steady = {} /\ alone = {} /\ overlapped = FALSE

Goto(p, label) == pc' = [pc EXCEPT ![p] = label]

\* The process ends; its local state is forgotten.
EndWith(p, verifications) ==
  /\ Goto(p, "idle")
  /\ doing' = [doing EXCEPT ![p] = "verify"]
  /\ rec' = [rec EXCEPT ![p] = 0]
  /\ seen' = [seen EXCEPT ![p] = <<>>]
  /\ at' = [at EXCEPT ![p] = 0]
  /\ steady' = verifications

End(p) == EndWith(p, steady \ {p})

-----------------------------------------------------------------------------
(* Recording.  Recordings of two processes share nothing, so one at a time *)
(* is enough.                                                              *)

StartCapture(p) ==
  /\ pc[p] = "idle" /\ captures < MaxCaptures /\ recorder = {}
  /\ captures' = captures + 1
  /\ recorder' = {p} /\ child' = "running" /\ cause' = "none"
  /\ sequence' = 0 /\ staged' = [s \in Streams |-> <<>>] /\ printed' = <<>> /\ lost' = FALSE
  /\ doing' = [doing EXCEPT ![p] = "capture"]
  /\ Goto(p, "record")
  /\ UNCHANGED <<unread, hand, fixtureVars, rec, seen, at, verifies, faults>>

StagedRecords == UNION {{staged[s][i].record : i \in DOMAIN staged[s]} : s \in Streams}

\* The command prints a record, or the next part of one that exceeds the limit.
Prints(s) ==
  /\ child = "running" /\ Len(printed) < MaxRecords
  /\ printed' = Append(printed, [stream |-> s, after |-> StagedRecords])
  /\ unread' = [unread EXCEPT ![s] = Append(@, Len(printed) + 1)]
  /\ UNCHANGED <<recorder, child, cause, hand, sequence, staged, lost, fixtureVars, procVars,
                 captures, verifies, faults>>

ChildExits ==
  /\ child = "running"
  /\ child' = "exited"
  /\ UNCHANGED <<recorder, cause, unread, hand, sequence, staged, lost, printed, fixtureVars,
                 procVars, captures, verifies, faults>>

Interrupt ==
  /\ child = "running" /\ cause = "none" /\ Fault
  /\ cause' \in {"signal", "cancelled"}
  /\ UNCHANGED <<recorder, child, unread, hand, sequence, staged, lost, printed, fixtureVars,
                 procVars, captures, verifies>>

\* The first byte of a record is read.
ReadFirst(s) ==
  /\ hand[s] = 0 /\ unread[s] # <<>>
  /\ hand' = [hand EXCEPT ![s] = Head(unread[s])]
  /\ unread' = [unread EXCEPT ![s] = Tail(@)]
  /\ UNCHANGED <<recorder, child, cause, sequence, staged, lost, printed, fixtureVars,
                 procVars, captures, verifies, faults>>

\* Mutant: each stream counts for itself.
DrawAndStageOwnCounter(s) ==
  /\ hand[s] # 0 /\ ~lost
  /\ sequence' = sequence + 1
  /\ hand' = [hand EXCEPT ![s] = 0]
  /\ staged' = [staged EXCEPT ![s] = Append(@, [seq |-> Len(@), record |-> hand[s]])]
  /\ UNCHANGED <<recorder, child, cause, unread, lost, printed, fixtureVars, procVars,
                 captures, verifies, faults>>

\* Then its number is drawn, and the rest of it is read and staged.  Once a read
\* or the staging has failed nothing more is staged.
DrawAndStage(s) ==
  /\ hand[s] # 0
  /\ sequence' = sequence + 1
  /\ hand' = [hand EXCEPT ![s] = 0]
  /\ \/ /\ ~lost
        /\ staged' = [staged EXCEPT ![s] = Append(@, [seq |-> sequence, record |-> hand[s]])]
        /\ UNCHANGED <<lost, faults>>
     \/ lost /\ UNCHANGED <<staged, lost, faults>>
     \/ ~lost /\ Fault /\ lost' = TRUE /\ UNCHANGED staged
  /\ UNCHANGED <<recorder, child, cause, unread, printed, fixtureVars, procVars, captures, verifies>>

\* What was staged: per stream, the numbers of its events.
Events == [s \in Streams |-> {staged[s][i].seq : i \in DOMAIN staged[s]}]

\* Both readers are at the end of their stream and the command was waited for.
\* A failure to read, to stage or to wait and a cancellation discard the
\* recording; a forwarded signal does not.
Drained == child = "exited" /\ \A s \in Streams : unread[s] = <<>> /\ hand[s] = 0

\* The staging directory is removed.
Discard ==
  /\ recorder' = {} /\ child' = "exited" /\ cause' = "none"
  /\ sequence' = 0 /\ staged' = [s \in Streams |-> <<>>] /\ printed' = <<>> /\ lost' = FALSE

Finish(p) ==
  /\ p \in recorder /\ pc[p] = "record" /\ Drained
  /\ \/ ~lost /\ cause # "cancelled"
        /\ Goto(p, "command")
        /\ UNCHANGED <<recorder, child, cause, sequence, staged, lost, printed,
                       doing, rec, seen, at, steady, faults>>
     \/ /\ \/ (lost \/ cause = "cancelled") /\ UNCHANGED faults
           \/ Fault
        /\ Discard
        /\ End(p)
  /\ UNCHANGED <<unread, hand, file, recording, whole, alone, overlapped, captures, verifies>>

-----------------------------------------------------------------------------
(* Reading streams back.                                                   *)

\* The numbers that are read from a stream file; a cut last event is taken for
\* an event, unless its prefix or its encoding is broken.
FirstOf(numbers, k) == {n \in numbers : Cardinality({m \in numbers : m < n}) < k}
Reading(content, s) ==
  IF content.rec = 0 THEN {}
  ELSE FirstOf(recording[content.rec][s], content.size + IF content.torn THEN 1 ELSE 0)

\* The merge finds every number once, from 0 on.
InSequence(out, err) ==
  out \cap err = {} /\ out \cup err = 0..(Cardinality(out) + Cardinality(err) - 1)

\* Whether the streams that were read pass for a recording, and whether they are
\* refused for sure.
Accepted(streams) == InSequence(Reading(streams[1], "stdout"), Reading(streams[2], "stderr"))
Torn(streams) == streams[1].torn \/ streams[2].torn

ReadStream(p, s) == seen' = [seen EXCEPT ![p] = Append(@, file[s])]

\* The streams are read: one file, then the other; a break in the sequence ends
\* the process.
ReadStdout(p) ==
  /\ pc[p] = "reopen"
  /\ ReadStream(p, "stdout")
  /\ Goto(p, "replay")
  /\ UNCHANGED <<recorderVars, fixtureVars, doing, rec, at, captures, verifies, faults>>

ReadStderr(p) ==
  /\ pc[p] = "replay"
  /\ LET streams == Append(seen[p], file["stderr"]) IN
     \/ /\ Accepted(streams)
        /\ ReadStream(p, "stderr")
        /\ Goto(p, IF doing[p] = "capture" THEN "promote" ELSE "report")
        /\ UNCHANGED <<doing, rec, at, steady>>
     \/ (~Accepted(streams) \/ Torn(streams)) /\ End(p)
  /\ UNCHANGED <<recorderVars, file, recording, whole, alone, overlapped, captures, verifies, faults>>

-----------------------------------------------------------------------------
(* A capture writes the fixture.                                           *)

Put(f, content) == file' = [file EXCEPT ![f] = content]

\* From here on the fixture is not the one of an earlier capture any more.
BeginWriting(p) ==
  LET others == {q \in Procs \ {p} : Writing(q)} IN
  /\ recording' = Append(recording, Events)
  /\ whole' = 0
  /\ alone' = IF others = {} THEN {p} ELSE {}
  /\ overlapped' = (overlapped \/ others # {})

WriteCommand(p) ==
  /\ pc[p] = "command"
  /\ Put("command", Content(Len(recording) + 1, 1, FALSE))
  /\ rec' = [rec EXCEPT ![p] = Len(recording) + 1]
  /\ BeginWriting(p) /\ steady' = {}
  /\ Discard
  /\ Goto(p, "openStdout")
  /\ UNCHANGED <<unread, hand, doing, seen, at, captures, verifies, faults>>

\* Both stream files are emptied before anything is written to one of them.
OpenStdout(p) ==
  /\ pc[p] = "openStdout"
  /\ Put("stdout", Content(rec[p], 0, FALSE))
  /\ Goto(p, "openStderr")
  /\ UNCHANGED <<recorderVars, recording, whole, steady, alone, overlapped, doing, rec, seen, at,
                 captures, verifies, faults>>

OpenStderr(p) ==
  /\ pc[p] = "openStderr"
  /\ Put("stderr", Content(rec[p], 0, FALSE))
  /\ Goto(p, "write")
  /\ UNCHANGED <<recorderVars, recording, whole, steady, alone, overlapped, doing, rec, seen, at,
                 captures, verifies, faults>>

\* A full buffer is written: some more events, the last one perhaps cut.
Spill(p, s) ==
  /\ pc[p] = "write" /\ file[s].rec = rec[p]
  /\ \E k \in file[s].size..Cardinality(recording[rec[p]][s]), torn \in BOOLEAN :
       /\ torn => k < Cardinality(recording[rec[p]][s])
       /\ k > file[s].size \/ (torn /\ ~file[s].torn)
       /\ Put(s, Content(rec[p], k, torn))
  /\ UNCHANGED <<recorderVars, recording, whole, steady, alone, overlapped, procVars,
                 captures, verifies, faults>>

\* The staged streams were merged to the end, without a break in the sequence;
\* the rest is flushed.
FlushStdout(p) ==
  /\ pc[p] = "write"
  /\ \/ /\ InSequence(recording[rec[p]]["stdout"], recording[rec[p]]["stderr"])
        /\ Put("stdout", AllOf(rec[p], "stdout"))
        /\ Goto(p, "flushStderr")
        /\ UNCHANGED <<doing, rec, seen, at, steady>>
     \/ /\ ~InSequence(recording[rec[p]]["stdout"], recording[rec[p]]["stderr"])
        /\ End(p) /\ UNCHANGED file
  /\ UNCHANGED <<recorderVars, recording, whole, alone, overlapped, captures, verifies, faults>>

\* Mutant: what is buffered is not flushed before the file is read again.
FlushStderrLater(p) ==
  /\ pc[p] = "flushStderr"
  /\ Goto(p, "reopen")
  /\ UNCHANGED <<recorderVars, file, recording, whole, steady, alone, overlapped, doing, rec,
                 seen, at, captures, verifies, faults>>

FlushStderr(p) ==
  /\ pc[p] = "flushStderr"
  /\ Put("stderr", AllOf(rec[p], "stderr"))
  /\ Goto(p, "reopen")
  /\ UNCHANGED <<recorderVars, recording, whole, steady, alone, overlapped, doing, rec, seen, at,
                 captures, verifies, faults>>

\* Mutant: the last expectation is forgotten.
PromoteButTheLast(p) ==
  /\ pc[p] = "promote"
  /\ Put(Expected[at[p] + 1], Replayed(rec[p], seen[p]))
  /\ at' = [at EXCEPT ![p] = @ + 1]
  /\ Goto(p, IF at[p] + 2 = Len(Expected) THEN "stat" ELSE "promote")
  /\ UNCHANGED <<recorderVars, recording, whole, steady, alone, overlapped, doing, rec, seen,
                 captures, verifies, faults>>

\* The next expectation is renamed into place; all of them were replayed, closed
\* and synced before the first.
Promote(p) ==
  /\ pc[p] = "promote"
  /\ Put(Expected[at[p] + 1], Replayed(rec[p], seen[p]))
  /\ at' = [at EXCEPT ![p] = @ + 1]
  /\ Goto(p, IF at[p] + 1 = Len(Expected) THEN "stat" ELSE "promote")
  /\ UNCHANGED <<recorderVars, recording, whole, steady, alone, overlapped, doing, rec, seen,
                 captures, verifies, faults>>

\* The dispatch is written, a file that nothing reads, and the output is there:
\* the capture has succeeded.
Succeed(p) ==
  /\ pc[p] = "stat" /\ file[Head(Expected)] # NoFile
  /\ whole' = IF p \in alone THEN rec[p] ELSE whole
  /\ End(p)
  /\ UNCHANGED <<recorderVars, file, recording, alone, overlapped, captures, verifies, faults>>

-----------------------------------------------------------------------------
(* A verification.                                                         *)

StartVerify(p) ==
  /\ pc[p] = "idle" /\ verifies < MaxVerifies
  /\ verifies' = verifies + 1
  /\ Goto(p, "load")
  /\ steady' = IF whole # 0 THEN steady \cup {p} ELSE steady
  /\ UNCHANGED <<recorderVars, file, recording, whole, alone, overlapped, doing, rec, seen, at,
                 captures, faults>>

\* command.yaml has to be readable, and one of the streams or the output be there.
LoadFixture(p) ==
  /\ pc[p] = "load"
  /\ LET command == file["command"]
         found == \E f \in Streams \cup {Head(Expected)} : file[f] # NoFile
     IN
     \/ /\ (command.size = 1 \/ command.torn) /\ found
        /\ rec' = [rec EXCEPT ![p] = command.rec]
        /\ Goto(p, "reopen")
        /\ UNCHANGED <<doing, seen, at, steady>>
     \/ (command.size = 0 \/ ~found) /\ End(p)
  /\ UNCHANGED <<recorderVars, file, recording, whole, alone, overlapped, captures, verifies, faults>>

\* The outputs of the verification are written; nothing reads them.
Report(p) ==
  /\ pc[p] = "report"
  /\ End(p)
  /\ UNCHANGED <<recorderVars, file, recording, whole, alone, overlapped, captures, verifies, faults>>

\* A step fails, or the process is killed.  command.yaml, written in place, may
\* be left empty or cut; streams are as the last Spill left them, expectations as
\* they were.
Breaks(p) ==
  /\ pc[p] \notin {"idle", "record"} /\ Fault
  /\ \/ UNCHANGED <<file, recording, whole, alone, overlapped>>
     \/ /\ pc[p] = "command" /\ BeginWriting(p)
        /\ \E torn \in BOOLEAN : Put("command", Content(Len(recording) + 1, 0, torn))
  /\ EndWith(p, IF recording' = recording THEN steady \ {p} ELSE {})
  /\ IF p \in recorder THEN Discard ELSE UNCHANGED <<recorder, child, cause, sequence, staged, lost, printed>>
  /\ UNCHANGED <<unread, hand, captures, verifies>>

CaptureStep(p) ==
  \/ StartCapture(p) \/ Finish(p) \/ WriteCommand(p) \/ OpenStdout(p) \/ OpenStderr(p)
  \/ (\E s \in Streams : Spill(p, s)) \/ FlushStdout(p) \/ FlushStderr(p)
  \/ Promote(p) \/ Succeed(p)
VerifyStep(p) == StartVerify(p) \/ LoadFixture(p) \/ Report(p)
RecordStep == ChildExits \/ Interrupt \/ \E s \in Streams : Prints(s) \/ ReadFirst(s) \/ DrawAndStage(s)

Next ==
  \/ RecordStep
  \/ \E p \in Procs :
       CaptureStep(p) \/ VerifyStep(p) \/ ReadStdout(p) \/ ReadStderr(p) \/ Breaks(p)

Spec == Init /\ [][Next]_vars

-----------------------------------------------------------------------------
(* Properties.                                                             *)

\* Whatever the order in which the two readers run, the events of a recording
\* are numbered without a gap and without a number twice, in each stream as they
\* were printed, no record is missing, and an event that was staged before
\* another one was printed comes first.
NumberOf(record) ==
  CHOOSE n \in 0..sequence : \E s \in Streams :
    \E i \in DOMAIN staged[s] : staged[s][i] = [seq |-> n, record |-> record]
RecordingIsOrdered ==
  Drained /\ ~lost =>
    /\ InSequence(Events["stdout"], Events["stderr"])
    /\ StagedRecords = DOMAIN printed
    /\ \A j \in DOMAIN printed :
         /\ \A i \in printed[j].after : NumberOf(i) < NumberOf(j)
         /\ \A i \in 1..(j - 1) : printed[i].stream = printed[j].stream =>
              NumberOf(i) < NumberOf(j)

\* Unless two captures write one fixture at a time: whatever fails and whoever
\* is killed, a file is never from a later recording than those that are written
\* before it, and an expectation that is as new as the streams was replayed from
\* all of them.
WriteOrder == <<"command", "stdout", "stderr">> \o Expected
OldestLast ==
  ~overlapped =>
    /\ \A i, j \in DOMAIN WriteOrder : i < j =>
         file[WriteOrder[i]].rec >= file[WriteOrder[j]].rec
    /\ \A f \in ToSet(Expected) : file[f].rec # 0 =>
         /\ file[f].from = StreamsOf(file[f].rec)
         /\ file[f].rec = file["stdout"].rec =>
              file[f].from = <<file["stdout"], file["stderr"]>>

\* A capture that has succeeded with no other one writing beside it has left a
\* fixture of its own recording, whatever was there before; and until the next
\* capture writes, what a verification accepts is that recording, all of it.
WholeFixture ==
  /\ whole # 0 =>
       /\ file["command"] = Content(whole, 1, FALSE)
       /\ <<file["stdout"], file["stderr"]>> = StreamsOf(whole)
       /\ \A f \in ToSet(Expected) : file[f] = Replayed(whole, StreamsOf(whole))
  /\ \A p \in steady : pc[p] = "report" =>
       rec[p] = whole /\ seen[p] = StreamsOf(whole)
=============================================================================
