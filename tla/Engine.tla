------------------------------- MODULE Engine -------------------------------
(***************************************************************************)
(* The ordered stdout/stderr engine (internal/engine/engine.go and         *)
(* buffer.go) driving one filter case.  Every method of engine.State holds *)
(* its mutex from beginning to end, so each call is one step.              *)
(*                                                                         *)
(* The lists of the code are sets here.  rawEntries is only appended to in *)
(* sequence order and every list the engine returns is sorted by sequence, *)
(* which no two entries of a list share; for one stream the OrderedBuffer  *)
(* is in sequence order too, and entries are removed from its end one      *)
(* stream at a time.  The order of a returned set is that of its sequence  *)
(* numbers.                                                                *)
(***************************************************************************)
EXTENDS Filter

CONSTANTS
  Sizes,        (* lengths of the lines a command prints                    *)
  BufferLimit,  (* CandidateBufferLimit; 0 switches the limit off           *)
  ExitCodes     (* exit codes of the command                                *)

ASSUME EngineAssumption ==
  /\ Sizes \subseteq Nat \ {0}
  /\ BufferLimit \in Nat
  /\ ExitCodes \subseteq Nat

VARIABLES
  raw,          (* rawEntries: the retained lines as they were printed      *)
  buffer,       (* the OrderedBuffer: the retained lines as filtered        *)
  rawBytes,     (* bytes of raw                                             *)
  held,         (* per stream, the bytes of buffer (summed up by            *)
                (* transformedBytes in the code)                            *)
  next,         (* the next sequence number                                 *)
  passthrough,  (* filtering has been given up                              *)
  recovery,     (* copy of raw taken when the command exits                 *)
  exited,       (* Exit was called                                          *)
  exitCode,
  returned,     (* per caller, the entries its last call returned           *)
  (* History, read by no action. *)
  received,     (* every line, as it was printed                            *)
  released,     (* every entry returned so far                              *)
  kept          (* lines for which the filter answered keep                 *)

bufferVars  == <<raw, buffer, rawBytes, held>>
historyVars == <<received, released, kept>>
engineVars  == <<filterVars, bufferVars, next, passthrough, recovery, exited,
                 exitCode, returned, historyVars>>

Callers == Streams \union {"main"}

Text  == [size : Nat, shows : SUBSET Nat, exact : SUBSET Nat,
          adds : SUBSET {"omitted", "footer"}]
Entry == [seq : Nat, stream : Streams, text : Text]

Line(n, s, size) ==
  [seq |-> n, stream |-> s,
   text |-> [size |-> size, shows |-> {n}, exact |-> {n}, adds |-> {}]]

EngineInit ==
  /\ FilterInit
  /\ raw = {} /\ buffer = {} /\ recovery = {}
  /\ rawBytes = 0 /\ next = 0 /\ exitCode = 0
  /\ held = [s \in Streams |-> 0]
  /\ passthrough = FALSE /\ exited = FALSE
  /\ returned = [c \in Callers |-> {}]
  /\ received = {} /\ released = {} /\ kept = {}

Return(caller, entries) ==
  /\ returned' = [returned EXCEPT ![caller] = entries]
  /\ released' = released \union entries

-----------------------------------------------------------------------------
(* Stdout and Stderr: applyStream, one action per way through it. *)

Take(s, size) ==
  /\ next' = next + 1
  /\ received' = received \union {Line(next, s, size)}
  /\ UNCHANGED <<recovery, exited, exitCode>>

OverLimit(size) == BufferLimit > 0 /\ rawBytes + size > BufferLimit

(* Filtering was given up: the line goes straight back to the caller. *)
PassLine(s, size) ==
  /\ passthrough
  /\ Take(s, size)
  /\ Return(s, {Line(next, s, size)})
  /\ UNCHANGED <<filterVars, bufferVars, passthrough, kept>>

(* Mutant: the retained lines go back as filtered. *)
OverflowFiltered(s, size) ==
  /\ ~passthrough /\ OverLimit(size)
  /\ Take(s, size)
  /\ passthrough' = TRUE
  /\ raw' = {} /\ buffer' = {}
  /\ held' = [t \in Streams |-> 0]
  /\ rawBytes' = rawBytes + size
  /\ Return(s, buffer \union {Line(next, s, size)})
  /\ UNCHANGED <<filterVars, kept>>

(* The line does not fit: everything retained goes back to its caller. *)
Overflow(s, size) ==
  /\ ~passthrough /\ OverLimit(size)
  /\ Take(s, size)
  /\ passthrough' = TRUE
  /\ raw' = {} /\ buffer' = {}
  /\ held' = [t \in Streams |-> 0]
  /\ rawBytes' = rawBytes + size
  /\ Return(s, raw \union {Line(next, s, size)})
  /\ UNCHANGED <<filterVars, kept>>

(* Mutant: the emitted line stays in rawEntries. *)
EmitLineStillRaw(s, size) ==
  /\ ~passthrough /\ ~OverLimit(size) /\ ~Filtered(s)
  /\ Take(s, size)
  /\ raw' = raw \union {Line(next, s, size)}
  /\ rawBytes' = rawBytes + size
  /\ Return(s, {Line(next, s, size)})
  /\ UNCHANGED <<filterVars, buffer, held, passthrough, kept>>

(* No scope owns the stream: the line is emitted, not retained. *)
EmitLine(s, size) ==
  /\ ~passthrough /\ ~OverLimit(size) /\ ~Filtered(s)
  /\ Take(s, size)
  /\ Return(s, {Line(next, s, size)})
  /\ UNCHANGED <<filterVars, bufferVars, passthrough, kept>>

Retain(s, size, rule) ==
  /\ ~passthrough /\ ~OverLimit(size) /\ Filtered(s) /\ MayMatch(ScopeOf(s), rule)
  /\ Take(s, size)
  /\ raw' = raw \union {Line(next, s, size)}
  /\ rawBytes' = rawBytes + size
  /\ Return(s, {})
  /\ UNCHANGED passthrough

BufferedCount(s) == Cardinality({e \in buffer : e.stream = s})

(* Mutant: an ignored line is not kept for recovery. *)
IgnoreLineForgets(s, size, rule) ==
  /\ ~passthrough /\ ~OverLimit(size) /\ Filtered(s) /\ MayMatch(ScopeOf(s), rule)
  /\ Take(s, size)
  /\ Return(s, {})
  /\ Ignores(ScopeOf(s), rule, BufferedCount(s))
  /\ NoteIgnored(ScopeOf(s), rule, next)
  /\ UNCHANGED <<bufferVars, passthrough, kept>>

IgnoreLine(s, size, rule) ==
  /\ Retain(s, size, rule)
  /\ Ignores(ScopeOf(s), rule, BufferedCount(s))
  /\ NoteIgnored(ScopeOf(s), rule, next)
  /\ UNCHANGED <<buffer, held, kept>>

AddAt(entry) ==
  /\ buffer' = buffer \union {entry}
  /\ held' = [held EXCEPT ![entry.stream] = @ + entry.text.size]

KeepLine(s, size, rule) ==
  /\ Retain(s, size, rule)
  /\ ~Ignores(ScopeOf(s), rule, BufferedCount(s)) /\ rule # "replace"
  /\ AddAt(Line(next, s, size))
  /\ kept' = kept \union {next}
  /\ UNCHANGED filterVars

(* A replacement adds the line, takes it out again and adds the new text   *)
(* at its sequence number; an empty text adds nothing.                     *)
ReplaceLine(s, size, newSize) ==
  /\ Retain(s, size, "replace")
  /\ ~Ignores(ScopeOf(s), "replace", BufferedCount(s))
  /\ IF newSize = 0 THEN UNCHANGED <<buffer, held>>
     ELSE AddAt([seq |-> next, stream |-> s,
                 text |-> [size |-> newSize, shows |-> {next}, exact |-> {}, adds |-> {}]])
  /\ UNCHANGED <<filterVars, kept>>

Consume(s, size) ==
  \/ PassLine(s, size)
  \/ Overflow(s, size)
  \/ EmitLine(s, size)
  \/ \E rule \in Rules : IgnoreLine(s, size, rule) \/ KeepLine(s, size, rule)
  \/ \E newSize \in Sizes \union {0} : ReplaceLine(s, size, newSize)

-----------------------------------------------------------------------------
(* Exit: exitActions, applyExitActions and finalizeExitEntries. *)

(* Mutant: a split scope takes the entries of both streams. *)
EntriesOfBoth(c) == {e \in buffer : c \in Scopes}

EntriesOf(c) == IF c = "combined" THEN buffer ELSE {e \in buffer : e.stream = c}
HeldBytes(c) == IF c = "combined" THEN held["stdout"] + held["stderr"] ELSE held[c]

Buffered(c) ==
  [size  |-> HeldBytes(c),
   shows |-> UNION {e.text.shows : e \in EntriesOf(c)},
   exact |-> UNION {e.text.exact : e \in EntriesOf(c)},
   adds  |-> UNION {e.text.adds : e \in EntriesOf(c)}]

ExitTexts(c, code) == ScopeTexts(c, Buffered(c), code)

(* The new text takes the place of the first entry it replaces, or a fresh *)
(* sequence number when there is none.                                     *)
PlaceOf(entries, fresh) ==
  IF entries = {} THEN fresh
  ELSE LET seqs == {e.seq : e \in entries}
       IN  CHOOSE n \in seqs : \A m \in seqs : n <= m

Fresh(entries) == IF entries = {} THEN 1 ELSE 0

(* An empty text leaves the buffer as it is. *)
Replacement(s, entries, text, fresh) ==
  IF text.size = 0 THEN entries
  ELSE {[seq |-> PlaceOf(entries, fresh), stream |-> s, text |-> text]}

Close(code) ==
  /\ exited' = TRUE
  /\ exitCode' = code
  /\ UNCHANGED <<filterVars, received, kept>>

(* Mutant: the filtered lines come along. *)
GiveUpTwice ==
  /\ passthrough' = TRUE
  /\ raw' = {}
  /\ Return("main", raw \union buffer)

(* Give the raw lines back. *)
GiveUp ==
  /\ passthrough' = TRUE
  /\ raw' = {}
  /\ Return("main", raw)

(* total is the size of entries; a text as long as the raw one is dropped  *)
(* in favour of the raw one.                                               *)
Finalize(entries, total) ==
  /\ \/ /\ rawBytes > 0 /\ total >= rawBytes
        /\ GiveUp
     \/ /\ ~(rawBytes > 0 /\ total >= rawBytes)
        /\ raw' = {}
        /\ Return("main", entries)
        /\ UNCHANGED passthrough
  /\ buffer' = {}
  /\ held' = [s \in Streams |-> 0]
  /\ UNCHANGED rawBytes

(* Mutant: the footer is printed even though filtering was given up. *)
ExitPassthroughPrints(code) ==
  /\ passthrough
  /\ Close(code)
  /\ Return("main", Replacement("stdout", {}, WithFooter(Buffered("stdout"), code), next))
  /\ UNCHANGED <<bufferVars, next, passthrough, recovery>>

(* Filtering was given up before: everything is out. *)
ExitPassthrough(code) ==
  /\ passthrough
  /\ Close(code)
  /\ Return("main", {})
  /\ UNCHANGED <<bufferVars, next, passthrough, recovery>>

(* A passthrough case.  An invocation no case matches behaves like a case  *)
(* without scopes and without footer.                                      *)
ExitNative(code) ==
  /\ ~passthrough /\ activeCase.passthrough
  /\ Close(code)
  /\ recovery' = raw
  /\ Finalize(buffer, HeldBytes("combined"))
  /\ UNCHANGED next

(* A case without scopes: only the footer, on stdout. *)
ExitUnscoped(code) ==
  /\ ~passthrough /\ ~activeCase.passthrough /\ ScopeNames = {}
  /\ Close(code)
  /\ recovery' = raw
  /\ LET text == WithFooter(Buffered("stdout"), code)
     IN  /\ Finalize(Replacement("stdout", buffer, text, next), text.size)
         /\ next' = next + (IF text.size = 0 THEN 0 ELSE Fresh(buffer))

BufferedStreams == {e.stream : e \in buffer}

(* A combined scope whose text did not change keeps the buffer. *)
ExitCombinedKeep(code) ==
  /\ ~passthrough /\ "combined" \in ScopeNames
  /\ Close(code)
  /\ Buffered("combined") \in ExitTexts("combined", code)
  /\ recovery' = raw
  /\ Finalize(buffer, HeldBytes("combined"))
  /\ UNCHANGED next

(* A changed text goes to the only stream of the retained entries. *)
ExitCombinedReplace(code) ==
  /\ ~passthrough /\ "combined" \in ScopeNames
  /\ Close(code)
  /\ recovery' = raw
  /\ BufferedStreams # Streams
  /\ \E text \in ExitTexts("combined", code) \ {Buffered("combined")} :
       /\ Finalize(Replacement(IF BufferedStreams = {"stderr"} THEN "stderr" ELSE "stdout",
                               buffer, text, next), text.size)
       /\ next' = next + Fresh(buffer)

(* Entries of both streams: the changed text has no stream to go to. *)
ExitCombinedUnsafe(code) ==
  /\ ~passthrough /\ "combined" \in ScopeNames
  /\ Close(code)
  /\ recovery' = raw
  /\ BufferedStreams = Streams
  /\ ExitTexts("combined", code) \ {Buffered("combined")} # {}
  /\ GiveUp
  /\ UNCHANGED <<buffer, held, rawBytes, next>>

(* Split scopes: one replacement per scope, stdout first. *)
ExitSplit(code) ==
  /\ ~passthrough /\ ScopeNames # {} /\ ScopeNames \subseteq Streams
  /\ Close(code)
  /\ recovery' = raw
  /\ \E out \in IF "stdout" \in ScopeNames THEN ExitTexts("stdout", code)
                                           ELSE {Buffered("stdout")},
        err \in IF "stderr" \in ScopeNames THEN ExitTexts("stderr", code)
                                           ELSE {Buffered("stderr")} :
       LET outs  == EntriesOf("stdout")
           errs  == EntriesOf("stderr")
           after == next + (IF out.size = 0 THEN 0 ELSE Fresh(outs))
       IN  /\ Finalize(Replacement("stdout", outs, out, next)
                         \union Replacement("stderr", errs, err, after),
                       out.size + err.size)
           /\ next' = after + (IF err.size = 0 THEN 0 ELSE Fresh(errs))

Exit(code) ==
  \/ ExitPassthrough(code)
  \/ ExitNative(code)
  \/ ExitUnscoped(code)
  \/ ExitCombinedKeep(code)
  \/ ExitCombinedReplace(code)
  \/ ExitCombinedUnsafe(code)
  \/ ExitSplit(code)
-----------------------------------------------------------------------------
(* The engine alone: lines of any stream, then one call of Exit. *)

EngineNext ==
  /\ ~exited
  /\ \/ \E s \in Streams, size \in Sizes : Consume(s, size)
     \/ \E code \in ExitCodes : Exit(code)

EngineSpec == EngineInit /\ [][EngineNext]_engineVars
=============================================================================
