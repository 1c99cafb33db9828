----------------------------- MODULE Redaction -----------------------------
(***************************************************************************)
(* Confidential values in what a command prints (runner.go,                *)
(* redactingWriter and streamingReplacer; capture.go,                      *)
(* attributedCaptureReplacer and capturedEventWriter).  The output arrives *)
(* in pieces and is passed on in pieces; a value may be cut by them.       *)
(*                                                                         *)
(* A byte is a record of its character and of the number of the event it   *)
(* arrived with; where there are no events the number means nothing.       *)
(***************************************************************************)
EXTENDS Integers, Sequences, FiniteSets, SequencesExt

CONSTANTS
  Letters,    \* characters
  Secrets,    \* lists of confidential values: --confidential, in its order
  MaxText     \* bound: characters printed

Mark == <<"*", "*", "*">>

Texts(bytes) == [i \in DOMAIN bytes |-> bytes[i].char]
Bytes(text, event) == [i \in DOMAIN text |-> [char |-> text[i], event |-> event]]

-----------------------------------------------------------------------------
(* A text as a whole: an argument, or what is recorded in the audit log.   *)

Begins(text, at, old) ==
  at + Len(old) - 1 <= Len(text) /\ SubSeq(text, at, at + Len(old) - 1) = old

ReplaceValue(text, old) ==
  LET From[at \in 1..(Len(text) + 1)] ==
        IF at > Len(text) THEN <<>>
        ELSE IF Begins(text, at, old) THEN Mark \o From[at + Len(old)]
        ELSE <<text[at]>> \o From[at + 1]
  IN  From[1]

RedactConfidential(text, secrets) == FoldLeft(ReplaceValue, text, secrets)

-----------------------------------------------------------------------------
(* One stage replaces one value in the pieces it is given.  What may be the *)
(* beginning of the value is kept until more arrives or the end is known.  *)
(* A mark belongs to the event that the value began in.                    *)

Least(S) == CHOOSE n \in S : \A k \in S : n <= k

(* Consumed bytes are passed on in one piece for each event. *)
Spans(bytes) ==
  LET Extended(spans, byte) ==
        IF spans # <<>> /\ Last(Last(spans)).event = byte.event
        THEN Append(Front(spans), Append(Last(spans), byte))
        ELSE Append(spans, <<byte>>)
  IN  FoldLeft(Extended, <<>>, bytes)

(* Mutant: all is passed on at once. *)
KeepNothing(old, final) == 0

Keep(old, final) == IF final THEN 0 ELSE Len(old) - 1

(* drain: the first value that is found is replaced, what follows treated  *)
(* alike.                                                                  *)
Replaced(pending, at, first, next) ==
  [next EXCEPT !.pieces = Spans(SubSeq(pending, at, first - 1))
                            \o <<Bytes(Mark, pending[first].event)>> \o @]

PassedOn(rest, kept) ==
  [pieces  |-> Spans(SubSeq(rest, 1, Len(rest) - kept)),
   pending |-> SubSeq(rest, Len(rest) - kept + 1, Len(rest))]

Drain(pending, old, final) ==
  LET Starts(at) == {i \in at..Len(pending) : Begins(Texts(pending), i, old)}
      From[at \in 1..(Len(pending) + 1)] ==
        IF Starts(at) # {}
        THEN Replaced(pending, at, Least(Starts(at)), From[Least(Starts(at)) + Len(old)])
        ELSE PassedOn(SubSeq(pending, at, Len(pending)),
                      Least({Keep(old, final), Len(pending) - at + 1}))
  IN  From[1]

(* What a stage passes on is written to the next one, and what the last    *)
(* one passes on is left over; the stages are in the order of the values.  *)
Passing(stage, drained) ==
  [pieces |-> stage.pieces \o drained.pieces, pending |-> drained.pending]

WriteTo(i, secrets, stages, pieces) ==
  FoldLeft(LAMBDA stage, piece : Passing(stage, Drain(stage.pending \o piece, secrets[i], FALSE)),
           [pieces |-> <<>>, pending |-> stages[i]], pieces)

Staged(stages, i, written) ==
  [stages |-> [stages EXCEPT ![i] = written.pending], pieces |-> written.pieces]

Through(first, secrets, stages, pieces) ==
  FoldLeft(LAMBDA state, i :
             Staged(state.stages, i, WriteTo(i, secrets, state.stages, state.pieces)),
           [stages |-> stages, pieces |-> pieces],
           [n \in 1..(Len(secrets) - first + 1) |-> first + n - 1])

(* At the end each stage passes on what it has kept, the first one first.  *)
Joining(state, passed) ==
  [stages |-> passed.stages, pieces |-> state.pieces \o passed.pieces]

Flushed(i, secrets, stages) ==
  Through(i + 1, secrets, [stages EXCEPT ![i] = <<>>], Drain(stages[i], secrets[i], TRUE).pieces)

FlushStages(secrets, start) ==
  FoldLeft(LAMBDA state, i : Joining(state, Flushed(i, secrets, state.stages)),
           start, [i \in DOMAIN secrets |-> i])

Unused(secrets) == [i \in DOMAIN secrets |-> <<>>]

(* What `--raw` and a filtered run with confidential values print of the   *)
(* pieces that they write.                                                 *)
Redacted(pieces, secrets) ==
  LET Copied(state, piece) ==
        Joining(state, Through(1, secrets, state.stages, <<Bytes(piece, 0)>>))
      Start == [stages |-> Unused(secrets), pieces |-> <<>>]
  IN  Texts(FlattenSeq(FlushStages(secrets, FoldLeft(Copied, Start, pieces)).pieces))

-----------------------------------------------------------------------------
(* A capture redacts the events of both streams in their order, as one     *)
(* text, and writes as many events as it has read.                         *)

Writer == [pending |-> <<>>, written |-> <<>>, failed |-> FALSE]

Register(writer, event) ==
  [writer EXCEPT !.pending = Append(@, [event |-> event, text |-> <<>>])]

FlushBefore(writer, event) ==
  LET earlier == Cardinality({i \in DOMAIN writer.pending : writer.pending[i].event < event})
  IN  [writer EXCEPT !.written = @ \o SubSeq(writer.pending, 1, earlier),
                     !.pending = SubSeq(@, earlier + 1, Len(@))]

WriteAttributed(writer, piece) ==
  LET flushed == FlushBefore(writer, piece[1].event)
  IN  IF flushed.pending = <<>> \/ flushed.pending[1].event # piece[1].event
      THEN [flushed EXCEPT !.failed = TRUE]
      ELSE [flushed EXCEPT !.pending[1].text = @ \o Texts(piece)]

Wrote(writer, passed) ==
  [stages |-> passed.stages, writer |-> FoldLeft(WriteAttributed, writer, passed.pieces)]

(* Flush writes what is left of the events. *)
Ended(writer) == [writer EXCEPT !.written = @ \o writer.pending, !.pending = <<>>]

WriteCapturedStreams(pieces, secrets) ==
  LET Read(state, n) ==
        Wrote(Register(state.writer, n), Through(1, secrets, state.stages, <<Bytes(pieces[n], n)>>))
      Flush(read) ==
        Wrote(read.writer, FlushStages(secrets, [stages |-> read.stages, pieces |-> <<>>]))
  IN  Ended(Flush(FoldLeft(Read, [stages |-> Unused(secrets), writer |-> Writer],
                           [n \in DOMAIN pieces |-> n])).writer)

-----------------------------------------------------------------------------
(* What is printed, in pieces of any sizes. *)
Cut(text, ends) ==
  LET places == SetToSortSeq(ends \union {Len(text)}, <)
  IN  [n \in DOMAIN places |->
         SubSeq(text, IF n = 1 THEN 1 ELSE places[n - 1] + 1, places[n])]

Printed ==
  UNION {{Cut(text, ends) : ends \in SUBSET (1..(Len(text) - 1))} :
           text \in BoundedSeq(Letters, MaxText) \ {<<>>}}

Complete(captured, pieces, whole) ==
  /\ ~captured.failed
  /\ [n \in DOMAIN captured.written |-> captured.written[n].event] = [n \in DOMAIN pieces |-> n]
  /\ FlattenSeq([n \in DOMAIN captured.written |-> captured.written[n].text]) = whole

(* However the output is cut into pieces, what is passed on is what        *)
(* replacing the values one after the other in the whole text would give,  *)
(* nothing is kept back, and a capture writes the events it has read, each *)
(* once and in their order.                                                *)
CutsDoNotMatter ==
  \A pieces \in Printed, secrets \in Secrets :
    LET whole == RedactConfidential(FlattenSeq(pieces), secrets)
    IN  /\ Redacted(pieces, secrets) = whole
        /\ Complete(WriteCapturedStreams(pieces, secrets), pieces, whole)
=============================================================================
