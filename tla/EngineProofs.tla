---------------------------- MODULE EngineProofs ----------------------------
(***************************************************************************)
(* Theorems about the ordered engine, for every set of cases, every limit  *)
(* and any number of lines.                                                *)
(***************************************************************************)
EXTENDS EngineProperties, FiniteSetTheorems, TLAPS

-----------------------------------------------------------------------------
(* A non-empty set of naturals has a least element.                        *)
LEMMA LeastNat ==
  ASSUME NEW T \in SUBSET Nat, T # {}
  PROVE  \E n \in T : \A m \in T : n <= m
<1> DEFINE R == OpToRel(<, Nat)
<1>1. ASSUME NEW m \in Nat, NEW n \in Nat, ~(<<m, n>> \in R) PROVE n <= m
  BY <1>1 DEF OpToRel
<1>2. IsWellFoundedOn(R, Nat)
  BY NatLessThanWellFounded
<1> HIDE DEF R
<1>3. PICK n \in T : \A m \in T : ~(<<m, n>> \in R)
  BY <1>2, WFMin
<1>4. \A m \in T : n <= m
  BY <1>1, <1>3
<1> QED
  BY <1>4

-----------------------------------------------------------------------------
(* Values *)

LEMMA LineType ==
  ASSUME NEW n \in Nat, NEW s \in Streams, NEW size \in Nat
  PROVE  Line(n, s, size) \in Entry /\ Line(n, s, size).seq = n
BY DEF Line, Entry, Text

LEMMA PlaceType ==
  ASSUME NEW entries \in SUBSET Entry, NEW fresh \in Nat
  PROVE  PlaceOf(entries, fresh) \in Nat
<1>1. CASE entries = {}
  BY <1>1 DEF PlaceOf
<1>2. CASE entries # {}
  <2> DEFINE seqs == {e.seq : e \in entries}
  <2>1. seqs \in SUBSET Nat /\ seqs # {}
    BY <1>2 DEF Entry
  <2> HIDE DEF seqs
  <2>2. \E n \in seqs : \A m \in seqs : n <= m
    BY <2>1, LeastNat
  <2>3. (CHOOSE n \in seqs : \A m \in seqs : n <= m) \in seqs
    BY <2>2
  <2> QED
    BY <1>2, <2>1, <2>3 DEF PlaceOf, seqs
<1> QED
  BY <1>1, <1>2

LEMMA ReplacementType ==
  ASSUME NEW s \in Streams, NEW entries \in SUBSET Entry, NEW text \in Text, NEW fresh \in Nat
  PROVE  Replacement(s, entries, text, fresh) \in SUBSET Entry
BY PlaceType DEF Replacement, Entry
-----------------------------------------------------------------------------
(* The texts of the exit *)

LEMMA BufferedType ==
  ASSUME buffer \in SUBSET Entry, held \in [Streams -> Nat], NEW c \in Scopes
  PROVE  Buffered(c) \in Text
<1>1. EntriesOf(c) \in SUBSET Entry
  BY DEF EntriesOf
<1>2. HeldBytes(c) \in Nat
  <2>1. CASE c = "combined"
    BY <2>1 DEF HeldBytes, Streams
  <2>2. CASE c # "combined"
    BY <2>2 DEF HeldBytes, Streams, Scopes
  <2> QED
    BY <2>1, <2>2
<1>3. \A e \in EntriesOf(c) : e.text \in Text
  BY <1>1 DEF Entry
<1>4. /\ UNION {e.text.shows : e \in EntriesOf(c)} \in SUBSET Nat
      /\ UNION {e.text.exact : e \in EntriesOf(c)} \in SUBSET Nat
      /\ UNION {e.text.adds : e \in EntriesOf(c)} \in SUBSET {"omitted", "footer"}
  BY <1>3 DEF Text
<1> QED
  BY <1>2, <1>4 DEF Buffered, Text

LEMMA FooterType ==
  ASSUME activeCase \in Cases, NEW text \in Text, NEW code \in Nat
  PROVE  WithFooter(text, code) \in Text
<1>1. activeCase.footer \in Nat
  BY FilterAssumption
<1> QED
  BY <1>1 DEF WithFooter, Adding, Text

LEMMA ScopeNamesType ==
  ASSUME activeCase \in Cases
  PROVE  ScopeNames \in Routings /\ ScopeNames \subseteq Scopes
BY FilterAssumption DEF ScopeNames, Routings, Scopes, Streams

LEMMA ScopeTextsType ==
  ASSUME FilterTypeOK, NEW c \in ScopeNames, NEW text \in Text, NEW code \in Nat
  PROVE  ScopeTexts(c, text, code) \in SUBSET Text
<1>1. c \in Scopes /\ activeCase \in Cases
  BY ScopeNamesType DEF FilterTypeOK
<1>2. activeCase.scope[c].print \in Nat
  BY <1>1, FilterAssumption DEF ScopeNames, Scope
<1>3. WithOmitted(c, text) \in Text
  BY <1>2 DEF WithOmitted, Adding, Text
<1>4. GroupTexts(c) \in SUBSET Text
  BY <1>1, FilterAssumption DEF GroupTexts, FilterTypeOK, Text
<1> QED
  BY <1>1, <1>3, <1>4, FooterType DEF ScopeTexts
-----------------------------------------------------------------------------
(* Type correctness *)

LEMMA ReturnType ==
  ASSUME EngineTypeOK, NEW caller \in Callers, NEW entries \in SUBSET Entry,
         Return(caller, entries)
  PROVE  returned' \in [Callers -> SUBSET Entry] /\ released' \in SUBSET Entry
BY DEF EngineTypeOK, Return

LEMMA FinalizeType ==
  ASSUME EngineTypeOK, NEW entries \in SUBSET Entry, NEW total, Finalize(entries, total)
  PROVE  /\ raw' \in SUBSET Entry /\ buffer' \in SUBSET Entry
         /\ rawBytes' \in Nat /\ held' \in [Streams -> Nat] /\ passthrough' \in BOOLEAN
         /\ returned' \in [Callers -> SUBSET Entry] /\ released' \in SUBSET Entry
<1>1. "main" \in Callers /\ raw \in SUBSET Entry
  BY DEF Callers, EngineTypeOK
<1>2. \/ Return("main", raw)
      \/ Return("main", entries)
  BY DEF Finalize, GiveUp
<1>3. returned' \in [Callers -> SUBSET Entry] /\ released' \in SUBSET Entry
  BY <1>1, <1>2, ReturnType
<1>4. passthrough' \in BOOLEAN
  BY DEF Finalize, GiveUp, EngineTypeOK
<1> QED
  BY <1>3, <1>4 DEF Finalize, GiveUp, EngineTypeOK

LEMMA ConsumeType ==
  ASSUME EngineTypeOK, NEW s \in Streams, NEW size \in Sizes, Consume(s, size)
  PROVE  EngineTypeOK'
<1> DEFINE line == Line(next, s, size)
<1>1. size \in Nat /\ next \in Nat /\ s \in Callers
  BY EngineAssumption DEF EngineTypeOK, Callers
<1>2. line \in Entry
  BY <1>1, LineType
<1> HIDE DEF line
<1>3. ASSUME Take(s, size)
      PROVE  /\ next' \in Nat /\ received' \in SUBSET Entry
             /\ recovery' \in SUBSET Entry /\ exited' \in BOOLEAN /\ exitCode' \in Nat
  BY <1>1, <1>2, <1>3 DEF Take, EngineTypeOK, line
<1>4. CASE PassLine(s, size)
  <2>1. returned' \in [Callers -> SUBSET Entry] /\ released' \in SUBSET Entry
    BY <1>1, <1>2, <1>4, ReturnType DEF PassLine, line
  <2> QED
    BY <1>3, <1>4, <2>1 DEF PassLine, EngineTypeOK, FilterTypeOK, filterVars, bufferVars
<1>5. CASE Overflow(s, size)
  <2>1. returned' \in [Callers -> SUBSET Entry] /\ released' \in SUBSET Entry
    <3>1. raw \union {line} \in SUBSET Entry
      BY <1>2 DEF EngineTypeOK
    <3> QED
      BY <1>1, <1>5, <3>1, ReturnType DEF Overflow, line
  <2> QED
    BY <1>1, <1>3, <1>5, <2>1 DEF Overflow, EngineTypeOK, FilterTypeOK, filterVars
<1>6. CASE EmitLine(s, size)
  <2>1. returned' \in [Callers -> SUBSET Entry] /\ released' \in SUBSET Entry
    BY <1>1, <1>2, <1>6, ReturnType DEF EmitLine, line
  <2> QED
    BY <1>3, <1>6, <2>1 DEF EmitLine, EngineTypeOK, FilterTypeOK, filterVars, bufferVars
<1>7. ASSUME NEW rule \in Rules, Retain(s, size, rule)
      PROVE  /\ raw' \in SUBSET Entry /\ rawBytes' \in Nat /\ passthrough' \in BOOLEAN
             /\ returned' \in [Callers -> SUBSET Entry] /\ released' \in SUBSET Entry
             /\ next' \in Nat /\ received' \in SUBSET Entry
             /\ recovery' \in SUBSET Entry /\ exited' \in BOOLEAN /\ exitCode' \in Nat
             /\ ScopeOf(s) \in Scopes
  <2>1. returned' \in [Callers -> SUBSET Entry] /\ released' \in SUBSET Entry
    BY <1>1, <1>7, ReturnType DEF Retain
  <2>2. Take(s, size) /\ ScopeOf(s) \in Scopes
    BY <1>7 DEF Retain, ScopeOf, Scopes
  <2> QED
    BY <1>1, <1>2, <1>3, <1>7, <2>1, <2>2 DEF Retain, EngineTypeOK, line
<1>8. ASSUME NEW entry \in Entry, AddAt(entry)
      PROVE  buffer' \in SUBSET Entry /\ held' \in [Streams -> Nat]
  BY <1>8 DEF AddAt, EngineTypeOK, Entry, Text
<1>9. CASE \E rule \in Rules : IgnoreLine(s, size, rule)
  <2>1. PICK rule \in Rules : IgnoreLine(s, size, rule)
    BY <1>9
  <2>2. ScopeOf(s) \in Scopes /\ NoteIgnored(ScopeOf(s), rule, next)
    BY <1>7, <2>1 DEF IgnoreLine
  <2>3. FilterTypeOK'
    BY <1>1, <2>2 DEF NoteIgnored, FilterTypeOK, EngineTypeOK
  <2> QED
    BY <1>7, <2>1, <2>3 DEF IgnoreLine, EngineTypeOK
<1>10. CASE \E rule \in Rules : KeepLine(s, size, rule)
  <2>1. PICK rule \in Rules : KeepLine(s, size, rule)
    BY <1>10
  <2>2. buffer' \in SUBSET Entry /\ held' \in [Streams -> Nat]
    BY <1>2, <1>8, <2>1 DEF KeepLine, line
  <2> QED
    BY <1>1, <1>7, <2>1, <2>2 DEF KeepLine, EngineTypeOK, FilterTypeOK, filterVars
<1>11. CASE \E newSize \in Sizes \union {0} : ReplaceLine(s, size, newSize)
  <2>1. PICK newSize \in Sizes \union {0} : ReplaceLine(s, size, newSize)
    BY <1>11
  <2>2. Retain(s, size, "replace") /\ "replace" \in Rules /\ newSize \in Nat
    BY <2>1, EngineAssumption DEF ReplaceLine, Rules
  <2>3. [seq |-> next, stream |-> s,
         text |-> [size |-> newSize, shows |-> {next}, exact |-> {}, adds |-> {}]] \in Entry
    BY <1>1, <2>2 DEF Entry, Text
  <2>4. buffer' \in SUBSET Entry /\ held' \in [Streams -> Nat]
    BY <1>8, <2>1, <2>3 DEF ReplaceLine, EngineTypeOK
  <2> QED
    BY <1>7, <2>1, <2>2, <2>4 DEF ReplaceLine, EngineTypeOK, FilterTypeOK, filterVars
<1> QED
  BY <1>4, <1>5, <1>6, <1>9, <1>10, <1>11 DEF Consume

LEMMA ExitType ==
  ASSUME EngineTypeOK, NEW code \in Nat, Exit(code)
  PROVE  EngineTypeOK'
<1>1. code \in Nat /\ activeCase \in Cases /\ next \in Nat /\ buffer \in SUBSET Entry
  BY EngineAssumption DEF EngineTypeOK, FilterTypeOK
<1>2. ASSUME Close(code)
      PROVE  /\ FilterTypeOK' /\ exited' \in BOOLEAN /\ exitCode' \in Nat
             /\ received' \in SUBSET Entry /\ kept' \in SUBSET Nat
  BY <1>1, <1>2 DEF Close, EngineTypeOK, FilterTypeOK, filterVars
<1>3. ASSUME Close(code), recovery' = raw, next' \in Nat,
             NEW entries \in SUBSET Entry, NEW total, Finalize(entries, total)
      PROVE  EngineTypeOK'
  BY <1>2, <1>3, FinalizeType DEF EngineTypeOK
<1>4. \A c \in Scopes : Buffered(c) \in Text /\ EntriesOf(c) \in SUBSET Entry
  BY BufferedType DEF EngineTypeOK, EntriesOf
<1>5. \A c \in ScopeNames : ExitTexts(c, code) \in SUBSET Text
  BY <1>1, <1>4, ScopeTextsType, ScopeNamesType DEF ExitTexts, EngineTypeOK
<1>6. \A entries : Fresh(entries) \in Nat
  BY DEF Fresh
<1>7. CASE ExitPassthrough(code)
  <2>1. returned' \in [Callers -> SUBSET Entry] /\ released' \in SUBSET Entry
    BY <1>7, ReturnType DEF ExitPassthrough, Callers
  <2> QED
    BY <1>2, <1>7, <2>1 DEF ExitPassthrough, EngineTypeOK, bufferVars
<1>8. CASE ExitNative(code)
  BY <1>1, <1>3, <1>8 DEF ExitNative
<1>9. CASE ExitUnscoped(code)
  <2> DEFINE text == WithFooter(Buffered("stdout"), code)
  <2>1. text \in Text
    BY <1>1, <1>4, FooterType DEF Scopes, Streams
  <2>2. Replacement("stdout", buffer, text, next) \in SUBSET Entry
    BY <1>1, <2>1, ReplacementType DEF Streams
  <2>3. next' \in Nat
    BY <1>1, <1>6, <1>9 DEF ExitUnscoped
  <2> QED
    BY <1>3, <1>9, <2>2, <2>3 DEF ExitUnscoped
<1>10. CASE ExitCombinedKeep(code)
  BY <1>1, <1>3, <1>10 DEF ExitCombinedKeep
<1>11. CASE ExitCombinedReplace(code)
  <2> DEFINE s == IF BufferedStreams = {"stderr"} THEN "stderr" ELSE "stdout"
  <2>1. PICK text \in ExitTexts("combined", code) :
          /\ Finalize(Replacement(s, buffer, text, next), text.size)
          /\ next' = next + Fresh(buffer)
    BY <1>11 DEF ExitCombinedReplace
  <2>2. text \in Text
    BY <1>5, <1>11 DEF ExitCombinedReplace
  <2>3. Replacement(s, buffer, text, next) \in SUBSET Entry
    BY <1>1, <2>2, ReplacementType DEF Streams
  <2>4. next' \in Nat
    BY <1>1, <1>6, <2>1
  <2> QED
    BY <1>3, <1>11, <2>1, <2>3, <2>4 DEF ExitCombinedReplace
<1>12. CASE ExitCombinedUnsafe(code)
  <2>1. returned' \in [Callers -> SUBSET Entry] /\ released' \in SUBSET Entry
    BY <1>12, ReturnType DEF ExitCombinedUnsafe, GiveUp, Callers, EngineTypeOK
  <2> QED
    BY <1>2, <1>12, <2>1 DEF ExitCombinedUnsafe, GiveUp, EngineTypeOK
<1>13. CASE ExitSplit(code)
  <2> DEFINE outs  == EntriesOf("stdout")
             errs  == EntriesOf("stderr")
             after(out) == next + (IF out.size = 0 THEN 0 ELSE Fresh(outs))
  <2>1. PICK out \in IF "stdout" \in ScopeNames THEN ExitTexts("stdout", code)
                                                ELSE {Buffered("stdout")},
             err \in IF "stderr" \in ScopeNames THEN ExitTexts("stderr", code)
                                                ELSE {Buffered("stderr")} :
          /\ Finalize(Replacement("stdout", outs, out, next)
                        \union Replacement("stderr", errs, err, after(out)),
                      out.size + err.size)
          /\ next' = after(out) + (IF err.size = 0 THEN 0 ELSE Fresh(errs))
    BY <1>13 DEF ExitSplit
  <2>2. out \in Text /\ err \in Text
    BY <1>4, <1>5 DEF Scopes, Streams
  <2>3. after(out) \in Nat /\ next' \in Nat
    BY <1>1, <1>6, <2>1
  <2>4. /\ Replacement("stdout", outs, out, next) \in SUBSET Entry
        /\ Replacement("stderr", errs, err, after(out)) \in SUBSET Entry
    BY <1>1, <1>4, <2>2, <2>3, ReplacementType DEF Scopes, Streams
  <2> QED
    BY <1>3, <1>13, <2>1, <2>3, <2>4 DEF ExitSplit
<1> QED
  BY <1>7, <1>8, <1>9, <1>10, <1>11, <1>12, <1>13 DEF Exit

LEMMA TypeStep == EngineTypeOK /\ [EngineNext]_engineVars => EngineTypeOK'
<1> SUFFICES ASSUME EngineTypeOK, [EngineNext]_engineVars PROVE EngineTypeOK'
  OBVIOUS
<1>1. CASE EngineNext
  BY <1>1, ConsumeType, ExitType, EngineAssumption DEF EngineNext
<1>2. CASE UNCHANGED engineVars
  BY <1>2 DEF engineVars, EngineTypeOK, FilterTypeOK, filterVars, bufferVars, historyVars
<1> QED
  BY <1>1, <1>2

LEMMA InitType == EngineInit => EngineTypeOK
<1> SUFFICES ASSUME EngineInit PROVE EngineTypeOK
  OBVIOUS
<1>1. hidden \in [Scopes -> Nat] /\ collected \in [Scopes -> SUBSET Nat]
  BY DEF EngineInit, FilterInit
<1>2. inSection \in [Scopes -> BOOLEAN] /\ passthrough \in BOOLEAN /\ exited \in BOOLEAN
  BY Zenon DEF EngineInit, FilterInit
<1>3. FilterTypeOK
  BY <1>1, <1>2 DEF EngineInit, FilterInit, FilterTypeOK
<1>4. held \in [Streams -> Nat] /\ returned \in [Callers -> SUBSET Entry]
  BY DEF EngineInit
<1> QED
  BY <1>2, <1>3, <1>4 DEF EngineInit, EngineTypeOK

(* Every variable keeps its type whatever the command prints and however   *)
(* the filter decides.                                                     *)
THEOREM TypeCorrect == EngineSpec => []EngineTypeOK
BY InitType, TypeStep, PTL DEF EngineSpec
-----------------------------------------------------------------------------
(* Delivery *)

(* The sequence number of the next line is new. *)
SeqsAreOld == \A l \in received : l.seq < next

DeliveryInv ==
  /\ EngineTypeOK
  /\ SeqsAreOld
  /\ NothingLost
  /\ GivingUpIsVerbatim
  /\ EverythingRecoverable
  /\ RetainedIsBounded

LEMMA SeqsStayOld ==
  ASSUME EngineTypeOK, SeqsAreOld, NEW s \in Streams, NEW size \in Sizes, Take(s, size)
  PROVE  /\ SeqsAreOld'
         /\ Line(next, s, size) \notin received
         /\ received' = received \union {Line(next, s, size)}
<1>1. size \in Nat /\ next \in Nat
  BY EngineAssumption DEF EngineTypeOK
<1>2. Line(next, s, size).seq = next
  BY <1>1, LineType
<1>3. \A l \in received : l.seq \in Nat
  BY DEF EngineTypeOK, Entry
<1> QED
  BY <1>1, <1>2, <1>3 DEF Take, SeqsAreOld

LEMMA ConsumeDelivers ==
  ASSUME DeliveryInv, ~exited, NEW s \in Streams, NEW size \in Sizes, Consume(s, size)
  PROVE  DeliveryInv'
<1> DEFINE line == Line(next, s, size)
<1>1. EngineTypeOK'
  BY ConsumeType DEF DeliveryInv
<1>2. ASSUME Take(s, size)
      PROVE  /\ SeqsAreOld' /\ line \notin received /\ received' = received \union {line}
             /\ ~exited /\ ~exited'
  BY <1>2, SeqsStayOld DEF DeliveryInv, Take
<1> HIDE DEF line
<1>3. CASE PassLine(s, size)
  <2>1. released' = received'
    BY <1>2, <1>3 DEF PassLine, Return, DeliveryInv, GivingUpIsVerbatim, line
  <2>2. passthrough' /\ ~exited /\ ~exited' /\ raw' = raw /\ buffer' = buffer
    BY <1>2, <1>3 DEF PassLine, bufferVars
  <2> QED
    BY <1>1, <1>2, <1>3, <2>1, <2>2
    DEF PassLine, DeliveryInv, NothingLost, GivingUpIsVerbatim, EverythingRecoverable,
        RetainedIsBounded
<1>4. CASE Overflow(s, size)
  <2>1. released' = received'
    BY <1>2, <1>4 DEF Overflow, Return, DeliveryInv, NothingLost, line
  <2> QED
    BY <1>1, <1>2, <1>4, <2>1
    DEF Overflow, DeliveryInv, NothingLost, GivingUpIsVerbatim, EverythingRecoverable,
        RetainedIsBounded
<1>5. CASE EmitLine(s, size)
  <2>1. raw' \union released' = received' /\ raw' \intersect released' = {}
    BY <1>2, <1>5 DEF EmitLine, Return, bufferVars, DeliveryInv, NothingLost, line
  <2>2. ~passthrough /\ ~passthrough' /\ rawBytes' = rawBytes
    BY <1>5 DEF EmitLine, bufferVars
  <2> QED
    BY <1>1, <1>2, <1>5, <2>1, <2>2
    DEF EmitLine, DeliveryInv, NothingLost, GivingUpIsVerbatim, EverythingRecoverable,
        RetainedIsBounded
<1>6. ASSUME NEW rule \in Rules, Retain(s, size, rule)
      PROVE  DeliveryInv'
  <2>1. released' = released /\ ~passthrough /\ ~passthrough' /\ raw' = raw \union {line}
    BY <1>6 DEF Retain, Return, line
  <2>2. raw' \union released' = received' /\ raw' \intersect released' = {}
    BY <1>2, <1>6, <2>1 DEF Retain, DeliveryInv, NothingLost
  <2>3. BufferLimit > 0 => rawBytes' <= BufferLimit
    <3>1. size \in Nat /\ rawBytes \in Nat /\ BufferLimit \in Nat
      BY EngineAssumption DEF DeliveryInv, EngineTypeOK
    <3> QED
      BY <1>6, <3>1 DEF Retain, OverLimit
  <2> QED
    BY <1>1, <1>2, <1>6, <2>1, <2>2, <2>3
    DEF Retain, DeliveryInv, NothingLost, GivingUpIsVerbatim, EverythingRecoverable,
        RetainedIsBounded
<1>7. CASE \E rule \in Rules : IgnoreLine(s, size, rule) \/ KeepLine(s, size, rule)
  BY <1>6, <1>7 DEF IgnoreLine, KeepLine
<1>8. CASE \E newSize \in Sizes \union {0} : ReplaceLine(s, size, newSize)
  BY <1>6, <1>8 DEF ReplaceLine, Rules
<1> QED
  BY <1>3, <1>4, <1>5, <1>7, <1>8 DEF Consume

LEMMA ExitDelivers ==
  ASSUME DeliveryInv, ~exited, NEW code \in Nat, Exit(code)
  PROVE  DeliveryInv'
<1>1. EngineTypeOK'
  BY ExitType DEF DeliveryInv
<1>2. Close(code) /\ ~exited /\ exited' /\ received' = received
  BY DEF Exit, ExitPassthrough, ExitNative, ExitUnscoped, ExitCombinedKeep,
         ExitCombinedReplace, ExitCombinedUnsafe, ExitSplit, Close
<1>3. SeqsAreOld'
  <2>1. next' \in Nat /\ next <= next'
    <3>1. \A entries : Fresh(entries) \in Nat
      BY DEF Fresh
    <3>2. next \in Nat
      BY DEF DeliveryInv, EngineTypeOK
    <3>3. CASE ExitUnscoped(code)
      BY <3>1, <3>2, <3>3 DEF ExitUnscoped
    <3>4. CASE ExitCombinedReplace(code)
      BY <3>1, <3>2, <3>4 DEF ExitCombinedReplace
    <3>5. CASE ExitSplit(code)
      <4>1. PICK a \in {0, Fresh(EntriesOf("stdout"))}, b \in {0, Fresh(EntriesOf("stderr"))} :
              next' = next + a + b
        BY <3>5 DEF ExitSplit
      <4> QED
        BY <3>1, <3>2, <4>1
    <3>6. CASE UNCHANGED next
      BY <3>2, <3>6
    <3> QED
      BY <3>3, <3>4, <3>5, <3>6 DEF Exit, ExitPassthrough, ExitNative, ExitCombinedKeep,
                                    ExitCombinedUnsafe
  <2> QED
    BY <1>2, <2>1 DEF DeliveryInv, SeqsAreOld, EngineTypeOK, Entry
<1>4. CASE ExitPassthrough(code)
  BY <1>1, <1>2, <1>3, <1>4
  DEF ExitPassthrough, Return, DeliveryInv, NothingLost, GivingUpIsVerbatim,
      EverythingRecoverable, RetainedIsBounded
<1>5. CASE ~ExitPassthrough(code)
  <2>1. ~passthrough /\ recovery' = raw /\ rawBytes' = rawBytes
    BY <1>5 DEF Exit, ExitNative, ExitUnscoped, ExitCombinedKeep, ExitCombinedReplace,
                ExitCombinedUnsafe, ExitSplit, Finalize
  <2>2. raw \union released = received
    BY <1>2, <2>1 DEF DeliveryInv, NothingLost
  <2>3. released \subseteq released' /\ (passthrough' => released' = released \union raw)
    BY <1>5, <2>1 DEF Exit, ExitNative, ExitUnscoped, ExitCombinedKeep, ExitCombinedReplace,
                ExitCombinedUnsafe, ExitSplit, Finalize, GiveUp, Return
  <2> QED
    BY <1>1, <1>2, <1>3, <2>1, <2>2, <2>3
    DEF DeliveryInv, NothingLost, GivingUpIsVerbatim, EverythingRecoverable,
        RetainedIsBounded
<1> QED
  BY <1>4, <1>5

LEMMA DeliveryStep == DeliveryInv /\ [EngineNext]_engineVars => DeliveryInv'
<1> SUFFICES ASSUME DeliveryInv, [EngineNext]_engineVars PROVE DeliveryInv'
  OBVIOUS
<1>1. CASE EngineNext
  BY <1>1, ConsumeDelivers, ExitDelivers, EngineAssumption DEF EngineNext
<1>2. CASE UNCHANGED engineVars
  <2>1. EngineTypeOK'
    BY <1>2, TypeStep DEF DeliveryInv
  <2> QED
    BY <1>2, <2>1 DEF engineVars, bufferVars, historyVars, DeliveryInv, SeqsAreOld,
       NothingLost, GivingUpIsVerbatim, EverythingRecoverable, RetainedIsBounded
<1> QED
  BY <1>1, <1>2

LEMMA InitDelivers == EngineInit => DeliveryInv
<1> SUFFICES ASSUME EngineInit PROVE DeliveryInv
  OBVIOUS
<1>1. EngineTypeOK
  BY InitType
<1> QED
  BY <1>1, EngineAssumption
  DEF EngineInit, DeliveryInv, SeqsAreOld, NothingLost, GivingUpIsVerbatim,
      EverythingRecoverable, RetainedIsBounded

LEMMA Delivers == EngineSpec => []DeliveryInv
BY InitDelivers, DeliveryStep, PTL DEF EngineSpec

(* While filtering goes on each line the engine was given was handed back  *)
(* or is still held verbatim, and not both.                                *)
THEOREM NothingIsLost == EngineSpec => []NothingLost
BY Delivers, PTL DEF DeliveryInv

(* Giving up, for whatever reason, hands back exactly what was printed.    *)
THEOREM GivesUpVerbatim == EngineSpec => []GivingUpIsVerbatim
BY Delivers, PTL DEF DeliveryInv

(* When the command is over each line was handed back or is recoverable.   *)
THEOREM AllIsRecoverable == EngineSpec => []EverythingRecoverable
BY Delivers, PTL DEF DeliveryInv

(* The retained bytes stay within the limit, and are freed on giving up.   *)
THEOREM MemoryIsBounded == EngineSpec => []RetainedIsBounded
BY Delivers, PTL DEF DeliveryInv

(* What a step of the engine must satisfy for GivingUpIsFinal.             *)
StaysVerbatim ==
  passthrough => /\ passthrough'
                 /\ \A e \in released' \ released : Verbatim(e)

LEMMA ConsumeStaysVerbatim ==
  ASSUME NEW s \in Streams, NEW size \in Sizes, Consume(s, size)
  PROVE  StaysVerbatim
<1> SUFFICES ASSUME passthrough PROVE passthrough' /\ \A e \in released' \ released : Verbatim(e)
  BY DEF StaysVerbatim
<1>1. PassLine(s, size)
  BY DEF Consume, PassLine, Overflow, EmitLine, IgnoreLine, KeepLine, ReplaceLine, Retain
<1>2. passthrough' /\ released' \ released \subseteq {Line(next, s, size)}
  BY <1>1 DEF PassLine, Return
<1> QED
  BY <1>2 DEF Verbatim, Line

LEMMA ExitStaysVerbatim ==
  ASSUME NEW code, Exit(code)
  PROVE  StaysVerbatim
<1> SUFFICES ASSUME passthrough PROVE passthrough' /\ \A e \in released' \ released : Verbatim(e)
  BY DEF StaysVerbatim
<1>1. ExitPassthrough(code)
  BY DEF Exit, ExitPassthrough, ExitNative, ExitUnscoped, ExitCombinedKeep,
         ExitCombinedReplace, ExitCombinedUnsafe, ExitSplit
<1> QED
  BY <1>1 DEF ExitPassthrough, Return

(* Once filtering is given up the callers get verbatim lines only.         *)
THEOREM GivingUpIsForGood == EngineSpec => GivingUpIsFinal
<1>1. [EngineNext]_engineVars => [StaysVerbatim]_engineVars
  BY ConsumeStaysVerbatim, ExitStaysVerbatim DEF EngineNext
<1> QED
  BY <1>1, PTL DEF EngineSpec, GivingUpIsFinal, StaysVerbatim

-----------------------------------------------------------------------------
(* Who is shown what *)

(* Lines are verbatim and known by their sequence numbers.                 *)
LinesInv ==
  /\ \A l \in received : Verbatim(l)
  /\ \A k, l \in received : k.seq = l.seq => k = l
  /\ kept \subseteq Ids(received)

(* The retained lines a scope owns.                                        *)
RawOf(c) == {l \in raw : c \in {l.stream, "combined"}}

(* While filtering goes on: a buffered entry shows the retained line of    *)
(* its number and of its stream, the groups of a scope have collected      *)
(* lines the scope owns, and what the filter kept is in the buffer.        *)
RetainedInv ==
  ~exited /\ ~passthrough =>
    /\ \A e \in buffer :
         /\ e.text.shows = {e.seq} /\ Filtered(e.stream)
         /\ \E l \in raw : l.seq = e.seq /\ l.stream = e.stream
    /\ \A d, e \in buffer : d.seq = e.seq => d = e
    /\ \A c \in Scopes : collected[c] \subseteq Ids(RawOf(c))
    /\ kept \subseteq Ids(buffer)

ShownInv == DeliveryInv /\ LinesInv /\ RetainedInv

LEMMA LinesStay ==
  ASSUME DeliveryInv, LinesInv, NEW s \in Streams, NEW size \in Sizes, Take(s, size),
         kept' \subseteq kept \union {next}
  PROVE  LinesInv'
<1> DEFINE line == Line(next, s, size)
<1>1. line.seq = next /\ line.stream = s /\ line.text.size = size
  BY DEF Line
<1>2. received' = received \union {line} /\ \A l \in received : l.seq # next
  <2>1. received' = received \union {line}
    BY DEF Take
  <2>2. \A l \in received : l.seq \in Nat /\ l.seq < next /\ next \in Nat
    BY DEF DeliveryInv, SeqsAreOld, EngineTypeOK, Entry
  <2> QED
    BY <2>1, <2>2
<1>3. Verbatim(line)
  BY <1>1 DEF Verbatim
<1>4. \A l : Verbatim(l)' <=> Verbatim(l)
  BY DEF Verbatim
<1> HIDE DEF line
<1>5. \A l \in received' : Verbatim(l)
  BY <1>2, <1>3 DEF LinesInv
<1>6. \A k, l \in received' : k.seq = l.seq => k = l
  BY <1>1, <1>2 DEF LinesInv
<1>7. kept' \subseteq Ids(received')
  <2>1. next \in Ids(received') /\ Ids(received) \subseteq Ids(received')
    BY <1>1, <1>2 DEF Ids
  <2> QED
    BY <2>1 DEF LinesInv
<1> QED
  BY <1>5, <1>6, <1>7 DEF LinesInv, Ids, Verbatim

LEMMA KeptOfConsume ==
  ASSUME NEW s \in Streams, NEW size \in Sizes, Consume(s, size)
  PROVE  Take(s, size) /\ kept' \subseteq kept \union {next}
<1>1. CASE PassLine(s, size) \/ Overflow(s, size) \/ EmitLine(s, size)
  BY <1>1 DEF PassLine, Overflow, EmitLine
<1>2. CASE \E rule \in Rules : IgnoreLine(s, size, rule) \/ KeepLine(s, size, rule)
  BY <1>2 DEF IgnoreLine, KeepLine, Retain
<1>3. CASE \E newSize \in Sizes \union {0} : ReplaceLine(s, size, newSize)
  BY <1>3 DEF ReplaceLine, Retain
<1> QED
  BY <1>1, <1>2, <1>3 DEF Consume

(* The part of RetainedInv that is about a step which retains a line.      *)
LEMMA RetainKeeps ==
  ASSUME ShownInv, ~exited, NEW s \in Streams, NEW size \in Sizes, NEW rule \in Rules,
         Retain(s, size, rule), activeCase' = activeCase,
         NEW added \in SUBSET Entry, buffer' = buffer \union added,
         \A e \in added : /\ e.seq = next /\ e.stream = s /\ e.text.shows = {next},
         \A d, e \in added : d = e,
         collected' = [c \in Scopes |-> collected'[c]],
         \A c \in Scopes : \/ collected'[c] = collected[c]
                           \/ c = ScopeOf(s) /\ collected'[c] = collected[c] \union {next},
         kept' \subseteq kept \union Ids(added)
  PROVE  RetainedInv'
<1> DEFINE line == Line(next, s, size)
<1>1. line.seq = next /\ line.stream = s
  BY DEF Line
<1>2. ~passthrough /\ raw' = raw \union {line} /\ Filtered(s)
  BY DEF Retain
<1> HIDE DEF line
<1>3. \A l \in raw : l \in received /\ l.seq \in Nat /\ l.seq < next
  BY <1>2 DEF ShownInv, DeliveryInv, NothingLost, SeqsAreOld, EngineTypeOK, Entry
<1>4. next \in Nat
  BY DEF ShownInv, DeliveryInv, EngineTypeOK
<1>5. \A t : Filtered(t)' <=> Filtered(t)
  BY DEF Filtered, ScopeNames
<1>6. RetainedInv
  BY DEF ShownInv
<1>7. \A e \in buffer' : /\ e.text.shows = {e.seq} /\ Filtered(e.stream)
                         /\ \E l \in raw' : l.seq = e.seq /\ l.stream = e.stream
  BY <1>1, <1>2, <1>6 DEF RetainedInv
<1>8. \A d, e \in buffer' : d.seq = e.seq => d = e
  <2>1. \A e \in buffer : e.seq # next
    BY <1>2, <1>3, <1>4, <1>6 DEF RetainedInv
  <2> QED
    BY <1>2, <1>6, <2>1 DEF RetainedInv
<1>9. ASSUME NEW c \in Scopes PROVE collected'[c] \subseteq Ids(RawOf(c)')
  <2>1. Ids(RawOf(c)) \subseteq Ids(RawOf(c)')
    BY <1>2 DEF Ids, RawOf
  <2>2. c = ScopeOf(s) => next \in Ids(RawOf(c)')
    <3>1. SUFFICES ASSUME c = ScopeOf(s) PROVE line \in RawOf(c)'
      BY <1>1 DEF Ids
    <3>2. c \in {s, "combined"}
      BY <3>1 DEF ScopeOf
    <3> QED
      BY <1>1, <1>2, <3>2 DEF RawOf
  <2> QED
    BY <1>2, <1>6, <2>1, <2>2 DEF RetainedInv
<1>10. kept' \subseteq Ids(buffer')
  <2>1. Ids(buffer') = Ids(buffer) \union Ids(added)
    BY DEF Ids
  <2> QED
    BY <1>2, <1>6, <2>1 DEF RetainedInv
<1> QED
  BY <1>5, <1>7, <1>8, <1>9, <1>10 DEF RetainedInv, Ids

LEMMA ConsumeShows ==
  ASSUME ShownInv, ~exited, NEW s \in Streams, NEW size \in Sizes, Consume(s, size)
  PROVE  RetainedInv'
<1>1. FilterTypeOK /\ next \in Nat
  BY DEF ShownInv, DeliveryInv, EngineTypeOK
<1>2. CASE PassLine(s, size) \/ Overflow(s, size)
  BY <1>2 DEF PassLine, Overflow, RetainedInv
<1>3. CASE EmitLine(s, size)
  <2>1. /\ UNCHANGED <<exited, passthrough, buffer, raw, activeCase, collected, kept>>
    BY <1>3 DEF EmitLine, Take, bufferVars, filterVars
  <2> QED
    BY <2>1 DEF ShownInv, RetainedInv, Filtered, ScopeNames, RawOf, Ids
<1>4. CASE \E rule \in Rules : IgnoreLine(s, size, rule)
  <2>1. PICK rule \in Rules : IgnoreLine(s, size, rule)
    BY <1>4
  <2> DEFINE added == {}
  <2>2. /\ Retain(s, size, rule) /\ activeCase' = activeCase
        /\ buffer' = buffer \union added /\ kept' \subseteq kept \union Ids(added)
        /\ added \in SUBSET Entry /\ \A e \in added : FALSE
    BY <2>1 DEF IgnoreLine, NoteIgnored
  <2> HIDE DEF added
  <2>3. \/ collected' = collected
        \/ collected' = [collected EXCEPT ![ScopeOf(s)] = @ \union {next}]
    BY <2>1 DEF IgnoreLine, NoteIgnored
  <2>4. /\ collected' = [c \in Scopes |-> collected'[c]]
        /\ \A c \in Scopes : \/ collected'[c] = collected[c]
                             \/ c = ScopeOf(s) /\ collected'[c] = collected[c] \union {next}
    BY <1>1, <2>3 DEF FilterTypeOK
  <2> QED
    BY <2>2, <2>4, RetainKeeps
<1>5. ASSUME NEW rule \in Rules, Retain(s, size, rule), UNCHANGED filterVars,
             NEW added \in SUBSET Entry, buffer' = buffer \union added,
             \A e \in added : /\ e.seq = next /\ e.stream = s /\ e.text.shows = {next},
             \A d, e \in added : d = e,
             kept' \subseteq kept \union Ids(added)
      PROVE  RetainedInv'
  <2>1. activeCase' = activeCase /\ collected' = collected
    BY <1>5 DEF filterVars
  <2>2. collected' = [c \in Scopes |-> collected'[c]]
    BY <1>1, <2>1 DEF FilterTypeOK
  <2> QED
    BY <1>5, <2>1, <2>2, RetainKeeps
<1>6. CASE \E rule \in Rules : KeepLine(s, size, rule)
  <2>1. PICK rule \in Rules : KeepLine(s, size, rule)
    BY <1>6
  <2> DEFINE line == Line(next, s, size)
  <2>2. line \in Entry
    BY <1>1, LineType, EngineAssumption
  <2>3. line.seq = next /\ line.stream = s /\ line.text.shows = {next}
    BY DEF Line
  <2>4. /\ Retain(s, size, rule) /\ UNCHANGED filterVars
        /\ buffer' = buffer \union {line} /\ kept' = kept \union {next}
    BY <2>1 DEF KeepLine, AddAt
  <2> HIDE DEF line
  <2>5. next \in Ids({line})
    BY <2>3 DEF Ids
  <2> QED
    BY <1>5, <2>2, <2>3, <2>4, <2>5
<1>7. CASE \E newSize \in Sizes \union {0} : ReplaceLine(s, size, newSize)
  <2>1. PICK newSize \in Sizes \union {0} : ReplaceLine(s, size, newSize)
    BY <1>7
  <2>2. "replace" \in Rules /\ Retain(s, size, "replace") /\ UNCHANGED filterVars /\ kept' = kept
    BY <2>1 DEF ReplaceLine, Rules
  <2> DEFINE entry == [seq |-> next, stream |-> s,
                       text |-> [size |-> newSize, shows |-> {next}, exact |-> {}, adds |-> {}]]
  <2>3. entry \in Entry
    BY <1>1, EngineAssumption DEF Entry, Text
  <2>4. entry.seq = next /\ entry.stream = s /\ entry.text.shows = {next}
    OBVIOUS
  <2>5. \E added \in SUBSET {entry} : buffer' = buffer \union added
    <3>1. buffer' = buffer \union {} \/ buffer' = buffer \union {entry}
      BY <2>1 DEF ReplaceLine, AddAt
    <3> QED
      BY <3>1
  <2> HIDE DEF entry
  <2> QED
    <3>1. PICK added \in SUBSET {entry} : buffer' = buffer \union added
      BY <2>5
    <3>2. /\ added \in SUBSET Entry /\ \A d, e \in added : d = e
          /\ \A e \in added : e.seq = next /\ e.stream = s /\ e.text.shows = {next}
          /\ kept' \subseteq kept \union Ids(added)
      BY <2>2, <2>3, <2>4
    <3> QED
      BY <1>5, <2>2, <3>1, <3>2
<1> QED
  BY <1>2, <1>3, <1>4, <1>6, <1>7 DEF Consume

(* Entries that show retained lines only, none twice, each on its own      *)
(* stream; and, without groups, everything that was kept.                  *)
ShowsOnce(entries) ==
  /\ \A e \in entries : e.text.shows \subseteq Ids(raw)
  /\ \A d, e \in entries : d # e => d.text.shows \intersect e.text.shows = {}
StaysOnStream(entries) ==
  \/ "combined" \in ScopeNames /\ collected["combined"] # {}
  \/ \A e \in entries, l \in raw : l.seq \in e.text.shows => e.stream = l.stream
ShowsKept(entries) == ~HasGroups => kept \subseteq Shown(entries)
OwnsUp(entries) ==
  \A c \in ScopeNames :
    ~HasGroups /\ hidden[c] > 0 /\ activeCase.scope[c].print > 0
      => \E e \in entries : "omitted" \in e.text.adds

Answers(entries) == ShowsOnce(entries) /\ StaysOnStream(entries) /\ ShowsKept(entries)

(* Two retained lines have two numbers.                                    *)
LEMMA RawIsLines ==
  ASSUME ShownInv, ~exited, ~passthrough
  PROVE  /\ raw \subseteq received
         /\ \A l \in raw : l.text.shows = {l.seq} /\ l.seq \in Nat /\ l.stream \in Streams
         /\ \A k, l \in raw : k.seq = l.seq => k = l
<1>1. raw \subseteq received
  BY DEF ShownInv, DeliveryInv, NothingLost
<1>2. \A l \in received : l.text.shows = {l.seq}
  <2>1. \A n, s, size : Line(n, s, size).text.shows = {n}
    BY DEF Line
  <2> QED
    BY <2>1 DEF ShownInv, LinesInv, Verbatim
<1> QED
  BY <1>1, <1>2 DEF ShownInv, LinesInv, DeliveryInv, EngineTypeOK, Entry

LEMMA RawAnswers ==
  ASSUME ShownInv, ~exited, ~passthrough
  PROVE  Answers(raw)
<1>1. /\ \A l \in raw : l.text.shows = {l.seq}
      /\ \A k, l \in raw : k.seq = l.seq => k = l
  BY RawIsLines
<1>2. ShowsOnce(raw)
  BY <1>1 DEF ShowsOnce, Ids
<1>3. StaysOnStream(raw)
  BY <1>1 DEF StaysOnStream
<1>4. kept \subseteq Shown(raw)
  <2>1. Ids(buffer) \subseteq Ids(raw) /\ kept \subseteq Ids(buffer)
    BY DEF ShownInv, RetainedInv, Ids
  <2>2. Ids(raw) \subseteq Shown(raw)
    BY <1>1 DEF Ids, Shown
  <2> QED
    BY <2>1, <2>2
<1> QED
  BY <1>2, <1>3, <1>4 DEF Answers, ShowsKept

LEMMA BufferAnswers ==
  ASSUME ShownInv, ~exited, ~passthrough
  PROVE  Answers(buffer)
<1>1. /\ \A e \in buffer : /\ e.text.shows = {e.seq}
                           /\ \E l \in raw : l.seq = e.seq /\ l.stream = e.stream
      /\ \A d, e \in buffer : d.seq = e.seq => d = e
      /\ kept \subseteq Ids(buffer)
  BY DEF ShownInv, RetainedInv
<1>2. ShowsOnce(buffer)
  BY <1>1 DEF ShowsOnce, Ids
<1>3. StaysOnStream(buffer)
  BY <1>1, RawIsLines DEF StaysOnStream
<1>4. kept \subseteq Shown(buffer)
  BY <1>1 DEF Ids, Shown
<1> QED
  BY <1>2, <1>3, <1>4 DEF Answers, ShowsKept

(* The shown and collected lines of a scope are lines the scope owns.      *)
LEMMA BufferedShows ==
  ASSUME ShownInv, ~exited, ~passthrough, NEW c \in Scopes
  PROVE  /\ Buffered(c).shows \subseteq Ids(RawOf(c))
         /\ Buffered(c).shows = Shown(EntriesOf(c))
         /\ Buffered(c).size \in Nat
<1>1. Buffered(c).shows = Shown(EntriesOf(c))
  BY DEF Buffered, Shown
<1>2. \A e \in EntriesOf(c) :
        e.text.shows = {e.seq} /\ \E l \in RawOf(c) : l.seq = e.seq
  <2>1. \A e \in EntriesOf(c) : e \in buffer /\ c \in {e.stream, "combined"}
    BY DEF EntriesOf
  <2> QED
    BY <2>1 DEF ShownInv, RetainedInv, RawOf
<1>3. Buffered(c) \in Text
  BY BufferedType DEF ShownInv, DeliveryInv, EngineTypeOK
<1> QED
  BY <1>1, <1>2, <1>3 DEF Ids, Shown, Text

LEMMA TextShows ==
  ASSUME ShownInv, ~exited, ~passthrough, NEW c \in ScopeNames, NEW code \in Nat,
         NEW text \in ExitTexts(c, code)
  PROVE  /\ text.shows \subseteq Ids(RawOf(c))
         /\ collected[c] = {} => text.shows = Shown(EntriesOf(c))
         /\ collected[c] = {} /\ hidden[c] > 0 /\ activeCase.scope[c].print > 0
              => "omitted" \in text.adds /\ text.size > Buffered(c).size
<1>1. c \in Scopes /\ activeCase \in Cases /\ hidden[c] \in Nat
  BY ScopeNamesType DEF ShownInv, DeliveryInv, EngineTypeOK, FilterTypeOK
<1>2. PICK t \in GroupTexts(c) \union {WithOmitted(c, Buffered(c))} :
        text = WithFooter(t, code) \/ text = t
  BY DEF ExitTexts, ScopeTexts
<1>3. activeCase.scope[c].print \in Nat /\ activeCase.footer \in Nat
  BY <1>1, FilterAssumption DEF ScopeNames, Scope
<1> DEFINE b == Buffered(c)
<1>4. b.size \in Nat /\ b.shows \subseteq Ids(RawOf(c)) /\ b.shows = Shown(EntriesOf(c))
  BY <1>1, BufferedShows
<1> HIDE DEF b
<1>5. /\ text.shows = t.shows
      /\ t.size \in Nat => text.size \in Nat /\ text.size >= t.size
      /\ "omitted" \in t.adds => "omitted" \in text.adds
  BY <1>2, <1>3 DEF WithFooter, Adding
<1>6. CASE t \in GroupTexts(c)
  <2>1. collected[c] # {} /\ t.shows \subseteq collected[c]
    BY <1>6 DEF GroupTexts
  <2>2. collected[c] \subseteq Ids(RawOf(c))
    BY <1>1 DEF ShownInv, RetainedInv
  <2> QED
    BY <1>5, <2>1, <2>2
<1>7. CASE t = WithOmitted(c, b)
  <2>1. t.shows = b.shows
    BY <1>7 DEF WithOmitted, Adding
  <2>2. hidden[c] > 0 /\ activeCase.scope[c].print > 0
          => "omitted" \in t.adds /\ t.size \in Nat /\ t.size > b.size
    BY <1>1, <1>3, <1>4, <1>7 DEF WithOmitted, Adding
  <2> QED
    BY <1>1, <1>3, <1>4, <1>5, <2>1, <2>2 DEF b
<1> QED
  BY <1>2, <1>6, <1>7 DEF b

-----------------------------------------------------------------------------
(* The answer to Exit *)

(* What Exit hands back if filtering was not given up before.              *)
Answered(entries) ==
  /\ Answers(entries)
  /\ returned' = [returned EXCEPT !["main"] = entries]
  /\ released' = released \union entries
  /\ passthrough' \/ OwnsUp(entries)

LEMMA FinalizeAnswers ==
  ASSUME ShownInv, ~exited, ~passthrough, NEW entries, NEW total, Finalize(entries, total),
         Answers(entries), OwnsUp(entries)
  PROVE  Answered(entries) \/ Answered(raw)
<1>1. Answers(raw)
  BY RawAnswers
<1> QED
  BY <1>1 DEF Finalize, GiveUp, Return, Answered

LEMMA EntriesAnswer ==
  ASSUME ShownInv, ~exited, ~passthrough, NEW s \in Streams
  PROVE  /\ EntriesOf(s) \subseteq buffer
         /\ \A e \in EntriesOf(s) : e.stream = s /\ e.text.shows \subseteq Ids(RawOf(s))
         /\ \A d, e \in EntriesOf(s) : d # e => d.text.shows \intersect e.text.shows = {}
<1>1. EntriesOf(s) = {e \in buffer : e.stream = s}
  BY DEF EntriesOf, Streams
<1>2. ShowsOnce(buffer)
  BY BufferAnswers DEF Answers
<1>3. \A e \in EntriesOf(s) : e.text.shows \subseteq Ids(RawOf(s))
  BY <1>1 DEF ShownInv, RetainedInv, RawOf, Ids
<1> QED
  BY <1>1, <1>2, <1>3 DEF ShowsOnce

(* One split scope.                                                        *)
LEMMA ReplacementShows ==
  ASSUME ShownInv, ~exited, ~passthrough, NEW s \in Streams, NEW text, NEW fresh,
         text.shows \subseteq Ids(RawOf(s))
  PROVE  LET new == Replacement(s, EntriesOf(s), text, fresh) IN
         /\ \A e \in new : e.stream = s /\ e.text.shows \subseteq Ids(RawOf(s))
         /\ \A d, e \in new : d # e => d.text.shows \intersect e.text.shows = {}
         /\ text.shows = Shown(EntriesOf(s)) => Shown(new) = Shown(EntriesOf(s))
         /\ text.size # 0 => \E e \in new : e.text = text
<1> DEFINE new == Replacement(s, EntriesOf(s), text, fresh)
<1>1. CASE text.size = 0
  <2>1. new = EntriesOf(s)
    BY <1>1 DEF Replacement
  <2> HIDE DEF new
  <2> QED
    BY <1>1, <2>1, EntriesAnswer DEF new
<1>2. CASE text.size # 0
  <2>1. PICK n : new = {[seq |-> n, stream |-> s, text |-> text]}
    BY <1>2 DEF Replacement
  <2> DEFINE e == [seq |-> n, stream |-> s, text |-> text]
  <2>2. new = {e} /\ e.stream = s /\ e.text = text
    BY <2>1
  <2> HIDE DEF new, e
  <2>3. Shown(new) = text.shows
    BY <2>2 DEF Shown
  <2> QED
    BY <2>2, <2>3 DEF new
<1> QED
  BY <1>1, <1>2

LEMMA ReadersOfNative ==
  ASSUME ShownInv, ~exited, ~passthrough, NEW code \in Nat, ExitNative(code)
  PROVE  \E entries : Answered(entries)
<1>1. ScopeNames = {}
  BY FilterAssumption
  DEF ExitNative, ScopeNames, ShownInv, DeliveryInv, EngineTypeOK, FilterTypeOK
<1>2. Answers(buffer) /\ OwnsUp(buffer)
  BY <1>1, BufferAnswers DEF OwnsUp
<1> QED
  BY <1>2, FinalizeAnswers DEF ExitNative

LEMMA ReadersOfUnscoped ==
  ASSUME ShownInv, ~exited, ~passthrough, NEW code \in Nat, ExitUnscoped(code)
  PROVE  \E entries : Answered(entries)
<1> DEFINE text == WithFooter(Buffered("stdout"), code)
           new  == Replacement("stdout", buffer, text, next)
<1>1. ScopeNames = {} /\ Finalize(new, text.size)
  BY DEF ExitUnscoped
<1>2. buffer = {} /\ kept = {}
  <2>1. \A e \in buffer : FALSE
    BY <1>1 DEF ShownInv, RetainedInv, Filtered
  <2> QED
    BY <2>1 DEF ShownInv, RetainedInv, Ids
<1>3. text.shows = {}
  <2>1. Buffered("stdout").shows = {}
    BY <1>2 DEF Buffered, EntriesOf
  <2> QED
    BY <2>1 DEF WithFooter, Adding
<1> HIDE DEF text
<1>4. \A e \in new : e.text.shows = {}
  <2>1. new = {} \/ new = {[seq |-> PlaceOf(buffer, next), stream |-> "stdout", text |-> text]}
    BY <1>2 DEF Replacement
  <2> QED
    BY <1>3, <2>1
<1> HIDE DEF new
<1>5. Answers(new) /\ OwnsUp(new)
  BY <1>1, <1>2, <1>4 DEF Answers, ShowsOnce, StaysOnStream, ShowsKept, OwnsUp
<1> QED
  BY <1>1, <1>5, FinalizeAnswers

LEMMA CombinedIsAlone ==
  ASSUME ShownInv, "combined" \in ScopeNames
  PROVE  ScopeNames = {"combined"}
BY ScopeNamesType
DEF Routings, Streams, ShownInv, DeliveryInv, EngineTypeOK, FilterTypeOK

LEMMA ReadersOfKeep ==
  ASSUME ShownInv, ~exited, ~passthrough, NEW code \in Nat, ExitCombinedKeep(code)
  PROVE  \E entries : Answered(entries)
<1>1. "combined" \in ScopeNames /\ Buffered("combined") \in ExitTexts("combined", code)
  BY DEF ExitCombinedKeep
<1>2. code \in Nat /\ Buffered("combined").size \in Nat
  BY BufferedShows, EngineAssumption DEF Scopes
<1>3. OwnsUp(buffer)
  <2> SUFFICES ASSUME NEW c \in ScopeNames, ~HasGroups, hidden[c] > 0,
                      activeCase.scope[c].print > 0
               PROVE  FALSE
    BY DEF OwnsUp
  <2>1. c = "combined" /\ collected[c] = {}
    BY <1>1, CombinedIsAlone DEF HasGroups
  <2>2. Buffered("combined").size > Buffered("combined").size
    BY <1>1, <1>2, <2>1, TextShows
  <2> QED
    BY <1>2, <2>2
<1> QED
  BY <1>3, BufferAnswers, FinalizeAnswers DEF ExitCombinedKeep

LEMMA ReadersOfReplace ==
  ASSUME ShownInv, ~exited, ~passthrough, NEW code \in Nat, ExitCombinedReplace(code)
  PROVE  \E entries : Answered(entries)
<1> DEFINE s == IF BufferedStreams = {"stderr"} THEN "stderr" ELSE "stdout"
           new(text) == Replacement(s, buffer, text, next)
<1>1. "combined" \in ScopeNames /\ BufferedStreams # Streams /\ code \in Nat
  BY EngineAssumption DEF ExitCombinedReplace
<1>2. PICK text \in ExitTexts("combined", code) : Finalize(new(text), text.size)
  BY DEF ExitCombinedReplace
<1>3. EntriesOf("combined") = buffer /\ Buffered("combined").size \in Nat
  BY BufferedShows DEF EntriesOf, Scopes
<1>4. /\ text.shows \subseteq Ids(raw)
      /\ collected["combined"] = {} => text.shows = Shown(buffer)
      /\ /\ collected["combined"] = {} /\ hidden["combined"] > 0
         /\ activeCase.scope["combined"].print > 0
         => "omitted" \in text.adds /\ text.size > Buffered("combined").size
  <2>1. RawOf("combined") \subseteq raw
    BY DEF RawOf
  <2> QED
    BY <1>1, <1>3, <2>1, TextShows DEF Ids
<1>5. ~HasGroups => collected["combined"] = {}
  BY <1>1 DEF HasGroups
<1>6. CASE text.size = 0
  <2>1. new(text) = buffer
    BY <1>6 DEF Replacement
  <2>2. OwnsUp(buffer)
    BY <1>1, <1>3, <1>4, <1>5, <1>6, CombinedIsAlone DEF OwnsUp
  <2> QED
    BY <1>2, <2>1, <2>2, BufferAnswers, FinalizeAnswers
<1>7. CASE text.size # 0
  <2>1. PICK n : new(text) = {[seq |-> n, stream |-> s, text |-> text]}
    BY <1>7 DEF Replacement
  <2> DEFINE e == [seq |-> n, stream |-> s, text |-> text]
  <2>2. new(text) = {e} /\ e.stream = s /\ e.text = text
    BY <2>1
  <2> HIDE DEF e
  <2>3. ShowsOnce({e})
    BY <1>4, <2>2 DEF ShowsOnce
  <2>4. StaysOnStream({e})
    <3> SUFFICES ASSUME collected["combined"] = {}, NEW l \in raw, l.seq \in text.shows
                 PROVE  s = l.stream
      BY <1>1, <2>2 DEF StaysOnStream
    <3>1. PICK b \in buffer : l.seq \in b.text.shows
      BY <1>4 DEF Shown
    <3>2. b.stream = l.stream /\ l.stream \in Streams
      <4>1. b.text.shows = {b.seq} /\ \E k \in raw : k.seq = b.seq /\ k.stream = b.stream
        BY DEF ShownInv, RetainedInv
      <4> QED
        BY <3>1, <4>1, RawIsLines
    <3>3. l.stream \in BufferedStreams /\ BufferedStreams \subseteq Streams
      <4>1. \A x \in buffer : x.stream \in Streams
        BY DEF ShownInv, DeliveryInv, EngineTypeOK, Entry
      <4> QED
        BY <3>2, <4>1 DEF BufferedStreams
    <3>4. l.stream = "stdout" \/ l.stream = "stderr"
      BY <3>2 DEF Streams
    <3> QED
      BY <1>1, <3>3, <3>4 DEF Streams
  <2>5. ShowsKept({e})
    <3>1. Shown({e}) = text.shows
      BY <2>2 DEF Shown
    <3>2. ~HasGroups => kept \subseteq Shown(buffer)
      BY BufferAnswers DEF Answers, ShowsKept
    <3> QED
      BY <1>4, <1>5, <3>1, <3>2 DEF ShowsKept
  <2>6. OwnsUp({e})
    BY <1>1, <1>4, <1>5, <2>2, CombinedIsAlone DEF OwnsUp
  <2> QED
    BY <1>2, <2>2, <2>3, <2>4, <2>5, <2>6, FinalizeAnswers DEF Answers
<1> QED
  BY <1>6, <1>7

LEMMA ReadersOfUnsafe ==
  ASSUME ShownInv, ~exited, ~passthrough, NEW code \in Nat, ExitCombinedUnsafe(code)
  PROVE  \E entries : Answered(entries)
<1>1. Answered(raw)
  BY RawAnswers DEF ExitCombinedUnsafe, GiveUp, Return, Answered
<1> QED
  BY <1>1

LEMMA ReadersOfSplit ==
  ASSUME ShownInv, ~exited, ~passthrough, NEW code \in Nat, ExitSplit(code)
  PROVE  \E entries : Answered(entries)
<1> DEFINE outs  == EntriesOf("stdout")
           errs  == EntriesOf("stderr")
           after(out) == next + (IF out.size = 0 THEN 0 ELSE Fresh(outs))
<1>1. PICK out \in IF "stdout" \in ScopeNames THEN ExitTexts("stdout", code)
                                              ELSE {Buffered("stdout")},
           err \in IF "stderr" \in ScopeNames THEN ExitTexts("stderr", code)
                                              ELSE {Buffered("stderr")} :
        Finalize(Replacement("stdout", outs, out, next)
                   \union Replacement("stderr", errs, err, after(out)),
                 out.size + err.size)
  BY DEF ExitSplit
<1>2. code \in Nat /\ ScopeNames # {} /\ ScopeNames \subseteq Streams
  BY EngineAssumption DEF ExitSplit
<1> DEFINE new(s) == IF s = "stdout" THEN Replacement("stdout", outs, out, next)
                                     ELSE Replacement("stderr", errs, err, after(out))
           text(s) == IF s = "stdout" THEN out ELSE err
           all     == new("stdout") \union new("stderr")
<1>3. ASSUME NEW s \in Streams
      PROVE  \/ s \in ScopeNames /\ text(s) \in ExitTexts(s, code)
             \/ s \notin ScopeNames /\ text(s) = Buffered(s)
  BY <1>1 DEF Streams
<1>4. ASSUME NEW s \in Streams
      PROVE  /\ text(s).shows \subseteq Ids(RawOf(s))
             /\ ~HasGroups => text(s).shows = Shown(EntriesOf(s))
             /\ /\ s \in ScopeNames /\ ~HasGroups /\ hidden[s] > 0
                /\ activeCase.scope[s].print > 0
                => "omitted" \in text(s).adds /\ text(s).size # 0
  <2>1. s \in Scopes
    BY DEF Scopes
  <2>2. /\ Buffered(s).shows \subseteq Ids(RawOf(s))
        /\ Buffered(s).shows = Shown(EntriesOf(s)) /\ Buffered(s).size \in Nat
    BY <2>1, BufferedShows
  <2>3. CASE s \in ScopeNames /\ text(s) \in ExitTexts(s, code)
    <3>1. ~HasGroups => collected[s] = {}
      BY <2>3 DEF HasGroups
    <3> HIDE DEF text
    <3> QED
      BY <1>2, <2>2, <2>3, <3>1, TextShows
  <2>4. CASE s \notin ScopeNames /\ text(s) = Buffered(s)
    BY <2>2, <2>4
  <2> QED
    BY <1>3, <2>3, <2>4
<1>5. ASSUME NEW s \in Streams
      PROVE  \E fresh : new(s) = Replacement(s, EntriesOf(s), text(s), fresh)
  BY DEF Streams
<1>6. Finalize(all, out.size + err.size)
  BY <1>1
<1> HIDE DEF new, text
<1>7. ASSUME NEW s \in Streams
      PROVE  /\ \A e \in new(s) : e.stream = s /\ e.text.shows \subseteq Ids(RawOf(s))
             /\ \A d, e \in new(s) : d # e => d.text.shows \intersect e.text.shows = {}
             /\ ~HasGroups => Shown(new(s)) = Shown(EntriesOf(s))
             /\ text(s).size # 0 => \E e \in new(s) : e.text = text(s)
  <2>1. PICK fresh : new(s) = Replacement(s, EntriesOf(s), text(s), fresh)
    BY <1>5
  <2> QED
    BY <1>4, <2>1, ReplacementShows
<1>8. "stdout" \in Streams /\ "stderr" \in Streams
  BY DEF Streams
<1>9. \A s \in Streams : \A e \in new(s), l \in raw :
        l.seq \in e.text.shows => l.stream = s
  <2>1. \A s \in Streams : \A l \in raw : l.seq \in Ids(RawOf(s)) => l.stream = s
    BY RawIsLines DEF Ids, RawOf, Streams
  <2> QED
    BY <1>7, <2>1
<1>10. \A s \in Streams : Ids(RawOf(s)) \subseteq Ids(raw)
  BY DEF Ids, RawOf
<1>11. ShowsOnce(all)
  <2>1. \A e \in all : e.text.shows \subseteq Ids(raw)
    BY <1>7, <1>8, <1>10
  <2>2. ASSUME NEW d \in new("stdout"), NEW e \in new("stderr")
        PROVE  d.text.shows \intersect e.text.shows = {}
    <3> SUFFICES ASSUME NEW n \in d.text.shows, n \in e.text.shows PROVE FALSE
      OBVIOUS
    <3>1. PICK l \in raw : l.seq = n
      BY <2>1 DEF Ids
    <3> QED
      BY <1>8, <1>9, <3>1
  <2> QED
    BY <1>7, <1>8, <2>1, <2>2 DEF ShowsOnce
<1>12. StaysOnStream(all)
  BY <1>7, <1>8, <1>9 DEF StaysOnStream
<1>13. ShowsKept(all)
  <2> SUFFICES ASSUME ~HasGroups PROVE kept \subseteq Shown(all)
    BY DEF ShowsKept
  <2>1. Shown(all) = Shown(outs) \union Shown(errs)
    <3>1. Shown(all) = Shown(new("stdout")) \union Shown(new("stderr"))
      BY DEF Shown
    <3> QED
      BY <1>7, <1>8, <3>1
  <2>2. Shown(buffer) = Shown(outs) \union Shown(errs)
    <3>1. buffer = outs \union errs
      BY DEF EntriesOf, ShownInv, DeliveryInv, EngineTypeOK, Entry, Streams
    <3> QED
      BY <3>1 DEF Shown
  <2> QED
    BY <2>1, <2>2, BufferAnswers DEF Answers, ShowsKept
<1>14. OwnsUp(all)
  <2> SUFFICES ASSUME NEW c \in ScopeNames, ~HasGroups, hidden[c] > 0,
                      activeCase.scope[c].print > 0
               PROVE  \E e \in all : "omitted" \in e.text.adds
    BY DEF OwnsUp
  <2>1. c \in Streams
    BY <1>2
  <2>2. \E e \in new(c) : e.text = text(c) /\ "omitted" \in text(c).adds
    BY <1>4, <1>7, <2>1
  <2>3. new(c) \subseteq all
    BY <2>1 DEF Streams
  <2> QED
    BY <2>2, <2>3
<1> HIDE DEF all
<1> QED
  BY <1>6, <1>11, <1>12, <1>13, <1>14, FinalizeAnswers DEF Answers

LEMMA ExitAnswers ==
  ASSUME ShownInv, ~exited, ~passthrough, NEW code \in Nat, Exit(code)
  PROVE  \E entries : Answered(entries)
BY ReadersOfNative, ReadersOfUnscoped, ReadersOfKeep, ReadersOfReplace, ReadersOfUnsafe,
   ReadersOfSplit DEF Exit, ExitPassthrough

(* What Exit leaves alone.                                                 *)
LEMMA ExitLeaves ==
  ASSUME NEW code \in Nat, Exit(code)
  PROVE  /\ exited' /\ UNCHANGED <<activeCase, hidden, collected, received, kept>>
         /\ passthrough => ExitPassthrough(code)
BY DEF Exit, ExitPassthrough, ExitNative, ExitUnscoped, ExitCombinedKeep,
       ExitCombinedReplace, ExitCombinedUnsafe, ExitSplit, Close, filterVars
-----------------------------------------------------------------------------
(* The invariant and the properties *)

ReaderInv == ShownInv /\ ReaderIsTold /\ StreamIsKept

LEMMA ReleasedIsReceived ==
  ASSUME ShownInv, ~exited
  PROVE  /\ released \subseteq received
         /\ \A l \in received : l.text.shows = {l.seq}
         /\ \A k, l \in received : k.seq = l.seq => k = l
<1>1. released \subseteq received
  BY DEF ShownInv, DeliveryInv, NothingLost, GivingUpIsVerbatim
<1>2. \A l \in received : l.text.shows = {l.seq}
  <2>1. \A n, s, size : Line(n, s, size).text.shows = {n}
    BY DEF Line
  <2> QED
    BY <2>1 DEF ShownInv, LinesInv, Verbatim
<1> QED
  BY <1>1, <1>2 DEF ShownInv, LinesInv

LEMMA ConsumeTells ==
  ASSUME ReaderInv, ~exited, NEW s \in Streams, NEW size \in Sizes, Consume(s, size)
  PROVE  ReaderInv'
<1>1. DeliveryInv' /\ LinesInv' /\ RetainedInv' /\ ~exited'
  <2>1. Take(s, size) /\ kept' \subseteq kept \union {next}
    BY KeptOfConsume
  <2> QED
    BY <2>1, ConsumeDelivers, LinesStay, ConsumeShows DEF ReaderInv, ShownInv, Take
<1>2. ShownInv'
  BY <1>1 DEF ShownInv
<1>3. StreamIsKept'
  <2>1. /\ (released \subseteq received)' /\ (\A l \in received : l.text.shows = {l.seq})'
        /\ (\A k, l \in received : k.seq = l.seq => k = l)'
    <3>1. (released \subseteq received)'
      BY <1>1 DEF DeliveryInv, NothingLost, GivingUpIsVerbatim
    <3>2. \A n, t, z : Line(n, t, z).text.shows = {n}
      BY DEF Line
    <3>3. \A l \in received' : l.text.shows = {l.seq}
      BY <1>1, <3>2 DEF LinesInv, Verbatim
    <3> QED
      BY <1>1, <3>1, <3>3 DEF LinesInv
  <2> QED
    BY <2>1 DEF StreamIsKept
<1>4. ReaderIsTold'
  BY <1>1 DEF ReaderIsTold, KeptIsShown, OmissionIsAnnounced
<1> QED
  BY <1>2, <1>3, <1>4 DEF ReaderInv

LEMMA ExitTells ==
  ASSUME ReaderInv, ~exited, NEW code \in Nat, Exit(code)
  PROVE  ReaderInv'
<1>1. /\ exited' /\ UNCHANGED <<activeCase, hidden, collected, received, kept>>
      /\ passthrough => ExitPassthrough(code)
  BY ExitLeaves
<1>2. ShownInv /\ StreamIsKept
  BY DEF ReaderInv
<1>3. ShownInv'
  <2>1. DeliveryInv'
    BY <1>2, ExitDelivers DEF ShownInv
  <2>2. LinesInv'
    BY <1>1, <1>2 DEF ShownInv, LinesInv, Verbatim, Ids
  <2>3. RetainedInv'
    BY <1>1 DEF RetainedInv
  <2> QED
    BY <2>1, <2>2, <2>3 DEF ShownInv
<1>4. ScopeNames' = ScopeNames /\ (HasGroups' <=> HasGroups)
  BY <1>1 DEF ScopeNames, HasGroups
<1>5. CASE passthrough
  <2>1. released' = released /\ passthrough'
    BY <1>1, <1>5 DEF ExitPassthrough, Return
  <2>2. kept \subseteq Shown(released)
    <3>1. released = received /\ kept \subseteq Ids(received)
      BY <1>2, <1>5 DEF ShownInv, LinesInv, DeliveryInv, GivingUpIsVerbatim
    <3> QED
      BY <1>2, <3>1, ReleasedIsReceived DEF Ids, Shown
  <2>3. StreamIsKept'
    BY <1>1, <1>2, <1>4, <2>1 DEF StreamIsKept
  <2>4. ReaderIsTold'
    BY <1>1, <2>1, <2>2 DEF ReaderIsTold, KeptIsShown, OmissionIsAnnounced, Shown
  <2> QED
    BY <1>3, <2>3, <2>4 DEF ReaderInv
<1>6. CASE ~passthrough
  <2>1. PICK entries : Answered(entries)
    BY <1>2, <1>6, ExitAnswers
  <2>2. /\ Answers(entries) /\ released' = released \union entries
        /\ passthrough' \/ OwnsUp(entries)
    BY <2>1 DEF Answered
  <2>3. StreamIsKept'
    <3> SUFFICES ASSUME "combined" \in ScopeNames => collected["combined"] = {},
                        NEW e \in released \union entries, NEW l \in received,
                        l.seq \in e.text.shows
                 PROVE  e.stream = l.stream
      BY <1>1, <1>4, <2>2 DEF StreamIsKept
    <3>1. CASE e \in released
      BY <1>2, <3>1 DEF StreamIsKept
    <3>2. CASE e \in entries
      <4>1. PICK k \in raw : k.seq = l.seq
        BY <2>2, <3>2 DEF Answers, ShowsOnce, Ids
      <4>2. k = l
        BY <1>2, <1>6, <4>1, RawIsLines, ReleasedIsReceived
      <4> QED
        BY <2>2, <3>2, <4>1, <4>2 DEF Answers, StaysOnStream
    <3> QED
      BY <3>1, <3>2
  <2>4. KeptIsShown'
    <3> SUFFICES ASSUME ~HasGroups PROVE kept \subseteq Shown(released')
      BY <1>1, <1>4 DEF KeptIsShown, Shown
    <3>1. kept \subseteq Shown(entries)
      BY <2>2 DEF Answers, ShowsKept
    <3> QED
      BY <2>2, <3>1 DEF Shown
  <2>5. OmissionIsAnnounced'
    <3>1. returned'["main"] = entries
      BY <1>2, <2>1
      DEF Answered, ShownInv, DeliveryInv, EngineTypeOK, Callers
    <3> QED
      BY <1>1, <1>4, <2>2, <3>1 DEF OmissionIsAnnounced, OwnsUp
  <2> QED
    BY <1>3, <2>3, <2>4, <2>5 DEF ReaderInv, ReaderIsTold
<1> QED
  BY <1>5, <1>6

LEMMA ReaderStep == ReaderInv /\ [EngineNext]_engineVars => ReaderInv'
<1> SUFFICES ASSUME ReaderInv, [EngineNext]_engineVars PROVE ReaderInv'
  OBVIOUS
<1>1. CASE EngineNext
  BY <1>1, ConsumeTells, ExitTells, EngineAssumption DEF EngineNext
<1>2. CASE UNCHANGED engineVars
  <2>1. DeliveryInv'
    BY <1>2, DeliveryStep DEF ReaderInv, ShownInv
  <2>2. LinesInv' /\ RetainedInv'
    BY <1>2 DEF engineVars, filterVars, bufferVars, historyVars, ReaderInv, ShownInv, LinesInv,
       RetainedInv, Ids, Verbatim, Filtered, ScopeNames, RawOf
  <2>3. StreamIsKept' /\ ReaderIsTold'
    BY <1>2 DEF engineVars, filterVars, historyVars, ReaderInv, StreamIsKept, ReaderIsTold,
       KeptIsShown, OmissionIsAnnounced, HasGroups, ScopeNames, Shown
  <2> QED
    BY <2>1, <2>2, <2>3 DEF ReaderInv, ShownInv
<1> QED
  BY <1>1, <1>2

LEMMA InitTells == EngineInit => ReaderInv
<1> SUFFICES ASSUME EngineInit PROVE ReaderInv
  OBVIOUS
<1>1. DeliveryInv
  BY InitDelivers
<1>2. LinesInv
  BY DEF EngineInit, LinesInv, Ids
<1>3. RetainedInv
  BY DEF EngineInit, FilterInit, RetainedInv
<1>4. StreamIsKept /\ ReaderIsTold
  BY DEF EngineInit, StreamIsKept, ReaderIsTold, KeptIsShown, OmissionIsAnnounced
<1> QED
  BY <1>1, <1>2, <1>3, <1>4 DEF ReaderInv, ShownInv

LEMMA Tells == EngineSpec => []ReaderInv
BY InitTells, ReaderStep, PTL DEF EngineSpec

(* Without groups what the filter keeps is in the output, and what it      *)
(* drops because of the limit of a scope is owned up to.                   *)
THEOREM TheReaderIsTold == EngineSpec => []ReaderIsTold
BY Tells, PTL DEF ReaderInv

(* Text about a line goes to the stream of the line.                       *)
THEOREM StreamsAreKept == EngineSpec => []StreamIsKept
BY Tells, PTL DEF ReaderInv

(* What a step of the engine must satisfy for HandedBackOnce.              *)
HandsOnce ==
  /\ \A l \in received' \ received : returned'[l.stream] \intersect released = {}
  /\ exited' # exited =>
       /\ Shown(returned'["main"]) \intersect Shown(released) = {}
       /\ \A d, e \in returned'["main"] : d # e => d.text.shows \intersect e.text.shows = {}

LEMMA ConsumeHandsOnce ==
  ASSUME ReaderInv, ~exited, NEW s \in Streams, NEW size \in Sizes, Consume(s, size)
  PROVE  HandsOnce
<1> DEFINE line == Line(next, s, size)
<1>1. ShownInv /\ DeliveryInv /\ EngineTypeOK /\ s \in Callers
  BY DEF ReaderInv, ShownInv, DeliveryInv, Callers
<1>2. Take(s, size)
  BY KeptOfConsume
<1>3. line \notin received /\ received' = received \union {line} /\ line.stream = s
  BY <1>1, <1>2, SeqsStayOld DEF DeliveryInv, Line
<1>4. exited' = exited /\ released \subseteq received
  BY <1>1, <1>2, ReleasedIsReceived DEF Take
<1> HIDE DEF line
<1>5. returned'[s] \intersect released = {}
  <2>1. PICK entries : /\ returned' = [returned EXCEPT ![s] = entries]
                       /\ \/ entries \subseteq {line}
                          \/ ~passthrough /\ entries = raw \union {line}
    <3>1. CASE PassLine(s, size) \/ Overflow(s, size) \/ EmitLine(s, size)
      BY <3>1 DEF PassLine, Overflow, EmitLine, Return, line
    <3>2. CASE \E rule \in Rules : Retain(s, size, rule)
      BY <3>2 DEF Retain, Return
    <3> QED
      BY <3>1, <3>2 DEF Consume, IgnoreLine, KeepLine, ReplaceLine, Rules
  <2>2. returned'[s] = entries
    BY <1>1, <2>1 DEF EngineTypeOK
  <2>3. entries \intersect released = {}
    BY <1>1, <1>3, <1>4, <2>1 DEF DeliveryInv, NothingLost
  <2> QED
    BY <2>2, <2>3
<1> QED
  BY <1>3, <1>4, <1>5 DEF HandsOnce

LEMMA ExitHandsOnce ==
  ASSUME ReaderInv, ~exited, NEW code \in Nat, Exit(code)
  PROVE  HandsOnce
<1>1. ShownInv /\ EngineTypeOK /\ "main" \in Callers
  BY DEF ReaderInv, ShownInv, DeliveryInv, Callers
<1>2. received' = received /\ (passthrough => ExitPassthrough(code))
  BY ExitLeaves
<1>3. CASE passthrough
  <2>1. returned'["main"] = {}
    BY <1>1, <1>2, <1>3 DEF ExitPassthrough, Return, EngineTypeOK
  <2> QED
    BY <1>2, <2>1 DEF HandsOnce, Shown
<1>4. CASE ~passthrough
  <2>1. PICK entries : Answered(entries)
    BY <1>1, <1>4, ExitAnswers
  <2>2. returned'["main"] = entries /\ ShowsOnce(entries)
    BY <1>1, <2>1 DEF Answered, Answers, EngineTypeOK
  <2>3. Shown(entries) \subseteq Ids(raw)
    BY <2>2 DEF ShowsOnce, Shown
  <2>4. Ids(raw) \intersect Shown(released) = {}
    <3> SUFFICES ASSUME NEW k \in raw, NEW l \in released, k.seq \in l.text.shows
                 PROVE  FALSE
      BY DEF Ids, Shown
    <3>1. k \in received /\ l \in received /\ k # l
      BY <1>1, <1>4 DEF ShownInv, DeliveryInv, NothingLost
    <3> QED
      BY <1>1, <3>1, ReleasedIsReceived
  <2> QED
    BY <1>2, <2>2, <2>3, <2>4 DEF HandsOnce, ShowsOnce
<1> QED
  BY <1>3, <1>4

(* A line is handed back at most once, while the command prints and when   *)
(* it exits.                                                               *)
THEOREM NothingComesTwice == EngineSpec => HandedBackOnce
<1>1. ReaderInv /\ [EngineNext]_engineVars => [HandsOnce]_engineVars
  BY ConsumeHandsOnce, ExitHandsOnce, EngineAssumption DEF EngineNext
<1> QED
  BY <1>1, Tells, PTL DEF EngineSpec, HandedBackOnce, HandsOnce

-----------------------------------------------------------------------------
(* Bytes *)

Sized(entries) == IsFiniteSet(entries) /\ \A e \in entries : e.text.size \in Nat

LEMMA BytesOfOne ==
  ASSUME NEW e, e.text.size \in Nat
  PROVE  IsFiniteSet({e} \X (1..e.text.size)) /\ Bytes({e}) = e.text.size
<1> DEFINE n == e.text.size
<1>n. n \in Nat
  OBVIOUS
<1>1. IsFiniteSet(1..n) /\ Cardinality(1..n) = n
  <2>1. 1 \in Int /\ n \in Int
    OBVIOUS
  <2>2. IsFiniteSet(1..n) /\ Cardinality(1..n) = IF 1 > n THEN 0 ELSE n - 1 + 1
    BY <2>1, FS_Interval
  <2> QED
    BY <2>2
<1>2. IsFiniteSet({e}) /\ Cardinality({e}) = 1
  BY FS_Singleton
<1>3. BytesIn({e}) = {e} \X (1..n)
  BY DEF BytesIn
<1> HIDE DEF n
<1>4. IsFiniteSet({e} \X (1..n)) /\ Cardinality({e} \X (1..n)) = n
  BY <1>n, <1>1, <1>2, FS_Product
<1> QED
  BY <1>3, <1>4 DEF Bytes, n

LEMMA BytesAreFinite ==
  ASSUME NEW S, Sized(S)
  PROVE  IsFiniteSet(BytesIn(S)) /\ Bytes(S) \in Nat
<1> DEFINE parts == {{e} \X (1..e.text.size) : e \in S}
           part  == [e \in S |-> {e} \X (1..e.text.size)]
<1>1. IsFiniteSet(parts)
  <2>1. part \in Surjection(S, parts)
    BY DEF Surjection
  <2> HIDE DEF part, parts
  <2> QED
    BY <2>1, FS_Surjection DEF Sized
<1>2. \A T \in parts : IsFiniteSet(T)
  <2> SUFFICES ASSUME NEW e \in S PROVE IsFiniteSet({e} \X (1..e.text.size))
    OBVIOUS
  <2>1. e.text.size \in Nat
    BY DEF Sized
  <2> QED
    BY <2>1, BytesOfOne
<1>3. BytesIn(S) = UNION parts
  BY DEF BytesIn
<1> HIDE DEF parts
<1>4. IsFiniteSet(BytesIn(S))
  BY <1>1, <1>2, <1>3, FS_UNION
<1> QED
  BY <1>4, FS_CardinalityType DEF Bytes

LEMMA NoBytes == Bytes({}) = 0
<1>1. BytesIn({}) = {}
  BY DEF BytesIn
<1> QED
  BY <1>1, FS_EmptySet DEF Bytes

(* Bytes of a union: at most the sum, and the sum if nothing is in both.   *)
LEMMA BytesAdd ==
  ASSUME NEW S, NEW T, Sized(S), Sized(T)
  PROVE  /\ Sized(S \union T) /\ Bytes(S \union T) <= Bytes(S) + Bytes(T)
         /\ S \intersect T = {} => Bytes(S \union T) = Bytes(S) + Bytes(T)
<1> DEFINE A == BytesIn(S)
           B == BytesIn(T)
<1>1. IsFiniteSet(A) /\ IsFiniteSet(B)
  BY BytesAreFinite
<1>2. Sized(S \union T)
  BY FS_Union DEF Sized
<1>3. BytesIn(S \union T) = A \union B
  BY DEF BytesIn
<1>4. S \intersect T = {} => A \intersect B = {}
  BY DEF BytesIn
<1> HIDE DEF A, B
<1>5. Cardinality(A \union B) = Cardinality(A) + Cardinality(B) - Cardinality(A \intersect B)
  BY <1>1, FS_Union
<1>6. IsFiniteSet(A \intersect B)
  BY <1>1, FS_Intersection
<1>7. /\ Cardinality(A) \in Nat /\ Cardinality(B) \in Nat
      /\ Cardinality(A \intersect B) \in Nat
  BY <1>1, <1>6, FS_CardinalityType
<1>8. A \intersect B = {} => Cardinality(A \intersect B) = 0
  BY FS_EmptySet
<1>9. /\ Bytes(S \union T) = Cardinality(A \union B)
      /\ Bytes(S) = Cardinality(A) /\ Bytes(T) = Cardinality(B)
  BY <1>3 DEF Bytes, A, B
<1> QED
  BY <1>2, <1>4, <1>5, <1>7, <1>8, <1>9

LEMMA OnlyNothingHasNoBytes ==
  ASSUME NEW S, Sized(S), \A e \in S : e.text.size > 0, Bytes(S) = 0
  PROVE  S = {}
<1> SUFFICES ASSUME NEW e \in S PROVE FALSE
  OBVIOUS
<1>1. <<e, 1>> \in BytesIn(S)
  <2>1. e.text.size \in Nat /\ e.text.size > 0
    BY DEF Sized
  <2>2. 1 \in 1..e.text.size
    BY <2>1
  <2>3. <<e, 1>> \in {e} \X (1..e.text.size)
    BY <2>2
  <2> QED
    BY <2>3 DEF BytesIn
<1>2. BytesIn(S) = {}
  BY BytesAreFinite, FS_EmptySet DEF Bytes
<1> QED
  BY <1>1, <1>2

(* While filtering goes on the counters of the engine are the bytes of     *)
(* what it retains; only lines of filtered streams are retained, and one   *)
(* is if a line was hidden.                                                *)
Counted(s) == {e \in buffer : e.stream = s}
LedgerInv ==
  /\ IsFiniteSet(received) /\ \A l \in received : l.text.size > 0
  /\ ~exited /\ ~passthrough =>
       /\ IsFiniteSet(buffer) /\ \A e \in buffer : e.text.size > 0
       /\ rawBytes = Bytes(raw) /\ \A l \in raw : Filtered(l.stream)
       /\ \A s \in Streams : held[s] = Bytes(Counted(s))
       /\ raw = {} => \A c \in Scopes : hidden[c] = 0

LEMMA CountedIs ==
  ASSUME NEW e, NEW S, \A d \in S : d.stream \in Streams, e.stream \in Streams, e \notin S,
         Sized(S), e.text.size \in Nat
  PROVE  /\ Sized(S \union {e})
         /\ Bytes(S \union {e}) = Bytes(S) + e.text.size
         /\ \A s \in Streams :
              Bytes({d \in S \union {e} : d.stream = s})
                = Bytes({d \in S : d.stream = s}) + (IF e.stream = s THEN e.text.size ELSE 0)
<1>1. Sized({e}) /\ Bytes({e}) = e.text.size
  BY BytesOfOne, FS_Singleton DEF Sized
<1>2. /\ Sized(S \union {e})
      /\ Bytes(S \union {e}) = Bytes(S) + e.text.size
  <2>1. S \intersect {e} = {}
    OBVIOUS
  <2> QED
    BY <1>1, <2>1, BytesAdd
<1>3. ASSUME NEW s \in Streams
      PROVE  Bytes({d \in S \union {e} : d.stream = s})
               = Bytes({d \in S : d.stream = s}) + (IF e.stream = s THEN e.text.size ELSE 0)
  <2> DEFINE T == {d \in S : d.stream = s}
  <2>1. T \in SUBSET S /\ e \notin T
    OBVIOUS
  <2>2. Sized(T)
    BY <2>1, FS_Subset DEF Sized
  <2>3. Bytes(T) \in Nat
    BY <2>2, BytesAreFinite
  <2>4. CASE e.stream = s
    <3>1. {d \in S \union {e} : d.stream = s} = T \union {e}
      BY <2>4
    <3> HIDE DEF T
    <3>2. T \intersect {e} = {}
      BY <2>1
    <3>3. Bytes(T \union {e}) = Bytes(T) + e.text.size
      BY <1>1, <2>2, <3>2, BytesAdd
    <3> QED
      BY <2>4, <3>1, <3>3 DEF T
  <2>5. CASE e.stream # s
    <3>1. {d \in S \union {e} : d.stream = s} = T
      BY <2>5
    <3> HIDE DEF T
    <3> QED
      BY <2>3, <2>5, <3>1 DEF T
  <2> QED
    BY <2>4, <2>5
<1> QED
  BY <1>2, <1>3

LEMMA InitCounts == EngineInit => LedgerInv
<1> SUFFICES ASSUME EngineInit PROVE LedgerInv
  OBVIOUS
<1>1. \A s \in Streams : Counted(s) = {}
  BY DEF EngineInit, Counted
<1> QED
  BY <1>1, NoBytes, FS_EmptySet DEF EngineInit, FilterInit, LedgerInv

(* What is retained is finite and no line is empty.                        *)
LEMMA RetainedIsSized ==
  ASSUME ShownInv, LedgerInv, ~exited, ~passthrough
  PROVE  /\ Sized(raw) /\ Sized(released) /\ Sized(buffer)
         /\ \A l \in raw \union buffer : l.text.size > 0
<1>1. raw \union released = received
  BY DEF ShownInv, DeliveryInv, NothingLost
<1>2. IsFiniteSet(raw) /\ IsFiniteSet(released)
  BY <1>1, FS_Subset DEF LedgerInv
<1>3. /\ \A l \in received : l.text.size \in Nat
      /\ \A e \in buffer : e.text.size \in Nat
  BY DEF ShownInv, DeliveryInv, EngineTypeOK, Entry, Text
<1> QED
  BY <1>1, <1>2, <1>3 DEF Sized, LedgerInv

LEMMA TakeCounts ==
  ASSUME ShownInv, LedgerInv, NEW s \in Streams, NEW size \in Sizes, Take(s, size)
  PROVE  /\ IsFiniteSet(received') /\ \A l \in received' : l.text.size > 0
         /\ size \in Nat /\ size > 0
<1> DEFINE line == Line(next, s, size)
<1>1. size \in Nat /\ size > 0
  BY EngineAssumption
<1>2. received' = received \union {line}
  BY DEF Take
<1>3. line.text.size = size
  BY DEF Line
<1> HIDE DEF line
<1>4. IsFiniteSet(received')
  BY <1>2, FS_AddElement DEF LedgerInv
<1> QED
  BY <1>1, <1>2, <1>3, <1>4 DEF LedgerInv

LEMMA RetainCounts ==
  ASSUME ShownInv, LedgerInv, ~exited, NEW s \in Streams, NEW size \in Sizes, NEW rule,
         Retain(s, size, rule), activeCase' = activeCase,
         \/ UNCHANGED <<buffer, held>>
         \/ \E entry \in Entry : AddAt(entry) /\ entry.seq = next /\ entry.text.size > 0
  PROVE  LedgerInv'
<1> DEFINE line == Line(next, s, size)
<1>1. /\ Take(s, size) /\ ~passthrough /\ raw' = raw \union {line}
      /\ rawBytes' = rawBytes + size
  BY DEF Retain
<1>2. /\ IsFiniteSet(received') /\ \A l \in received' : l.text.size > 0
      /\ size \in Nat /\ size > 0
  BY <1>1, TakeCounts
<1>3. /\ Sized(raw) /\ Sized(buffer) /\ rawBytes = Bytes(raw)
      /\ \A t \in Streams : held[t] = Bytes(Counted(t))
      /\ \A e \in buffer : e.text.size > 0
  BY <1>1, RetainedIsSized DEF LedgerInv
<1>4. /\ raw \in SUBSET Entry /\ buffer \in SUBSET Entry /\ next \in Nat
      /\ held \in [Streams -> Nat]
  BY DEF ShownInv, DeliveryInv, EngineTypeOK
<1>5. /\ line.seq = next /\ line.text.size = size /\ line.stream = s
  BY DEF Line
<1> HIDE DEF line
<1>6. /\ \A l \in raw : l.seq # next
      /\ \A e \in buffer : e.seq # next
  <2>1. \A l \in raw : l \in received /\ l.seq \in Nat /\ l.seq < next
    BY <1>1, <1>4 DEF ShownInv, DeliveryInv, NothingLost, SeqsAreOld, Entry
  <2>2. \A e \in buffer : \E l \in raw : l.seq = e.seq
    BY <1>1 DEF ShownInv, RetainedInv
  <2> QED
    BY <1>4, <2>1, <2>2
<1>7. rawBytes' = Bytes(raw')
  <2>1. line \notin raw /\ line.text.size \in Nat /\ line.stream \in Streams
    BY <1>2, <1>5, <1>6
  <2>2. \A d \in raw : d.stream \in Streams
    BY <1>4 DEF Entry
  <2>3. Bytes(raw \union {line}) = Bytes(raw) + size
    BY <1>3, <1>5, <2>1, <2>2, CountedIs
  <2> QED
    BY <1>1, <1>3, <2>3
<1>8. /\ IsFiniteSet(buffer') /\ \A e \in buffer' : e.text.size > 0
      /\ \A t \in Streams : held'[t] = Bytes(Counted(t)')
  <2>1. CASE UNCHANGED <<buffer, held>>
    BY <1>3, <2>1 DEF Sized, Counted
  <2>2. CASE \E entry \in Entry : AddAt(entry) /\ entry.seq = next /\ entry.text.size > 0
    <3>1. PICK entry \in Entry : AddAt(entry) /\ entry.seq = next /\ entry.text.size > 0
      BY <2>2
    <3>2. /\ buffer' = buffer \union {entry} /\ entry \notin buffer
          /\ held' = [held EXCEPT ![entry.stream] = @ + entry.text.size]
          /\ entry.stream \in Streams /\ entry.text.size \in Nat
      BY <1>6, <3>1 DEF AddAt, Entry, Text
    <3>3. \A d \in buffer : d.stream \in Streams
      BY <1>4 DEF Entry
    <3>4. /\ Sized(buffer \union {entry})
          /\ \A t \in Streams :
               Bytes({d \in buffer \union {entry} : d.stream = t})
                 = Bytes({d \in buffer : d.stream = t})
                     + (IF entry.stream = t THEN entry.text.size ELSE 0)
      BY <1>3, <3>2, <3>3, CountedIs
    <3>5. ASSUME NEW t \in Streams PROVE held'[t] = Bytes(Counted(t)')
      <4>1. held'[t] = held[t] + (IF entry.stream = t THEN entry.text.size ELSE 0)
        BY <1>4, <3>2
      <4>2. Bytes(Counted(t)')
              = Bytes(Counted(t)) + (IF entry.stream = t THEN entry.text.size ELSE 0)
        BY <3>2, <3>4 DEF Counted
      <4> QED
        BY <1>3, <4>1, <4>2
    <3> QED
      BY <1>3, <3>1, <3>2, <3>4, <3>5 DEF Sized
  <2> QED
    BY <2>1, <2>2
<1>9. raw' # {} /\ \A l \in raw' : Filtered(l.stream)'
  <2>1. \A t : Filtered(t)' <=> Filtered(t)
    BY DEF Filtered, ScopeNames
  <2>2. \A l \in raw : Filtered(l.stream)
    BY <1>1 DEF LedgerInv
  <2>3. Filtered(s)
    BY DEF Retain
  <2> QED
    BY <1>1, <1>5, <2>1, <2>2, <2>3
<1> QED
  BY <1>2, <1>7, <1>8, <1>9 DEF LedgerInv, Bytes, BytesIn

LEMMA ConsumeCounts ==
  ASSUME ShownInv, LedgerInv, ~exited, NEW s \in Streams, NEW size \in Sizes, Consume(s, size)
  PROVE  LedgerInv'
<1>1. Take(s, size)
  BY KeptOfConsume
<1>2. /\ IsFiniteSet(received') /\ \A l \in received' : l.text.size > 0
      /\ size \in Nat /\ size > 0 /\ next \in Nat
  BY <1>1, TakeCounts DEF ShownInv, DeliveryInv, EngineTypeOK
<1>3. CASE PassLine(s, size) \/ Overflow(s, size)
  <2>1. passthrough'
    BY <1>3 DEF PassLine, Overflow
  <2> QED
    BY <1>2, <2>1 DEF LedgerInv
<1>4. CASE EmitLine(s, size)
  <2>1. UNCHANGED <<raw, buffer, rawBytes, held, hidden, activeCase, exited, passthrough>>
    BY <1>4 DEF EmitLine, Take, bufferVars, filterVars
  <2>2. \A t : Counted(t)' = Counted(t) /\ (Filtered(t)' <=> Filtered(t))
    BY <2>1 DEF Counted, Filtered, ScopeNames
  <2> QED
    BY <1>2, <2>1, <2>2 DEF LedgerInv, Bytes, BytesIn
<1>5. CASE \E rule \in Rules : IgnoreLine(s, size, rule)
  BY <1>5, RetainCounts DEF IgnoreLine, NoteIgnored
<1>6. CASE \E rule \in Rules : KeepLine(s, size, rule)
  <2>1. PICK rule \in Rules : /\ Retain(s, size, rule) /\ AddAt(Line(next, s, size))
                             /\ activeCase' = activeCase
    BY <1>6 DEF KeepLine, filterVars
  <2>2. /\ Line(next, s, size) \in Entry /\ Line(next, s, size).seq = next
        /\ Line(next, s, size).text.size = size
    BY <1>2, LineType DEF Line
  <2> QED
    BY <1>2, <2>1, <2>2, RetainCounts
<1>7. CASE \E newSize \in Sizes \union {0} : ReplaceLine(s, size, newSize)
  <2>1. PICK newSize \in Sizes \union {0} : ReplaceLine(s, size, newSize)
    BY <1>7
  <2> DEFINE new == [seq |-> next, stream |-> s,
                     text |-> [size |-> newSize, shows |-> {next}, exact |-> {}, adds |-> {}]]
  <2>2. /\ Retain(s, size, "replace") /\ activeCase' = activeCase
        /\ UNCHANGED <<buffer, held>> \/ (newSize # 0 /\ AddAt(new))
    BY <2>1 DEF ReplaceLine, filterVars
  <2>3. newSize \in Nat
    BY EngineAssumption
  <2>4. new \in Entry /\ new.seq = next /\ new.text.size = newSize
    BY <1>2, <2>3 DEF Entry, Text
  <2> HIDE DEF new
  <2> QED
    BY <2>2, <2>3, <2>4, RetainCounts
<1> QED
  BY <1>3, <1>4, <1>5, <1>6, <1>7 DEF Consume

(* The size of a scope is what its entries have.                           *)
LEMMA HeldIs ==
  ASSUME ShownInv, LedgerInv, ~exited, ~passthrough, NEW c \in Scopes
  PROVE  /\ Sized(EntriesOf(c)) /\ HeldBytes(c) = Bytes(EntriesOf(c))
         /\ HeldBytes(c) \in Nat /\ (HeldBytes(c) = 0 => EntriesOf(c) = {})
<1>1. /\ Sized(buffer) /\ \A e \in buffer : e.text.size > 0 /\ e.stream \in Streams
      /\ \A s \in Streams : held[s] = Bytes(Counted(s))
  BY RetainedIsSized DEF LedgerInv, ShownInv, DeliveryInv, EngineTypeOK, Entry
<1>2. EntriesOf(c) \in SUBSET buffer
  BY DEF EntriesOf
<1>3. Sized(EntriesOf(c))
  BY <1>1, <1>2, FS_Subset DEF Sized
<1>4. HeldBytes(c) = Bytes(EntriesOf(c))
  <2>1. CASE c = "combined"
    <3>1. buffer = Counted("stdout") \union Counted("stderr")
      BY <1>1 DEF Counted, Streams
    <3>2. Counted("stdout") \intersect Counted("stderr") = {}
      BY DEF Counted
    <3>3. Sized(Counted("stdout")) /\ Sized(Counted("stderr"))
      <4>1. \A s : Counted(s) \in SUBSET buffer
        BY DEF Counted
      <4> QED
        BY <1>1, <4>1, FS_Subset DEF Sized
    <3>4. Bytes(buffer) = Bytes(Counted("stdout")) + Bytes(Counted("stderr"))
      BY <3>1, <3>2, <3>3, BytesAdd
    <3> QED
      BY <1>1, <2>1, <3>4 DEF EntriesOf, HeldBytes, Streams
  <2>2. CASE c # "combined"
    BY <1>1, <2>2 DEF EntriesOf, HeldBytes, Counted, Scopes
  <2> QED
    BY <2>1, <2>2
<1>5. Bytes(EntriesOf(c)) \in Nat
  BY <1>3, BytesAreFinite
<1>6. Bytes(EntriesOf(c)) = 0 => EntriesOf(c) = {}
  BY <1>1, <1>2, <1>3, OnlyNothingHasNoBytes
<1> QED
  BY <1>3, <1>4, <1>5, <1>6

(* With nothing retained a scope has nothing to show but the footer.       *)
LEMMA NothingRetained ==
  ASSUME ShownInv, LedgerInv, ~exited, ~passthrough, raw = {}
  PROVE  /\ buffer = {} /\ \A c \in Scopes : collected[c] = {} /\ hidden[c] = 0
         /\ \A c \in Scopes : Buffered(c).size = 0
<1>1. buffer = {} /\ \A c \in Scopes : collected[c] = {} /\ hidden[c] = 0
  <2>1. \A c \in Scopes : RawOf(c) = {}
    BY DEF RawOf
  <2> QED
    BY <2>1 DEF ShownInv, RetainedInv, LedgerInv, Ids
<1>2. ASSUME NEW c \in Scopes PROVE Buffered(c).size = 0
  <2>1. EntriesOf(c) = {}
    BY <1>1 DEF EntriesOf
  <2>2. HeldBytes(c) = 0
    BY <2>1, HeldIs, NoBytes
  <2> QED
    BY <2>2 DEF Buffered
<1> QED
  BY <1>1, <1>2

LEMMA FooterSize ==
  ASSUME activeCase \in Cases, NEW text, text.size \in Nat, NEW code
  PROVE  /\ activeCase.footer \in Nat /\ WithFooter(text, code).size \in Nat
         /\ WithFooter(text, code).size >= text.size
         /\ WithFooter(text, code).size <= text.size + activeCase.footer
<1>1. activeCase.footer \in Nat
  BY FilterAssumption
<1> QED
  BY <1>1 DEF WithFooter, Adding

(* The size of a text of the exit: empty only when nothing is buffered,    *)
(* and at most the footer when nothing is retained.                        *)
LEMMA TextSize ==
  ASSUME ShownInv, LedgerInv, ~exited, ~passthrough, NEW c \in ScopeNames, NEW code \in Nat,
         NEW text \in ExitTexts(c, code)
  PROVE  /\ text.size \in Nat /\ (text.size = 0 => EntriesOf(c) = {})
         /\ raw = {} => text.size <= (IF CarriesFooter(c) THEN activeCase.footer ELSE 0)
<1>1. c \in Scopes /\ activeCase \in Cases /\ hidden[c] \in Nat
  BY ScopeNamesType DEF ShownInv, DeliveryInv, EngineTypeOK, FilterTypeOK
<1>2. PICK t \in GroupTexts(c) \union {WithOmitted(c, Buffered(c))} :
        text = IF CarriesFooter(c) THEN WithFooter(t, code) ELSE t
  BY DEF ExitTexts, ScopeTexts
<1>3. activeCase.scope[c].print \in Nat /\ activeCase.footer \in Nat
  BY <1>1, FilterAssumption DEF ScopeNames, Scope
<1>4. Buffered(c).size \in Nat /\ (Buffered(c).size = 0 => EntriesOf(c) = {})
  BY <1>1, HeldIs DEF Buffered
<1>5. /\ t.size \in Nat /\ (t.size = 0 => EntriesOf(c) = {})
      /\ raw = {} => t.size = 0
  <2>1. CASE t \in GroupTexts(c)
    <3>1. collected[c] # {} /\ t.size \in RenderSizes
      BY <2>1 DEF GroupTexts
    <3>2. t.size \in Nat /\ t.size # 0
      BY <3>1, FilterAssumption
    <3> QED
      BY <1>1, <3>1, <3>2, NothingRetained
  <2>2. CASE t = WithOmitted(c, Buffered(c))
    <3>1. /\ t.size \in Nat /\ t.size >= Buffered(c).size
          /\ hidden[c] = 0 => t.size = Buffered(c).size
      BY <1>1, <1>3, <1>4, <2>2 DEF WithOmitted, Adding
    <3>2. t.size = 0 => Buffered(c).size = 0
      BY <1>4, <3>1
    <3> QED
      BY <1>1, <1>4, <3>1, <3>2, NothingRetained
  <2> QED
    BY <2>1, <2>2
<1>6. CASE CarriesFooter(c)
  <2>1. /\ text.size \in Nat /\ text.size >= t.size
        /\ text.size <= t.size + activeCase.footer
    BY <1>1, <1>2, <1>5, <1>6, FooterSize
  <2> QED
    BY <1>3, <1>5, <1>6, <2>1
<1>7. CASE ~CarriesFooter(c)
  BY <1>2, <1>5, <1>7
<1> QED
  BY <1>6, <1>7

LEMMA ReplacementSize ==
  ASSUME ShownInv, LedgerInv, ~exited, ~passthrough, NEW s, NEW entries, NEW text, NEW fresh,
         text.size \in Nat, text.size = 0 => entries = {}
  PROVE  /\ Sized(Replacement(s, entries, text, fresh))
         /\ Bytes(Replacement(s, entries, text, fresh)) = text.size
<1> DEFINE e == [seq |-> PlaceOf(entries, fresh), stream |-> s, text |-> text]
<1>1. CASE text.size = 0
  <2>1. Replacement(s, entries, text, fresh) = {}
    BY <1>1 DEF Replacement
  <2> QED
    BY <1>1, <2>1, NoBytes, FS_EmptySet DEF Sized
<1>2. CASE text.size # 0
  <2>1. Replacement(s, entries, text, fresh) = {e} /\ e.text = text
    BY <1>2 DEF Replacement
  <2> HIDE DEF e
  <2> QED
    BY <2>1, BytesOfOne, FS_Singleton DEF Sized
<1> QED
  BY <1>1, <1>2

(* After the exit, unless filtering was given up: what was handed back is  *)
(* shorter than what was printed, or complete and at most the footer was   *)
(* added; a passthrough case adds nothing.                                 *)
AnswerInv ==
  exited /\ ~passthrough =>
    /\ activeCase.passthrough => released = received
    /\ \/ Bytes(released) < Bytes(received)
       \/ received \subseteq released /\ Bytes(released) <= Bytes(received) + activeCase.footer

LEMMA FinalizeCounts ==
  ASSUME ShownInv, LedgerInv, ~exited, ~passthrough, UNCHANGED <<activeCase, received>>,
         NEW entries, NEW total \in Nat, Sized(entries), Bytes(entries) = total,
         raw = {} => total <= activeCase.footer,
         activeCase.passthrough => raw = {} /\ entries = {},
         Finalize(entries, total)
  PROVE  AnswerInv'
<1>1. /\ raw \union released = received /\ raw \intersect released = {}
  BY DEF ShownInv, DeliveryInv, NothingLost
<1>2. Sized(raw) /\ Sized(released) /\ \A l \in raw : l.text.size > 0
  BY RetainedIsSized
<1>3. Bytes(received) = Bytes(raw) + Bytes(released) /\ rawBytes = Bytes(raw)
  BY <1>1, <1>2, BytesAdd DEF LedgerInv
<1>4. Bytes(raw) \in Nat /\ Bytes(released) \in Nat /\ activeCase.footer \in Nat
  BY <1>2, BytesAreFinite, FilterAssumption
     DEF ShownInv, DeliveryInv, EngineTypeOK, FilterTypeOK
<1>5. CASE passthrough'
  BY <1>5 DEF AnswerInv
<1>6. CASE ~passthrough'
  <2>1. /\ released' = released \union entries /\ received' = received
        /\ activeCase' = activeCase /\ ~(rawBytes > 0 /\ total >= rawBytes)
    BY <1>6 DEF Finalize, GiveUp, Return
  <2>2. Bytes(released \union entries) <= Bytes(released) + total
        /\ Bytes(released \union entries) \in Nat
    BY <1>2, BytesAdd, BytesAreFinite
  <2>3. CASE rawBytes = 0
    <3>1. raw = {}
      BY <1>2, <1>3, <2>3, OnlyNothingHasNoBytes
    <3>2. received = released /\ total <= activeCase.footer
      BY <1>1, <3>1
    <3>3. Bytes(released') <= Bytes(received') + activeCase.footer
      BY <1>4, <2>1, <2>2, <3>2
    <3> QED
      BY <2>1, <3>2, <3>3 DEF AnswerInv, Bytes, BytesIn
  <2>4. CASE rawBytes # 0
    <3>1. total < Bytes(raw) /\ raw # {}
      <4>1. total < Bytes(raw)
        BY <1>3, <1>4, <2>1, <2>4
      <4>2. Bytes(raw) # 0
        BY <1>3, <2>4
      <4> QED
        BY <4>1, <4>2, NoBytes
    <3>2. Bytes(released') < Bytes(received')
      BY <1>3, <1>4, <2>1, <2>2, <3>1
    <3> QED
      BY <2>1, <3>1, <3>2 DEF AnswerInv, Bytes, BytesIn
  <2> QED
    BY <2>3, <2>4
<1> QED
  BY <1>5, <1>6

LEMMA ExitCounts ==
  ASSUME ShownInv, LedgerInv, ~exited, NEW code \in Nat, Exit(code)
  PROVE  LedgerInv' /\ AnswerInv'
<1>1. /\ exited' /\ UNCHANGED <<activeCase, received>>
      /\ passthrough => ExitPassthrough(code)
  BY ExitLeaves
<1>2. LedgerInv'
  BY <1>1 DEF LedgerInv
<1>3. /\ activeCase \in Cases /\ activeCase.footer \in Nat
      /\ activeCase.passthrough => ScopeNames = {}
      /\ ScopeNames \subseteq Scopes
  BY FilterAssumption, ScopeNamesType
     DEF ShownInv, DeliveryInv, EngineTypeOK, FilterTypeOK, ScopeNames
<1>4. CASE passthrough
  <2>1. passthrough'
    BY <1>1, <1>4 DEF ExitPassthrough
  <2> QED
    BY <1>2, <2>1 DEF AnswerInv
<1> SUFFICES ASSUME ~passthrough PROVE AnswerInv'
  BY <1>2, <1>4
<1>5. \A c \in Scopes :
        /\ Sized(EntriesOf(c)) /\ Buffered(c).size = Bytes(EntriesOf(c))
        /\ Buffered(c).size \in Nat /\ (Buffered(c).size = 0 => EntriesOf(c) = {})
  BY HeldIs DEF Buffered
<1>6. /\ EntriesOf("combined") = buffer /\ HeldBytes("combined") = Buffered("combined").size
      /\ {"combined", "stdout", "stderr"} = Scopes
  BY DEF EntriesOf, Buffered, Scopes, Streams
<1>7. ScopeNames = {} => buffer = {} /\ raw = {}
  <2>1. ScopeNames = {} => \A s : ~Filtered(s)
    BY DEF Filtered
  <2>2. \A e \in buffer \union raw : Filtered(e.stream)
    BY DEF ShownInv, RetainedInv, LedgerInv
  <2> QED
    BY <2>1, <2>2
<1>8. CASE ExitNative(code) \/ ExitCombinedKeep(code)
  <2> DEFINE total == Buffered("combined").size
  <2>1. Finalize(buffer, total)
    BY <1>6, <1>8 DEF ExitNative, ExitCombinedKeep
  <2>2. Sized(buffer) /\ Bytes(buffer) = total /\ total \in Nat
    BY <1>5, <1>6
  <2>3. raw = {} => total <= activeCase.footer
    BY <1>3, <1>6, NothingRetained
  <2> HIDE DEF total
  <2> QED
    BY <1>1, <1>3, <1>7, <2>1, <2>2, <2>3, FinalizeCounts
<1>9. CASE ExitUnscoped(code)
  <2> DEFINE text == WithFooter(Buffered("stdout"), code)
             new  == Replacement("stdout", buffer, text, next)
  <2>1. /\ ~activeCase.passthrough /\ Finalize(new, text.size) /\ buffer = {} /\ raw = {}
    BY <1>7, <1>9 DEF ExitUnscoped
  <2>2. Buffered("stdout").size = 0
    BY <1>6, <2>1, NothingRetained
  <2>3. text.size \in Nat /\ text.size <= activeCase.footer
    BY <1>3, <2>2, FooterSize
  <2> HIDE DEF text
  <2>4. Sized(new) /\ Bytes(new) = text.size
    BY <2>1, <2>3, ReplacementSize
  <2> HIDE DEF new
  <2> QED
    BY <1>1, <2>1, <2>3, <2>4, FinalizeCounts
<1>10. CASE ExitCombinedReplace(code)
  <2> DEFINE s == IF BufferedStreams = {"stderr"} THEN "stderr" ELSE "stdout"
  <2>1. PICK text \in ExitTexts("combined", code) :
          Finalize(Replacement(s, buffer, text, next), text.size)
    BY <1>10 DEF ExitCombinedReplace
  <2> DEFINE new == Replacement(s, buffer, text, next)
  <2>2. "combined" \in ScopeNames /\ ~activeCase.passthrough
    BY <1>3, <1>10 DEF ExitCombinedReplace
  <2>3. /\ text.size \in Nat /\ (text.size = 0 => buffer = {})
        /\ raw = {} => text.size <= activeCase.footer
    BY <1>3, <1>6, <2>2, TextSize
  <2> HIDE DEF s
  <2>4. Sized(new) /\ Bytes(new) = text.size
    BY <2>3, ReplacementSize
  <2>5. Finalize(new, text.size)
    BY <2>1
  <2> HIDE DEF new
  <2> QED
    BY <1>1, <2>2, <2>3, <2>4, <2>5, FinalizeCounts
<1>11. CASE ExitCombinedUnsafe(code)
  <2>1. passthrough'
    BY <1>11 DEF ExitCombinedUnsafe, GiveUp
  <2> QED
    BY <2>1 DEF AnswerInv
<1>12. CASE ExitSplit(code)
  <2> DEFINE outs  == EntriesOf("stdout")
             errs  == EntriesOf("stderr")
             after(o) == next + (IF o.size = 0 THEN 0 ELSE Fresh(outs))
  <2>1. PICK o \in IF "stdout" \in ScopeNames THEN ExitTexts("stdout", code)
                                              ELSE {Buffered("stdout")},
             e \in IF "stderr" \in ScopeNames THEN ExitTexts("stderr", code)
                                              ELSE {Buffered("stderr")} :
          Finalize(Replacement("stdout", outs, o, next)
                     \union Replacement("stderr", errs, e, after(o)), o.size + e.size)
    BY <1>12 DEF ExitSplit
  <2>2. ~activeCase.passthrough
    BY <1>3, <1>12 DEF ExitSplit
  <2>3. /\ o.size \in Nat /\ (o.size = 0 => outs = {})
        /\ raw = {} => o.size <= activeCase.footer
        /\ raw = {} /\ "stdout" \notin ScopeNames => o.size = 0
    <3>1. CASE "stdout" \in ScopeNames
      BY <1>3, <2>1, <3>1, TextSize DEF CarriesFooter
    <3>2. CASE "stdout" \notin ScopeNames
      BY <1>3, <1>5, <1>6, <2>1, <3>2, NothingRetained
    <3> QED
      BY <3>1, <3>2
  <2>4. /\ e.size \in Nat /\ (e.size = 0 => errs = {})
        /\ raw = {} => e.size <= (IF "stdout" \in ScopeNames THEN 0 ELSE activeCase.footer)
    <3>1. CASE "stderr" \in ScopeNames
      BY <1>3, <2>1, <3>1, TextSize DEF CarriesFooter
    <3>2. CASE "stderr" \notin ScopeNames
      BY <1>3, <1>5, <1>6, <2>1, <3>2, NothingRetained
    <3> QED
      BY <3>1, <3>2
  <2> HIDE DEF outs, errs, after
  <2> DEFINE new  == Replacement("stdout", outs, o, next)
             more == Replacement("stderr", errs, e, after(o))
  <2>5. Sized(new) /\ Bytes(new) = o.size /\ Sized(more) /\ Bytes(more) = e.size
    BY <2>3, <2>4, ReplacementSize
  <2>6. new \intersect more = {}
    <3>1. (\A x \in new : x.stream = "stdout") /\ (\A x \in more : x.stream = "stderr")
      BY DEF Replacement, outs, errs, EntriesOf
    <3> QED
      BY <3>1
  <2>7. Finalize(new \union more, o.size + e.size)
    BY <2>1
  <2> HIDE DEF new, more
  <2>8. Sized(new \union more) /\ Bytes(new \union more) = o.size + e.size
    BY <2>5, <2>6, BytesAdd
  <2>9. o.size + e.size \in Nat /\ (raw = {} => o.size + e.size <= activeCase.footer)
    BY <1>3, <2>3, <2>4
  <2> DEFINE total == o.size + e.size
  <2>10. Finalize(new \union more, total) /\ Bytes(new \union more) = total
         /\ total \in Nat /\ (raw = {} => total <= activeCase.footer)
    BY <2>7, <2>8, <2>9
  <2> HIDE DEF total
  <2> QED
    BY <1>1, <2>2, <2>8, <2>10, FinalizeCounts
<1> QED
  BY <1>8, <1>9, <1>10, <1>11, <1>12 DEF Exit, ExitPassthrough

LEMMA LedgerStep ==
  ReaderInv /\ LedgerInv /\ AnswerInv /\ [EngineNext]_engineVars => LedgerInv' /\ AnswerInv'
<1> SUFFICES ASSUME ReaderInv, LedgerInv, AnswerInv, [EngineNext]_engineVars
             PROVE  LedgerInv' /\ AnswerInv'
  OBVIOUS
<1>1. ShownInv
  BY DEF ReaderInv
<1>2. ASSUME NEW s \in Streams, NEW size \in Sizes, Consume(s, size), ~exited
      PROVE  LedgerInv' /\ AnswerInv'
  <2>1. Take(s, size)
    BY <1>2, KeptOfConsume
  <2>2. ~exited'
    BY <1>2, <2>1 DEF Take
  <2> QED
    BY <1>1, <1>2, <2>2, ConsumeCounts DEF AnswerInv
<1>3. CASE UNCHANGED engineVars
  <2>1. UNCHANGED <<activeCase, hidden, raw, buffer, rawBytes, held, passthrough, exited,
                    received, released>>
    BY <1>3 DEF engineVars, filterVars, bufferVars, historyVars
  <2>2. \A t : Counted(t)' = Counted(t) /\ (Filtered(t)' <=> Filtered(t))
    BY <2>1 DEF Counted, Filtered, ScopeNames
  <2>3. LedgerInv'
    BY <2>1, <2>2 DEF LedgerInv, Bytes, BytesIn
  <2>4. AnswerInv'
    BY <2>1 DEF AnswerInv, Bytes, BytesIn
  <2> QED
    BY <2>3, <2>4
<1> QED
  BY <1>1, <1>2, <1>3, ExitCounts, EngineAssumption DEF EngineNext

(* When filtering was not given up, the reader was handed less than the    *)
(* command printed, or all of it and at most the footer on top.            *)
THEOREM FilteringPays == EngineSpec => []AnswerInv
<1>1. EngineInit => AnswerInv
  BY DEF EngineInit, AnswerInv
<1> QED
  BY <1>1, InitCounts, LedgerStep, Tells, PTL DEF EngineSpec
=============================================================================
