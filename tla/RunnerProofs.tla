---------------------------- MODULE RunnerProofs ----------------------------
(***************************************************************************)
(* Theorems about one run, for every set of cases, every limit, any number *)
(* of lines and every combination of faults.                               *)
(***************************************************************************)
EXTENDS Runner, EngineProofs

-----------------------------------------------------------------------------
(* The invariant *)

(* No two entries for one destination share a number.                      *)
OneEach(entries) ==
  \A d, e \in entries : d.stream = e.stream /\ d.seq = e.seq => d = e

(* The goroutines that hold an answer they have not written.               *)
Pending == {c \in Callers : IF c = "main" THEN main = "write" ELSE drain[c] = "sink"}

RunnerTypeOK ==
  /\ mode \in ModeKinds /\ confidential \in BOOLEAN /\ printed \in Nat
  /\ pipe \in [Streams -> Seq(Sizes)]
  /\ child \in {"running", "exited"} /\ childCode \in Nat
  /\ cause \in {"none", "signal", "cancelled"}
  /\ drain \in [Streams -> {"read", "sink", "done"}]
  /\ main \in {"wait", "exit", "write", "flush", "result", "recover", "measure", "finish",
               "unfiltered", "done"}
  /\ broken \subseteq Streams /\ writeErr \subseteq Streams /\ readErr \subseteq Streams
  /\ flushErr \subseteq Streams
  /\ out \in [Streams -> Seq(Entry)]
  /\ waitErr \in BOOLEAN

(* A drain ends with its pipe or with an error; the main goroutine waits   *)
(* for the drains and for the command, and closes the engine once.         *)
ControlInv ==
  /\ \A s \in Streams : drain[s] = "done" =>
       s \in readErr \/ (pipe[s] = <<>> /\ (child = "exited" \/ mode = "attached"))
  /\ main # "wait" => child = "exited" /\ \A s \in Streams : drain[s] = "done"
  /\ main \in {"wait", "exit", "unfiltered"} => ~exited
  /\ main \in {"write", "flush", "result", "recover", "measure", "finish"} => exited
  /\ main \in {"exit", "write", "flush", "result", "recover", "measure", "finish"}
       => mode = "filtered"
  /\ main = "unfiltered" => mode # "filtered"

(* What the engine retains is finite and of streams the case filters, and  *)
(* only the limit makes it give up before the exit.                        *)
RetainInv ==
  /\ IsFiniteSet(raw) /\ IsFiniteSet(buffer)
  /\ ~exited /\ ~passthrough => \A l \in raw : Filtered(l.stream)
  /\ ~exited /\ passthrough => Overflowed

(* What was handed back and is not written yet is in one pair of hands and *)
(* in no output; what is in neither was meant for a destination that       *)
(* failed.                                                                 *)
HandsInv ==
  /\ \A c \in Pending :
       returned[c] \subseteq released /\ IsFiniteSet(returned[c]) /\ OneEach(returned[c])
  /\ \A c, d \in Pending : c # d => returned[c] \intersect returned[d] = {}
  /\ \A d \in Streams :
       /\ ToSet(out[d]) \subseteq released /\ IsInjective(out[d])
       /\ \A e \in ToSet(out[d]) : e.stream = d
       /\ \A c \in Pending : ToSet(out[d]) \intersect returned[c] = {}
  /\ \A e \in released :
       \/ e.stream \in writeErr
       \/ e \in ToSet(out[e.stream])
       \/ \E c \in Pending : e \in returned[c]

(* Unless the limit was exceeded a destination is in order, what waits for *)
(* it comes after it, and until the exit only lines of unfiltered streams  *)
(* are out, each with the drain of its stream.                             *)
OrderInv ==
  Overflowed \/
    /\ \A d \in Streams : Ordered(out[d]) /\ (~exited /\ Filtered(d) => ToSet(out[d]) = {})
    /\ \A c \in Pending : \A f \in returned[c] :
         /\ \A e \in ToSet(out[f.stream]) : e.seq < f.seq
         /\ ~exited => f.stream = c /\ ~Filtered(c)

(* Every printed line is in a pipe or was read.                            *)
CountInv ==
  /\ IsFiniteSet(received)
  /\ Cardinality(received) + Len(pipe["stdout"]) + Len(pipe["stderr"]) = printed

(* The run goes on after the result only if nothing failed, and the code   *)
(* is that of the command unless the run was interrupted.                  *)
Bookkeeping == {"recover", "measure", "finish"}
ResultInv ==
  /\ main \in {"write", "flush", "result"} => exitCode = IF waitErr THEN 1 ELSE childCode
  /\ main \in Bookkeeping => ~result.error
  /\ main \in Bookkeeping \union {"done"} /\ ~result.error =>
       /\ writeErr = {} /\ readErr = {}
       /\ cause = "none" => result.code = childCode

RunnerInv ==
  /\ ReaderInv /\ RunnerTypeOK /\ ControlInv
  /\ RetainInv /\ HandsInv /\ OrderInv /\ CountInv /\ ResultInv

-----------------------------------------------------------------------------
(* The order of an answer *)

(* The entries can be numbered by their rank, so InOrder has a choice.     *)
LEMMA RanksExist ==
  ASSUME NEW S \in SUBSET Entry, IsFiniteSet(S),
         \A d, e \in S : d.seq = e.seq => d = e
  PROVE  \E q \in [1..Cardinality(S) -> S] :
           \A i, j \in DOMAIN q : i < j => q[i].seq < q[j].seq
<1> DEFINE N == Cardinality(S)
           below(e) == {d \in S : d.seq <= e.seq}
           rank == [e \in S |-> Cardinality(below(e))]
<1>1. N \in Nat
  BY FS_CardinalityType
<1>2. \A e \in S : e.seq \in Nat
  BY DEF Entry
<1>3. ASSUME NEW e \in S
      PROVE  /\ IsFiniteSet(below(e)) /\ Cardinality(below(e)) \in 1..N
  <2>1. below(e) \in SUBSET S /\ e \in below(e)
    BY <1>2
  <2>2. IsFiniteSet(below(e)) /\ Cardinality(below(e)) <= N
    BY <2>1, FS_Subset
  <2>3. Cardinality(below(e)) \in Nat
    BY <2>2, FS_CardinalityType
  <2>4. Cardinality(below(e)) # 0
    BY <2>1, <2>2, FS_EmptySet
  <2> HIDE DEF below, N
  <2> QED
    BY <1>1, <2>2, <2>3, <2>4
<1>4. ASSUME NEW d \in S, NEW e \in S, d.seq < e.seq
      PROVE  Cardinality(below(d)) < Cardinality(below(e))
  <2>1. below(d) \in SUBSET below(e) /\ e \in below(e) /\ e \notin below(d)
    BY <1>2, <1>4
  <2>2. IsFiniteSet(below(e))
    BY <1>3
  <2>3. /\ Cardinality(below(d)) <= Cardinality(below(e))
        /\ Cardinality(below(e)) = Cardinality(below(d)) => below(e) = below(d)
    BY <2>1, <2>2, FS_Subset
  <2>4. Cardinality(below(d)) \in 1..N /\ Cardinality(below(e)) \in 1..N
    BY <1>3
  <2> HIDE DEF below, N
  <2> QED
    BY <1>1, <2>1, <2>3, <2>4
<1>5. rank \in [S -> 1..N] /\ \A e \in S : rank[e] = Cardinality(below(e))
  BY <1>3
<1> HIDE DEF rank, below, N
<1>6. \A d, e \in S : d.seq < e.seq => rank[d] < rank[e]
  BY <1>4, <1>5
<1>7. \A d, e \in S : rank[d] = rank[e] => d = e
  <2> SUFFICES ASSUME NEW d \in S, NEW e \in S, rank[d] = rank[e] PROVE d = e
    OBVIOUS
  <2>1. ~(rank[d] < rank[e]) /\ ~(rank[e] < rank[d])
    BY <1>1, <1>5
  <2>2. d.seq = e.seq
    BY <1>2, <1>6, <2>1
  <2> QED
    BY <2>2
<1>8. \A i \in 1..N : \E e \in S : rank[e] = i
  <2>1. IsFiniteSet(1..N) /\ Cardinality(1..N) = N
    <3>1. 1 \in Int /\ N \in Int
      BY <1>1
    <3>2. IsFiniteSet(1..N) /\ Cardinality(1..N) = IF 1 > N THEN 0 ELSE N - 1 + 1
      BY <3>1, FS_Interval
    <3> QED
      BY <1>1, <3>2
  <2>2. rank \in Injection(S, 1..N)
    BY <1>5, <1>7 DEF Injection, IsInjective
  <2>3. rank \in Surjection(S, 1..N)
    <3>1. Cardinality(S) = Cardinality(1..N) <=> rank \in Surjection(S, 1..N)
      BY <2>1, <2>2, FS_Injection
    <3> QED
      BY <2>1, <3>1 DEF N
  <2> QED
    BY <1>5, <2>3 DEF Surjection
<1> DEFINE q == [i \in 1..N |-> CHOOSE e \in S : rank[e] = i]
<1>9. q \in [1..N -> S] /\ \A i \in 1..N : rank[q[i]] = i
  BY <1>8
<1> HIDE DEF q
<1>10. \A i, j \in DOMAIN q : i < j => q[i].seq < q[j].seq
  <2> SUFFICES ASSUME NEW i \in 1..N, NEW j \in 1..N, i < j PROVE q[i].seq < q[j].seq
    BY <1>9
  <2>1. q[i] \in S /\ q[j] \in S /\ rank[q[i]] = i /\ rank[q[j]] = j
    BY <1>9
  <2>2. ~(q[j].seq < q[i].seq)
    BY <1>1, <1>6, <2>1
  <2>3. q[j] # q[i]
    BY <1>1, <2>1
  <2> QED
    BY <1>2, <2>1, <2>2, <2>3
<1> QED
  BY <1>9, <1>10 DEF N

(* It lists every entry once, by increasing numbers.                       *)
LEMMA InOrderIs ==
  ASSUME NEW S \in SUBSET Entry, IsFiniteSet(S),
         \A d, e \in S : d.seq = e.seq => d = e
  PROVE  /\ InOrder(S) \in Seq(Entry) /\ ToSet(InOrder(S)) = S
         /\ IsInjective(InOrder(S)) /\ Ordered(InOrder(S))
<1> DEFINE N == Cardinality(S)
           q == InOrder(S)
<1>1. N \in Nat
  BY FS_CardinalityType
<1>2. q \in [1..N -> S] /\ \A i, j \in DOMAIN q : i < j => q[i].seq < q[j].seq
  BY RanksExist DEF InOrder
<1>3. \A e \in S : e.seq \in Nat
  BY DEF Entry
<1>4. \A i, j \in 1..N : q[i] = q[j] => i = j
  <2> HIDE DEF q, N
  <2> SUFFICES ASSUME NEW i \in 1..N, NEW j \in 1..N, q[i] = q[j] PROVE i = j
    OBVIOUS
  <2>1. ~(i < j) /\ ~(j < i)
    BY <1>2, <1>3
  <2> QED
    BY <1>1, <2>1
<1>5. q \in Surjection(1..N, S)
  <2>1. IsFiniteSet(1..N) /\ Cardinality(1..N) = N
    <3>1. 1 \in Int /\ N \in Int
      BY <1>1
    <3>2. IsFiniteSet(1..N) /\ Cardinality(1..N) = IF 1 > N THEN 0 ELSE N - 1 + 1
      BY <3>1, FS_Interval
    <3> QED
      BY <1>1, <3>2
  <2>2. q \in Injection(1..N, S)
    BY <1>2, <1>4 DEF Injection, IsInjective
  <2>3. Cardinality(1..N) = Cardinality(S) <=> q \in Surjection(1..N, S)
    BY <2>2, FS_Injection
  <2> QED
    BY <2>1, <2>3
<1> HIDE DEF q, N
<1>6. \A e \in S : \E i \in 1..N : q[i] = e
  BY <1>5 DEF Surjection
<1>7. q \in Seq(Entry)
  <2>1. q \in [1..N -> Entry]
    BY <1>2
  <2> QED
    BY <1>1, <2>1
<1>8. ToSet(q) = S
  BY <1>2, <1>6 DEF ToSet
<1>9. IsInjective(q) /\ Ordered(q)
  BY <1>2, <1>4 DEF IsInjective, Ordered
<1> QED
  BY <1>7, <1>8, <1>9 DEF q

-----------------------------------------------------------------------------
(* What the engine hands to a goroutine *)

(* Entries that were never handed back before.                             *)
Hands(c, entries) ==
  /\ entries \in SUBSET Entry /\ IsFiniteSet(entries) /\ OneEach(entries)
  /\ entries \intersect released = {}
  /\ returned' = [returned EXCEPT ![c] = entries]
  /\ released' = released \union entries

(* They come after everything handed back before that is for the same      *)
(* destination: the stream is filtered, or the number is new.              *)
InTurn(c, entries) ==
  \A e \in entries : /\ Filtered(e.stream) \/ e.seq >= next
                     /\ c # "main" => e.stream = c /\ ~Filtered(c)

LEMMA OverflowStays ==
  ASSUME Overflowed, UNCHANGED <<passthrough, rawBytes>>
  PROVE  Overflowed'
BY DEF Overflowed

LEMMA ConsumeHands ==
  ASSUME ReaderInv, RetainInv, ~exited, NEW s \in Streams, NEW size \in Sizes, Consume(s, size)
  PROVE  /\ RetainInv' /\ activeCase' = activeCase
         /\ Overflowed => Overflowed'
         /\ \E entries : Hands(s, entries) /\ (Overflowed' \/ InTurn(s, entries))
<1> DEFINE line == Line(next, s, size)
<1>1. /\ ShownInv /\ DeliveryInv /\ EngineTypeOK /\ LinesInv
      /\ size \in Nat /\ next \in Nat /\ rawBytes \in Nat /\ BufferLimit \in Nat
  BY EngineAssumption DEF ReaderInv, ShownInv, DeliveryInv, EngineTypeOK
<1>2. Take(s, size) /\ ~exited'
  BY KeptOfConsume DEF Take
<1>3. /\ line \in Entry /\ line.seq = next /\ line.stream = s
      /\ line \notin received /\ line \notin released
  <2>1. line \in Entry /\ line.seq = next /\ line \notin received
    BY <1>1, <1>2, LineType, SeqsStayOld DEF DeliveryInv
  <2> QED
    BY <1>1, <2>1, ReleasedIsReceived DEF Line
<1>4. IsFiniteSet({}) /\ IsFiniteSet({line})
  BY FS_EmptySet, FS_Singleton
<1>5. IsFiniteSet(raw \union {line})
  BY FS_AddElement DEF RetainInv
<1> HIDE DEF line
<1>6. OneEach({}) /\ OneEach({line})
  BY DEF OneEach
<1>7. CASE PassLine(s, size)
  <2>1. /\ Return(s, {line}) /\ UNCHANGED <<filterVars, bufferVars, passthrough, exited>>
        /\ passthrough
    BY <1>7 DEF PassLine, Take, line
  <2>2. Overflowed /\ UNCHANGED <<activeCase, raw, buffer, rawBytes>>
    BY <2>1 DEF RetainInv, filterVars, bufferVars
  <2>3. Overflowed'
    BY <2>1, <2>2, OverflowStays
  <2>4. Hands(s, {line})
    BY <1>3, <1>4, <1>6, <2>1 DEF Hands, Return
  <2>5. RetainInv'
    BY <2>1, <2>2, <2>3 DEF RetainInv
  <2> QED
    BY <2>2, <2>3, <2>4, <2>5
<1>8. CASE Overflow(s, size)
  <2> DEFINE all == raw \union {line}
  <2>1. /\ Return(s, all) /\ activeCase' = activeCase /\ raw' = {} /\ buffer' = {}
        /\ passthrough' = TRUE /\ rawBytes' = rawBytes + size /\ ~passthrough /\ OverLimit(size)
    BY <1>8 DEF Overflow, filterVars, line
  <2>2. Overflowed'
    BY <1>1, <2>1 DEF Overflowed, OverLimit
  <2>3. raw \in SUBSET Entry /\ raw \subseteq received /\ raw \intersect released = {}
        /\ \A k, l \in raw : k.seq = l.seq => k = l
    BY <1>1, <1>2, <2>1, RawIsLines DEF DeliveryInv, NothingLost, EngineTypeOK
  <2>4. \A l \in raw : l.seq # next
    BY <1>1, <2>3 DEF DeliveryInv, SeqsAreOld, EngineTypeOK, Entry
  <2>5. OneEach(all)
    BY <1>3, <2>3, <2>4 DEF OneEach
  <2>6. all \in SUBSET Entry /\ all \intersect released = {} /\ IsFiniteSet(all)
    BY <1>3, <1>5, <2>3
  <2> HIDE DEF all
  <2>7. Hands(s, all)
    BY <2>1, <2>5, <2>6 DEF Hands, Return
  <2>8. RetainInv'
    BY <1>2, <1>4, <2>1, <2>2 DEF RetainInv
  <2> QED
    BY <2>1, <2>2, <2>7, <2>8
<1>9. CASE EmitLine(s, size)
  <2>1. /\ Return(s, {line}) /\ UNCHANGED <<filterVars, bufferVars, passthrough, exited>>
        /\ ~passthrough /\ ~Filtered(s)
    BY <1>9 DEF EmitLine, Take, line
  <2>2. UNCHANGED <<activeCase, raw, buffer, rawBytes>>
    BY <2>1 DEF filterVars, bufferVars
  <2>3. Hands(s, {line})
    BY <1>3, <1>4, <1>6, <2>1 DEF Hands, Return
  <2>4. InTurn(s, {line})
    BY <1>1, <1>3, <2>1 DEF InTurn
  <2>5. RetainInv'
    BY <2>1, <2>2, OverflowStays DEF RetainInv, Filtered, ScopeNames
  <2>6. Overflowed => Overflowed'
    BY <2>1, <2>2, OverflowStays
  <2> QED
    BY <2>2, <2>3, <2>4, <2>5, <2>6
<1>10. ASSUME NEW rule, Retain(s, size, rule), activeCase' = activeCase, IsFiniteSet(buffer')
       PROVE  /\ RetainInv' /\ (Overflowed => Overflowed')
              /\ Hands(s, {}) /\ InTurn(s, {})
  <2>1. /\ Return(s, {}) /\ ~passthrough /\ passthrough' = passthrough
        /\ raw' = raw \union {line} /\ Filtered(s)
    BY <1>10 DEF Retain, line
  <2>2. Hands(s, {}) /\ InTurn(s, {})
    BY <1>4, <1>6, <2>1 DEF Hands, Return, InTurn
  <2>3. ~Overflowed
    BY <2>1 DEF Overflowed
  <2>4. \A t : Filtered(t)' <=> Filtered(t)
    BY <1>10 DEF Filtered, ScopeNames
  <2>5. \A l \in raw' : Filtered(l.stream)'
    BY <1>2, <1>3, <2>1, <2>4 DEF RetainInv
  <2>6. IsFiniteSet(raw')
    BY <1>5, <2>1
  <2> QED
    BY <1>10, <2>1, <2>2, <2>3, <2>5, <2>6 DEF RetainInv
<1>11. IsFiniteSet(buffer) /\ \A e : IsFiniteSet(buffer \union {e})
  BY FS_AddElement DEF RetainInv
<1>12. CASE \E rule \in Rules : IgnoreLine(s, size, rule) \/ KeepLine(s, size, rule)
  <2>1. PICK rule \in Rules : IgnoreLine(s, size, rule) \/ KeepLine(s, size, rule)
    BY <1>12
  <2>2. Retain(s, size, rule) /\ activeCase' = activeCase
    BY <2>1 DEF IgnoreLine, KeepLine, NoteIgnored, filterVars
  <2>3. buffer' = buffer \/ \E e : buffer' = buffer \union {e}
    BY <2>1 DEF IgnoreLine, KeepLine, AddAt
  <2>4. IsFiniteSet(buffer')
    BY <1>11, <2>3
  <2> QED
    BY <1>10, <2>2, <2>4
<1>13. CASE \E newSize \in Sizes \union {0} : ReplaceLine(s, size, newSize)
  <2>1. PICK newSize \in Sizes \union {0} : ReplaceLine(s, size, newSize)
    BY <1>13
  <2>2. Retain(s, size, "replace") /\ activeCase' = activeCase
    BY <2>1 DEF ReplaceLine, filterVars
  <2>3. buffer' = buffer \/ \E e : buffer' = buffer \union {e}
    BY <2>1 DEF ReplaceLine, AddAt
  <2>4. IsFiniteSet(buffer')
    BY <1>11, <2>3
  <2> QED
    BY <1>10, <2>2, <2>4
<1> QED
  BY <1>7, <1>8, <1>9, <1>12, <1>13 DEF Consume

(* An answer to Exit: retained lines, or text that replaces retained lines *)
(* of one destination, or text with a new number.                          *)
Sound(entries) ==
  /\ entries \in SUBSET Entry /\ IsFiniteSet(entries) /\ OneEach(entries)
  /\ \A e \in entries : /\ e.seq \in Ids(raw) \/ e.seq >= next
                        /\ Filtered(e.stream) \/ e.seq >= next

LEMMA RawIsSound ==
  ASSUME ReaderInv, RetainInv, ~exited, ~passthrough
  PROVE  Sound(raw)
<1>1. raw \in SUBSET Entry /\ \A k, l \in raw : k.seq = l.seq => k = l
  BY RawIsLines DEF ReaderInv, ShownInv, DeliveryInv, EngineTypeOK
<1>2. \A l \in raw : l.seq \in Ids(raw)
  BY DEF Ids
<1> QED
  BY <1>1, <1>2 DEF Sound, OneEach, RetainInv

LEMMA BufferIsSound ==
  ASSUME ReaderInv, RetainInv, ~exited, ~passthrough, NEW entries \in SUBSET buffer
  PROVE  Sound(entries)
<1>1. entries \in SUBSET Entry
  BY DEF ReaderInv, ShownInv, DeliveryInv, EngineTypeOK
<1>2. /\ \A e \in buffer : e.seq \in Ids(raw) /\ Filtered(e.stream)
      /\ \A d, e \in buffer : d.seq = e.seq => d = e
  BY DEF ReaderInv, ShownInv, RetainedInv, Ids
<1>3. IsFiniteSet(entries)
  BY FS_Subset DEF RetainInv
<1> QED
  BY <1>1, <1>2, <1>3 DEF Sound, OneEach

LEMMA ReplacementIsSound ==
  ASSUME ReaderInv, RetainInv, ~exited, ~passthrough, NEW s \in Streams,
         NEW entries \in SUBSET buffer, NEW text \in Text, NEW fresh \in Nat, fresh >= next,
         entries # {} => Filtered(s)
  PROVE  /\ Sound(Replacement(s, entries, text, fresh))
         /\ (\A e \in entries : e.stream = s)
              => \A e \in Replacement(s, entries, text, fresh) : e.stream = s
<1> DEFINE new == Replacement(s, entries, text, fresh)
           place == PlaceOf(entries, fresh)
           one == [seq |-> place, stream |-> s, text |-> text]
<1>1. CASE text.size = 0
  <2>1. new = entries
    BY <1>1 DEF Replacement
  <2> HIDE DEF new
  <2> QED
    BY <2>1, BufferIsSound DEF new
<1>2. CASE text.size # 0
  <2>1. new = {one}
    BY <1>2 DEF Replacement
  <2>2. place \in Nat
    BY PlaceType DEF ReaderInv, ShownInv, DeliveryInv, EngineTypeOK
  <2>3. \/ place = fresh
        \/ Filtered(s) /\ place \in Ids(raw)
    <3>1. CASE entries = {}
      BY <3>1 DEF PlaceOf
    <3>2. CASE entries # {}
      <4> DEFINE seqs == {e.seq : e \in entries}
      <4>1. seqs \in SUBSET Nat /\ seqs # {}
        BY <3>2 DEF ReaderInv, ShownInv, DeliveryInv, EngineTypeOK, Entry
      <4>2. seqs \subseteq Ids(raw)
        BY DEF ReaderInv, ShownInv, RetainedInv, Ids
      <4> HIDE DEF seqs
      <4>3. \E n \in seqs : \A m \in seqs : n <= m
        BY <4>1, LeastNat
      <4>4. (CHOOSE n \in seqs : \A m \in seqs : n <= m) \in seqs
        BY <4>3
      <4>5. place \in seqs
        BY <3>2, <4>4 DEF PlaceOf, seqs
      <4> QED
        BY <3>2, <4>2, <4>5
    <3> QED
      BY <3>1, <3>2
  <2>4. one \in Entry /\ one.seq = place /\ one.stream = s
    <3> HIDE DEF place
    <3> QED
      BY <2>2 DEF Entry
  <2> HIDE DEF new, one, place
  <2>5. IsFiniteSet(new) /\ new \in SUBSET Entry /\ OneEach(new)
    BY <2>1, <2>4, FS_Singleton DEF OneEach
  <2>6. \A e \in new : /\ e.seq \in Ids(raw) \/ e.seq >= next
                       /\ Filtered(e.stream) \/ e.seq >= next
    BY <2>1, <2>3, <2>4
  <2> QED
    BY <2>1, <2>4, <2>5, <2>6 DEF Sound, new
<1> QED
  BY <1>1, <1>2

(* What is sound was never handed back.                                    *)
LEMMA SoundIsNew ==
  ASSUME ReaderInv, RetainInv, ~exited, ~passthrough, NEW entries, Sound(entries),
         Return("main", entries)
  PROVE  Hands("main", entries) /\ InTurn("main", entries)
<1>1. entries \intersect released = {}
  <2> SUFFICES ASSUME NEW e \in entries, e \in released PROVE FALSE
    OBVIOUS
  <2>1. /\ e \in received /\ e.seq \in Nat /\ e.seq < next /\ next \in Nat
        /\ raw \subseteq received /\ raw \intersect released = {}
        /\ \A k, l \in received : k.seq = l.seq => k = l
    BY ReleasedIsReceived DEF ReaderInv, ShownInv, DeliveryInv, SeqsAreOld, NothingLost,
       EngineTypeOK, Entry
  <2>2. PICK l \in raw : l.seq = e.seq
    BY <2>1 DEF Sound, Ids
  <2> QED
    BY <2>1, <2>2
<1>2. InTurn("main", entries)
  BY DEF Sound, InTurn
<1> QED
  BY <1>1, <1>2 DEF Hands, Sound, Return

LEMMA FinalizeIsSound ==
  ASSUME ReaderInv, RetainInv, ~exited, ~passthrough, NEW entries, NEW total,
         Finalize(entries, total), Sound(entries)
  PROVE  /\ IsFiniteSet(raw') /\ IsFiniteSet(buffer')
         /\ \E es : Sound(es) /\ Return("main", es)
<1>1. Sound(raw) /\ IsFiniteSet({})
  BY RawIsSound, FS_EmptySet
<1> QED
  BY <1>1 DEF Finalize, GiveUp

LEMMA ExitIsSound ==
  ASSUME ReaderInv, RetainInv, ~exited, ~passthrough, NEW code \in Nat, Exit(code)
  PROVE  /\ IsFiniteSet(raw') /\ IsFiniteSet(buffer')
         /\ \E entries : Sound(entries) /\ Return("main", entries)
<1>1. /\ EngineTypeOK /\ next \in Nat /\ buffer \in SUBSET buffer
      /\ \A c \in Scopes : Buffered(c) \in Text
  BY BufferedType DEF ReaderInv, ShownInv, DeliveryInv, EngineTypeOK
<1>2. \A c \in ScopeNames : ExitTexts(c, code) \in SUBSET Text
  BY <1>1, ScopeTextsType, ScopeNamesType DEF ExitTexts, EngineTypeOK, FilterTypeOK
<1>3. "stdout" \in Streams /\ "stderr" \in Streams /\ Streams \subseteq Scopes
  BY DEF Streams, Scopes
<1>4. \A entries : Fresh(entries) \in Nat
  BY DEF Fresh
<1>5. \A e \in buffer : Filtered(e.stream)
  BY DEF ReaderInv, ShownInv, RetainedInv
<1>6. CASE ExitNative(code) \/ ExitCombinedKeep(code)
  BY <1>1, <1>6, BufferIsSound, FinalizeIsSound DEF ExitNative, ExitCombinedKeep
<1>7. CASE ExitUnscoped(code)
  <2> DEFINE text == WithFooter(Buffered("stdout"), code)
  <2>1. text \in Text
    BY <1>1, <1>3, FooterType DEF EngineTypeOK, FilterTypeOK
  <2>2. buffer = {}
    BY <1>5, <1>7 DEF ExitUnscoped, Filtered
  <2>3. Finalize(Replacement("stdout", buffer, text, next), text.size)
    BY <1>7 DEF ExitUnscoped
  <2> HIDE DEF text
  <2>4. Sound(Replacement("stdout", buffer, text, next))
    BY <1>1, <1>3, <2>1, <2>2, ReplacementIsSound
  <2> QED
    BY <2>3, <2>4, FinalizeIsSound
<1>8. CASE ExitCombinedReplace(code)
  <2> DEFINE s == IF BufferedStreams = {"stderr"} THEN "stderr" ELSE "stdout"
  <2>1. PICK text \in ExitTexts("combined", code) :
          Finalize(Replacement(s, buffer, text, next), text.size)
    BY <1>8 DEF ExitCombinedReplace
  <2>2. s \in Streams /\ Filtered(s) /\ text \in Text
    BY <1>2, <1>3, <1>8 DEF ExitCombinedReplace, Filtered
  <2> HIDE DEF s
  <2>3. Sound(Replacement(s, buffer, text, next))
    BY <1>1, <2>2, ReplacementIsSound
  <2> QED
    BY <2>1, <2>3, FinalizeIsSound
<1>9. CASE ExitCombinedUnsafe(code)
  BY <1>9, RawIsSound, FS_EmptySet DEF ExitCombinedUnsafe, GiveUp, RetainInv
<1>10. CASE ExitSplit(code)
  <2> DEFINE outs  == EntriesOf("stdout")
             errs  == EntriesOf("stderr")
             after(o) == next + (IF o.size = 0 THEN 0 ELSE Fresh(outs))
  <2>1. PICK o \in IF "stdout" \in ScopeNames THEN ExitTexts("stdout", code)
                                              ELSE {Buffered("stdout")},
             e \in IF "stderr" \in ScopeNames THEN ExitTexts("stderr", code)
                                              ELSE {Buffered("stderr")} :
          Finalize(Replacement("stdout", outs, o, next)
                     \union Replacement("stderr", errs, e, after(o)), o.size + e.size)
    BY <1>10 DEF ExitSplit
  <2>2. o \in Text /\ e \in Text
    BY <1>1, <1>2, <1>3
  <2>3. after(o) \in Nat /\ after(o) >= next
    BY <1>1, <1>4
  <2>4. /\ outs \in SUBSET buffer /\ errs \in SUBSET buffer
        /\ \A x \in outs : x.stream = "stdout"
        /\ \A x \in errs : x.stream = "stderr"
    BY DEF EntriesOf
  <2>5. (outs # {} => Filtered("stdout")) /\ (errs # {} => Filtered("stderr"))
    BY <1>5, <2>4
  <2> HIDE DEF outs, errs, after
  <2> DEFINE new  == Replacement("stdout", outs, o, next)
             more == Replacement("stderr", errs, e, after(o))
  <2>6. Sound(new) /\ \A x \in new : x.stream = "stdout"
    BY <1>1, <1>3, <2>2, <2>4, <2>5, ReplacementIsSound
  <2>7. Sound(more) /\ \A x \in more : x.stream = "stderr"
    BY <1>1, <1>3, <2>2, <2>3, <2>4, <2>5, ReplacementIsSound
  <2>8. Finalize(new \union more, o.size + e.size)
    BY <2>1
  <2> HIDE DEF new, more
  <2>9. IsFiniteSet(new \union more)
    BY <2>6, <2>7, FS_Union DEF Sound
  <2>10. Sound(new \union more)
    BY <2>6, <2>7, <2>9 DEF Sound, OneEach
  <2> QED
    BY <2>8, <2>10, FinalizeIsSound
<1> QED
  BY <1>6, <1>7, <1>8, <1>9, <1>10 DEF Exit, ExitPassthrough

LEMMA ExitHands ==
  ASSUME ReaderInv, RetainInv, ~exited, NEW code \in Nat, Exit(code)
  PROVE  /\ RetainInv' /\ activeCase' = activeCase /\ received' = received
         /\ exited' /\ exitCode' = code
         /\ Overflowed => Overflowed'
         /\ \E entries : Hands("main", entries) /\ (Overflowed' \/ InTurn("main", entries))
<1>1. /\ exited' /\ activeCase' = activeCase /\ received' = received
      /\ passthrough => ExitPassthrough(code)
  BY ExitLeaves
<1>2. exitCode' = code
  BY DEF Exit, ExitPassthrough, ExitNative, ExitUnscoped, ExitCombinedKeep,
         ExitCombinedReplace, ExitCombinedUnsafe, ExitSplit, Close
<1>3. CASE passthrough
  <2>1. /\ Return("main", {}) /\ UNCHANGED <<raw, buffer, rawBytes, passthrough>>
    BY <1>1, <1>3 DEF ExitPassthrough, bufferVars
  <2>2. IsFiniteSet({}) /\ OneEach({}) /\ InTurn("main", {})
    BY FS_EmptySet DEF OneEach, InTurn
  <2>3. Hands("main", {})
    BY <2>1, <2>2 DEF Hands, Return
  <2>4. RetainInv'
    BY <1>1, <2>1 DEF RetainInv
  <2> QED
    BY <1>1, <1>2, <2>1, <2>2, <2>3, <2>4, OverflowStays
<1>4. CASE ~passthrough
  <2>1. /\ IsFiniteSet(raw') /\ IsFiniteSet(buffer')
        /\ \E entries : Sound(entries) /\ Return("main", entries)
    BY <1>4, ExitIsSound
  <2>2. \E entries : Hands("main", entries) /\ InTurn("main", entries)
    BY <1>4, <2>1, SoundIsNew
  <2>3. ~Overflowed
    BY <1>4 DEF Overflowed
  <2>4. RetainInv'
    BY <1>1, <2>1 DEF RetainInv
  <2> QED
    BY <1>1, <1>2, <2>2, <2>3, <2>4
<1> QED
  BY <1>3, <1>4

-----------------------------------------------------------------------------
(* Writing *)

(* A sequence, and a set of entries that is not in it, in order.           *)
LEMMA Joined ==
  ASSUME NEW q \in Seq(Entry), IsInjective(q), NEW S \in SUBSET Entry, IsFiniteSet(S),
         \A d, e \in S : d.seq = e.seq => d = e, ToSet(q) \intersect S = {}
  PROVE  /\ q \o InOrder(S) \in Seq(Entry)
         /\ ToSet(q \o InOrder(S)) = ToSet(q) \union S
         /\ IsInjective(q \o InOrder(S))
         /\ Ordered(q) /\ (\A e \in ToSet(q), f \in S : e.seq < f.seq)
              => Ordered(q \o InOrder(S))
<1> DEFINE r == InOrder(S)
           w == q \o r
           m == Len(q)
           n == Len(r)
           T == Entry
<1>1. r \in Seq(T) /\ ToSet(r) = S /\ IsInjective(r) /\ Ordered(r)
  BY InOrderIs
<1>2. q \in Seq(T)
  OBVIOUS
<1> HIDE DEF r, T
<1>3. /\ m \in Nat /\ n \in Nat /\ DOMAIN q = 1..m /\ DOMAIN r = 1..n
      /\ w \in Seq(T) /\ DOMAIN w = 1..(m + n)
      /\ \A i \in 1..(m + n) : w[i] = IF i <= m THEN q[i] ELSE r[i - m]
  BY <1>1, <1>2
<1> HIDE DEF w, m, n
<1>4. /\ \A i \in 1..m : i \in 1..(m + n) /\ w[i] = q[i] /\ q[i] \in ToSet(q)
      /\ \A j \in 1..n : m + j \in 1..(m + n) /\ w[m + j] = r[j] /\ r[j] \in S
      /\ \A k \in 1..(m + n) : k \in 1..m \/ (k - m \in 1..n /\ k = m + (k - m))
  <2>1. \A i \in 1..m : i \in 1..(m + n) /\ w[i] = q[i] /\ q[i] \in ToSet(q)
    BY <1>3 DEF ToSet
  <2>2. ASSUME NEW j \in 1..n PROVE m + j \in 1..(m + n) /\ w[m + j] = r[j] /\ r[j] \in S
    <3>1. m + j \in 1..(m + n) /\ ~(m + j <= m) /\ (m + j) - m = j
      BY <1>3
    <3>2. r[j] \in S
      BY <1>1, <1>3 DEF ToSet
    <3> QED
      BY <1>3, <3>1, <3>2
  <2>3. \A k \in 1..(m + n) : k \in 1..m \/ (k - m \in 1..n /\ k = m + (k - m))
    BY <1>3
  <2> QED
    BY <2>1, <2>2, <2>3
<1>5. ToSet(w) = ToSet(q) \union S
  <2>1. ToSet(w) = {w[k] : k \in 1..(m + n)}
    BY <1>3 DEF ToSet
  <2>2. \A x \in ToSet(w) : x \in ToSet(q) \union S
    BY <1>4, <2>1
  <2>3. \A x \in ToSet(q) : \E i \in 1..m : x = q[i]
    BY <1>3 DEF ToSet
  <2>4. \A x \in S : \E j \in 1..n : x = r[j]
    BY <1>1, <1>3 DEF ToSet
  <2>5. \A x \in ToSet(q) \union S : \E k \in 1..(m + n) : x = w[k]
    BY <1>4, <2>3, <2>4
  <2> QED
    BY <2>1, <2>2, <2>5
<1>6. ASSUME NEW k \in 1..(m + n), NEW l \in 1..(m + n), w[k] = w[l] PROVE k = l
  <2>1. CASE k \in 1..m /\ l \in 1..m
    BY <1>3, <1>4, <1>6, <2>1 DEF IsInjective
  <2>2. CASE k \in 1..m /\ l \notin 1..m
    BY <1>4, <1>6, <2>2
  <2>3. CASE k \notin 1..m /\ l \in 1..m
    BY <1>4, <1>6, <2>3
  <2>4. CASE k \notin 1..m /\ l \notin 1..m
    <3>1. k - m = l - m
      <4>1. r[k - m] = r[l - m] /\ k - m \in 1..n /\ l - m \in 1..n
        BY <1>4, <1>6, <2>4
      <4> QED
        BY <1>1, <1>3, <4>1 DEF IsInjective
    <3> QED
      BY <1>3, <3>1
  <2> QED
    BY <2>1, <2>2, <2>3, <2>4
<1>7. IsInjective(w)
  BY <1>3, <1>6 DEF IsInjective
<1>8. ASSUME Ordered(q), \A e \in ToSet(q), f \in S : e.seq < f.seq PROVE Ordered(w)
  <2> SUFFICES ASSUME NEW k \in 1..(m + n), NEW l \in 1..(m + n), k < l
               PROVE  w[k].seq < w[l].seq
    BY <1>3 DEF Ordered
  <2>1. CASE l \in 1..m
    <3>1. k \in 1..m
      BY <1>3, <2>1
    <3> QED
      BY <1>3, <1>4, <1>8, <2>1, <3>1 DEF Ordered
  <2>2. CASE k \in 1..m /\ l \notin 1..m
    <3>1. w[k] \in ToSet(q) /\ w[l] \in S
      BY <1>4, <2>2
    <3> QED
      BY <1>8, <3>1
  <2>3. CASE k \notin 1..m /\ l \notin 1..m
    <3>1. /\ k - m \in 1..n /\ l - m \in 1..n /\ w[k] = r[k - m] /\ w[l] = r[l - m]
      BY <1>4, <2>3
    <3>2. k - m < l - m
      BY <1>3
    <3> QED
      BY <1>1, <1>3, <3>1, <3>2 DEF Ordered
  <2> QED
    BY <2>1, <2>2, <2>3
<1> QED
  BY <1>3, <1>5, <1>7, <1>8 DEF r, w, T

(* One answer is written: each destination that works has the entries for  *)
(* it as well, and the others are on record.                               *)
LEMMA WriteIs ==
  ASSUME RunnerTypeOK, NEW S \in SUBSET Entry, IsFiniteSet(S), OneEach(S), Write(S),
         \A d \in Streams : IsInjective(out[d]) /\ ToSet(out[d]) \intersect S = {}
  PROVE  /\ out' \in [Streams -> Seq(Entry)]
         /\ writeErr' \subseteq Streams /\ writeErr \subseteq writeErr'
         /\ \A d \in Streams :
              /\ IsInjective(out'[d])
              /\ ToSet(out'[d]) \subseteq ToSet(out[d]) \union For(d, S)
              /\ ToSet(out[d]) \subseteq ToSet(out'[d])
              /\ For(d, S) \subseteq ToSet(out'[d]) \/ d \in writeErr'
              /\ Ordered(out[d]) /\ (\A e \in ToSet(out[d]), f \in For(d, S) : e.seq < f.seq)
                   => Ordered(out'[d])
<1>1. ASSUME NEW d \in Streams, d \notin broken
      PROVE  /\ out'[d] \in Seq(Entry)
             /\ IsInjective(out'[d])
             /\ ToSet(out'[d]) = ToSet(out[d]) \union For(d, S)
             /\ Ordered(out[d]) /\ (\A e \in ToSet(out[d]), f \in For(d, S) : e.seq < f.seq)
                  => Ordered(out'[d])
  <2> DEFINE q == out[d]
             T == For(d, S)
  <2>1. out'[d] = q \o InOrder(T)
    BY <1>1 DEF Write
  <2>2. q \in Seq(Entry) /\ IsInjective(q)
    BY DEF RunnerTypeOK
  <2>3. /\ T \in SUBSET Entry /\ T \in SUBSET S /\ ToSet(q) \intersect T = {}
        /\ \A x, y \in T : x.seq = y.seq => x = y
    BY DEF For, OneEach
  <2>4. IsFiniteSet(T)
    BY <2>3, FS_Subset
  <2> HIDE DEF q, T
  <2>5. /\ q \o InOrder(T) \in Seq(Entry)
        /\ ToSet(q \o InOrder(T)) = ToSet(q) \union T
        /\ IsInjective(q \o InOrder(T))
        /\ Ordered(q) /\ (\A e \in ToSet(q), f \in T : e.seq < f.seq)
             => Ordered(q \o InOrder(T))
    BY <2>2, <2>3, <2>4, Joined
  <2> QED
    BY <2>1, <2>5 DEF q, T
<1>2. ASSUME NEW d \in Streams, d \in broken
      PROVE  out'[d] = out[d] /\ (For(d, S) = {} \/ d \in writeErr')
  BY <1>2 DEF Write
<1>3. DOMAIN out' = Streams /\ out' = [d \in Streams |-> out'[d]]
  BY DEF Write
<1>4. writeErr' \subseteq Streams /\ writeErr \subseteq writeErr'
  BY DEF Write, RunnerTypeOK
<1>5. out' \in [Streams -> Seq(Entry)]
  BY <1>1, <1>2, <1>3 DEF RunnerTypeOK
<1>6. ASSUME NEW d \in Streams
      PROVE  /\ IsInjective(out'[d])
             /\ ToSet(out'[d]) \subseteq ToSet(out[d]) \union For(d, S)
             /\ ToSet(out[d]) \subseteq ToSet(out'[d])
             /\ For(d, S) \subseteq ToSet(out'[d]) \/ d \in writeErr'
             /\ Ordered(out[d]) /\ (\A e \in ToSet(out[d]), f \in For(d, S) : e.seq < f.seq)
                  => Ordered(out'[d])
  <2>1. CASE d \in broken
    BY <1>2, <2>1
  <2>2. CASE d \notin broken
    BY <1>1, <2>2
  <2> QED
    BY <2>1, <2>2
<1> QED
  BY <1>4, <1>5, <1>6

-----------------------------------------------------------------------------
(* Handing over and writing, once each *)

LEMMA PendingIs == Pending \subseteq Callers
BY DEF Pending

LEMMA HandingOver ==
  ASSUME ReaderInv, HandsInv, RunnerTypeOK, NEW c \in Callers, NEW entries,
         Hands(c, entries), c \notin Pending, Pending' = Pending \union {c}, UNCHANGED outVars
  PROVE  HandsInv'
<1>1. returned \in [Callers -> SUBSET Entry]
  BY DEF ReaderInv, ShownInv, DeliveryInv, EngineTypeOK
<1>2. /\ out' = out /\ writeErr' = writeErr
      /\ released' = released \union entries /\ entries \intersect released = {}
      /\ returned'[c] = entries /\ \A b \in Pending : b # c /\ returned'[b] = returned[b]
  BY <1>1, PendingIs DEF Hands, outVars
<1>3. /\ \A b \in Pending' : /\ returned'[b] \subseteq released' /\ IsFiniteSet(returned'[b])
                             /\ OneEach(returned'[b])
  <2>1. IsFiniteSet(entries) /\ OneEach(entries)
    BY DEF Hands
  <2> QED
    BY <1>2, <2>1 DEF HandsInv
<1>4. \A a, b \in Pending' : a # b => returned'[a] \intersect returned'[b] = {}
  BY <1>2 DEF HandsInv
<1>5. ASSUME NEW d \in Streams
      PROVE  /\ ToSet(out'[d]) \subseteq released' /\ IsInjective(out'[d])
             /\ \A e \in ToSet(out'[d]) : e.stream = d
             /\ \A b \in Pending' : ToSet(out'[d]) \intersect returned'[b] = {}
  BY <1>2 DEF HandsInv
<1>6. \A e \in released' : \/ e.stream \in writeErr'
                           \/ e \in ToSet(out'[e.stream])
                           \/ \E b \in Pending' : e \in returned'[b]
  BY <1>2 DEF HandsInv
<1> QED
  BY <1>3, <1>4, <1>5, <1>6 DEF HandsInv, OneEach

LEMMA HandingOverInTurn ==
  ASSUME ReaderInv, HandsInv, OrderInv, RunnerTypeOK, ~exited, NEW c \in Callers, NEW entries,
         Hands(c, entries), Overflowed' \/ InTurn(c, entries), Overflowed => Overflowed',
         activeCase' = activeCase, exited' <=> c = "main",
         c \notin Pending, Pending' = Pending \union {c}, UNCHANGED outVars
  PROVE  OrderInv'
<1> SUFFICES ASSUME ~Overflowed', ~Overflowed, InTurn(c, entries) PROVE OrderInv'
  BY DEF OrderInv
<1>1. returned \in [Callers -> SUBSET Entry]
  BY DEF ReaderInv, ShownInv, DeliveryInv, EngineTypeOK
<1>2. /\ out' = out
      /\ returned'[c] = entries /\ \A b \in Pending : b # c /\ returned'[b] = returned[b]
  BY <1>1, PendingIs DEF Hands, outVars
<1>3. \A t : Filtered(t)' <=> Filtered(t)
  BY DEF Filtered, ScopeNames
<1>4. \A d \in Streams : Ordered(out'[d]) /\ (~exited' /\ Filtered(d)' => ToSet(out'[d]) = {})
  BY <1>2, <1>3 DEF OrderInv
<1>5. ASSUME NEW f \in entries
      PROVE  /\ \A e \in ToSet(out'[f.stream]) : e.seq < f.seq
             /\ ~exited' => f.stream = c /\ ~Filtered(c)'
  <2>1. f.stream \in Streams /\ f.seq \in Nat
    BY DEF Hands, Entry
  <2>2. Filtered(f.stream) => ToSet(out[f.stream]) = {}
    BY <2>1 DEF OrderInv
  <2>3. \A e \in ToSet(out[f.stream]) : e.seq < next /\ e.seq \in Nat /\ next \in Nat
    <3>1. released \subseteq received
      BY ReleasedIsReceived DEF ReaderInv
    <3>2. \A e \in received : e.seq < next /\ e.seq \in Nat /\ next \in Nat
      BY DEF ReaderInv, ShownInv, DeliveryInv, SeqsAreOld, EngineTypeOK, Entry
    <3> QED
      BY <2>1, <3>1, <3>2 DEF HandsInv
  <2>4. \A e \in ToSet(out[f.stream]) : e.seq < f.seq
    BY <2>1, <2>2, <2>3 DEF InTurn
  <2>5. ~exited' => f.stream = c /\ ~Filtered(c)
    BY DEF InTurn
  <2> QED
    BY <1>2, <1>3, <2>4, <2>5
<1>6. \A b \in Pending' : \A f \in returned'[b] :
        /\ \A e \in ToSet(out'[f.stream]) : e.seq < f.seq
        /\ ~exited' => f.stream = b /\ ~Filtered(b)'
  <2> SUFFICES ASSUME NEW b \in Pending, NEW f \in returned[b]
               PROVE  /\ \A e \in ToSet(out'[f.stream]) : e.seq < f.seq
                      /\ ~exited' => f.stream = b /\ ~Filtered(b)'
    BY <1>2, <1>5
  <2> QED
    BY <1>2, <1>3 DEF OrderInv
<1> QED
  BY <1>4, <1>6 DEF OrderInv, Ordered

LEMMA WritingDown ==
  ASSUME ReaderInv, HandsInv, RunnerTypeOK, NEW c \in Pending,
         Write(returned[c]), Pending' = Pending \ {c}, UNCHANGED <<released, returned>>
  PROVE  HandsInv' /\ out' \in [Streams -> Seq(Entry)] /\ writeErr' \subseteq Streams
<1> DEFINE S == returned[c]
<1>1. S \in SUBSET Entry
  BY PendingIs DEF ReaderInv, ShownInv, DeliveryInv, EngineTypeOK
<1>2. IsFiniteSet(S) /\ OneEach(S) /\ S \subseteq released
  BY DEF HandsInv
<1>3. \A d \in Streams : IsInjective(out[d]) /\ ToSet(out[d]) \intersect S = {}
  BY DEF HandsInv
<1>4. Write(S)
  OBVIOUS
<1> HIDE DEF S
<1>5. /\ out' \in [Streams -> Seq(Entry)]
      /\ writeErr' \subseteq Streams /\ writeErr \subseteq writeErr'
      /\ \A d \in Streams :
           /\ IsInjective(out'[d])
           /\ ToSet(out'[d]) \subseteq ToSet(out[d]) \union For(d, S)
           /\ ToSet(out[d]) \subseteq ToSet(out'[d])
           /\ For(d, S) \subseteq ToSet(out'[d]) \/ d \in writeErr'
  BY <1>1, <1>2, <1>3, <1>4, WriteIs
<1>6. \A e \in S : e.stream \in Streams
  BY <1>1 DEF Entry
<1>7. ASSUME NEW d \in Streams
      PROVE  /\ ToSet(out'[d]) \subseteq released /\ IsInjective(out'[d])
             /\ \A e \in ToSet(out'[d]) : e.stream = d
             /\ \A b \in Pending' : ToSet(out'[d]) \intersect returned[b] = {}
  <2>1. For(d, S) \subseteq S /\ \A e \in For(d, S) : e.stream = d
    BY DEF For
  <2>2. \A b \in Pending' : b \in Pending /\ S \intersect returned[b] = {}
    BY DEF HandsInv, S
  <2>3. ToSet(out[d]) \subseteq released /\ (\A e \in ToSet(out[d]) : e.stream = d)
        /\ \A b \in Pending : ToSet(out[d]) \intersect returned[b] = {}
    BY DEF HandsInv
  <2> QED
    BY <1>2, <1>5, <2>1, <2>2, <2>3
<1>8. \A e \in released : \/ e.stream \in writeErr'
                          \/ e \in ToSet(out'[e.stream])
                          \/ \E b \in Pending' : e \in returned[b]
  <2> SUFFICES ASSUME NEW e \in released, e.stream \notin writeErr',
                      \A b \in Pending' : e \notin returned[b]
               PROVE  e \in ToSet(out'[e.stream])
    OBVIOUS
  <2>1. e.stream \in Streams
    BY DEF ReaderInv, ShownInv, DeliveryInv, EngineTypeOK, Entry
  <2>2. CASE e \in S
    BY <1>5, <2>1, <2>2 DEF For
  <2>3. CASE e \notin S
    <3>1. e \in ToSet(out[e.stream])
      BY <1>5, <2>3 DEF HandsInv, S
    <3> QED
      BY <1>5, <2>1, <3>1
  <2> QED
    BY <2>2, <2>3
<1>9. \A b \in Pending' : b \in Pending
  OBVIOUS
<1>10. /\ \A b \in Pending' : /\ returned[b] \subseteq released /\ IsFiniteSet(returned[b])
                              /\ OneEach(returned[b])
       /\ \A a, b \in Pending' : a # b => returned[a] \intersect returned[b] = {}
  BY <1>9 DEF HandsInv
<1> QED
  BY <1>5, <1>7, <1>8, <1>10 DEF HandsInv, OneEach

LEMMA WritingDownInTurn ==
  ASSUME ReaderInv, HandsInv, OrderInv, RunnerTypeOK, NEW c \in Pending,
         Write(returned[c]), Pending' = Pending \ {c}, exited => c = "main" /\ Pending = {c},
         UNCHANGED engineVars
  PROVE  OrderInv'
<1> DEFINE S == returned[c]
<1>1. /\ UNCHANGED <<released, returned, exited, activeCase, passthrough, rawBytes>>
  BY DEF engineVars, filterVars, bufferVars, historyVars
<1>2. Overflowed' <=> Overflowed
  BY <1>1 DEF Overflowed
<1> SUFFICES ASSUME ~Overflowed, ~Overflowed' PROVE OrderInv'
  BY <1>2 DEF OrderInv
<1>3. S \in SUBSET Entry /\ IsFiniteSet(S) /\ OneEach(S) /\ S \subseteq released
  BY PendingIs DEF HandsInv, ReaderInv, ShownInv, DeliveryInv, EngineTypeOK
<1>4. \A d \in Streams : IsInjective(out[d]) /\ ToSet(out[d]) \intersect S = {}
  BY DEF HandsInv
<1>5. Write(S)
  OBVIOUS
<1>6. /\ \A f \in S : /\ \A e \in ToSet(out[f.stream]) : e.seq < f.seq
                      /\ ~exited => f.stream = c /\ ~Filtered(c)
      /\ \A d \in Streams : Ordered(out[d]) /\ (~exited /\ Filtered(d) => ToSet(out[d]) = {})
      /\ \A b \in Pending : \A f \in returned[b] :
           /\ \A e \in ToSet(out[f.stream]) : e.seq < f.seq
           /\ ~exited => f.stream = b /\ ~Filtered(b)
  BY DEF OrderInv
<1>7. \A t : Filtered(t)' <=> Filtered(t)
  BY <1>1 DEF Filtered, ScopeNames
<1> HIDE DEF S
<1>8. ASSUME NEW d \in Streams
      PROVE  /\ ToSet(out'[d]) \subseteq ToSet(out[d]) \union For(d, S)
             /\ Ordered(out[d]) /\ (\A e \in ToSet(out[d]), f \in For(d, S) : e.seq < f.seq)
                  => Ordered(out'[d])
  BY <1>3, <1>4, <1>5, WriteIs
<1>9. ASSUME NEW d \in Streams
      PROVE  Ordered(out'[d]) /\ (~exited' /\ Filtered(d)' => ToSet(out'[d]) = {})
  <2>1. For(d, S) \subseteq S /\ \A f \in For(d, S) : f.stream = d
    BY DEF For
  <2>2. Ordered(out'[d])
    BY <1>6, <1>8, <2>1
  <2>3. ~exited /\ Filtered(d) => For(d, S) = {}
    BY <1>6, <2>1
  <2> QED
    BY <1>1, <1>6, <1>7, <1>8, <2>2, <2>3
<1>10. ASSUME NEW b \in Pending', NEW f \in returned[b]
       PROVE  /\ \A e \in ToSet(out'[f.stream]) : e.seq < f.seq
              /\ ~exited' => f.stream = b /\ ~Filtered(b)'
  <2>1. b \in Pending /\ b # c /\ ~exited
    OBVIOUS
  <2>2. f.stream = b /\ ~Filtered(b) /\ \A e \in ToSet(out[f.stream]) : e.seq < f.seq
    BY <1>6, <2>1
  <2>3. f.stream \in Streams
    BY <2>1, PendingIs DEF ReaderInv, ShownInv, DeliveryInv, EngineTypeOK, Entry
  <2>4. For(f.stream, S) = {}
    BY <1>6, <2>1, <2>2 DEF For
  <2> QED
    BY <1>7, <1>8, <2>2, <2>3, <2>4
<1> QED
  BY <1>1, <1>9, <1>10 DEF OrderInv, Ordered

(* A step that neither hands over nor writes.                              *)
LEMMA StandingStill ==
  ASSUME UNCHANGED engineVars, UNCHANGED outVars, Pending' = Pending
  PROVE  /\ RetainInv => RetainInv'
         /\ HandsInv => HandsInv'
         /\ OrderInv => OrderInv'
<1>1. /\ UNCHANGED <<out, writeErr, returned, released, exited, raw, buffer, passthrough,
                     rawBytes, activeCase>>
  BY DEF engineVars, outVars, filterVars, bufferVars, historyVars
<1>2. (Overflowed' <=> Overflowed) /\ \A t : Filtered(t)' <=> Filtered(t)
  BY <1>1 DEF Overflowed, Filtered, ScopeNames
<1>3. RetainInv => RetainInv'
  BY <1>1, <1>2 DEF RetainInv
<1>4. HandsInv => HandsInv'
  BY <1>1 DEF HandsInv, OneEach
<1>5. OrderInv => OrderInv'
  BY <1>1, <1>2 DEF OrderInv, Ordered
<1> QED
  BY <1>3, <1>4, <1>5

-----------------------------------------------------------------------------
(* Control, counts and the result *)

BookInv == RunnerTypeOK /\ ControlInv /\ CountInv /\ ResultInv

LEMMA PipeIs ==
  ASSUME NEW q \in Seq(Sizes)
  PROVE  /\ Len(q) \in Nat
         /\ \A size \in Sizes : Append(q, size) \in Seq(Sizes)
                                /\ Len(Append(q, size)) = Len(q) + 1
         /\ q # <<>> => /\ Head(q) \in Sizes /\ Tail(q) \in Seq(Sizes)
                        /\ Len(Tail(q)) = Len(q) - 1 /\ Len(q) > 0
OBVIOUS

LEMMA Printing ==
  ASSUME BookInv, NEW s \in Streams, NEW size \in Sizes, ChildPrints(s, size)
  PROVE  BookInv' /\ Pending' = Pending /\ UNCHANGED <<engineVars, outVars>>
<1>1. /\ mode # "attached" /\ child = "running" /\ printed' = printed + 1
      /\ pipe' = [pipe EXCEPT ![s] = Append(pipe[s], size)]
      /\ UNCHANGED <<child, childCode, cause, broken, drain, main, out, writeErr,
                     readErr, flushErr, waitErr, result, mode, confidential, exited, exitCode,
                     received>>
      /\ UNCHANGED engineVars /\ UNCHANGED outVars
  BY DEF ChildPrints, engineVars, outVars, resultVars, historyVars
<1>2. RunnerTypeOK /\ ControlInv /\ CountInv /\ ResultInv
  BY DEF BookInv
<1>3. main = "wait" /\ \A t \in Streams : drain[t] = "done" => t \in readErr
  BY <1>1, <1>2 DEF ControlInv
<1>4. /\ pipe' \in [Streams -> Seq(Sizes)] /\ Len(pipe'[s]) = Len(pipe[s]) + 1
      /\ \A t \in Streams : t # s => pipe'[t] = pipe[t]
      /\ \A t \in Streams : Len(pipe[t]) \in Nat
  <2>1. Append(pipe[s], size) \in Seq(Sizes) /\ Len(Append(pipe[s], size)) = Len(pipe[s]) + 1
    BY <1>2, PipeIs DEF RunnerTypeOK
  <2>2. \A t \in Streams : Len(pipe[t]) \in Nat
    BY <1>2, PipeIs DEF RunnerTypeOK
  <2> QED
    BY <1>1, <1>2, <2>1, <2>2 DEF RunnerTypeOK
<1>5. RunnerTypeOK'
  BY <1>1, <1>2, <1>4 DEF RunnerTypeOK
<1>6. ControlInv'
  BY <1>1, <1>2, <1>3 DEF ControlInv
<1>7. CountInv'
  <2> DEFINE n == Cardinality(received)
             a == Len(pipe["stdout"])
             b == Len(pipe["stderr"])
             c == Len(pipe'["stdout"])
             d == Len(pipe'["stderr"])
  <2>1. n \in Nat
    BY <1>2, FS_CardinalityType DEF CountInv
  <2>2. s = "stdout" \/ s = "stderr"
    BY DEF Streams
  <2>3. a \in Nat /\ b \in Nat /\ ((c = a + 1 /\ d = b) \/ (c = a /\ d = b + 1))
    BY <1>4, <2>2 DEF Streams
  <2>4. /\ received' = received /\ printed' = printed + 1 /\ IsFiniteSet(received)
        /\ n + a + b = printed
    BY <1>1, <1>2 DEF CountInv
  <2> HIDE DEF n, a, b, c, d
  <2>5. n + c + d = printed + 1
    BY <2>1, <2>3, <2>4
  <2> QED
    BY <2>4, <2>5 DEF CountInv, n, c, d
<1>8. ResultInv'
  BY <1>1, <1>2 DEF ResultInv, Bookkeeping
<1>9. Pending' = Pending
  BY <1>1 DEF Pending
<1> QED
  BY <1>1, <1>5, <1>6, <1>7, <1>8, <1>9 DEF BookInv

(* The command ends, the run is interrupted or a destination fails.        *)
LEMMA Outside ==
  ASSUME BookInv,
         \/ \E code \in Nat : ChildExits(code)
         \/ \E why \in {"signal", "cancelled"} : Cancel(why)
         \/ \E d \in Streams : Break(d)
  PROVE  BookInv' /\ Pending' = Pending /\ UNCHANGED <<engineVars, outVars>>
<1>1. /\ UNCHANGED <<printed, pipe, drain, main, out, writeErr, readErr, flushErr, waitErr, result,
                     mode, confidential, exited, exitCode, received>>
      /\ UNCHANGED engineVars /\ UNCHANGED outVars
  BY DEF ChildExits, Cancel, Break, engineVars, outVars, resultVars, historyVars
<1>2. RunnerTypeOK /\ ControlInv /\ CountInv /\ ResultInv
  BY DEF BookInv
<1>3. /\ broken' \subseteq Streams /\ childCode' \in Nat
      /\ child' \in {"running", "exited"} /\ cause' \in {"none", "signal", "cancelled"}
  BY <1>2 DEF ChildExits, Cancel, Break, RunnerTypeOK
<1>4. \/ UNCHANGED <<child, childCode>> /\ (cause' = "none" => cause = "none")
      \/ child = "running" /\ child' = "exited" /\ cause' = cause
  BY DEF ChildExits, Cancel, Break
<1>5. RunnerTypeOK'
  BY <1>1, <1>2, <1>3 DEF RunnerTypeOK
<1>6. ControlInv'
  BY <1>1, <1>2, <1>4 DEF ControlInv
<1>7. CountInv'
  BY <1>1, <1>2 DEF CountInv
<1>8. ResultInv'
  <2>1. main # "wait" => child = "exited"
    BY <1>2 DEF ControlInv
  <2> QED
    BY <1>1, <1>2, <1>4, <2>1 DEF ResultInv, Bookkeeping
<1>9. Pending' = Pending
  BY <1>1 DEF Pending
<1> QED
  BY <1>1, <1>5, <1>6, <1>7, <1>8, <1>9 DEF BookInv

LEMMA Consuming ==
  ASSUME BookInv, ReaderInv, NEW s \in Streams, DrainConsume(s)
  PROVE  /\ BookInv' /\ ~exited /\ ~exited'
         /\ s \in Callers /\ s \notin Pending /\ Pending' = Pending \union {s}
         /\ Head(pipe[s]) \in Sizes /\ Consume(s, Head(pipe[s])) /\ UNCHANGED outVars
<1> DEFINE size == Head(pipe[s])
           line == Line(next, s, size)
<1>1. /\ drain[s] = "read" /\ pipe[s] # <<>> /\ Consume(s, size)
      /\ pipe' = [pipe EXCEPT ![s] = Tail(pipe[s])] /\ drain' = [drain EXCEPT ![s] = "sink"]
      /\ UNCHANGED <<printed, child, childCode, cause, broken, main, out, writeErr, readErr,
                     flushErr, waitErr, result, mode, confidential>>
      /\ UNCHANGED outVars
  BY DEF DrainConsume, childVars, outVars, resultVars
<1>2. RunnerTypeOK /\ ControlInv /\ CountInv /\ ResultInv
  BY DEF BookInv
<1>3. /\ size \in Sizes /\ Tail(pipe[s]) \in Seq(Sizes)
      /\ Len(Tail(pipe[s])) = Len(pipe[s]) - 1 /\ \A t \in Streams : Len(pipe[t]) \in Nat
      /\ Len(pipe[s]) > 0
  BY <1>1, <1>2, PipeIs DEF RunnerTypeOK
<1>4. /\ pipe' \in [Streams -> Seq(Sizes)] /\ Len(pipe'[s]) = Len(pipe[s]) - 1
      /\ \A t \in Streams : t # s => pipe'[t] = pipe[t] /\ drain'[t] = drain[t]
      /\ drain'[s] = "sink" /\ drain' \in [Streams -> {"read", "sink", "done"}]
  BY <1>1, <1>2, <1>3 DEF RunnerTypeOK
<1> HIDE DEF size
<1>5. main = "wait" /\ ~exited
  BY <1>1, <1>2 DEF ControlInv
<1>6. Take(s, size)
  BY <1>1, <1>3, KeptOfConsume
<1>7. line \notin received /\ received' = received \union {line}
  BY <1>3, <1>6, SeqsStayOld DEF ReaderInv, ShownInv, DeliveryInv
<1>8. UNCHANGED exited
  BY <1>6 DEF Take
<1> HIDE DEF line
<1>9. RunnerTypeOK'
  BY <1>1, <1>2, <1>4 DEF RunnerTypeOK
<1>10. ControlInv'
  BY <1>1, <1>2, <1>4, <1>5, <1>8 DEF ControlInv
<1>11. CountInv'
  <2> DEFINE n == Cardinality(received)
             a == Len(pipe["stdout"])
             b == Len(pipe["stderr"])
             c == Len(pipe'["stdout"])
             d == Len(pipe'["stderr"])
             m == Cardinality(received')
  <2>1. IsFiniteSet(received') /\ m = n + 1
    BY <1>2, <1>7, FS_AddElement DEF CountInv
  <2>2. n \in Nat
    BY <1>2, FS_CardinalityType DEF CountInv
  <2>3. s = "stdout" \/ s = "stderr"
    BY DEF Streams
  <2>4. a \in Nat /\ b \in Nat /\ ((c = a - 1 /\ d = b) \/ (c = a /\ d = b - 1))
    BY <1>3, <1>4, <2>3 DEF Streams
  <2>5. printed' = printed /\ n + a + b = printed
    BY <1>1, <1>2 DEF CountInv
  <2> HIDE DEF n, a, b, c, d, m
  <2>6. m + c + d = printed
    BY <2>1, <2>2, <2>4, <2>5
  <2> QED
    BY <2>1, <2>5, <2>6 DEF CountInv, m, c, d
<1>12. ResultInv'
  BY <1>1, <1>5 DEF ResultInv, Bookkeeping
<1>13. s \in Callers /\ s # "main" /\ s \notin Pending
  BY <1>1 DEF Callers, Streams, Pending
<1>14. Pending' = Pending \union {s}
  <2>1. \A c \in Callers : c # "main" => c \in Streams
    BY DEF Callers
  <2> QED
    BY <1>1, <1>4, <1>13, <2>1 DEF Pending
<1> QED
  BY <1>1, <1>3, <1>5, <1>8, <1>9, <1>10, <1>11, <1>12, <1>13, <1>14 DEF BookInv, size

(* A drain writes, or ends.                                                *)
LEMMA Sinking ==
  ASSUME BookInv, NEW s \in Streams, DrainSink(s), out' \in [Streams -> Seq(Entry)],
         writeErr' \subseteq Streams
  PROVE  BookInv' /\ s \in Pending /\ Pending' = Pending \ {s} /\ ~exited
<1>1. /\ drain[s] = "sink" /\ drain' = [drain EXCEPT ![s] = "read"]
      /\ UNCHANGED <<printed, pipe, child, childCode, cause, broken, main, readErr, flushErr,
                     waitErr, result, mode, confidential, exited, exitCode, received>>
  BY DEF DrainSink, engineVars, childVars, resultVars, historyVars
<1>2. RunnerTypeOK /\ ControlInv /\ CountInv /\ ResultInv
  BY DEF BookInv
<1>3. /\ \A t \in Streams : t # s => drain'[t] = drain[t]
      /\ drain'[s] = "read" /\ drain' \in [Streams -> {"read", "sink", "done"}]
  BY <1>1, <1>2 DEF RunnerTypeOK
<1>4. main = "wait" /\ ~exited
  BY <1>1, <1>2 DEF ControlInv
<1>5. RunnerTypeOK'
  BY <1>1, <1>2, <1>3 DEF RunnerTypeOK
<1>6. ControlInv'
  BY <1>1, <1>2, <1>3, <1>4 DEF ControlInv
<1>7. CountInv' /\ ResultInv'
  BY <1>1, <1>2, <1>4 DEF CountInv, ResultInv, Bookkeeping
<1>8. s \in Callers /\ s # "main" /\ \A c \in Callers : c # "main" => c \in Streams
  BY DEF Callers, Streams
<1>9. s \in Pending /\ Pending' = Pending \ {s}
  BY <1>1, <1>3, <1>4, <1>8 DEF Pending
<1> QED
  BY <1>4, <1>5, <1>6, <1>7, <1>9 DEF BookInv

LEMMA FlushingFails ==
  ASSUME flushErr \subseteq Streams, NEW dests \in SUBSET Streams, FlushFails(dests)
  PROVE  flushErr' \subseteq Streams
BY DEF FlushFails

LEMMA Ending ==
  ASSUME BookInv, NEW s \in Streams, DrainEnds(s)
  PROVE  BookInv' /\ Pending' = Pending /\ UNCHANGED <<engineVars, outVars>>
<1>1. /\ drain[s] = "read" /\ drain' = [drain EXCEPT ![s] = "done"]
      /\ \/ pipe[s] = <<>> /\ child = "exited" /\ readErr' = readErr
         \/ readErr' = readErr \union {s}
      /\ flushErr' = flushErr \/ FlushFails({s})
      /\ UNCHANGED <<printed, pipe, child, childCode, cause, broken, main, out, writeErr,
                     waitErr, result, mode, confidential, exited, exitCode, received>>
      /\ UNCHANGED engineVars /\ UNCHANGED outVars
  BY DEF DrainEnds, engineVars, childVars, outVars, resultVars, historyVars
<1>2. RunnerTypeOK /\ ControlInv /\ CountInv /\ ResultInv
  BY DEF BookInv
<1>3. /\ \A t \in Streams : t # s => drain'[t] = drain[t]
      /\ drain'[s] = "done" /\ drain' \in [Streams -> {"read", "sink", "done"}]
  BY <1>1, <1>2 DEF RunnerTypeOK
<1>4. main = "wait" /\ ~exited
  BY <1>1, <1>2 DEF ControlInv
<1>5. RunnerTypeOK'
  <2>1. flushErr' \subseteq Streams
    BY <1>1, <1>2, FlushingFails DEF RunnerTypeOK
  <2> QED
    BY <1>1, <1>2, <1>3, <2>1 DEF RunnerTypeOK
<1>6. ControlInv'
  BY <1>1, <1>2, <1>3, <1>4 DEF ControlInv
<1>7. CountInv' /\ ResultInv'
  BY <1>1, <1>2, <1>4 DEF CountInv, ResultInv, Bookkeeping
<1>8. Pending' = Pending
  <2>1. s # "main" /\ \A c \in Callers : c # "main" => c \in Streams
    BY DEF Callers, Streams
  <2> QED
    BY <1>1, <1>3, <2>1 DEF Pending
<1> QED
  BY <1>1, <1>5, <1>6, <1>7, <1>8 DEF BookInv

LEMMA Waiting ==
  ASSUME BookInv, WaitExitCode
  PROVE  BookInv' /\ Pending' = Pending /\ UNCHANGED <<engineVars, outVars>>
<1>1. /\ main = "wait" /\ (\A s \in Streams : drain[s] = "done") /\ child = "exited"
      /\ main' = IF mode = "filtered" THEN "exit" ELSE "unfiltered"
      /\ waitErr' \in BOOLEAN
      /\ UNCHANGED <<printed, pipe, child, childCode, cause, broken, drain, out, writeErr,
                     readErr, flushErr, result, mode, confidential, exited, exitCode, received>>
      /\ UNCHANGED engineVars /\ UNCHANGED outVars
  BY DEF WaitExitCode, Fails, engineVars, childVars, outVars, resultVars, historyVars
<1>2. RunnerTypeOK /\ ControlInv /\ CountInv /\ ResultInv
  BY DEF BookInv
<1>3. RunnerTypeOK'
  BY <1>1, <1>2 DEF RunnerTypeOK
<1>4. ControlInv'
  BY <1>1, <1>2 DEF ControlInv
<1>5. CountInv' /\ ResultInv'
  BY <1>1, <1>2 DEF CountInv, ResultInv, Bookkeeping
<1>6. Pending' = Pending
  BY <1>1 DEF Pending
<1> QED
  BY <1>1, <1>3, <1>4, <1>5, <1>6 DEF BookInv

LEMMA Exiting ==
  ASSUME BookInv, ReaderInv, RetainInv, EngineExit
  PROVE  /\ BookInv' /\ Pending = {} /\ Pending' = {"main"} /\ UNCHANGED outVars
         /\ ~exited /\ exited'
         /\ \E code \in Nat : Exit(code)
<1> DEFINE code == IF waitErr THEN 1 ELSE childCode
<1>1. /\ main = "exit" /\ Exit(code) /\ main' = "write"
      /\ UNCHANGED <<printed, pipe, child, childCode, cause, broken, drain, out, writeErr,
                     readErr, flushErr, waitErr, result, mode, confidential>>
      /\ UNCHANGED outVars
  BY DEF EngineExit, childVars, outVars, resultVars
<1>2. RunnerTypeOK /\ ControlInv /\ CountInv /\ ResultInv
  BY DEF BookInv
<1>3. code \in Nat /\ ~exited
  BY <1>1, <1>2 DEF RunnerTypeOK, ControlInv
<1> HIDE DEF code
<1>4. exited' /\ exitCode' = code /\ received' = received
  BY <1>1, <1>3, ExitHands
<1>5. RunnerTypeOK'
  BY <1>1, <1>2 DEF RunnerTypeOK
<1>6. ControlInv'
  BY <1>1, <1>2, <1>4 DEF ControlInv
<1>7. CountInv'
  BY <1>1, <1>2, <1>4 DEF CountInv
<1>8. ResultInv'
  BY <1>1, <1>4 DEF ResultInv, Bookkeeping, code
<1>9. Pending = {} /\ Pending' = {"main"}
  <2>1. \A c \in Callers : c # "main" => c \in Streams
    BY DEF Callers
  <2>2. \A s \in Streams : drain[s] = "done" /\ drain'[s] = "done"
    BY <1>1, <1>2 DEF ControlInv
  <2>3. "main" \in Callers
    BY DEF Callers
  <2> QED
    BY <1>1, <2>1, <2>2, <2>3 DEF Pending
<1> QED
  BY <1>1, <1>3, <1>4, <1>5, <1>6, <1>7, <1>8, <1>9 DEF BookInv

LEMMA WritingRest ==
  ASSUME BookInv, WriteRest, out' \in [Streams -> Seq(Entry)], writeErr' \subseteq Streams
  PROVE  BookInv' /\ Pending = {"main"} /\ Pending' = {} /\ exited
<1>1. /\ main = "write" /\ main' = "flush"
      /\ UNCHANGED <<printed, pipe, child, childCode, cause, broken, drain, readErr, flushErr,
                     waitErr, result, mode, confidential, exited, exitCode, received>>
  BY DEF WriteRest, engineVars, childVars, resultVars, historyVars
<1>2. RunnerTypeOK /\ ControlInv /\ CountInv /\ ResultInv
  BY DEF BookInv
<1>3. RunnerTypeOK'
  BY <1>1, <1>2 DEF RunnerTypeOK
<1>4. ControlInv' /\ exited
  BY <1>1, <1>2 DEF ControlInv
<1>5. CountInv' /\ ResultInv'
  BY <1>1, <1>2 DEF CountInv, ResultInv, Bookkeeping
<1>6. Pending = {"main"} /\ Pending' = {}
  <2>1. \A c \in Callers : c # "main" => c \in Streams
    BY DEF Callers
  <2>2. \A s \in Streams : drain[s] = "done" /\ drain'[s] = "done"
    BY <1>1, <1>2 DEF ControlInv
  <2>3. "main" \in Callers
    BY DEF Callers
  <2> QED
    BY <1>1, <2>1, <2>2, <2>3 DEF Pending
<1> QED
  BY <1>3, <1>4, <1>5, <1>6 DEF BookInv

LEMMA Flushing ==
  ASSUME BookInv, Flush
  PROVE  BookInv' /\ Pending' = Pending /\ UNCHANGED <<engineVars, outVars>>
<1>1. /\ main = "flush" /\ main' = "result" /\ FlushFails(Streams)
      /\ UNCHANGED <<printed, pipe, child, childCode, cause, broken, drain, out, writeErr,
                     readErr, waitErr, result, mode, confidential, exited, exitCode, received>>
      /\ UNCHANGED engineVars /\ UNCHANGED outVars
  BY DEF Flush, engineVars, childVars, outVars, historyVars
<1>2. RunnerTypeOK /\ ControlInv /\ CountInv /\ ResultInv
  BY DEF BookInv
<1>3. RunnerTypeOK'
  <2>1. flushErr' \subseteq Streams
    BY <1>1, <1>2, FlushingFails DEF RunnerTypeOK
  <2> QED
    BY <1>1, <1>2, <2>1 DEF RunnerTypeOK
<1>4. ControlInv'
  BY <1>1, <1>2 DEF ControlInv
<1>5. CountInv' /\ ResultInv'
  BY <1>1, <1>2 DEF CountInv, ResultInv, Bookkeeping
<1>6. Pending' = Pending
  BY <1>1 DEF Pending
<1> QED
  BY <1>1, <1>3, <1>4, <1>5, <1>6 DEF BookInv

(* A result without error needs clean outputs and, unless the run was      *)
(* interrupted, a command that was waited for.                             *)
LEMMA RunResultIs ==
  ASSUME RunnerTypeOK, ~RunResult.error
  PROVE  /\ writeErr = {} /\ readErr = {}
         /\ cause = "none" => ~waitErr /\ RunResult.code = exitCode
<1>1. CASE cause = "signal"
  <2>1. RunResult = [code |-> IF exitCode = HardKillCode THEN SignalCode ELSE exitCode,
                     error |-> OutputErr]
    BY <1>1 DEF RunResult
  <2>2. ~OutputErr
    BY <2>1, Zenon
  <2> QED
    BY <1>1, <2>2 DEF OutputErr
<1>2. CASE cause = "cancelled"
  BY <1>2 DEF RunResult
<1>3. CASE cause = "none"
  <2>1. RunResult = [code  |-> IF waitErr \/ (OutputErr /\ exitCode = 0) THEN 1 ELSE exitCode,
                     error |-> waitErr \/ OutputErr]
    BY <1>3 DEF RunResult
  <2>2. ~(waitErr \/ OutputErr)
    BY <2>1, Zenon
  <2>3. RunResult.code = IF waitErr \/ (OutputErr /\ exitCode = 0) THEN 1 ELSE exitCode
    BY <2>1
  <2> QED
    BY <2>2, <2>3 DEF OutputErr
<1> QED
  BY <1>1, <1>2, <1>3 DEF RunnerTypeOK

LEMMA UnfilteredResultIs ==
  ASSUME RunnerTypeOK, NEW failed, ~UnfilteredResult(failed).error
  PROVE  /\ writeErr = {} /\ readErr = {}
         /\ cause = "none" => UnfilteredResult(failed).code = childCode
<1> DEFINE code == IF waitErr THEN 1 ELSE childCode
           r == UnfilteredResult(failed)
<1>1. ~r.error
  OBVIOUS
<1> HIDE DEF r
<1>2. CASE cause = "signal"
  <2>1. r = [code |-> IF code = HardKillCode THEN SignalCode ELSE code, error |-> OutputErr]
    BY <1>2 DEF UnfilteredResult, r
  <2>2. ~OutputErr
    BY <1>1, <2>1, Zenon
  <2> QED
    BY <1>2, <2>2 DEF OutputErr
<1>3. CASE cause = "cancelled"
  BY <1>3, <1>1 DEF UnfilteredResult, r
<1>4. CASE cause = "none"
  <2>1. r = [code  |-> IF code = 0 /\ (failed \/ OutputErr) THEN 1 ELSE code,
             error |-> failed \/ OutputErr \/ waitErr]
    BY <1>4 DEF UnfilteredResult, r
  <2>2. ~(failed \/ OutputErr \/ waitErr)
    BY <1>1, <2>1, Zenon
  <2>3. r.code = IF code = 0 /\ (failed \/ OutputErr) THEN 1 ELSE code
    BY <2>1
  <2>4. r.code = childCode
    BY <2>2, <2>3
  <2> QED
    BY <2>2, <2>4 DEF OutputErr, r
<1> QED
  BY <1>2, <1>3, <1>4 DEF RunnerTypeOK, r

LEMMA Finishing ==
  ASSUME BookInv,
         \/ FilteredRunResult \/ MaybeStoreRecovery \/ AppendMetrics
         \/ FinishAudit \/ FinishUnfiltered
  PROVE  BookInv' /\ Pending' = Pending /\ UNCHANGED <<engineVars, outVars>>
<1>1. /\ UNCHANGED <<printed, pipe, child, childCode, cause, broken, drain, out, writeErr,
                     readErr, flushErr, waitErr, mode, confidential, exited, exitCode, received>>
      /\ UNCHANGED engineVars /\ UNCHANGED outVars
  BY DEF FilteredRunResult, MaybeStoreRecovery, AppendMetrics, FinishAudit, FinishUnfiltered,
         engineVars, childVars, outVars, historyVars
<1>2. RunnerTypeOK /\ ControlInv /\ CountInv /\ ResultInv
  BY DEF BookInv
<1>3. \/ main = "result" /\ main' \in {"recover", "done"}
      \/ main = "recover" /\ main' = "measure"
      \/ main = "measure" /\ main' = "finish"
      \/ main \in {"finish", "unfiltered"} /\ main' = "done"
  BY DEF FilteredRunResult, MaybeStoreRecovery, AppendMetrics, FinishAudit, FinishUnfiltered
<1>4. RunnerTypeOK'
  BY <1>1, <1>2, <1>3 DEF RunnerTypeOK
<1>5. ControlInv'
  BY <1>1, <1>2, <1>3 DEF ControlInv
<1>6. CountInv'
  BY <1>1, <1>2 DEF CountInv
<1>7. ResultInv'
  <2> SUFFICES /\ main' \in Bookkeeping => ~result'.error
               /\ main' \in Bookkeeping \union {"done"} /\ ~result'.error =>
                    /\ writeErr = {} /\ readErr = {}
                    /\ cause = "none" => result'.code = childCode
    BY <1>1, <1>3 DEF ResultInv, Bookkeeping
  <2>1. CASE FilteredRunResult
    <3>1. /\ main = "result" /\ result' = RunResult
          /\ main' = IF RunResult.error THEN "done" ELSE "recover"
      BY <2>1 DEF FilteredRunResult
    <3>2. exitCode = IF waitErr THEN 1 ELSE childCode
      BY <1>2, <3>1 DEF ResultInv
    <3> QED
      BY <1>2, <3>1, <3>2, RunResultIs DEF Bookkeeping
  <2>2. CASE MaybeStoreRecovery \/ AppendMetrics
    <3>1. main \in Bookkeeping /\ result' = result
      BY <2>2 DEF MaybeStoreRecovery, AppendMetrics, Bookkeeping
    <3> QED
      BY <1>2, <3>1 DEF ResultInv
  <2>3. CASE FinishAudit
    <3>1. main \in Bookkeeping /\ main' = "done"
          /\ (result' = result \/ result'.error)
      BY <2>3 DEF FinishAudit, Bookkeeping
    <3> QED
      BY <1>2, <3>1 DEF ResultInv, Bookkeeping
  <2>4. CASE FinishUnfiltered
    <3>1. PICK failed : result' = UnfilteredResult(failed)
      BY <2>4 DEF FinishUnfiltered
    <3>2. main' = "done"
      BY <2>4 DEF FinishUnfiltered
    <3> QED
      BY <1>2, <3>1, <3>2, UnfilteredResultIs DEF Bookkeeping
  <2> QED
    BY <2>1, <2>2, <2>3, <2>4
<1>8. Pending' = Pending
  BY <1>1, <1>3 DEF Pending
<1> QED
  BY <1>1, <1>4, <1>5, <1>6, <1>7, <1>8 DEF BookInv

-----------------------------------------------------------------------------
(* The invariant and the theorems *)

LEMMA InvIs == RunnerInv <=> ReaderInv /\ RetainInv /\ HandsInv /\ OrderInv /\ BookInv
BY DEF RunnerInv, BookInv

LEMMA InitRuns == RunnerInit => RunnerInv
<1> SUFFICES ASSUME RunnerInit PROVE RunnerInv
  OBVIOUS
<1>1. EngineInit /\ ReaderInv
  BY InitTells DEF RunnerInit
<1>2. /\ raw = {} /\ buffer = {} /\ received = {} /\ released = {} /\ ~passthrough /\ ~exited
  BY <1>1 DEF EngineInit
<1>3. /\ printed = 0 /\ pipe = [s \in Streams |-> <<>>] /\ child = "running" /\ childCode = 0
      /\ cause = "none" /\ mode \in ModeKinds /\ main = "wait" /\ broken = {}
      /\ out = [s \in Streams |-> <<>>] /\ writeErr = {} /\ readErr = {} /\ flushErr = {}
      /\ ~waitErr /\ confidential \in BOOLEAN
      /\ drain = [s \in Streams |-> IF mode = "attached" THEN "done" ELSE "read"]
  BY RunnerAssumption DEF RunnerInit
<1>4. RunnerTypeOK
  <2>1. waitErr \in BOOLEAN
    BY Zenon DEF RunnerInit
  <2>2. drain \in [Streams -> {"read", "sink", "done"}]
    BY <1>3
  <2>3. pipe \in [Streams -> Seq(Sizes)] /\ out \in [Streams -> Seq(Entry)]
    <3>1. <<>> \in Seq(Sizes) /\ <<>> \in Seq(Entry)
      OBVIOUS
    <3> QED
      BY <1>3, <3>1
  <2> QED
    BY <1>3, <2>1, <2>2, <2>3 DEF RunnerTypeOK
<1>5. ControlInv
  BY <1>2, <1>3 DEF ControlInv
<1>6. IsFiniteSet({}) /\ Cardinality({}) = 0
  BY FS_EmptySet
<1>7. RetainInv
  BY <1>2, <1>6 DEF RetainInv
<1>8. \A c \in Callers : c # "main" => c \in Streams
  BY DEF Callers
<1>9. Pending = {}
  BY <1>3, <1>8 DEF Pending
<1>10. \A d \in Streams : out[d] = <<>> /\ ToSet(out[d]) = {} /\ DOMAIN out[d] = {}
  <2>1. DOMAIN <<>> = {}
    OBVIOUS
  <2> QED
    BY <1>3, <2>1 DEF ToSet
<1>11. HandsInv
  BY <1>2, <1>9, <1>10 DEF HandsInv, IsInjective
<1>12. OrderInv
  BY <1>9, <1>10 DEF OrderInv, Ordered
<1>13. CountInv
  <2>1. Len(pipe["stdout"]) = 0 /\ Len(pipe["stderr"]) = 0
    BY <1>3 DEF Streams
  <2> QED
    BY <1>2, <1>3, <1>6, <2>1 DEF CountInv
<1>14. ResultInv
  BY <1>3 DEF ResultInv, Bookkeeping
<1> QED
  BY <1>1, <1>4, <1>5, <1>7, <1>11, <1>12, <1>13, <1>14 DEF RunnerInv

LEMMA EngineStands ==
  ASSUME ReaderInv, UNCHANGED engineVars
  PROVE  ReaderInv'
BY ReaderStep

(* A step that leaves the engine and the outputs alone.                    *)
LEMMA Standing ==
  ASSUME RunnerInv, BookInv', Pending' = Pending, UNCHANGED <<engineVars, outVars>>
  PROVE  RunnerInv'
<1>1. ReaderInv /\ RetainInv /\ HandsInv /\ OrderInv
  BY DEF RunnerInv
<1>2. UNCHANGED engineVars /\ UNCHANGED outVars
  OBVIOUS
<1>3. RetainInv' /\ HandsInv' /\ OrderInv'
  BY <1>1, <1>2, StandingStill
<1>4. ReaderInv'
  BY <1>1, <1>2, EngineStands
<1> QED
  BY <1>3, <1>4 DEF RunnerInv, BookInv

LEMMA DrainConsumes ==
  ASSUME RunnerInv, NEW s \in Streams, DrainConsume(s)
  PROVE  RunnerInv'
<1>1. ReaderInv /\ RetainInv /\ HandsInv /\ OrderInv /\ BookInv /\ RunnerTypeOK
  BY InvIs DEF BookInv
<1>2. /\ BookInv' /\ ~exited /\ ~exited'
      /\ s \in Callers /\ s \notin Pending /\ Pending' = Pending \union {s}
      /\ Head(pipe[s]) \in Sizes /\ Consume(s, Head(pipe[s])) /\ UNCHANGED outVars
  BY <1>1, Consuming
<1>3. ReaderInv'
  BY <1>1, <1>2, ConsumeTells
<1>4. /\ RetainInv' /\ activeCase' = activeCase
      /\ Overflowed => Overflowed'
      /\ \E entries : Hands(s, entries) /\ (Overflowed' \/ InTurn(s, entries))
  BY <1>1, <1>2, ConsumeHands
<1>5. PICK entries : Hands(s, entries) /\ (Overflowed' \/ InTurn(s, entries))
  BY <1>4
<1>6. exited' <=> s = "main"
  BY <1>2 DEF Streams
<1>7. HandsInv'
  BY <1>1, <1>2, <1>5, HandingOver
<1>8. OrderInv'
  BY <1>1, <1>2, <1>4, <1>5, <1>6, HandingOverInTurn
<1> QED
  BY <1>2, <1>3, <1>4, <1>7, <1>8 DEF RunnerInv, BookInv

LEMMA EngineExits ==
  ASSUME RunnerInv, EngineExit
  PROVE  RunnerInv'
<1>1. ReaderInv /\ RetainInv /\ HandsInv /\ OrderInv /\ BookInv /\ RunnerTypeOK
  BY InvIs DEF BookInv
<1>2. /\ BookInv' /\ Pending = {} /\ Pending' = {"main"} /\ UNCHANGED outVars
      /\ ~exited /\ exited'
  BY <1>1, Exiting
<1>3. PICK code \in Nat : Exit(code)
  BY <1>1, Exiting
<1>4. ReaderInv'
  BY <1>1, <1>2, <1>3, ExitTells
<1>5. /\ RetainInv' /\ activeCase' = activeCase
      /\ Overflowed => Overflowed'
      /\ \E entries : Hands("main", entries) /\ (Overflowed' \/ InTurn("main", entries))
  BY <1>1, <1>2, <1>3, ExitHands
<1>6. PICK entries : Hands("main", entries) /\ (Overflowed' \/ InTurn("main", entries))
  BY <1>5
<1>7. "main" \in Callers /\ "main" \notin Pending /\ Pending' = Pending \union {"main"}
  BY <1>2 DEF Callers
<1>8. exited' <=> "main" = "main"
  BY <1>2
<1>9. HandsInv'
  BY <1>1, <1>2, <1>6, <1>7, HandingOver
<1>10. OrderInv'
  BY <1>1, <1>2, <1>5, <1>6, <1>7, <1>8, HandingOverInTurn
<1> QED
  BY <1>2, <1>4, <1>5, <1>9, <1>10 DEF RunnerInv, BookInv

(* What a drain or the main goroutine writes.                              *)
LEMMA Writes ==
  ASSUME RunnerInv, NEW c \in Callers, Write(returned[c]), UNCHANGED engineVars,
         c \in Pending, Pending' = Pending \ {c}, exited => c = "main" /\ Pending = {c},
         BookInv'
  PROVE  RunnerInv'
<1>1. ReaderInv /\ RetainInv /\ HandsInv /\ OrderInv /\ RunnerTypeOK
  BY DEF RunnerInv
<1>2. UNCHANGED <<released, returned>>
  BY DEF engineVars, historyVars
<1>3. HandsInv'
  BY <1>1, <1>2, WritingDown
<1>4. OrderInv'
  BY <1>1, WritingDownInTurn
<1>5. ReaderInv'
  BY <1>1, EngineStands
<1>6. RetainInv'
  <2>1. UNCHANGED <<raw, buffer, exited, passthrough, rawBytes, activeCase>>
    BY DEF engineVars, filterVars, bufferVars
  <2>2. (Overflowed' <=> Overflowed) /\ \A t : Filtered(t)' <=> Filtered(t)
    BY <2>1 DEF Overflowed, Filtered, ScopeNames
  <2> QED
    BY <1>1, <2>1, <2>2 DEF RetainInv
<1> QED
  BY <1>3, <1>4, <1>5, <1>6 DEF RunnerInv, BookInv

LEMMA DrainSinks ==
  ASSUME RunnerInv, NEW s \in Streams, DrainSink(s)
  PROVE  RunnerInv'
<1>1. ReaderInv /\ HandsInv /\ RunnerTypeOK /\ BookInv /\ ControlInv
  BY InvIs DEF BookInv
<1>2. Write(returned[s]) /\ UNCHANGED engineVars /\ drain[s] = "sink"
      /\ drain' = [drain EXCEPT ![s] = "read"] /\ main' = main
  BY DEF DrainSink
<1>3. s \in Callers /\ s # "main" /\ \A c \in Callers : c # "main" => c \in Streams
  BY DEF Callers, Streams
<1>4. s \in Pending /\ Pending' = Pending \ {s}
  BY <1>1, <1>2, <1>3 DEF Pending, RunnerTypeOK
<1>5. out' \in [Streams -> Seq(Entry)] /\ writeErr' \subseteq Streams
  <2>1. UNCHANGED <<released, returned>>
    BY <1>2 DEF engineVars, historyVars
  <2> QED
    BY <1>1, <1>2, <1>4, <2>1, WritingDown
<1>6. BookInv' /\ ~exited
  BY <1>1, <1>5, Sinking
<1> QED
  BY <1>2, <1>3, <1>4, <1>6, Writes

LEMMA RestIsWritten ==
  ASSUME RunnerInv, WriteRest
  PROVE  RunnerInv'
<1>1. ReaderInv /\ HandsInv /\ RunnerTypeOK /\ BookInv /\ ControlInv
  BY InvIs DEF BookInv
<1>2. Write(returned["main"]) /\ UNCHANGED engineVars /\ main = "write" /\ main' = "flush"
      /\ drain' = drain
  BY DEF WriteRest
<1>3. "main" \in Callers /\ \A c \in Callers : c # "main" => c \in Streams
  BY DEF Callers
<1>4. Pending = {"main"} /\ Pending' = Pending \ {"main"}
  <2>1. \A t \in Streams : drain[t] = "done"
    BY <1>1, <1>2 DEF ControlInv
  <2> QED
    BY <1>2, <1>3, <2>1 DEF Pending
<1>5. out' \in [Streams -> Seq(Entry)] /\ writeErr' \subseteq Streams
  <2>1. UNCHANGED <<released, returned>>
    BY <1>2 DEF engineVars, historyVars
  <2> QED
    BY <1>1, <1>2, <1>4, <2>1, WritingDown
<1>6. BookInv'
  BY <1>1, <1>5, WritingRest
<1> QED
  BY <1>2, <1>3, <1>4, <1>6, Writes

LEMMA RunnerStep == RunnerInv /\ [RunnerNext]_runnerVars => RunnerInv'
<1> SUFFICES ASSUME RunnerInv, [RunnerNext]_runnerVars PROVE RunnerInv'
  OBVIOUS
<1>1. BookInv /\ ReaderInv
  BY InvIs
<1>2. CASE \E s \in Streams, size \in Sizes : ChildPrints(s, size)
  BY <1>1, <1>2, Printing, Standing
<1>3. CASE \/ \E code \in ExitCodes : ChildExits(code)
           \/ \E why \in {"signal", "cancelled"} : Cancel(why)
           \/ HardKill
           \/ \E d \in Streams : Break(d)
  <2>1. \/ \E code \in Nat : ChildExits(code)
        \/ \E why \in {"signal", "cancelled"} : Cancel(why)
        \/ \E d \in Streams : Break(d)
    BY <1>3, EngineAssumption, RunnerAssumption DEF HardKill
  <2> QED
    BY <1>1, <2>1, Outside, Standing
<1>4. CASE \E s \in Streams : Drain(s)
  <2>1. PICK s \in Streams : DrainConsume(s) \/ DrainSink(s) \/ DrainEnds(s)
    BY <1>4 DEF Drain
  <2>2. CASE DrainEnds(s)
    BY <1>1, <2>2, Ending, Standing
  <2> QED
    BY <2>1, <2>2, DrainConsumes, DrainSinks
<1>5. CASE Main
  <2>1. CASE WaitExitCode
    BY <1>1, <2>1, Waiting, Standing
  <2>2. CASE \/ FilteredRunResult \/ MaybeStoreRecovery \/ AppendMetrics
             \/ FinishAudit \/ FinishUnfiltered
    BY <1>1, <2>2, Finishing, Standing
  <2>3. CASE Flush
    BY <1>1, <2>3, Flushing, Standing
  <2> QED
    BY <1>5, <2>1, <2>2, <2>3, EngineExits, RestIsWritten DEF Main
<1>6. CASE UNCHANGED runnerVars
  <2>1. /\ UNCHANGED <<printed, pipe, child, childCode, cause, broken, drain, main, out,
                       writeErr, readErr, flushErr, waitErr, result, mode, confidential, exited,
                       exitCode, received>>
        /\ UNCHANGED <<engineVars, outVars>>
    BY <1>6 DEF runnerVars, childVars, outVars, resultVars, engineVars, historyVars
  <2>2. RunnerTypeOK /\ ControlInv /\ CountInv /\ ResultInv
    BY <1>1 DEF BookInv
  <2>3. RunnerTypeOK'
    BY <2>1, <2>2 DEF RunnerTypeOK
  <2>4. ControlInv'
    BY <2>1, <2>2 DEF ControlInv
  <2>5. CountInv' /\ ResultInv'
    BY <2>1, <2>2 DEF CountInv, ResultInv, Bookkeeping
  <2>6. Pending' = Pending
    BY <2>1 DEF Pending
  <2> QED
    BY <2>1, <2>3, <2>4, <2>5, <2>6, Standing DEF BookInv
<1> QED
  BY <1>2, <1>3, <1>4, <1>5, <1>6 DEF RunnerNext

LEMMA Runs == RunnerSpec => []RunnerInv
BY InitRuns, RunnerStep, PTL DEF RunnerSpec

(* The types, and what the engine promises, hold in every execution: the   *)
(* runner calls Consume with the drains and Exit once, after them.         *)
THEOREM TheRunKeepsTypes == RunnerSpec => [](RunnerTypeOK /\ EngineTypeOK)
<1>1. RunnerInv => RunnerTypeOK /\ EngineTypeOK
  BY DEF RunnerInv, ReaderInv, ShownInv, DeliveryInv
<1> QED
  BY <1>1, Runs, PTL

THEOREM TheRunIsDelivered ==
  RunnerSpec => [](NothingLost /\ GivingUpIsVerbatim /\ EverythingRecoverable
                     /\ RetainedIsBounded /\ ReaderIsTold /\ StreamIsKept)
<1>1. RunnerInv => NothingLost /\ GivingUpIsVerbatim /\ EverythingRecoverable
                     /\ RetainedIsBounded /\ ReaderIsTold /\ StreamIsKept
  BY DEF RunnerInv, ReaderInv, ShownInv, DeliveryInv
<1> QED
  BY <1>1, Runs, PTL

LEMMA EngineSteps ==
  ASSUME RunnerInv, [RunnerNext]_runnerVars
  PROVE  \/ UNCHANGED engineVars
         \/ ~exited /\ \E s \in Streams, size \in Sizes : Consume(s, size)
         \/ ~exited /\ \E code \in Nat : Exit(code)
<1>1. ReaderInv /\ RetainInv /\ BookInv
  BY InvIs
<1>2. CASE \E s \in Streams : DrainConsume(s)
  BY <1>1, <1>2, Consuming
<1>3. CASE EngineExit
  BY <1>1, <1>3, Exiting
<1>4. CASE \E s \in Streams : DrainSink(s) \/ DrainEnds(s)
  BY <1>4 DEF DrainSink, DrainEnds
<1>5. CASE Main
  BY <1>3, <1>5 DEF Main, WaitExitCode, WriteRest, Flush, FilteredRunResult, MaybeStoreRecovery,
                    AppendMetrics, FinishAudit, FinishUnfiltered
<1>6. CASE \/ \E s \in Streams, size \in Sizes : ChildPrints(s, size)
           \/ \E code \in ExitCodes : ChildExits(code)
           \/ \E why \in {"signal", "cancelled"} : Cancel(why)
           \/ HardKill
           \/ \E d \in Streams : Break(d)
           \/ UNCHANGED runnerVars
  BY <1>6 DEF ChildPrints, ChildExits, Cancel, HardKill, Break, runnerVars
<1> QED
  BY <1>2, <1>4, <1>5, <1>6 DEF RunnerNext, Drain

(* The action properties of the engine hold in every execution too: the    *)
(* drains and the exit never hand a line back twice, and once filtering is *)
(* given up nobody is handed filtered text.                                *)
THEOREM TheRunHandsBackOnce == RunnerSpec => HandedBackOnce /\ GivingUpIsFinal
<1>1. RunnerInv /\ [RunnerNext]_runnerVars => [HandsOnce]_engineVars
  BY EngineSteps, ConsumeHandsOnce, ExitHandsOnce DEF RunnerInv
<1>2. RunnerInv /\ [RunnerNext]_runnerVars => [StaysVerbatim]_engineVars
  BY EngineSteps, ConsumeStaysVerbatim, ExitStaysVerbatim
<1> QED
  BY <1>1, <1>2, Runs, PTL
     DEF RunnerSpec, HandedBackOnce, HandsOnce, GivingUpIsFinal, StaysVerbatim

LEMMA UnwrittenIs ==
  ASSUME HandsInv, RunnerTypeOK
  PROVE  \A e : e \in Unwritten <=> \E c \in Pending : e \in returned[c]
<1>1. \A c : c \in Pending <=> \/ c \in Streams /\ drain[c] = "sink"
                               \/ c = "main" /\ main = "write"
  BY DEF Pending, Callers, Streams
<1>2. \A e : e \in Unwritten <=> \/ \E s \in Streams : drain[s] = "sink" /\ e \in returned[s]
                                 \/ main = "write" /\ e \in returned["main"]
  BY DEF Unwritten
<1> QED
  BY <1>1, <1>2

(* Every entry handed back is written exactly once, to its destination.    *)
THEOREM EntriesAreWrittenOnce == RunnerSpec => []WrittenOnce
<1>1. RunnerInv => WrittenOnce
  <2> SUFFICES ASSUME HandsInv, ReaderInv, RunnerTypeOK PROVE WrittenOnce
    BY DEF RunnerInv
  <2>1. \A e : e \in Unwritten <=> \E c \in Pending : e \in returned[c]
    BY UnwrittenIs
  <2>2. \A e : e \in Written <=> \E d \in Streams : e \in ToSet(out[d])
    BY DEF Written
  <2>3. \A e \in released : e.stream \in Streams
    BY DEF ReaderInv, ShownInv, DeliveryInv, EngineTypeOK, Entry
  <2>4. Written \intersect Unwritten = {}
    BY <2>1, <2>2 DEF HandsInv
  <2>5. Written \union Unwritten \subseteq released
    BY <2>1, <2>2 DEF HandsInv
  <2>6. \A e \in released \ (Written \union Unwritten) : e.stream \in writeErr
    BY <2>1, <2>2, <2>3 DEF HandsInv
  <2>7. \A d \in Streams : IsInjective(out[d]) /\ \A e \in ToSet(out[d]) : e.stream = d
    BY DEF HandsInv
  <2> QED
    BY <2>4, <2>5, <2>6, <2>7 DEF WrittenOnce
<1> QED
  BY <1>1, Runs, PTL

(* A destination shows its lines in the order they were read, unless the   *)
(* limit was exceeded.                                                     *)
THEOREM OutputIsOrdered == RunnerSpec => []InOrderUnlessOverflow
<1>1. RunnerInv => InOrderUnlessOverflow
  BY DEF RunnerInv, OrderInv, InOrderUnlessOverflow
<1> QED
  BY <1>1, Runs, PTL

(* Once the result is known and without error everything is written.       *)
LEMMA AllIsWritten ==
  ASSUME RunnerInv, main \in Bookkeeping \union {"done"}, ~result.error
  PROVE  /\ \A s \in Streams : drain[s] = "done" /\ pipe[s] = <<>>
         /\ Written = released /\ \A d \in Streams : ToSet(out[d]) = For(d, released)
         /\ cause = "none" => result.code = childCode
<1>1. RunnerTypeOK /\ ControlInv /\ HandsInv /\ ResultInv /\ ReaderInv
  BY DEF RunnerInv
<1>2. writeErr = {} /\ readErr = {} /\ (cause = "none" => result.code = childCode)
  BY <1>1 DEF ResultInv
<1>3. \A s \in Streams : drain[s] = "done" /\ pipe[s] = <<>>
  BY <1>1, <1>2 DEF ControlInv, Bookkeeping
<1>4. Pending = {}
  <2>1. \A c \in Callers : c # "main" => c \in Streams
    BY DEF Callers
  <2> QED
    BY <1>3, <2>1 DEF Pending, Bookkeeping
<1>5. \A e : e \in Written <=> \E d \in Streams : e \in ToSet(out[d])
  BY DEF Written
<1>6. \A e \in released : e.stream \in Streams
  BY <1>1 DEF ReaderInv, ShownInv, DeliveryInv, EngineTypeOK, Entry
<1>7. Written = released
  BY <1>1, <1>2, <1>4, <1>5, <1>6 DEF HandsInv
<1>8. \A d \in Streams : ToSet(out[d]) = For(d, released)
  BY <1>1, <1>2, <1>4, <1>6 DEF HandsInv, For
<1> QED
  BY <1>2, <1>3, <1>7, <1>8

(* A run that reports no error wrote everything that was handed back, read *)
(* everything that was printed and has the code of the command.            *)
THEOREM SuccessMeansComplete == RunnerSpec => []SuccessIsComplete
<1>1. RunnerInv => SuccessIsComplete
  <2> SUFFICES ASSUME RunnerInv, main = "done", ~result.error
               PROVE  /\ Written = released
                      /\ Cardinality(received) = printed
                      /\ cause = "none" => result.code = childCode
    BY DEF SuccessIsComplete
  <2>1. CountInv
    BY DEF RunnerInv
  <2>2. Len(pipe["stdout"]) = 0 /\ Len(pipe["stderr"]) = 0
    BY AllIsWritten DEF Streams
  <2>3. Cardinality(received) \in Nat
    BY <2>1, FS_CardinalityType DEF CountInv
  <2> QED
    BY <2>1, <2>2, <2>3, AllIsWritten DEF CountInv
<1> QED
  BY <1>1, Runs, PTL

-----------------------------------------------------------------------------
(* What is measured *)

(* The bytes a recorder counted for different entries are those entries'.  *)
LEMMA BytesWrittenIs ==
  ASSUME NEW q \in Seq(Entry), IsInjective(q), Sized(ToSet(q))
  PROVE  BytesWritten(q) = Bytes(ToSet(q))
<1> DEFINE places == UNION {{i} \X (1..q[i].text.size) : i \in DOMAIN q}
           of == [p \in BytesIn(ToSet(q)) |-> <<CHOOSE i \in DOMAIN q : q[i] = p[1], p[2]>>]
<1>1. \A i, j \in DOMAIN q : q[i] = q[j] => i = j
  BY DEF IsInjective
<1>2. \A e : e \in ToSet(q) <=> \E i \in DOMAIN q : q[i] = e
  BY DEF ToSet
<1>3. \A i \in DOMAIN q : (CHOOSE j \in DOMAIN q : q[j] = q[i]) = i
  BY <1>1
<1>4. \A p : p \in BytesIn(ToSet(q))
              <=> \E i \in DOMAIN q : \E n \in 1..q[i].text.size : p = <<q[i], n>>
  <2>1. \A p : p \in BytesIn(ToSet(q))
                <=> \E e \in ToSet(q) : \E n \in 1..e.text.size : p = <<e, n>>
    BY DEF BytesIn
  <2> QED
    BY <1>2, <2>1
<1>5. \A p : p \in places <=> \E i \in DOMAIN q : \E n \in 1..q[i].text.size : p = <<i, n>>
  OBVIOUS
<1>6. \A i \in DOMAIN q : \A n \in 1..q[i].text.size : of[<<q[i], n>>] = <<i, n>>
  <2> SUFFICES ASSUME NEW i \in DOMAIN q, NEW n \in 1..q[i].text.size
               PROVE  of[<<q[i], n>>] = <<i, n>>
    OBVIOUS
  <2> DEFINE p == <<q[i], n>>
  <2>1. p \in BytesIn(ToSet(q))
    BY <1>4
  <2>2. of[p] = <<CHOOSE j \in DOMAIN q : q[j] = p[1], p[2]>>
    BY <2>1
  <2>3. p[1] = q[i] /\ p[2] = n /\ (CHOOSE j \in DOMAIN q : q[j] = q[i]) = i
    BY <1>3
  <2> HIDE DEF of
  <2> QED
    BY <2>2, <2>3
<1>7. of \in Bijection(BytesIn(ToSet(q)), places)
  <2> HIDE DEF places
  <2>1. of \in [BytesIn(ToSet(q)) -> places]
    <3> SUFFICES ASSUME NEW p \in BytesIn(ToSet(q)) PROVE of[p] \in places
      OBVIOUS
    <3> HIDE DEF of
    <3> QED
      BY <1>4, <1>5, <1>6
  <2> HIDE DEF of
  <2>2. ASSUME NEW p \in BytesIn(ToSet(q)), NEW r \in BytesIn(ToSet(q)), of[p] = of[r]
        PROVE  p = r
    <3>1. PICK i \in DOMAIN q : \E n \in 1..q[i].text.size : p = <<q[i], n>>
      BY <1>4
    <3>2. PICK n \in 1..q[i].text.size : p = <<q[i], n>>
      BY <3>1
    <3>3. PICK j \in DOMAIN q : \E m \in 1..q[j].text.size : r = <<q[j], m>>
      BY <1>4
    <3>4. PICK m \in 1..q[j].text.size : r = <<q[j], m>>
      BY <3>3
    <3>5. of[p] = <<i, n>> /\ of[r] = <<j, m>>
      BY <1>6, <3>2, <3>4
    <3>6. <<i, n>> = <<j, m>>
      BY <2>2, <3>5
    <3>7. i = j /\ n = m
      BY <3>6
    <3> QED
      BY <3>2, <3>4, <3>7
  <2>3. ASSUME NEW p \in places PROVE \E r \in BytesIn(ToSet(q)) : of[r] = p
    <3>1. PICK i \in DOMAIN q : \E n \in 1..q[i].text.size : p = <<i, n>>
      BY <1>5
    <3>2. PICK n \in 1..q[i].text.size : p = <<i, n>>
      BY <3>1
    <3>3. of[<<q[i], n>>] = p
      BY <1>6, <3>2
    <3>4. <<q[i], n>> \in BytesIn(ToSet(q))
      BY <1>4
    <3> QED
      BY <3>3, <3>4
  <2> QED
    BY <2>1, <2>2, <2>3 DEF Bijection, Injection, Surjection, IsInjective
<1>8. IsFiniteSet(BytesIn(ToSet(q)))
  BY BytesAreFinite
<1> HIDE DEF of, places
<1>9. Cardinality(places) = Cardinality(BytesIn(ToSet(q)))
  BY <1>7, <1>8, FS_Bijection DEF ExistsBijection
<1> QED
  BY <1>9 DEF BytesWritten, Bytes, places

LEMMA PrintedIsReleased ==
  ASSUME RunnerInv, main \in Bookkeeping \union {"done"}, ~result.error
  PROVE  PrintedBytes = Bytes(released) /\ Bytes(released) \in Nat
<1>1. /\ out \in [Streams -> Seq(Entry)] /\ \A d \in Streams : IsInjective(out[d])
      /\ \A d \in Streams : ToSet(out[d]) = For(d, released)
      /\ released \in SUBSET Entry
  BY AllIsWritten DEF RunnerInv, RunnerTypeOK, HandsInv, ReaderInv, ShownInv, DeliveryInv,
                      EngineTypeOK
<1>2. \A e \in released : e.stream \in Streams /\ e.text.size \in Nat
  BY <1>1 DEF Entry, Text
<1>3. ASSUME NEW d \in Streams
      PROVE  Sized(For(d, released)) /\ BytesWritten(out[d]) = Bytes(For(d, released))
  <2>1. IsFiniteSet(ToSet(out[d]))
    <3>1. /\ out[d] \in Seq(Entry) /\ Len(out[d]) \in Nat /\ DOMAIN out[d] = 1..Len(out[d])
      BY <1>1
    <3>2. out[d] \in Surjection(DOMAIN out[d], ToSet(out[d]))
      BY <3>1 DEF Surjection, ToSet
    <3>3. IsFiniteSet(1..Len(out[d]))
      BY <3>1, FS_Interval
    <3> QED
      BY <3>1, <3>2, <3>3, FS_Surjection
  <2>2. Sized(For(d, released))
    BY <1>1, <1>2, <2>1 DEF Sized, For
  <2> QED
    BY <1>1, <2>2, BytesWrittenIs
<1>4. "stdout" \in Streams /\ "stderr" \in Streams
  BY DEF Streams
<1>5. /\ released = For("stdout", released) \union For("stderr", released)
      /\ For("stdout", released) \intersect For("stderr", released) = {}
  BY <1>2 DEF For, Streams
<1>6. /\ Sized(released)
      /\ Bytes(released) = Bytes(For("stdout", released)) + Bytes(For("stderr", released))
  BY <1>3, <1>4, <1>5, BytesAdd
<1>7. Bytes(released) \in Nat
  BY <1>6, BytesAreFinite
<1> QED
  BY <1>3, <1>4, <1>6, <1>7 DEF PrintedBytes

(* The code of the command, or the signal's when the command was killed    *)
(* because of it.                                                          *)
TrueCode(code) ==
  \/ waitErr \/ code = childCode
  \/ cause = "signal" /\ childCode = HardKillCode /\ code = SignalCode

(* From the flush on the bytes of what was written are counted, unless     *)
(* values were replaced in it.                                             *)
Counts(place) == place \in {"result"} \union Bookkeeping
CountedInv == Counts(main) /\ ~confidential => keptBytes = PrintedBytes

MeasureInv ==
  /\ LedgerInv /\ AnswerInv /\ CountedInv
  /\ main \notin {"finish", "done"} => metric = {}
  /\ main \in {"recover", "measure"} => TrueCode(result.code)
  /\ MetricIsHonest

LEMMA MeasureInitially == RunnerInit => MeasureInv
<1> SUFFICES ASSUME RunnerInit PROVE MeasureInv
  OBVIOUS
<1>1. EngineInit /\ metric = {} /\ main = "wait" /\ ~exited
  BY DEF RunnerInit, EngineInit
<1> QED
  BY <1>1, InitCounts DEF MeasureInv, AnswerInv, CountedInv, Counts, Bookkeeping, MetricIsHonest

(* A step of the engine: nothing was measured yet.                         *)
LEMMA EngineMeasures ==
  ASSUME RunnerInv, MeasureInv, (\E s \in Streams : DrainConsume(s)) \/ EngineExit
  PROVE  MeasureInv'
<1>1. ReaderInv /\ RetainInv /\ BookInv /\ ControlInv /\ ShownInv
  BY InvIs DEF BookInv, ReaderInv
<1>2. LedgerInv' /\ AnswerInv'
  <2>1. CASE \E s \in Streams : DrainConsume(s)
    <3>1. PICK s \in Streams : DrainConsume(s)
      BY <2>1
    <3>2. /\ ~exited /\ ~exited'
          /\ Head(pipe[s]) \in Sizes /\ Consume(s, Head(pipe[s]))
      BY <1>1, <3>1, Consuming
    <3> QED
      BY <1>1, <3>2, ConsumeCounts DEF MeasureInv, AnswerInv
  <2>2. CASE EngineExit
    <3>1. ~exited /\ \E code \in Nat : Exit(code)
      BY <1>1, <2>2, Exiting
    <3> QED
      BY <1>1, <3>1, ExitCounts DEF MeasureInv
  <2> QED
    BY <2>1, <2>2
<1>3. main \in {"wait", "exit"} /\ main' \in {"wait", "write"} /\ metric' = metric
  <2>1. ASSUME NEW s \in Streams, DrainConsume(s)
        PROVE  main = "wait" /\ main' = main /\ metric' = metric
    BY <1>1, <2>1 DEF DrainConsume, ControlInv, resultVars
  <2> QED
    BY <2>1 DEF EngineExit, resultVars
<1> QED
  BY <1>2, <1>3 DEF MeasureInv, CountedInv, Counts, Bookkeeping, MetricIsHonest

LEMMA LedgerStands ==
  ASSUME LedgerInv, AnswerInv, UNCHANGED engineVars
  PROVE  LedgerInv' /\ AnswerInv'
<1>1. UNCHANGED <<activeCase, hidden, raw, buffer, rawBytes, held, passthrough, exited,
                  received, released>>
  BY DEF engineVars, filterVars, bufferVars, historyVars
<1>2. \A t : Counted(t)' = Counted(t) /\ (Filtered(t)' <=> Filtered(t))
  BY <1>1 DEF Counted, Filtered, ScopeNames
<1> QED
  BY <1>1, <1>2 DEF LedgerInv, AnswerInv, Bytes, BytesIn

(* Steps before the result: nothing was measured yet.                      *)
LEMMA EarlyMeasures ==
  ASSUME RunnerInv, MeasureInv, UNCHANGED <<engineVars, metric>>,
         main \notin {"recover", "measure", "finish", "done"},
         main' \notin {"result", "recover", "measure", "finish"}
  PROVE  MeasureInv'
<1>1. metric' = {}
  BY DEF MeasureInv
<1>2. LedgerInv' /\ AnswerInv'
  BY LedgerStands DEF MeasureInv
<1> QED
  BY <1>1, <1>2 DEF MeasureInv, CountedInv, Counts, Bookkeeping, MetricIsHonest

(* The flush counts what was written.                                      *)
LEMMA FlushMeasures ==
  ASSUME RunnerInv, MeasureInv, Flush
  PROVE  MeasureInv'
<1>1. /\ main = "flush" /\ main' = "result"
      /\ UNCHANGED <<engineVars, metric, out, confidential>>
  BY DEF Flush, outVars
<1>2. metric' = {}
  BY <1>1 DEF MeasureInv
<1>3. LedgerInv' /\ AnswerInv'
  BY <1>1, LedgerStands DEF MeasureInv
<1>4. CountedInv'
  <2>1. ~confidential => \A n : Redacted(n) = {n}
    BY DEF Redacted
  <2>2. ~confidential => keptBytes' = PrintedBytes
    BY <2>1 DEF Flush, PrintedBytes
  <2>3. PrintedBytes' = PrintedBytes
    BY <1>1 DEF PrintedBytes, BytesWritten
  <2> QED
    BY <1>1, <2>2, <2>3 DEF CountedInv
<1> QED
  BY <1>1, <1>2, <1>3, <1>4 DEF MeasureInv, MetricIsHonest

(* Afterwards what was measured and the outputs stay as they are.          *)
LEMMA LateMeasures ==
  ASSUME MeasureInv,
         UNCHANGED <<engineVars, metric, out, waitErr, childCode, confidential, keptBytes>>,
         cause' = cause \/ cause = "none", Counts(main') => Counts(main),
         main' \in {"finish", "done"} \/ metric = {},
         main' \in {"recover", "measure"} => main \in {"recover", "measure"} /\ result' = result
  PROVE  MeasureInv'
<1>1. LedgerInv' /\ AnswerInv'
  BY LedgerStands DEF MeasureInv
<1>2. UNCHANGED <<activeCase, received>>
  BY DEF engineVars, filterVars, historyVars
<1>3. Written' = Written /\ PrintedBytes' = PrintedBytes
  BY DEF Written, PrintedBytes, BytesWritten
<1>4. ASSUME NEW code, TrueCode(code) PROVE TrueCode(code)'
  BY <1>4 DEF TrueCode
<1>5. MetricIsHonest'
  BY <1>2, <1>3 DEF MeasureInv, MetricIsHonest
<1>6. CountedInv'
  BY <1>3 DEF MeasureInv, CountedInv
<1> QED
  BY <1>1, <1>4, <1>5, <1>6 DEF MeasureInv

LEMMA ResultMeasures ==
  ASSUME RunnerInv, MeasureInv, FilteredRunResult
  PROVE  MeasureInv'
<1>1. /\ main = "result" /\ result' = RunResult
      /\ main' = IF RunResult.error THEN "done" ELSE "recover"
      /\ UNCHANGED <<engineVars, metric, waitErr, childCode, cause, out, confidential, keptBytes>>
  BY DEF FilteredRunResult, childVars, outVars
<1>2. exitCode = IF waitErr THEN 1 ELSE childCode
  BY <1>1 DEF RunnerInv, ResultInv
<1>3. ~RunResult.error => TrueCode(RunResult.code)
  <2>1. cause \in {"none", "signal", "cancelled"}
    BY DEF RunnerInv, RunnerTypeOK
  <2>2. CASE cause = "signal"
    BY <1>2, <2>2 DEF RunResult, TrueCode
  <2>3. CASE cause = "cancelled"
    BY <2>3 DEF RunResult
  <2>4. CASE cause = "none"
    BY <1>2, <2>4 DEF RunResult, TrueCode
  <2> QED
    BY <2>1, <2>2, <2>3, <2>4
<1>4. metric' = {}
  BY <1>1 DEF MeasureInv
<1>5. LedgerInv' /\ AnswerInv'
  BY <1>1, LedgerStands DEF MeasureInv
<1>6. main' = "recover" => TrueCode(result.code)'
  BY <1>1, <1>3 DEF TrueCode
<1>7. CountedInv'
  BY <1>1 DEF MeasureInv, CountedInv, Counts, PrintedBytes, BytesWritten
<1> QED
  BY <1>1, <1>4, <1>5, <1>6, <1>7 DEF MeasureInv, MetricIsHonest

LEMMA MetricMeasures ==
  ASSUME RunnerInv, MeasureInv, AppendMetrics
  PROVE  MeasureInv'
<1> DEFINE m == [passthrough |-> activeCase.passthrough \/ passthrough,
                 code |-> result.code, raw |-> RawBytes, kept |-> keptBytes]
<1>1. /\ main = "measure" /\ main' = "finish"
      /\ metric' = {} \/ metric' = {m}
      /\ UNCHANGED <<engineVars, out, waitErr, childCode, cause, confidential, keptBytes>>
  BY DEF AppendMetrics, childVars, outVars
<1>2. LedgerInv' /\ AnswerInv'
  BY <1>1, LedgerStands DEF MeasureInv
<1>3. ~result.error /\ exited
  BY <1>1 DEF RunnerInv, ResultInv, Bookkeeping, ControlInv
<1>4. Written = released /\ PrintedBytes = Bytes(released) /\ Bytes(released) \in Nat
  BY <1>1, <1>3, AllIsWritten, PrintedIsReleased DEF Bookkeeping
<1>5. passthrough => released = received
  BY DEF RunnerInv, ReaderInv, ShownInv, DeliveryInv, GivingUpIsVerbatim
<1>6. m.code = result.code /\ m.raw = Bytes(received) /\ m.kept = keptBytes
      /\ (m.passthrough <=> activeCase.passthrough \/ passthrough)
  BY DEF RawBytes
<1>7. TrueCode(m.code)
  BY <1>1 DEF MeasureInv
<1>8. Bytes(received) \in Nat /\ activeCase.footer \in Nat
  <2>1. Sized(received) /\ activeCase \in Cases
    BY DEF MeasureInv, LedgerInv, RunnerInv, ReaderInv, ShownInv, DeliveryInv, EngineTypeOK,
           FilterTypeOK, Entry, Text, Sized
  <2> QED
    BY <2>1, BytesAreFinite, FilterAssumption
<1> HIDE DEF m
<1>9. m.passthrough => Written = received /\ PrintedBytes = m.raw
  BY <1>3, <1>4, <1>5, <1>6 DEF MeasureInv, AnswerInv
<1>10. ~m.passthrough => PrintedBytes <= m.raw + activeCase.footer
  BY <1>3, <1>4, <1>6, <1>8 DEF MeasureInv, AnswerInv
<1>11. /\ UNCHANGED <<activeCase, received>> /\ Written' = Written
       /\ PrintedBytes' = PrintedBytes
  BY <1>1 DEF engineVars, filterVars, historyVars, Written, PrintedBytes, BytesWritten
<1>12. ~confidential => m.kept = PrintedBytes
  BY <1>1, <1>6 DEF MeasureInv, CountedInv, Counts, Bookkeeping
<1>13. MetricIsHonest'
  BY <1>1, <1>7, <1>9, <1>10, <1>11, <1>12 DEF MetricIsHonest, TrueCode
<1>14. CountedInv'
  BY <1>1, <1>11 DEF MeasureInv, CountedInv, Counts, Bookkeeping
<1> QED
  BY <1>1, <1>2, <1>13, <1>14 DEF MeasureInv

LEMMA MeasureStep == RunnerInv /\ MeasureInv /\ [RunnerNext]_runnerVars => MeasureInv'
<1> SUFFICES ASSUME RunnerInv, MeasureInv, [RunnerNext]_runnerVars PROVE MeasureInv'
  OBVIOUS
<1>1. ControlInv
  BY DEF RunnerInv
<1>2. CASE \/ \E s \in Streams, size \in Sizes : ChildPrints(s, size)
           \/ \E code \in ExitCodes : ChildExits(code)
           \/ HardKill
  <2>1. child = "running" /\ main' = main /\ UNCHANGED <<engineVars, metric>>
    BY <1>2 DEF ChildPrints, ChildExits, HardKill, resultVars
  <2> QED
    BY <1>1, <2>1, EarlyMeasures DEF ControlInv
<1>3. CASE \/ \E why \in {"signal", "cancelled"} : Cancel(why)
           \/ \E d \in Streams : Break(d)
           \/ UNCHANGED runnerVars
  <2>1. /\ UNCHANGED <<engineVars, metric, out, waitErr, childCode, main, result,
                       confidential, keptBytes>>
        /\ cause' = cause \/ cause = "none"
    BY <1>3 DEF Cancel, Break, runnerVars, childVars, outVars, resultVars
  <2> QED
    BY <2>1, LateMeasures DEF MeasureInv
<1>4. CASE \E s \in Streams : DrainSink(s) \/ DrainEnds(s)
  <2>1. /\ \E s \in Streams : drain[s] # "done"
        /\ main' = main /\ UNCHANGED <<engineVars, metric>>
    BY <1>4 DEF DrainSink, DrainEnds, resultVars
  <2> QED
    BY <1>1, <2>1, EarlyMeasures DEF ControlInv
<1>5. CASE WaitExitCode \/ WriteRest \/ FinishUnfiltered
  <2>1. /\ main \in {"wait", "write", "unfiltered"}
        /\ main' \in {"exit", "unfiltered", "flush", "done"}
        /\ UNCHANGED <<engineVars, metric>>
    BY <1>5 DEF WaitExitCode, WriteRest, FinishUnfiltered, resultVars
  <2> QED
    BY <2>1, EarlyMeasures
<1>6. CASE MaybeStoreRecovery
  <2>1. /\ main = "recover" /\ main' = "measure"
        /\ UNCHANGED <<engineVars, metric, out, waitErr, childCode, cause, result,
                       confidential, keptBytes>>
    BY <1>6 DEF MaybeStoreRecovery, childVars, outVars
  <2> QED
    BY <2>1, LateMeasures DEF MeasureInv, Counts, Bookkeeping
<1>7. CASE FinishAudit
  <2>1. /\ main = "finish" /\ main' = "done"
        /\ UNCHANGED <<engineVars, metric, out, waitErr, childCode, cause,
                       confidential, keptBytes>>
    BY <1>7 DEF FinishAudit, childVars, outVars
  <2> QED
    BY <2>1, LateMeasures DEF Counts, Bookkeeping
<1> QED
  BY <1>2, <1>3, <1>4, <1>5, <1>6, <1>7, EngineMeasures, FlushMeasures, ResultMeasures,
     MetricMeasures
  DEF RunnerNext, Main, Drain

LEMMA Measures == RunnerSpec => [](RunnerInv /\ MeasureInv)
BY Runs, MeasureInitially, MeasureStep, PTL DEF RunnerSpec

(* The recorded metric is true to the run: its code is the command's, a    *)
(* run recorded as passthrough lost nothing, any other wrote no more bytes *)
(* than it read and the footer, and the bytes recorded as kept are those   *)
(* written, unless confidential values were replaced among them.           *)
THEOREM MetricsAreHonest == RunnerSpec => []MetricIsHonest
BY Measures, PTL DEF MeasureInv

-----------------------------------------------------------------------------
(* Recovery *)

(* The run printed something, and less than it read.                       *)
Reduced == RawBytes # 0 /\ PrintedBytes < RawBytes

Unfiltered == mode # "filtered" \/ activeCase.passthrough

(* The retained lines can be stored: none is confidential, and they are    *)
(* some, but not too many.                                                 *)
Storable == ~confidential /\ FitsArtifact

(* A passthrough case leaves nothing to recover; what was stored could be; *)
(* after a failed run that was reduced by filtering storing what can be    *)
(* stored was tried.                                                       *)
RecoverInv ==
  /\ mode # "filtered" => activeCase.passthrough
  /\ mode = "filtered" /\ main = "done" => exited
  /\ activeCase.passthrough => recovery = {}
  /\ IsFiniteSet(recovery)
  /\ main \notin {"measure", "finish", "done"} => stored = "none"
  /\ stored = "stored" /\ ~result.error => result.code # 0 /\ Storable
  /\ main \in {"measure", "finish", "done"} /\ ~result.error /\ result.code # 0
       /\ RecoveryEnabled /\ Storable /\ Reduced /\ ~passthrough /\ ~Unfiltered
     => stored \in {"stored", "failed"}

LEMMA PassthroughRetainsNothing ==
  ASSUME RunnerInv, activeCase.passthrough, ~exited
  PROVE  raw = {}
<1>1. RetainInv /\ EngineTypeOK /\ RetainedIsBounded
  BY DEF RunnerInv, ReaderInv, ShownInv, DeliveryInv
<1>2. ScopeNames = {}
  BY <1>1, FilterAssumption DEF EngineTypeOK, FilterTypeOK, ScopeNames
<1>3. ~passthrough => \A l \in raw : Filtered(l.stream)
  BY <1>1 DEF RetainInv
<1>4. passthrough => raw = {}
  BY <1>1 DEF RetainedIsBounded
<1> QED
  BY <1>2, <1>3, <1>4 DEF Filtered

LEMMA RecoverInitially == RunnerInit => RecoverInv
BY FS_EmptySet DEF RunnerInit, EngineInit, RecoverInv

(* The engine takes a line or is closed: the run is not over.              *)
LEMMA EngineRecovers ==
  ASSUME RunnerInv, RecoverInv,
         (\E s \in Streams : DrainConsume(s)) \/ EngineExit
  PROVE  RecoverInv'
<1>1. ReaderInv /\ RetainInv /\ BookInv /\ ControlInv
  BY InvIs DEF BookInv
<1>2. CASE \E s \in Streams : DrainConsume(s)
  <2>1. PICK s \in Streams : DrainConsume(s)
    BY <1>2
  <2>2. ~exited /\ Head(pipe[s]) \in Sizes /\ Consume(s, Head(pipe[s]))
    BY <1>1, <2>1, Consuming
  <2>3. activeCase' = activeCase
    BY <1>1, <2>2, ConsumeHands
  <2>4. recovery' = recovery
    BY <2>2 DEF Consume, PassLine, Overflow, EmitLine, IgnoreLine, KeepLine, ReplaceLine,
                Retain, Take
  <2>5. main = "wait" /\ main' = main /\ mode' = mode /\ stored' = stored
    BY <1>1, <2>1 DEF DrainConsume, ControlInv, resultVars
  <2> QED
    BY <2>3, <2>4, <2>5 DEF RecoverInv
<1>3. CASE EngineExit
  <2>1. PICK code \in Nat : Exit(code)
    BY <1>1, <1>3, Exiting
  <2>2. ~exited
    BY <1>1, <1>3, Exiting
  <2>3. activeCase' = activeCase
    BY <1>1, <2>1, <2>2, ExitHands
  <2>4. recovery' = recovery \/ recovery' = raw
    BY <2>1 DEF Exit, ExitPassthrough, ExitNative, ExitUnscoped, ExitCombinedKeep,
                ExitCombinedReplace, ExitCombinedUnsafe, ExitSplit
  <2>5. activeCase.passthrough => raw = {}
    BY <2>2, PassthroughRetainsNothing
  <2>6. main = "exit" /\ main' = "write" /\ mode' = mode /\ stored' = stored
    BY <1>3 DEF EngineExit, resultVars
  <2>7. IsFiniteSet(recovery')
    BY <1>1, <2>4 DEF RetainInv, RecoverInv
  <2> QED
    BY <2>3, <2>4, <2>5, <2>6, <2>7 DEF RecoverInv
<1> QED
  BY <1>2, <1>3

(* The main goroutine after the exit.                                      *)
LEMMA BookkeepingRecovers ==
  ASSUME RunnerInv, MeasureInv, RecoverInv,
         \/ FilteredRunResult \/ MaybeStoreRecovery \/ AppendMetrics
         \/ FinishAudit \/ FinishUnfiltered
  PROVE  RecoverInv'
<1>1. UNCHANGED <<mode, confidential>> /\ UNCHANGED <<engineVars, outVars>>
  BY DEF FilteredRunResult, MaybeStoreRecovery, AppendMetrics, FinishAudit, FinishUnfiltered
<1>2. UNCHANGED <<activeCase, recovery, exited, passthrough, received, out>>
  BY <1>1 DEF engineVars, filterVars, bufferVars, historyVars, outVars
<1>3. (Reduced' <=> Reduced) /\ (Unfiltered' <=> Unfiltered) /\ (Storable' <=> Storable)
  BY <1>1, <1>2 DEF Reduced, RawBytes, PrintedBytes, BytesWritten, Unfiltered, Storable,
                    FitsArtifact, Bytes,
                    BytesIn
<1>4. ControlInv
  BY DEF RunnerInv
<1>5. CASE FilteredRunResult
  <2>1. /\ main = "result" /\ stored' = stored
        /\ main' = "recover" \/ (main' = "done" /\ result'.error)
    BY <1>5 DEF FilteredRunResult
  <2> QED
    BY <1>1, <1>2, <1>4, <2>1 DEF RecoverInv, ControlInv
<1>6. CASE MaybeStoreRecovery
  <2>1. main = "recover" /\ main' = "measure" /\ result' = result
    BY <1>6 DEF MaybeStoreRecovery
  <2>2. ~confidential => keptBytes = PrintedBytes
    BY <2>1 DEF MeasureInv, CountedInv, Counts, Bookkeeping
  <2>3. result.code # 0 /\ RecoveryEnabled /\ Storable /\ Reduced /\ ~passthrough /\ ~Unfiltered
          => WantsRecovery /\ Storable
    BY <2>2 DEF Reduced, Unfiltered, WantsRecovery, Storable
  <2>4. WantsRecovery => result.code # 0 /\ ~confidential
    BY DEF WantsRecovery
  <2>5. /\ WantsRecovery /\ Storable => stored' \in {"stored", "failed"}
        /\ stored' = "stored" => WantsRecovery /\ Storable
    BY <1>6, <2>4 DEF MaybeStoreRecovery, Storable
  <2> QED
    BY <1>1, <1>2, <1>3, <2>1, <2>3, <2>4, <2>5 DEF RecoverInv
<1>7. CASE AppendMetrics
  <2>1. main = "measure" /\ main' = "finish" /\ UNCHANGED <<result, stored>>
    BY <1>7 DEF AppendMetrics
  <2> QED
    BY <1>1, <1>2, <1>3, <2>1 DEF RecoverInv
<1>8. CASE FinishAudit
  <2>1. /\ main = "finish" /\ main' = "done" /\ stored' = stored
        /\ result' = result \/ result'.error
    BY <1>8 DEF FinishAudit
  <2> QED
    BY <1>1, <1>2, <1>3, <1>4, <2>1 DEF RecoverInv, ControlInv
<1>9. CASE FinishUnfiltered
  <2>1. main = "unfiltered" /\ mode # "filtered" /\ stored' = stored
    BY <1>4, <1>9 DEF FinishUnfiltered, ControlInv
  <2>2. Unfiltered
    BY <2>1 DEF Unfiltered
  <2> QED
    BY <1>1, <1>2, <1>3, <2>1, <2>2 DEF RecoverInv
<1> QED
  BY <1>5, <1>6, <1>7, <1>8, <1>9

(* Everything else happens before the result and leaves the engine alone.  *)
LEMMA OthersRecover ==
  ASSUME RunnerInv, RecoverInv, UNCHANGED <<engineVars, mode, confidential, stored>>,
         \/ UNCHANGED <<main, out, result>>
         \/ {main, main'} \intersect {"measure", "finish", "done"} = {}
  PROVE  RecoverInv'
<1>1. UNCHANGED <<activeCase, recovery, exited, passthrough, received>>
  BY DEF engineVars, filterVars, bufferVars, historyVars
<1>2. CASE UNCHANGED <<main, out, result>>
  <2>1. (Reduced' <=> Reduced) /\ (Unfiltered' <=> Unfiltered) /\ (Storable' <=> Storable)
    BY <1>1, <1>2 DEF Reduced, RawBytes, PrintedBytes, BytesWritten, Unfiltered, Storable,
                    FitsArtifact, Bytes,
                      BytesIn
  <2> QED
    BY <1>1, <1>2, <2>1 DEF RecoverInv
<1>3. CASE {main, main'} \intersect {"measure", "finish", "done"} = {}
  <2>1. /\ main \notin {"measure", "finish", "done"} /\ main' \notin {"measure", "finish", "done"}
    BY <1>3
  <2> QED
    BY <1>1, <2>1 DEF RecoverInv
<1> QED
  BY <1>2, <1>3

LEMMA RecoverStep ==
  RunnerInv /\ MeasureInv /\ RecoverInv /\ [RunnerNext]_runnerVars => RecoverInv'
<1> SUFFICES ASSUME RunnerInv, MeasureInv, RecoverInv, [RunnerNext]_runnerVars PROVE RecoverInv'
  OBVIOUS
<1>1. ControlInv
  BY DEF RunnerInv
<1>2. CASE \/ \E s \in Streams, size \in Sizes : ChildPrints(s, size)
           \/ \E code \in ExitCodes : ChildExits(code)
           \/ \E why \in {"signal", "cancelled"} : Cancel(why)
           \/ HardKill
           \/ \E d \in Streams : Break(d)
           \/ \E s \in Streams : DrainEnds(s)
           \/ UNCHANGED runnerVars
  <2>1. UNCHANGED <<engineVars, mode, confidential, main, out, result, stored>>
    BY <1>2 DEF ChildPrints, ChildExits, Cancel, HardKill, Break, DrainEnds, runnerVars,
                outVars, childVars, resultVars
  <2> QED
    BY <2>1, OthersRecover
<1>3. CASE \E s \in Streams : DrainSink(s)
  <2>1. PICK s \in Streams : DrainSink(s)
    BY <1>3
  <2>2. main = "wait" /\ main' = main /\ UNCHANGED <<engineVars, mode, confidential, stored>>
    BY <1>1, <2>1 DEF DrainSink, ControlInv, resultVars
  <2> QED
    BY <2>2, OthersRecover
<1>4. CASE WaitExitCode \/ WriteRest \/ Flush
  <2>1. /\ main \in {"wait", "write", "flush"} /\ main' \in {"exit", "unfiltered", "flush", "result"}
        /\ UNCHANGED <<engineVars, mode, confidential, stored>>
    BY <1>4 DEF WaitExitCode, WriteRest, Flush, resultVars
  <2> QED
    BY <2>1, OthersRecover
<1> QED
  BY <1>2, <1>3, <1>4, EngineRecovers, BookkeepingRecovers DEF RunnerNext, Main, Drain

(* Output that lacks a line is reduced: it has fewer bytes.                *)
LEMMA LackingIsReduced ==
  ASSUME RunnerInv, MeasureInv, main = "done", ~result.error, exited, ~passthrough,
         ~(received \subseteq released)
  PROVE  Reduced
<1>1. PrintedBytes = Bytes(released) /\ Bytes(released) \in Nat
  BY PrintedIsReleased
<1>2. Bytes(released) < Bytes(received)
  BY DEF MeasureInv, AnswerInv
<1>3. Bytes(received) \in Nat
  <2>1. Sized(received)
    BY DEF MeasureInv, LedgerInv, RunnerInv, ReaderInv, ShownInv, DeliveryInv, EngineTypeOK,
           Entry, Text, Sized
  <2> QED
    BY <2>1, BytesAreFinite
<1> QED
  BY <1>1, <1>2, <1>3 DEF Reduced, RawBytes

(* After a failed command a line the reader did not see is in the recovery *)
(* artifact, unless storing failed, values are confidential or the lines   *)
(* too large for an artifact; and only what may be stored was.             *)
THEOREM FailuresAreRecoverable == RunnerSpec => []FailureIsRecoverable
<1>1. ASSUME RunnerInv, MeasureInv, RecoverInv, main = "done", ~result.error, result.code # 0,
             RecoveryEnabled, ~confidential, ~(received \subseteq Written),
             ~(Bytes(recovery) > MaxArtifactSize)
      PROVE  \/ stored = "failed"
             \/ stored = "stored" /\ received \subseteq Written \union recovery
  <2>1. Written = released
    BY <1>1, AllIsWritten
  <2>2. NothingLost /\ GivingUpIsVerbatim /\ EverythingRecoverable /\ EngineTypeOK
    BY <1>1 DEF RunnerInv, ReaderInv, ShownInv, DeliveryInv
  <2>3. ~passthrough
    BY <1>1, <2>1, <2>2 DEF GivingUpIsVerbatim
  <2>4. ~activeCase.passthrough
    <3>1. CASE exited
      BY <1>1, <2>1, <2>2, <3>1 DEF EverythingRecoverable, RecoverInv
    <3>2. CASE ~exited
      BY <1>1, <2>1, <2>2, <2>3, <3>2, PassthroughRetainsNothing DEF NothingLost
    <3> QED
      BY <3>1, <3>2
  <2>5. mode = "filtered" /\ exited
    BY <1>1, <2>4 DEF RecoverInv
  <2>6. received \subseteq Written \union recovery
    BY <2>1, <2>2, <2>5 DEF EverythingRecoverable
  <2>7. Reduced
    BY <1>1, <2>1, <2>3, <2>5, LackingIsReduced
  <2>8. Bytes(recovery) \in Nat
    <3>1. Sized(recovery)
      BY <1>1, <2>2 DEF RecoverInv, EngineTypeOK, Entry, Text, Sized
    <3> QED
      BY <3>1, BytesAreFinite
  <2>9. Storable
    BY <1>1, <2>6, <2>8, RunnerAssumption DEF Storable, FitsArtifact
  <2>10. stored \in {"stored", "failed"}
    BY <1>1, <2>3, <2>4, <2>5, <2>7, <2>9 DEF RecoverInv, Unfiltered
  <2> QED
    BY <2>6, <2>10
<1>2. RecoverInv /\ ~result.error /\ stored = "stored"
        => result.code # 0 /\ ~confidential /\ Bytes(recovery) <= MaxArtifactSize
  BY DEF RecoverInv, Storable, FitsArtifact
<1>3. RunnerInv /\ MeasureInv /\ RecoverInv => FailureIsRecoverable
  BY <1>1, <1>2 DEF FailureIsRecoverable
<1> QED
  BY <1>3, Measures, RecoverInitially, RecoverStep, PTL DEF RunnerSpec
=============================================================================
