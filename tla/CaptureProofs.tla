--------------------------- MODULE CaptureProofs ---------------------------
(***************************************************************************)
(* Proofs about Capture, for any number of processes, records and          *)
(* expectations: recordings are numbered as they were printed, the files   *)
(* of a fixture age in the order in which they are written, and a capture  *)
(* that was alone leaves a whole fixture.                                  *)
(*                                                                         *)
(* RecordingInv is about the two readers and their shared counter,         *)
(* FixtureInv about the files and the processes that use them.             *)
(***************************************************************************)
EXTENDS Capture, FiniteSetTheorems, TLAPS

-----------------------------------------------------------------------------
(* Sequences. *)

LEMMA AppendIs ==
  ASSUME NEW T, NEW q \in Seq(T), NEW x \in T
  PROVE  /\ Append(q, x) \in Seq(T) /\ Len(q) \in Nat
         /\ Len(Append(q, x)) = Len(q) + 1 /\ Append(q, x)[Len(q) + 1] = x
         /\ \A i \in 1..Len(q) : Append(q, x)[i] = q[i]
OBVIOUS

LEMMA HeadAndTailAre ==
  ASSUME NEW T, NEW q \in Seq(T), q # <<>>
  PROVE  /\ Tail(q) \in Seq(T) /\ Head(q) \in T /\ Head(q) = q[1] /\ 1 \in 1..Len(q)
         /\ Len(q) \in Nat /\ Len(q) = Len(Tail(q)) + 1
         /\ \A i \in 1..Len(Tail(q)) : Tail(q)[i] = q[i + 1] /\ i + 1 \in 1..Len(q)
OBVIOUS

LEMMA ElementIs ==
  ASSUME NEW T, NEW q \in Seq(T)
  PROVE  /\ Len(q) \in Nat /\ DOMAIN q = 1..Len(q)
         /\ \A i \in 1..Len(q) : q[i] \in T
         /\ <<>> \in Seq(T)
OBVIOUS
-----------------------------------------------------------------------------
(* The recorder. *)

RecorderTypes ==
  /\ recorder \subseteq Procs /\ child \in {"running", "exited"}
  /\ sequence \in Nat /\ lost \in BOOLEAN
  /\ unread \in [Streams -> Seq(Nat)] /\ hand \in [Streams -> Nat]
  /\ staged \in [Streams -> Seq([seq : Nat, record : Nat])]
  /\ printed \in Seq([stream : Streams, after : SUBSET Nat])

\* While nobody records the pipes are empty; what a capture is about to write
\* has been read to the end.
RecorderInv ==
  /\ \A p, q \in recorder : p = q
  /\ \A p \in Procs : pc[p] \in {"record", "command"} => p \in recorder
  /\ \A p \in recorder : \/ pc[p] = "record"
                         \/ pc[p] = "command" /\ Drained /\ ~lost
  /\ recorder = {} => Drained /\ printed = <<>>

Index(s) == 1..Len(staged[s])

\* The numbers that were drawn: an event of each, unless something was lost, in
\* each stream increasing like the records.
DrawnInv ==
  /\ \A s \in Streams : \A i \in Index(s) : staged[s][i].seq < sequence
  /\ ~lost => \A n \in 0..(sequence - 1) :
       \E s \in Streams : \E i \in Index(s) : staged[s][i].seq = n
  /\ \A s, t \in Streams : \A i \in Index(s), j \in Index(t) :
       staged[s][i].seq = staged[t][j].seq => s = t
  /\ \A s \in Streams : \A i, j \in Index(s) : i < j =>
       staged[s][i].seq < staged[s][j].seq /\ staged[s][i].record < staged[s][j].record

PrintedOn(s, r) == r \in 1..Len(printed) /\ printed[r].stream = s

\* A record is staged, in hand or in the pipe of its stream, in this order.
RecordsInv ==
  /\ \A s \in Streams :
       /\ \A i \in Index(s) : PrintedOn(s, staged[s][i].record)
       /\ hand[s] # 0 => /\ PrintedOn(s, hand[s])
                         /\ \A i \in Index(s) : staged[s][i].record < hand[s]
       /\ \A k \in 1..Len(unread[s]) :
            /\ PrintedOn(s, unread[s][k]) /\ hand[s] < unread[s][k]
            /\ \A i \in Index(s) : staged[s][i].record < unread[s][k]
            /\ \A m \in 1..Len(unread[s]) : k < m => unread[s][k] < unread[s][m]
  /\ ~lost => \A r \in 1..Len(printed) : \E s \in Streams :
       \/ \E i \in Index(s) : r = staged[s][i].record
       \/ r = hand[s]
       \/ \E k \in 1..Len(unread[s]) : r = unread[s][k]

\* What was staged when a record was printed has smaller numbers.
AfterInv ==
  \A j \in 1..Len(printed) : \A r \in printed[j].after :
    \E s \in Streams : \E i \in Index(s) :
      /\ staged[s][i].record = r
      /\ \A t \in Streams : \A k \in Index(t) :
           staged[t][k].record = j => staged[s][i].seq < staged[t][k].seq

NumbersInv == DrawnInv /\ RecordsInv /\ AfterInv
-----------------------------------------------------------------------------
(* Steps of the recorder. *)

\* A fresh recording.
Emptied ==
  /\ sequence' = 0 /\ staged' = [s \in Streams |-> <<>>] /\ printed' = <<>> /\ lost' = FALSE
  /\ UNCHANGED <<unread, hand>>

LEMMA EmptyRecorder ==
  ASSUME RecorderTypes, Drained, Emptied
  PROVE  NumbersInv'
<1>1. \A s \in Streams : /\ Index(s)' = {} /\ staged'[s] = <<>>
                         /\ hand'[s] = 0 /\ unread'[s] = <<>>
  BY DEF Emptied, Drained, Index
<1>2. \A s \in Streams : Len(unread'[s]) = 0 /\ 1..Len(unread'[s]) = {}
  BY <1>1
<1>3. 1..Len(printed') = {} /\ 0..(sequence' - 1) = {}
  BY DEF Emptied
<1>4. DrawnInv'
  BY <1>1, <1>3 DEF DrawnInv
<1>5. RecordsInv'
  BY <1>1, <1>2, <1>3 DEF RecordsInv
<1>6. AfterInv'
  BY <1>3 DEF AfterInv
<1> QED
  BY <1>4, <1>5, <1>6 DEF NumbersInv

LEMMA EmptyTypes ==
  ASSUME RecorderTypes, Emptied, recorder' \subseteq Procs, child' \in {"running", "exited"}
  PROVE  RecorderTypes'
<1>1. staged' \in [Streams -> Seq([seq : Nat, record : Nat])]
  <2>1. <<>> \in Seq([seq : Nat, record : Nat])
    BY ElementIs
  <2> QED
    BY <2>1 DEF Emptied
<1>2. printed' \in Seq([stream : Streams, after : SUBSET Nat])
  BY DEF Emptied
<1> QED
  BY <1>1, <1>2 DEF RecorderTypes, Emptied

LEMMA StagedType ==
  ASSUME RecorderTypes, NEW s \in Streams
  PROVE  /\ staged[s] \in Seq([seq : Nat, record : Nat])
         /\ Len(staged[s]) \in Nat /\ DOMAIN staged[s] = Index(s)
         /\ \A i \in Index(s) : staged[s][i].seq \in Nat /\ staged[s][i].record \in Nat
<1>1. staged[s] \in Seq([seq : Nat, record : Nat])
  BY DEF RecorderTypes
<1>2. /\ Len(staged[s]) \in Nat /\ DOMAIN staged[s] = Index(s)
      /\ \A i \in Index(s) : staged[s][i] \in [seq : Nat, record : Nat]
  BY <1>1, ElementIs DEF Index
<1> QED
  BY <1>1, <1>2

LEMMA StagedRecordsAre ==
  ASSUME RecorderTypes, NEW r
  PROVE  r \in StagedRecords <=>
           \E s \in Streams : \E i \in Index(s) : staged[s][i].record = r
<1>1. \A s \in Streams : DOMAIN staged[s] = Index(s)
  BY StagedType
<1> QED
  BY <1>1 DEF StagedRecords

LEMMA PrintsTypes ==
  ASSUME RecorderTypes, NEW s \in Streams, Prints(s)
  PROVE  RecorderTypes'
<1>1. StagedRecords \subseteq Nat
  BY StagedType, StagedRecordsAre
<1>2. [stream |-> s, after |-> StagedRecords] \in [stream : Streams, after : SUBSET Nat]
  BY <1>1
<1>3. printed' \in Seq([stream : Streams, after : SUBSET Nat])
  BY <1>2 DEF Prints, RecorderTypes
<1>4. unread' \in [Streams -> Seq(Nat)]
  BY DEF Prints, RecorderTypes
<1> QED
  BY <1>3, <1>4 DEF Prints, RecorderTypes

LEMMA PrintsNumbers ==
  ASSUME RecorderTypes, NumbersInv, NEW s \in Streams, Prints(s)
  PROVE  NumbersInv'
<1>0. PICK new \in Nat : new = Len(printed) + 1
  BY DEF RecorderTypes
<1>1. UNCHANGED <<staged, sequence, hand, lost>>
  BY DEF Prints
<1>2. /\ Len(printed') = new /\ Len(printed) \in Nat
      /\ \A r \in 1..Len(printed) : printed'[r] = printed[r]
      /\ printed'[new].stream = s /\ printed'[new].after = StagedRecords
  <2> DEFINE T == [stream : Streams, after : SUBSET Nat]
             x == [stream |-> s, after |-> StagedRecords]
  <2>1. x \in T
    BY StagedType, StagedRecordsAre
  <2>2. printed \in Seq(T) /\ printed' = Append(printed, x)
    BY DEF RecorderTypes, Prints
  <2>3. x.stream = s /\ x.after = StagedRecords
    OBVIOUS
  <2> HIDE DEF T, x
  <2> QED
    BY <1>0, <2>1, <2>2, <2>3, AppendIs
<1>3. /\ Len(unread'[s]) = Len(unread[s]) + 1 /\ unread'[s][Len(unread[s]) + 1] = new
      /\ \A k \in 1..Len(unread[s]) : unread'[s][k] = unread[s][k]
      /\ \A t \in Streams \ {s} : unread'[t] = unread[t]
      /\ Len(unread[s]) \in Nat
  BY <1>0 DEF Prints, RecorderTypes
<1>4. \A t \in Streams : Index(t)' = Index(t)
  BY <1>1 DEF Index
<1>5. \A t \in Streams : \A r : PrintedOn(t, r) => PrintedOn(t, r)' /\ r < new /\ r \in Nat
  BY <1>0, <1>2 DEF PrintedOn
<1>6. DrawnInv'
  BY <1>1, <1>4 DEF NumbersInv, DrawnInv
<1>7. RecordsInv'
  <2>1. PrintedOn(s, new)'
    BY <1>0, <1>2 DEF PrintedOn
  <2>2. ASSUME NEW t \in Streams
        PROVE  /\ \A i \in Index(t) : PrintedOn(t, staged[t][i].record)'
               /\ hand[t] # 0 => /\ PrintedOn(t, hand[t])'
                                 /\ \A i \in Index(t) : staged[t][i].record < hand[t]
    BY <1>1, <1>4, <1>5 DEF NumbersInv, RecordsInv
  <2>3. ASSUME NEW t \in Streams, NEW k \in 1..Len(unread'[t])
        PROVE  /\ PrintedOn(t, unread[t][k])' /\ hand[t] < unread'[t][k]
               /\ \A i \in Index(t) : staged[t][i].record < unread'[t][k]
               /\ \A m \in 1..Len(unread'[t]) : k < m => unread'[t][k] < unread'[t][m]
    <3>1. CASE t # s
      BY <1>3, <1>5, <3>1 DEF NumbersInv, RecordsInv
    <3>2. CASE t = s /\ k # Len(unread[s]) + 1
      <4>1. k \in 1..Len(unread[s]) /\ unread'[s][k] = unread[s][k]
        BY <1>3, <3>2
      <4>2. /\ PrintedOn(s, unread[s][k]) /\ hand[s] < unread[s][k]
            /\ \A i \in Index(s) : staged[s][i].record < unread[s][k]
            /\ \A m \in 1..Len(unread[s]) : k < m => unread[s][k] < unread[s][m]
        BY <4>1 DEF NumbersInv, RecordsInv
      <4> QED
        BY SMTT(30), <1>3, <1>5, <3>2, <4>1, <4>2
    <3>3. CASE t = s /\ k = Len(unread[s]) + 1
      <4>1. unread'[t][k] = new
        BY <1>3, <3>3
      <4>2. hand[s] < new
        <5>1. CASE hand[s] = 0
          BY <1>0, <5>1 DEF RecorderTypes
        <5>2. CASE hand[s] # 0
          BY <5>2, <1>5 DEF NumbersInv, RecordsInv
        <5> QED
          BY <5>1, <5>2
      <4>3. \A i \in Index(s) : staged[s][i].record < new
        BY <1>5 DEF NumbersInv, RecordsInv
      <4>4. \A m \in 1..Len(unread'[t]) : ~(k < m)
        BY <1>3, <3>3
      <4> QED
        BY <2>1, <3>3, <4>1, <4>2, <4>3, <4>4
    <3> QED
      BY <3>1, <3>2, <3>3
  <2>4. ASSUME ~lost, NEW r \in 1..Len(printed')
        PROVE  \E t \in Streams : \/ \E i \in Index(t) : r = staged[t][i].record
                                  \/ r = hand[t]
                                  \/ \E k \in 1..Len(unread'[t]) : r = unread'[t][k]
    <3>1. CASE r = new
      <4>1. Len(unread[s]) + 1 \in 1..Len(unread'[s])
        BY <1>3
      <4> QED
        BY <1>3, <3>1, <4>1
    <3>2. CASE r # new
      <4>1. r \in 1..Len(printed)
        BY <1>0, <1>2, <3>2 DEF RecorderTypes
      <4>2. PICK t \in Streams : \/ \E i \in Index(t) : r = staged[t][i].record
                                 \/ r = hand[t]
                                 \/ \E k \in 1..Len(unread[t]) : r = unread[t][k]
        BY <2>4, <4>1 DEF NumbersInv, RecordsInv
      <4>3. \A k \in 1..Len(unread[t]) : k \in 1..Len(unread'[t]) /\ unread'[t][k] = unread[t][k]
        BY <1>3
      <4> QED
        BY <4>2, <4>3
    <3> QED
      BY <3>1, <3>2
  <2> QED
    BY <1>1, <1>4, <2>2, <2>3, <2>4 DEF RecordsInv
<1>8. AfterInv'
  <2> SUFFICES ASSUME NEW j \in 1..Len(printed'), NEW r \in printed'[j].after
               PROVE  \E t \in Streams : \E i \in Index(t) :
                        /\ staged[t][i].record = r
                        /\ \A u \in Streams : \A k \in Index(u) :
                             staged[u][k].record = j => staged[t][i].seq < staged[u][k].seq
    BY <1>1, <1>4 DEF AfterInv
  <2>1. CASE j = new
    <3>1. PICK t \in Streams : \E i \in Index(t) : staged[t][i].record = r
      BY <1>2, <2>1, StagedRecordsAre
    <3>2. \A u \in Streams : \A k \in Index(u) : staged[u][k].record # j
      BY <1>2, <1>5, <2>1 DEF NumbersInv, RecordsInv
    <3> QED
      BY <3>1, <3>2
  <2>2. CASE j # new
    BY <1>0, <1>2, <2>2 DEF NumbersInv, AfterInv
  <2> QED
    BY <2>1, <2>2
<1> QED
  BY <1>6, <1>7, <1>8 DEF NumbersInv

LEMMA ReadFirstTypes ==
  ASSUME RecorderTypes, NEW s \in Streams, ReadFirst(s)
  PROVE  RecorderTypes'
<1>1. unread[s] \in Seq(Nat) /\ unread[s] # <<>>
  BY DEF RecorderTypes, ReadFirst
<1>2. Tail(unread[s]) \in Seq(Nat) /\ Head(unread[s]) \in Nat
  BY <1>1, HeadAndTailAre
<1> QED
  BY <1>2 DEF RecorderTypes, ReadFirst

LEMMA ReadFirstNumbers ==
  ASSUME RecorderTypes, NumbersInv, NEW s \in Streams, ReadFirst(s)
  PROVE  NumbersInv'
<1>1. UNCHANGED <<staged, sequence, lost, printed>> /\ hand[s] = 0
  BY DEF ReadFirst
<1>2. unread[s] \in Seq(Nat) /\ unread[s] # <<>>
  BY DEF RecorderTypes, ReadFirst
<1>3. /\ hand'[s] = unread[s][1] /\ 1 \in 1..Len(unread[s])
      /\ Len(unread[s]) \in Nat /\ Len(unread[s]) = Len(unread'[s]) + 1
      /\ \A k \in 1..Len(unread'[s]) :
           unread'[s][k] = unread[s][k + 1] /\ k + 1 \in 1..Len(unread[s])
      /\ \A t \in Streams \ {s} : unread'[t] = unread[t] /\ hand'[t] = hand[t]
  BY <1>2, HeadAndTailAre DEF ReadFirst, RecorderTypes
<1>4. /\ \A t \in Streams : Index(t)' = Index(t)
      /\ \A t \in Streams : \A r : PrintedOn(t, r)' <=> PrintedOn(t, r)
  BY <1>1 DEF Index, PrintedOn
<1>5. DrawnInv' /\ AfterInv'
  BY <1>1, <1>4 DEF NumbersInv, DrawnInv, AfterInv
<1>6. \A k \in 1..Len(unread[s]) :
        /\ PrintedOn(s, unread[s][k]) /\ hand[s] < unread[s][k]
        /\ \A i \in Index(s) : staged[s][i].record < unread[s][k]
        /\ \A m \in 1..Len(unread[s]) : k < m => unread[s][k] < unread[s][m]
  BY DEF NumbersInv, RecordsInv
<1>7. ASSUME NEW t \in Streams
      PROVE  /\ \A i \in Index(t) : PrintedOn(t, staged[t][i].record)
             /\ hand'[t] # 0 => /\ PrintedOn(t, hand'[t])
                                /\ \A i \in Index(t) : staged[t][i].record < hand'[t]
             /\ \A k \in 1..Len(unread'[t]) :
                  /\ PrintedOn(t, unread'[t][k]) /\ hand'[t] < unread'[t][k]
                  /\ \A i \in Index(t) : staged[t][i].record < unread'[t][k]
                  /\ \A m \in 1..Len(unread'[t]) : k < m => unread'[t][k] < unread'[t][m]
  <2>1. \A i \in Index(t) : PrintedOn(t, staged[t][i].record)
    BY DEF NumbersInv, RecordsInv
  <2>2. CASE t # s
    BY <1>3, <2>1, <2>2 DEF NumbersInv, RecordsInv
  <2>3. CASE t = s
    <3>1. /\ PrintedOn(s, hand'[s])
          /\ \A i \in Index(s) : staged[s][i].record < hand'[s]
      BY <1>3, <1>6
    <3>2. ASSUME NEW k \in 1..Len(unread'[s])
          PROVE  /\ PrintedOn(s, unread'[s][k]) /\ hand'[s] < unread'[s][k]
                 /\ \A i \in Index(s) : staged[s][i].record < unread'[s][k]
                 /\ \A m \in 1..Len(unread'[s]) : k < m => unread'[s][k] < unread'[s][m]
      <4>1. /\ k + 1 \in 1..Len(unread[s]) /\ 1 < k + 1
            /\ unread'[s][k] = unread[s][k + 1] /\ k \in Int
        BY <1>3
      <4>2. \A m \in 1..Len(unread'[s]) : k < m => unread'[s][k] < unread'[s][m]
        <5> SUFFICES ASSUME NEW m \in 1..Len(unread'[s]), k < m
                     PROVE  unread'[s][k] < unread'[s][m]
          OBVIOUS
        <5>1. m + 1 \in 1..Len(unread[s]) /\ k + 1 < m + 1 /\ unread'[s][m] = unread[s][m + 1]
          BY <1>3, <4>1
        <5> QED
          BY <1>6, <4>1, <5>1
      <4> QED
        BY <1>3, <1>6, <4>1, <4>2
    <3> QED
      BY <2>1, <2>3, <3>1, <3>2
  <2> QED
    BY <2>2, <2>3
<1>8. ASSUME ~lost, NEW r \in 1..Len(printed)
      PROVE  \E t \in Streams : \/ \E i \in Index(t) : r = staged[t][i].record
                                \/ r = hand'[t]
                                \/ \E k \in 1..Len(unread'[t]) : r = unread'[t][k]
  <2>1. PICK t \in Streams : \/ \E i \in Index(t) : r = staged[t][i].record
                             \/ r = hand[t]
                             \/ \E k \in 1..Len(unread[t]) : r = unread[t][k]
    BY <1>8 DEF NumbersInv, RecordsInv
  <2>2. CASE t # s
    BY <1>3, <2>1, <2>2
  <2>3. CASE t = s
    <3>1. CASE \E i \in Index(s) : r = staged[s][i].record
      BY <3>1
    <3>2. CASE r = hand[s]
      <4>1. r # 0
        BY <1>1 DEF RecorderTypes
      <4> QED
        BY <1>1, <3>2, <4>1
    <3>3. CASE \E k \in 1..Len(unread[s]) : r = unread[s][k]
      <4>1. PICK k \in 1..Len(unread[s]) : r = unread[s][k]
        BY <3>3
      <4>2. CASE k = 1
        BY <1>3, <4>1, <4>2
      <4>3. CASE k # 1
        <5> DEFINE m == k - 1
        <5>1. m \in 1..Len(unread'[s]) /\ m + 1 = k
          BY <1>3, <4>3
        <5> HIDE DEF m
        <5> QED
          BY <1>3, <4>1, <5>1
      <4> QED
        BY <4>2, <4>3
    <3> QED
      BY <2>1, <2>3, <3>1, <3>2, <3>3
  <2> QED
    BY <2>2, <2>3
<1>9. RecordsInv'
  BY <1>1, <1>4, <1>7, <1>8 DEF RecordsInv
<1> QED
  BY <1>5, <1>9 DEF NumbersInv

LEMMA DrawTypes ==
  ASSUME RecorderTypes, NEW s \in Streams, DrawAndStage(s)
  PROVE  RecorderTypes'
<1> DEFINE T == [seq : Nat, record : Nat]
           x == [seq |-> sequence, record |-> hand[s]]
<1>1. x \in T /\ staged[s] \in Seq(T)
  BY DEF RecorderTypes
<1>2. Append(staged[s], x) \in Seq(T)
  <2> HIDE DEF T, x
  <2> QED
    BY <1>1, AppendIs
<1>3. staged' = staged \/ staged' = [staged EXCEPT ![s] = Append(staged[s], x)]
  BY DEF DrawAndStage
<1> HIDE DEF x
<1>4. staged' \in [Streams -> Seq(T)]
  BY <1>2, <1>3 DEF RecorderTypes
<1>5. sequence' \in Nat /\ hand' \in [Streams -> Nat]
  BY DEF DrawAndStage, RecorderTypes
<1>6. lost' \in BOOLEAN
  <2>1. lost' = lost \/ lost' = TRUE
    BY DEF DrawAndStage
  <2> QED
    BY <2>1 DEF RecorderTypes
<1> QED
  BY <1>4, <1>5, <1>6 DEF RecorderTypes, DrawAndStage

LEMMA DrawNumbers ==
  ASSUME RecorderTypes, NumbersInv, NEW s \in Streams, DrawAndStage(s)
  PROVE  NumbersInv'
<1>1. /\ UNCHANGED <<unread, printed>> /\ sequence' = sequence + 1 /\ hand[s] # 0
      /\ hand'[s] = 0 /\ \A t \in Streams \ {s} : hand'[t] = hand[t]
      /\ sequence \in Nat /\ hand[s] \in Nat
  BY DEF DrawAndStage, RecorderTypes
<1>2. \A t \in Streams : \A r : PrintedOn(t, r)' <=> PrintedOn(t, r)
  BY <1>1 DEF PrintedOn
<1>3. /\ PrintedOn(s, hand[s])
      /\ \A i \in Index(s) : staged[s][i].record < hand[s]
      /\ \A k \in 1..Len(unread[s]) : hand[s] < unread[s][k]
  BY <1>1 DEF NumbersInv, RecordsInv
<1>4. \A t \in Streams : /\ Len(unread[t]) \in Nat
                         /\ \A k \in 1..Len(unread[t]) : unread[t][k] \in Nat
  BY ElementIs DEF RecorderTypes
<1>5. CASE staged' = staged /\ lost'
  <2>1. \A t \in Streams : Index(t)' = Index(t)
    BY <1>5 DEF Index
  <2>2. \A t \in Streams : \A i \in Index(t) : staged[t][i].seq < sequence + 1
    BY <1>1, StagedType DEF NumbersInv, DrawnInv
  <2>3. DrawnInv'
    BY <1>1, <1>5, <2>1, <2>2 DEF NumbersInv, DrawnInv
  <2>4. RecordsInv'
    <3>1. \A t \in Streams : \A k \in 1..Len(unread[t]) : hand'[t] < unread[t][k]
      BY <1>1, <1>3, <1>4 DEF NumbersInv, RecordsInv
    <3> QED
      BY <1>1, <1>2, <1>5, <2>1, <3>1 DEF NumbersInv, RecordsInv
  <2>5. AfterInv'
    BY <1>1, <1>5, <2>1 DEF NumbersInv, AfterInv
  <2> QED
    BY <2>3, <2>4, <2>5 DEF NumbersInv
<1>6. CASE /\ ~lost /\ lost' = lost
           /\ staged' = [staged EXCEPT ![s] = Append(@, [seq |-> sequence, record |-> hand[s]])]
  <2>0. PICK new \in Nat : new = Len(staged[s]) + 1
    BY StagedType
  <2>1. /\ \A t \in Streams \ {s} : staged'[t] = staged[t] /\ Index(t)' = Index(t)
        /\ Index(s)' = Index(s) \union {new} /\ new \notin Index(s)
        /\ \A i \in Index(s) : staged'[s][i] = staged[s][i] /\ i < new /\ i \in Nat
        /\ staged'[s][new].seq = sequence /\ staged'[s][new].record = hand[s]
    <3> DEFINE T == [seq : Nat, record : Nat]
               x == [seq |-> sequence, record |-> hand[s]]
    <3>1. staged[s] \in Seq(T) /\ x \in T /\ Len(staged[s]) \in Nat
      BY <1>1, StagedType
    <3>2. /\ staged'[s] = Append(staged[s], x)
          /\ \A t \in Streams \ {s} : staged'[t] = staged[t]
      BY <1>6 DEF RecorderTypes
    <3>3. x.seq = sequence /\ x.record = hand[s]
      OBVIOUS
    <3> HIDE DEF T, x
    <3>4. /\ Len(staged'[s]) = new /\ staged'[s][new] = x
          /\ \A i \in 1..Len(staged[s]) : staged'[s][i] = staged[s][i]
      BY <2>0, <3>1, <3>2, AppendIs
    <3> QED
      BY <2>0, <3>1, <3>2, <3>3, <3>4 DEF Index
  <2>2. \A t \in Streams : \A i \in Index(t) :
          /\ i \in Index(t)' /\ staged'[t][i] = staged[t][i]
          /\ staged[t][i].seq \in Nat /\ staged[t][i].seq < sequence
          /\ staged[t][i].record \in Nat
    BY <2>1, StagedType DEF NumbersInv, DrawnInv
  <2>3. \A t \in Streams : \A i \in Index(t)' :
          i \in Index(t) \/ (t = s /\ i = new)
    BY <2>1
  <2>4. DrawnInv'
    <3>1. \A t \in Streams : \A i \in Index(t)' : staged'[t][i].seq < sequence'
      BY <1>1, <2>1, <2>2, <2>3
    <3>2. ASSUME NEW n \in 0..(sequence' - 1)
          PROVE  \E t \in Streams : \E i \in Index(t)' : staged'[t][i].seq = n
      <4>1. CASE n = sequence
        BY <2>1, <4>1
      <4>2. CASE n # sequence
        <5>1. n \in 0..(sequence - 1)
          BY <1>1, <4>2
        <5>2. PICK t \in Streams : \E i \in Index(t) : staged[t][i].seq = n
          BY <1>6, <5>1 DEF NumbersInv, DrawnInv
        <5> QED
          BY <2>2, <5>2
      <4> QED
        BY <4>1, <4>2
    <3>3. ASSUME NEW t \in Streams, NEW u \in Streams, NEW i \in Index(t)', NEW j \in Index(u)',
                 staged'[t][i].seq = staged'[u][j].seq
          PROVE  t = u
      <4>1. CASE i \in Index(t) /\ j \in Index(u)
        <5>1. staged[t][i].seq = staged[u][j].seq
          BY <2>2, <3>3, <4>1
        <5> QED
          BY <4>1, <5>1 DEF NumbersInv, DrawnInv
      <4>2. CASE i \in Index(t) /\ u = s /\ j = new
        <5>1. staged'[t][i].seq \in Nat /\ staged'[t][i].seq < sequence
          BY <2>2, <4>2
        <5>2. staged'[u][j].seq = sequence
          BY <2>1, <4>2
        <5> QED
          BY <1>1, <3>3, <5>1, <5>2
      <4>3. CASE t = s /\ i = new /\ j \in Index(u)
        <5>1. staged'[u][j].seq \in Nat /\ staged'[u][j].seq < sequence
          BY <2>2, <4>3
        <5>2. staged'[t][i].seq = sequence
          BY <2>1, <4>3
        <5> QED
          BY <1>1, <3>3, <5>1, <5>2
      <4>4. CASE t = s /\ i = new /\ u = s /\ j = new
        BY <4>4
      <4> QED
        BY <2>3, <4>1, <4>2, <4>3, <4>4
    <3>4. ASSUME NEW t \in Streams, NEW i \in Index(t)', NEW j \in Index(t)', i < j
          PROVE  /\ staged'[t][i].seq < staged'[t][j].seq
                 /\ staged'[t][i].record < staged'[t][j].record
      <4>1. CASE i \in Index(t) /\ j \in Index(t)
        BY <2>2, <3>4, <4>1 DEF NumbersInv, DrawnInv
      <4>2. CASE i \in Index(t) /\ t = s /\ j = new
        BY <1>3, <2>1, <2>2, <4>2
      <4>3. CASE t = s /\ i = new
        <5>1. j \in Nat /\ (j < new \/ j = new)
          BY <2>0, <2>1, <2>3, <4>3
        <5> QED
          BY <2>0, <3>4, <4>3, <5>1
      <4> QED
        BY <2>3, <4>1, <4>2, <4>3
    <3> QED
      BY <3>1, <3>2, <3>3, <3>4 DEF DrawnInv
  <2>5. RecordsInv'
    <3>1. ASSUME NEW t \in Streams
          PROVE  /\ \A i \in Index(t)' : PrintedOn(t, staged'[t][i].record)
                 /\ hand'[t] # 0 => /\ PrintedOn(t, hand'[t])
                                    /\ \A i \in Index(t)' : staged'[t][i].record < hand'[t]
                 /\ \A k \in 1..Len(unread[t]) :
                      /\ PrintedOn(t, unread[t][k]) /\ hand'[t] < unread[t][k]
                      /\ \A i \in Index(t)' : staged'[t][i].record < unread[t][k]
                      /\ \A m \in 1..Len(unread[t]) : k < m => unread[t][k] < unread[t][m]
      <4>1. CASE t # s
        BY <1>1, <2>1, <4>1 DEF NumbersInv, RecordsInv
      <4>2. CASE t = s
        <5>1. \A k \in 1..Len(unread[s]) :
                /\ PrintedOn(s, unread[s][k])
                /\ \A i \in Index(s) : staged[s][i].record < unread[s][k]
                /\ \A m \in 1..Len(unread[s]) : k < m => unread[s][k] < unread[s][m]
          BY DEF NumbersInv, RecordsInv
        <5>2. \A i \in Index(s) : PrintedOn(s, staged[s][i].record)
          BY DEF NumbersInv, RecordsInv
        <5>3. \A k \in 1..Len(unread[s]) : 0 < unread[s][k]
          BY <1>1, <1>3, <1>4
        <5> QED
          BY <1>1, <1>3, <2>1, <4>2, <5>1, <5>2, <5>3
      <4> QED
        BY <4>1, <4>2
    <3>2. ASSUME NEW r \in 1..Len(printed)
          PROVE  \E t \in Streams : \/ \E i \in Index(t)' : r = staged'[t][i].record
                                    \/ r = hand'[t]
                                    \/ \E k \in 1..Len(unread[t]) : r = unread[t][k]
      <4>1. PICK t \in Streams : \/ \E i \in Index(t) : r = staged[t][i].record
                                 \/ r = hand[t]
                                 \/ \E k \in 1..Len(unread[t]) : r = unread[t][k]
        BY <1>6 DEF NumbersInv, RecordsInv
      <4>2. CASE r = hand[t] /\ t = s
        BY <2>1, <4>2
      <4>3. CASE ~(r = hand[t] /\ t = s)
        BY <1>1, <2>2, <4>1, <4>3
      <4> QED
        BY <4>2, <4>3
    <3> QED
      BY <1>1, <1>2, <3>1, <3>2 DEF RecordsInv
  <2>6. AfterInv'
    <3> SUFFICES ASSUME NEW j \in 1..Len(printed), NEW r \in printed[j].after
                 PROVE  \E t \in Streams : \E i \in Index(t)' :
                          /\ staged'[t][i].record = r
                          /\ \A u \in Streams : \A k \in Index(u)' :
                               staged'[u][k].record = j => staged'[t][i].seq < staged'[u][k].seq
      BY <1>1 DEF AfterInv
    <3>1. PICK t \in Streams : \E i \in Index(t) :
                          /\ staged[t][i].record = r
                          /\ \A u \in Streams : \A k \in Index(u) :
                               staged[u][k].record = j => staged[t][i].seq < staged[u][k].seq
      BY DEF NumbersInv, AfterInv
    <3>2. PICK i \in Index(t) :
                          /\ staged[t][i].record = r
                          /\ \A u \in Streams : \A k \in Index(u) :
                               staged[u][k].record = j => staged[t][i].seq < staged[u][k].seq
      BY <3>1
    <3>3. \A u \in Streams : \A k \in Index(u)' :
            staged'[u][k].record = j => staged'[t][i].seq < staged'[u][k].seq
      BY <2>1, <2>2, <2>3, <3>2
    <3> QED
      BY <2>2, <3>2, <3>3
  <2> QED
    BY <2>4, <2>5, <2>6 DEF NumbersInv
<1>7. \/ staged' = staged /\ lost'
      \/ /\ ~lost /\ lost' = lost
         /\ staged' = [staged EXCEPT ![s] = Append(@, [seq |-> sequence, record |-> hand[s]])]
  BY DEF DrawAndStage
<1> QED
  BY <1>5, <1>6, <1>7

-----------------------------------------------------------------------------
(* The recorder, step by step. *)

RecordingInv ==
  /\ pc = [p \in Procs |-> pc[p]]
  /\ RecorderTypes /\ RecorderInv /\ NumbersInv

\* A step of a process that is not recording.
Elsewhere(p) ==
  /\ pc[p] \notin {"record", "command"}
  /\ \E label : label \notin {"record", "command"} /\ Goto(p, label)
  /\ UNCHANGED recorderVars

\* A step that takes process p from its recording to another place.
Leaves(p) ==
  /\ p \in recorder /\ Drained /\ Discard /\ UNCHANGED <<unread, hand>>
  /\ \E label : label \notin {"record", "command"} /\ Goto(p, label)

LEMMA ProcessSteps ==
  ASSUME RecordingInv, NEW p \in Procs,
         \/ CaptureStep(p) \/ VerifyStep(p) \/ ReadStdout(p) \/ ReadStderr(p) \/ Breaks(p)
  PROVE  \/ StartCapture(p)
         \/ Finish(p) /\ Goto(p, "command") /\ ~lost /\ UNCHANGED recorderVars
         \/ Leaves(p)
         \/ Elsewhere(p)
<1>1. CASE StartCapture(p)
  BY <1>1
<1>2. CASE Finish(p)
  BY <1>2 DEF Finish, Leaves, End, EndWith, Goto, recorderVars
<1>3. CASE WriteCommand(p)
  <2>1. p \in recorder /\ Drained
    BY <1>3 DEF WriteCommand, RecordingInv, RecorderInv
  <2> QED
    BY <1>3, <2>1 DEF WriteCommand, Leaves
<1>4. CASE Breaks(p)
  <2>1. CASE p \in recorder
    <3>1. Drained
      BY <1>4, <2>1 DEF Breaks, RecordingInv, RecorderInv
    <3> QED
      BY <1>4, <2>1, <3>1 DEF Breaks, Leaves, EndWith, Goto
  <2>2. CASE p \notin recorder
    <3>1. pc[p] \notin {"record", "command"}
      BY <2>2 DEF RecordingInv, RecorderInv
    <3> QED
      BY <1>4, <2>2, <3>1 DEF Breaks, Elsewhere, EndWith, Goto, recorderVars
  <2> QED
    BY <2>1, <2>2
<1>5. CASE OpenStdout(p) \/ OpenStderr(p)
  BY <1>5 DEF OpenStdout, OpenStderr, Elsewhere
<1>6. CASE \E s \in Streams : Spill(p, s)
  <2>1. pc[p] = "write" /\ pc' = pc /\ UNCHANGED recorderVars
    BY <1>6 DEF Spill, procVars
  <2>2. Goto(p, "write")
    BY <2>1 DEF Goto, RecordingInv
  <2> QED
    BY <2>1, <2>2 DEF Elsewhere
<1>7. CASE FlushStdout(p) \/ FlushStderr(p)
  BY <1>7 DEF FlushStdout, FlushStderr, Elsewhere, End, EndWith, Goto
<1>8. CASE Promote(p)
  BY <1>8 DEF Promote, Elsewhere
<1>9. CASE Succeed(p)
  BY <1>9 DEF Succeed, Elsewhere, End, EndWith
<1>10. CASE VerifyStep(p)
  BY <1>10 DEF VerifyStep, StartVerify, LoadFixture, Report, Elsewhere, End, EndWith, Goto
<1>11. CASE ReadStdout(p) \/ ReadStderr(p)
  BY <1>11 DEF ReadStdout, ReadStderr, Elsewhere, End, EndWith, Goto
<1> QED
  BY <1>1, <1>2, <1>3, <1>4, <1>5, <1>6, <1>7, <1>8, <1>9, <1>10, <1>11 DEF CaptureStep

\* An event of the recorder itself happens while somebody records.
LEMMA BusyRecorder ==
  ASSUME RecorderInv, ~Drained, UNCHANGED <<recorder, pc>>
  PROVE  RecorderInv'
BY DEF RecorderInv

LEMMA RecordStepKeeps ==
  ASSUME RecordingInv, RecordStep
  PROVE  RecordingInv'
<1>1. pc' = pc /\ recorder' = recorder
  BY DEF RecordStep, ChildExits, Interrupt, Prints, ReadFirst, DrawAndStage, procVars
<1>2. CASE ChildExits \/ Interrupt
  <2>1. UNCHANGED <<unread, hand, sequence, staged, lost, printed>>
    BY <1>2 DEF ChildExits, Interrupt
  <2>2. ~Drained /\ child' \in {"running", "exited"}
    BY <1>2 DEF ChildExits, Interrupt, Drained
  <2>3. RecorderInv'
    BY <1>1, <2>2, BusyRecorder DEF RecordingInv
  <2>4. RecorderTypes'
    BY <1>1, <2>1, <2>2 DEF RecorderTypes, RecordingInv
  <2>5. NumbersInv'
    BY <2>1 DEF NumbersInv, DrawnInv, RecordsInv, AfterInv, Index, PrintedOn, RecordingInv
  <2> QED
    BY <1>1, <2>3, <2>4, <2>5 DEF RecordingInv
<1>3. ASSUME NEW s \in Streams, Prints(s) \/ ReadFirst(s) \/ DrawAndStage(s)
      PROVE  RecordingInv'
  <2>1. ~Drained
    BY <1>3 DEF Prints, ReadFirst, DrawAndStage, Drained
  <2>2. RecorderInv'
    BY <1>1, <2>1, BusyRecorder DEF RecordingInv
  <2>3. RecorderTypes' /\ NumbersInv'
    BY <1>3, PrintsTypes, PrintsNumbers, ReadFirstTypes, ReadFirstNumbers, DrawTypes, DrawNumbers
    DEF RecordingInv
  <2> QED
    BY <1>1, <2>2, <2>3 DEF RecordingInv
<1> QED
  BY <1>2, <1>3 DEF RecordStep

LEMMA ProcessStepKeeps ==
  ASSUME RecordingInv, NEW p \in Procs,
         \/ CaptureStep(p) \/ VerifyStep(p) \/ ReadStdout(p) \/ ReadStderr(p) \/ Breaks(p)
  PROVE  RecordingInv'
<1>1. pc = [q \in Procs |-> pc[q]] /\ RecorderTypes /\ RecorderInv /\ NumbersInv
  BY DEF RecordingInv
<1>2. CASE StartCapture(p)
  <2>1. recorder = {} /\ recorder' = {p} /\ child' = "running" /\ Drained /\ Goto(p, "record")
    BY <1>1, <1>2 DEF StartCapture, RecorderInv
  <2>2. Emptied
    BY <1>2 DEF StartCapture, Emptied
  <2>3. RecorderTypes' /\ NumbersInv'
    BY <1>1, <2>1, <2>2, EmptyRecorder, EmptyTypes
  <2>4. RecorderInv'
    BY <1>1, <2>1 DEF RecorderInv, Goto
  <2> QED
    BY <1>1, <2>1, <2>3, <2>4 DEF RecordingInv, Goto
<1>3. CASE Finish(p) /\ Goto(p, "command") /\ ~lost /\ UNCHANGED recorderVars
  <2>1. UNCHANGED <<recorder, child, unread, hand, sequence, staged, lost, printed>>
    BY <1>3 DEF recorderVars
  <2>2. RecorderTypes' /\ NumbersInv'
    BY <1>1, <2>1
    DEF NumbersInv, DrawnInv, RecordsInv, AfterInv, Index, PrintedOn, RecorderTypes
  <2>3. p \in recorder /\ Drained /\ (Drained' <=> Drained)
    BY <1>3, <2>1 DEF Finish, Drained
  <2>4. RecorderInv'
    BY <1>1, <1>3, <2>1, <2>3 DEF RecorderInv, Goto
  <2> QED
    BY <1>1, <1>3, <2>2, <2>4 DEF RecordingInv, Goto
<1>4. CASE Leaves(p)
  <2>1. recorder' = {} /\ child' = "exited" /\ Drained /\ Emptied /\ p \in recorder
    BY <1>4 DEF Leaves, Discard, Emptied
  <2>2. RecorderTypes' /\ NumbersInv'
    BY <1>1, <2>1, EmptyRecorder, EmptyTypes
  <2>3. Drained' /\ printed' = <<>>
    BY <2>1 DEF Drained, Emptied
  <2>4. PICK label : label \notin {"record", "command"} /\ Goto(p, label)
    BY <1>4 DEF Leaves
  <2>5. RecorderInv'
    BY <1>1, <2>1, <2>3, <2>4 DEF RecorderInv, Goto
  <2> QED
    BY <1>1, <2>2, <2>4, <2>5 DEF RecordingInv, Goto
<1>5. CASE Elsewhere(p)
  <2>1. UNCHANGED <<recorder, child, unread, hand, sequence, staged, lost, printed>>
    BY <1>5 DEF recorderVars, Elsewhere
  <2>2. RecorderTypes' /\ NumbersInv'
    BY <1>1, <2>1
    DEF NumbersInv, DrawnInv, RecordsInv, AfterInv, Index, PrintedOn, RecorderTypes
  <2>3. PICK label : label \notin {"record", "command"} /\ Goto(p, label)
    BY <1>5 DEF Elsewhere
  <2>4. RecorderInv'
    <3>1. Drained' <=> Drained
      BY <2>1 DEF Drained
    <3>2. p \notin recorder
      BY <1>1, <1>5 DEF RecorderInv, Elsewhere
    <3> QED
      BY <1>1, <2>1, <2>3, <3>1, <3>2 DEF RecorderInv, RecorderTypes, Goto
  <2> QED
    BY <1>1, <2>2, <2>3, <2>4 DEF RecordingInv, Goto
<1> QED
  BY <1>2, <1>3, <1>4, <1>5, ProcessSteps

LEMMA RecordingStep == RecordingInv /\ [Next]_vars => RecordingInv'
<1> SUFFICES ASSUME RecordingInv, [Next]_vars PROVE RecordingInv'
  OBVIOUS
<1>1. CASE Next
  BY <1>1, RecordStepKeeps, ProcessStepKeeps DEF Next
<1>2. CASE UNCHANGED vars
  <2>1. UNCHANGED <<pc, recorder, child, unread, hand, sequence, staged, lost, printed>>
    BY <1>2 DEF vars, recorderVars, procVars
  <2>2. RecorderTypes'
    BY <2>1 DEF RecordingInv, RecorderTypes
  <2>3. RecorderInv'
    BY <2>1 DEF RecordingInv, RecorderInv, Drained
  <2>4. NumbersInv'
    BY <2>1 DEF RecordingInv, NumbersInv, DrawnInv, RecordsInv, AfterInv, Index, PrintedOn
  <2> QED
    BY <2>1, <2>2, <2>3, <2>4 DEF RecordingInv
<1> QED
  BY <1>1, <1>2

LEMMA RecordingInit == Init => RecordingInv
<1> SUFFICES ASSUME Init PROVE RecordingInv
  OBVIOUS
<1>1. RecorderTypes
  <2>1. <<>> \in Seq([seq : Nat, record : Nat]) /\ <<>> \in Seq(Nat)
        /\ <<>> \in Seq([stream : Streams, after : SUBSET Nat])
    BY ElementIs
  <2> QED
    BY <2>1 DEF Init, RecorderTypes
<1>2. Drained /\ RecorderInv /\ pc = [p \in Procs |-> pc[p]]
  BY DEF Init, Drained, RecorderInv
<1>3. NumbersInv
  <2>1. \A s \in Streams : /\ staged[s] = <<>> /\ Len(unread[s]) = 0 /\ hand[s] = 0
                           /\ Len(staged[s]) = 0
    BY DEF Init
  <2>2. \A s \in Streams : Index(s) = {} /\ 1..Len(unread[s]) = {}
    BY <2>1 DEF Index
  <2>3. Len(printed) = 0 /\ sequence = 0 /\ 1..0 = {} /\ 0..(0 - 1) = {}
    BY DEF Init
  <2> QED
    BY <2>1, <2>2, <2>3 DEF NumbersInv, DrawnInv, RecordsInv, AfterInv
<1> QED
  BY <1>1, <1>2, <1>3 DEF RecordingInv

LEMMA Recordings == Spec => []RecordingInv
BY RecordingInit, RecordingStep, PTL DEF Spec
-----------------------------------------------------------------------------
(* What is staged in the end. *)

\* The numbers of the events are the first ones, each once.
LEMMA EventsInSequence ==
  ASSUME RecordingInv, ~lost
  PROVE  InSequence(Events["stdout"], Events["stderr"])
<1> DEFINE out == Events["stdout"]
           err == Events["stderr"]
<1>1. ASSUME NEW s \in Streams, NEW n
      PROVE  n \in Events[s] <=> \E i \in Index(s) : staged[s][i].seq = n
  <2>1. DOMAIN staged[s] = Index(s)
    BY StagedType DEF RecordingInv
  <2> QED
    BY <2>1 DEF Events
<1>2. "stdout" \in Streams /\ "stderr" \in Streams /\ sequence \in Nat
  BY DEF Streams, RecordingInv, RecorderTypes
<1>3. out \intersect err = {}
  BY <1>1, <1>2 DEF RecordingInv, NumbersInv, DrawnInv
<1>4. out \union err = 0..(sequence - 1)
  <2>1. \A s \in Streams : \A n \in Events[s] : n \in 0..(sequence - 1)
    <3> SUFFICES ASSUME NEW s \in Streams, NEW n \in Events[s] PROVE n \in 0..(sequence - 1)
      OBVIOUS
    <3>1. PICK i \in Index(s) : staged[s][i].seq = n
      BY <1>1
    <3>2. n \in Nat
      BY <3>1, StagedType DEF RecordingInv
    <3>3. n < sequence
      BY <3>1 DEF RecordingInv, NumbersInv, DrawnInv
    <3> QED
      BY <1>2, <3>2, <3>3
  <2>2. ASSUME NEW n \in 0..(sequence - 1) PROVE n \in out \union err
    <3>1. PICK s \in Streams : \E i \in Index(s) : staged[s][i].seq = n
      BY DEF RecordingInv, NumbersInv, DrawnInv
    <3>2. n \in Events[s]
      BY <1>1, <3>1
    <3> QED
      BY <3>2 DEF Streams
  <2> QED
    BY <1>2, <2>1, <2>2
<1> HIDE DEF out, err
<1>5. IsFiniteSet(out) /\ IsFiniteSet(err)
  <2>1. sequence - 1 \in Int /\ 0 \in Int
    BY <1>2
  <2>2. IsFiniteSet(0..(sequence - 1))
    BY <2>1, FS_Interval
  <2> QED
    BY <1>4, <2>2, FS_Subset
<1>6. Cardinality(out) + Cardinality(err) = sequence
  <2>1. Cardinality(0..(sequence - 1)) = sequence
    <3>1. sequence - 1 \in Int /\ 0 \in Int
      BY <1>2
    <3>2. Cardinality(0..(sequence - 1))
            = IF 0 > sequence - 1 THEN 0 ELSE (sequence - 1) - 0 + 1
      BY <3>1, FS_Interval
    <3> QED
      BY <1>2, <3>2
  <2>2. Cardinality(out \union err)
          = Cardinality(out) + Cardinality(err) - Cardinality(out \intersect err)
    BY <1>5, FS_Union
  <2>3. Cardinality(out \intersect err) = 0
    BY <1>3, FS_EmptySet
  <2>4. Cardinality(out) \in Nat /\ Cardinality(err) \in Nat
    BY <1>5, FS_CardinalityType
  <2>5. Cardinality(out \union err) = sequence
    BY <1>4, <2>1
  <2> QED
    BY <1>2, <2>2, <2>3, <2>4, <2>5
<1>7. Cardinality(out) + Cardinality(err) - 1 = sequence - 1
  BY <1>2, <1>5, <1>6, FS_CardinalityType
<1> QED
  BY <1>3, <1>4, <1>7 DEF InSequence, out, err

\* Each printed record is staged, once.
LEMMA AllAreStaged ==
  ASSUME RecordingInv, Drained, ~lost
  PROVE  /\ StagedRecords = DOMAIN printed
         /\ \A s \in Streams, t \in Streams : \A i \in Index(s), j \in Index(t) :
              staged[s][i].record = staged[t][j].record => s = t /\ i = j
<1>1. RecorderTypes /\ NumbersInv /\ DOMAIN printed = 1..Len(printed)
  BY ElementIs DEF RecordingInv, RecorderTypes
<1>2. \A r \in 1..Len(printed) : r \in StagedRecords
  <2> SUFFICES ASSUME NEW r \in 1..Len(printed) PROVE r \in StagedRecords
    OBVIOUS
  <2>1. PICK s \in Streams : \/ \E i \in Index(s) : r = staged[s][i].record
                             \/ r = hand[s]
                             \/ \E k \in 1..Len(unread[s]) : r = unread[s][k]
    BY <1>1 DEF NumbersInv, RecordsInv
  <2>2. hand[s] = 0 /\ 1..Len(unread[s]) = {}
    BY DEF Drained
  <2> QED
    BY <1>1, <2>1, <2>2, StagedRecordsAre
<1>3. \A r \in StagedRecords : r \in 1..Len(printed)
  BY <1>1, StagedRecordsAre DEF NumbersInv, RecordsInv, PrintedOn
<1>4. ASSUME NEW s \in Streams, NEW t \in Streams, NEW i \in Index(s), NEW j \in Index(t),
             staged[s][i].record = staged[t][j].record
      PROVE  s = t /\ i = j
  <2>1. s = t
    <3>1. PrintedOn(s, staged[s][i].record) /\ PrintedOn(t, staged[t][j].record)
      BY <1>1 DEF NumbersInv, RecordsInv
    <3> QED
      BY <1>4, <3>1 DEF PrintedOn
  <2>2. i \in Int /\ j \in Int
    BY DEF Index
  <2>3. staged[s][i].record \in Nat
    BY <1>1, StagedType
  <2>4. ~(i < j) /\ ~(j < i)
    BY <1>1, <1>4, <2>1, <2>2, <2>3 DEF NumbersInv, DrawnInv
  <2> QED
    BY <2>1, <2>2, <2>4
<1> QED
  BY <1>1, <1>2, <1>3, <1>4

\* The number of a record is that of its event.
LEMMA NumberIs ==
  ASSUME RecordingInv, Drained, ~lost, NEW s \in Streams, NEW i \in Index(s)
  PROVE  NumberOf(staged[s][i].record) = staged[s][i].seq
<1> DEFINE r == staged[s][i].record
           Is(n) == \E t \in Streams : \E j \in DOMAIN staged[t] :
                      staged[t][j] = [seq |-> n, record |-> r]
<1>1. \A t \in Streams : /\ DOMAIN staged[t] = Index(t)
                         /\ \A j \in Index(t) : staged[t][j] \in [seq : Nat, record : Nat]
  BY StagedType, ElementIs DEF RecordingInv, RecorderTypes, Index
<1>2. staged[s][i] = [seq |-> staged[s][i].seq, record |-> r]
  BY <1>1
<1>3. staged[s][i].seq \in 0..sequence
  <2>1. /\ staged[s][i].seq < sequence /\ sequence \in Nat /\ staged[s][i].seq \in Nat
    BY StagedType DEF RecordingInv, NumbersInv, DrawnInv, RecorderTypes
  <2> QED
    BY <2>1
<1>4. Is(staged[s][i].seq)
  BY <1>1, <1>2
<1>5. ASSUME NEW n, Is(n) PROVE n = staged[s][i].seq
  <2>1. PICK t \in Streams : \E j \in Index(t) : staged[t][j] = [seq |-> n, record |-> r]
    BY <1>1, <1>5
  <2>2. PICK j \in Index(t) : staged[t][j] = [seq |-> n, record |-> r]
    BY <2>1
  <2>3. staged[t][j].record = r /\ staged[t][j].seq = n
    BY <2>2
  <2>4. t = s /\ j = i
    BY <2>3, AllAreStaged
  <2> QED
    BY <2>3, <2>4
<1> HIDE DEF Is
<1>6. (CHOOSE n \in 0..sequence : Is(n)) = staged[s][i].seq
  BY <1>3, <1>4, <1>5
<1> QED
  BY <1>6 DEF NumberOf, Is

LEMMA OrderedRecordings == RecordingInv => RecordingIsOrdered
<1> SUFFICES ASSUME RecordingInv, Drained, ~lost
             PROVE  /\ InSequence(Events["stdout"], Events["stderr"])
                    /\ StagedRecords = DOMAIN printed
                    /\ \A j \in DOMAIN printed :
                         /\ \A i \in printed[j].after : NumberOf(i) < NumberOf(j)
                         /\ \A i \in 1..(j - 1) : printed[i].stream = printed[j].stream =>
                              NumberOf(i) < NumberOf(j)
  BY DEF RecordingIsOrdered
<1>1. RecorderTypes /\ NumbersInv /\ DOMAIN printed = 1..Len(printed) /\ Len(printed) \in Nat
  BY ElementIs DEF RecordingInv, RecorderTypes
<1>2. StagedRecords = DOMAIN printed
  BY AllAreStaged
<1>3. ASSUME NEW j \in 1..Len(printed)
      PROVE  /\ \A i \in printed[j].after : NumberOf(i) < NumberOf(j)
             /\ \A i \in 1..(j - 1) : printed[i].stream = printed[j].stream =>
                  NumberOf(i) < NumberOf(j)
  <2>1. PICK s \in Streams : \E k \in Index(s) : staged[s][k].record = j
    BY <1>1, <1>2, StagedRecordsAre
  <2>2. PICK k \in Index(s) : staged[s][k].record = j
    BY <2>1
  <2>3. NumberOf(j) = staged[s][k].seq
    BY <2>2, NumberIs
  <2>4. ASSUME NEW i \in printed[j].after PROVE NumberOf(i) < NumberOf(j)
    <3>1. PICK t \in Streams : \E m \in Index(t) :
            /\ staged[t][m].record = i
            /\ \A u \in Streams : \A l \in Index(u) :
                 staged[u][l].record = j => staged[t][m].seq < staged[u][l].seq
      BY <1>1 DEF NumbersInv, AfterInv
    <3>2. PICK m \in Index(t) :
            /\ staged[t][m].record = i
            /\ \A u \in Streams : \A l \in Index(u) :
                 staged[u][l].record = j => staged[t][m].seq < staged[u][l].seq
      BY <3>1
    <3>3. NumberOf(i) = staged[t][m].seq
      BY <3>2, NumberIs
    <3> QED
      BY <2>2, <2>3, <3>2, <3>3
  <2>5. ASSUME NEW i \in 1..(j - 1), printed[i].stream = printed[j].stream
        PROVE  NumberOf(i) < NumberOf(j)
    <3>1. i \in 1..Len(printed) /\ i < j /\ i \in Nat /\ j \in Nat
      BY <1>1
    <3>2. PICK t \in Streams : \E m \in Index(t) : staged[t][m].record = i
      BY <1>1, <1>2, <3>1, StagedRecordsAre
    <3>3. PICK m \in Index(t) : staged[t][m].record = i
      BY <3>2
    <3>4. t = s
      BY <1>1, <2>2, <2>5, <3>3 DEF NumbersInv, RecordsInv, PrintedOn
    <3>5. m < k
      <4>1. m \in Int /\ k \in Int /\ m # k
        BY <2>2, <3>1, <3>3, <3>4 DEF Index
      <4>2. ~(k < m)
        BY <1>1, <2>2, <3>1, <3>3, <3>4 DEF NumbersInv, DrawnInv
      <4> QED
        BY <4>1, <4>2
    <3>6. NumberOf(i) = staged[t][m].seq
      BY <3>3, NumberIs
    <3> QED
      BY <1>1, <2>3, <3>3, <3>4, <3>5, <3>6 DEF NumbersInv, DrawnInv
  <2> QED
    BY <2>4, <2>5
<1> QED
  BY <1>1, <1>2, <1>3, EventsInSequence

\* However the two readers are scheduled, a recording that lost nothing numbers
\* all records in the order in which they were printed on their stream, and
\* after those that had been staged before they were printed.
THEOREM RecordingsAreOrdered == Spec => []RecordingIsOrdered
BY Recordings, OrderedRecordings, PTL

-----------------------------------------------------------------------------
(* The fixture. *)

OfCapture == {"record", "command", "openStdout", "openStderr", "write", "flushStderr",
              "promote", "stat"}
OfVerify  == {"load", "report", "idle"}

InProgress(p) == Writing(p) \/ pc[p] = "stat"

Rows ==
  /\ pc = [p \in Procs |-> pc[p]] /\ doing = [p \in Procs |-> doing[p]]
  /\ rec = [p \in Procs |-> rec[p]] /\ seen = [p \in Procs |-> seen[p]]
  /\ at = [p \in Procs |-> at[p]]

Place(p) ==
  /\ pc[p] \in OfCapture \union OfVerify \union {"reopen", "replay"}
  /\ doing[p] \in {"capture", "verify"}
  /\ pc[p] \in OfCapture => doing[p] = "capture"
  /\ pc[p] \in OfVerify => doing[p] = "verify"
  /\ pc[p] \notin {"promote", "stat"} => at[p] = 0
  /\ pc[p] \notin {"replay", "promote", "report", "stat"} => seen[p] = <<>>
  /\ pc[p] = "promote" => at[p] \in 0..(Len(Expected) - 1)
  /\ pc[p] = "stat" => at[p] = Len(Expected)
  /\ InProgress(p) => rec[p] \in 1..Len(recording)

FilesInv ==
  /\ recording \in Seq([Streams -> SUBSET Nat])
  /\ file = [f \in Files |-> file[f]]
  /\ \A f \in Files : file[f].rec \in 0..Len(recording)
  /\ whole \in 0..Len(recording)

\* What a capture that is alone finds in the fixture: all of it that it has
\* already written, and no expectation that is as new.
Stage(p) ==
  /\ file["command"] = Content(rec[p], 1, FALSE)
  /\ pc[p] # "openStdout" => file["stdout"].rec = rec[p]
  /\ pc[p] \notin {"openStdout", "openStderr"} => file["stderr"].rec = rec[p]
  /\ pc[p] \notin {"openStdout", "openStderr", "write"} =>
       file["stdout"] = AllOf(rec[p], "stdout")
  /\ pc[p] \notin {"openStdout", "openStderr", "write", "flushStderr"} =>
       file["stderr"] = AllOf(rec[p], "stderr")
  /\ pc[p] = "replay" => seen[p] = <<AllOf(rec[p], "stdout")>>
  /\ pc[p] = "promote" => seen[p] = StreamsOf(rec[p])
  /\ \A i \in 1..Len(Expected) :
       IF i <= at[p] THEN file[Expected[i]] = Replayed(rec[p], StreamsOf(rec[p]))
                     ELSE file[Expected[i]].rec < rec[p]

Alone(p) ==
  /\ rec[p] = Len(recording) /\ whole = 0
  /\ \A q \in Procs \ {p} : ~Writing(q)
  /\ Stage(p)

AloneInv ==
  /\ \A p, q \in alone : p = q
  /\ \A p \in Procs : Writing(p) => overlapped \/ p \in alone
  /\ \A p \in alone \intersect Procs : InProgress(p) => Alone(p)

\* The files are as old as they were written before each other.
AgesInv ==
  ~overlapped =>
    /\ file["command"].rec = Len(recording) /\ file["stdout"].rec >= file["stderr"].rec
    /\ \A i \in 1..Len(Expected) :
         /\ file["stderr"].rec >= file[Expected[i]].rec
         /\ \A j \in 1..Len(Expected) :
              i < j => file[Expected[i]].rec >= file[Expected[j]].rec
         /\ file[Expected[i]].rec # 0 =>
              /\ file[Expected[i]].from = StreamsOf(file[Expected[i]].rec)
              /\ file[Expected[i]].rec = file["stdout"].rec =>
                   file[Expected[i]].from = <<file["stdout"], file["stderr"]>>

WholeInv ==
  whole # 0 =>
    /\ \A p \in Procs : ~Writing(p)
    /\ file["command"] = Content(whole, 1, FALSE)
    /\ <<file["stdout"], file["stderr"]>> = StreamsOf(whole)
    /\ \A i \in 1..Len(Expected) : file[Expected[i]] = Replayed(whole, StreamsOf(whole))

\* A verification that has seen nothing but the whole fixture.
Steady(p) ==
  /\ whole # 0 /\ doing[p] = "verify" /\ pc[p] # "idle"
  /\ pc[p] \in {"reopen", "replay", "report"} => rec[p] = whole
  /\ pc[p] = "replay" => seen[p] = <<AllOf(whole, "stdout")>>
  /\ pc[p] = "report" => seen[p] = StreamsOf(whole)

FixtureInv ==
  /\ Rows /\ \A p \in Procs : Place(p)
  /\ FilesInv /\ AloneInv /\ AgesInv /\ WholeInv
  /\ steady \subseteq Procs /\ \A p \in steady : Steady(p)

ProcessStep(p) ==
  CaptureStep(p) \/ VerifyStep(p) \/ ReadStdout(p) \/ ReadStderr(p) \/ Breaks(p)

\* The other processes stay where they are.
OthersStay(p) ==
  \A q \in Procs \ {p} :
    /\ pc'[q] = pc[q] /\ doing'[q] = doing[q]
    /\ rec'[q] = rec[q] /\ seen'[q] = seen[q] /\ at'[q] = at[q]

\* At most the entry of p.
At(p, old, new) == new = old \/ \E x : new = [old EXCEPT ![p] = x]

LEMMA AtIs ==
  ASSUME NEW p \in Procs, NEW old, old = [q \in Procs |-> old[q]], NEW new, At(p, old, new)
  PROVE  /\ new = [q \in Procs |-> new[q]]
         /\ \A q \in Procs \ {p} : new[q] = old[q]
<1>1. CASE new = old
  BY <1>1
<1>2. ASSUME NEW x, new = [old EXCEPT ![p] = x]
      PROVE  /\ new = [q \in Procs |-> new[q]]
             /\ \A q \in Procs \ {p} : new[q] = old[q]
  BY <1>2
<1> QED
  BY <1>1, <1>2 DEF At

LEMMA RowsStay ==
  ASSUME Rows, NEW p \in Procs, ProcessStep(p)
  PROVE  Rows' /\ OthersStay(p)
<1>1. At(p, pc, pc')
  BY DEF ProcessStep, CaptureStep, VerifyStep, StartCapture, Finish, WriteCommand, OpenStdout,
         OpenStderr, Spill, FlushStdout, FlushStderr, Promote, Succeed, StartVerify, LoadFixture,
         Report, ReadStdout, ReadStderr, Breaks, End, EndWith, Goto, procVars, At
<1>2. At(p, doing, doing')
  BY DEF ProcessStep, CaptureStep, VerifyStep, StartCapture, Finish, WriteCommand, OpenStdout,
         OpenStderr, Spill, FlushStdout, FlushStderr, Promote, Succeed, StartVerify, LoadFixture,
         Report, ReadStdout, ReadStderr, Breaks, End, EndWith, Goto, procVars, At
<1>3. At(p, rec, rec')
  BY DEF ProcessStep, CaptureStep, VerifyStep, StartCapture, Finish, WriteCommand, OpenStdout,
         OpenStderr, Spill, FlushStdout, FlushStderr, Promote, Succeed, StartVerify, LoadFixture,
         Report, ReadStdout, ReadStderr, Breaks, End, EndWith, Goto, procVars, At
<1>4. At(p, seen, seen')
  BY DEF ProcessStep, CaptureStep, VerifyStep, StartCapture, Finish, WriteCommand, OpenStdout,
         OpenStderr, Spill, FlushStdout, FlushStderr, Promote, Succeed, StartVerify, LoadFixture,
         Report, ReadStdout, ReadStderr, ReadStream, Breaks, End, EndWith, Goto, procVars, At
<1>5. At(p, at, at')
  BY DEF ProcessStep, CaptureStep, VerifyStep, StartCapture, Finish, WriteCommand, OpenStdout,
         OpenStderr, Spill, FlushStdout, FlushStderr, Promote, Succeed, StartVerify, LoadFixture,
         Report, ReadStdout, ReadStderr, Breaks, End, EndWith, Goto, procVars, At
<1>6. pc' = [q \in Procs |-> pc'[q]] /\ \A q \in Procs \ {p} : pc'[q] = pc[q]
  BY <1>1, AtIs DEF Rows
<1>7. doing' = [q \in Procs |-> doing'[q]] /\ \A q \in Procs \ {p} : doing'[q] = doing[q]
  BY <1>2, AtIs DEF Rows
<1>8. rec' = [q \in Procs |-> rec'[q]] /\ \A q \in Procs \ {p} : rec'[q] = rec[q]
  BY <1>3, AtIs DEF Rows
<1>9. seen' = [q \in Procs |-> seen'[q]] /\ \A q \in Procs \ {p} : seen'[q] = seen[q]
  BY <1>4, AtIs DEF Rows
<1>10. at' = [q \in Procs |-> at'[q]] /\ \A q \in Procs \ {p} : at'[q] = at[q]
  BY <1>5, AtIs DEF Rows
<1> QED
  BY <1>6, <1>7, <1>8, <1>9, <1>10 DEF Rows, OthersStay

\* A step of p that neither begins to write nor succeeds: no other capture comes
\* into play, and files change only where p writes.
Proceeds(p) ==
  /\ OthersStay(p) /\ UNCHANGED <<recording, whole, alone, overlapped>>
  /\ Writing(p)' => Writing(p)
  /\ InProgress(p)' => InProgress(p) /\ rec'[p] = rec[p]
  /\ ~Writing(p) => file' = file
  /\ steady' \subseteq steady \union {p}

LEMMA OthersProceed ==
  ASSUME NEW p \in Procs, OthersStay(p), UNCHANGED recording, NEW q \in Procs, q # p
  PROVE  /\ Writing(q)' <=> Writing(q)
         /\ InProgress(q)' <=> InProgress(q)
         /\ Place(q) => Place(q)'
         /\ file' = file => (Stage(q) <=> Stage(q)')
BY DEF OthersStay, Writing, InProgress, Place, Stage, AllOf, StreamsOf

LEMMA ProceedsKeeps ==
  ASSUME FixtureInv, NEW p \in Procs, Proceeds(p), Rows', Place(p)', FilesInv', AgesInv',
         p \in alone /\ InProgress(p)' => Stage(p)', p \in steady' => Steady(p)'
  PROVE  FixtureInv'
<1>1. /\ OthersStay(p) /\ UNCHANGED <<recording, whole, alone, overlapped>>
      /\ Writing(p)' => Writing(p)
      /\ InProgress(p)' => InProgress(p) /\ rec'[p] = rec[p]
      /\ ~Writing(p) => file' = file
      /\ steady' \subseteq steady \union {p}
  BY DEF Proceeds
<1>2. \A q \in Procs : Writing(q)' => Writing(q)
  BY <1>1, OthersProceed
<1>3. \A q \in Procs : Place(q)'
  BY <1>1, OthersProceed DEF FixtureInv
<1>4. AloneInv'
  <2>1. \A q, r \in alone' : q = r
    BY <1>1 DEF FixtureInv, AloneInv
  <2>2. \A q \in Procs : Writing(q)' => overlapped' \/ q \in alone'
    BY <1>1, <1>2 DEF FixtureInv, AloneInv
  <2>3. ASSUME NEW q \in alone', q \in Procs, InProgress(q)' PROVE Alone(q)'
    <3>1. q \in alone /\ InProgress(q)
      BY <1>1, <2>3, OthersProceed
    <3>2. Alone(q) /\ rec'[q] = rec[q]
      BY <1>1, <2>3, <3>1 DEF FixtureInv, AloneInv, OthersStay
    <3>3. Stage(q)'
      <4>1. CASE q = p
        BY <1>1, <2>3, <4>1
      <4>2. CASE q # p
        <5>1. file' = file
          BY <1>1, <3>2, <4>2 DEF Alone
        <5> QED
          BY <1>1, <2>3, <3>2, <4>2, <5>1, OthersProceed DEF Alone
      <4> QED
        BY <4>1, <4>2
    <3> QED
      BY <1>1, <1>2, <3>2, <3>3 DEF Alone
  <2> QED
    BY <2>1, <2>2, <2>3 DEF AloneInv
<1>5. WholeInv'
  <2> SUFFICES ASSUME whole # 0 PROVE WholeInv'
    BY <1>1 DEF WholeInv
  <2>1. WholeInv /\ file' = file
    BY <1>1 DEF FixtureInv, WholeInv
  <2> QED
    BY <1>1, <1>2, <2>1 DEF WholeInv, StreamsOf, AllOf
<1>6. steady' \subseteq Procs /\ \A q \in steady' : Steady(q)'
  <2>1. ASSUME NEW q \in steady', q # p PROVE Steady(q)'
    <3>1. q \in steady /\ q \in Procs /\ Steady(q)
      BY <1>1, <2>1 DEF FixtureInv
    <3> QED
      BY <1>1, <2>1, <3>1 DEF Steady, OthersStay, StreamsOf, AllOf
  <2> QED
    BY <1>1, <2>1 DEF FixtureInv
<1> QED
  BY <1>3, <1>4, <1>5, <1>6 DEF FixtureInv

\* A step that writes nothing.
LEMMA FilesStay ==
  ASSUME FixtureInv, UNCHANGED <<file, recording, whole, overlapped>>
  PROVE  FilesInv' /\ AgesInv'
<1>1. FilesInv'
  BY DEF FixtureInv, FilesInv
<1>2. AgesInv'
  BY DEF FixtureInv, AgesInv, StreamsOf, AllOf
<1> QED
  BY <1>1, <1>2

\* The process ends.
LEMMA EndKeeps ==
  ASSUME FixtureInv, NEW p \in Procs, End(p), ProcessStep(p),
         UNCHANGED <<file, recording, whole, alone, overlapped>>
  PROVE  FixtureInv'
<1>1. Rows' /\ OthersStay(p)
  BY RowsStay DEF FixtureInv
<1>2. /\ pc'[p] = "idle" /\ doing'[p] = "verify" /\ rec'[p] = 0 /\ seen'[p] = <<>>
      /\ at'[p] = 0 /\ steady' = steady \ {p}
  BY DEF End, EndWith, Goto, FixtureInv, Rows
<1>3. Place(p)' /\ ~Writing(p)' /\ ~InProgress(p)'
  BY <1>2 DEF Place, Writing, InProgress, OfCapture, OfVerify
<1>4. FilesInv' /\ AgesInv'
  BY FilesStay
<1>5. Proceeds(p)
  BY <1>1, <1>2, <1>3 DEF Proceeds
<1> QED
  BY <1>1, <1>2, <1>3, <1>4, <1>5, ProceedsKeeps

-----------------------------------------------------------------------------
(* Files. *)

LEMMA FilesDiffer ==
  /\ "command" \in Files /\ "stdout" \in Files /\ "stderr" \in Files
  /\ \A i \in 1..Len(Expected) :
       /\ Expected[i] \in Files
       /\ Expected[i] # "command" /\ Expected[i] # "stdout" /\ Expected[i] # "stderr"
       /\ \A j \in 1..Len(Expected) : Expected[i] = Expected[j] => i = j
  /\ Len(Expected) \in Nat /\ Len(Expected) # 0
<1>1. /\ DOMAIN Expected = 1..Len(Expected) /\ Len(Expected) \in Nat
  BY CaptureAssumption, ElementIs
<1>2. Len(Expected) # 0
  BY CaptureAssumption
<1>3. \A i \in 1..Len(Expected) : Expected[i] \in ToSet(Expected)
  BY <1>1 DEF ToSet
<1>4. \A i, j \in 1..Len(Expected) : Expected[i] = Expected[j] => i = j
  BY <1>1, CaptureAssumption DEF IsInjective
<1> QED
  BY <1>1, <1>2, <1>3, <1>4, CaptureAssumption DEF Files, Streams

\* One file is written.
LEMMA PutIs ==
  ASSUME FilesInv, NEW f \in Files, NEW content, Put(f, content)
  PROVE  /\ file' = [g \in Files |-> file'[g]] /\ file'[f] = content
         /\ \A g \in Files \ {f} : file'[g] = file[g]
BY DEF FilesInv, Put

LEMMA AppendToOne ==
  ASSUME NEW T, NEW q \in Seq(T), Len(q) = 1, NEW b \in T
  PROVE  /\ Append(q, b) \in Seq(T) /\ Len(Append(q, b)) = 2
         /\ Append(q, b)[1] = q[1] /\ Append(q, b)[2] = b
<1>1. /\ Append(q, b) \in Seq(T) /\ Len(Append(q, b)) = Len(q) + 1
      /\ Append(q, b)[Len(q) + 1] = b
      /\ \A i \in 1..Len(q) : Append(q, b)[i] = q[i]
  OBVIOUS
<1>2. 1 \in 1..Len(q) /\ Len(q) + 1 = 2
  OBVIOUS
<1> DEFINE u == Append(q, b)
<1>3. u \in Seq(T) /\ Len(u) = Len(q) + 1 /\ u[Len(q) + 1] = b /\ \A i \in 1..Len(q) : u[i] = q[i]
  BY <1>1
<1> HIDE DEF u
<1>4. u \in Seq(T) /\ Len(u) = 2 /\ u[1] = q[1] /\ u[2] = b
  BY <1>2, <1>3
<1> QED
  BY <1>4 DEF u

LEMMA SamePair ==
  ASSUME NEW T, NEW q \in Seq(T), NEW r \in Seq(T), Len(q) = 2, Len(r) = 2,
         q[1] = r[1], q[2] = r[2]
  PROVE  q = r
<1>1. DOMAIN q = 1..2 /\ DOMAIN r = 1..2 /\ q = [i \in 1..2 |-> q[i]] /\ r = [i \in 1..2 |-> r[i]]
  OBVIOUS
<1>2. \A i \in 1..2 : i = 1 \/ i = 2
  OBVIOUS
<1>3. \A i \in 1..2 : q[i] = r[i]
  BY <1>2
<1> QED
  BY <1>1, <1>3

LEMMA PairIs ==
  ASSUME NEW a, NEW b
  PROVE  Append(<<a>>, b) = <<a, b>>
<1> DEFINE T == {a, b}
<1>1. <<a>> \in Seq(T) /\ <<a, b>> \in Seq(T) /\ b \in T /\ a \in T
  OBVIOUS
<1>2. /\ Len(<<a>>) = 1 /\ Len(<<a, b>>) = 2 /\ <<a>>[1] = a /\ <<a, b>>[1] = a /\ <<a, b>>[2] = b
  OBVIOUS
<1> HIDE DEF T
<1>4. Append(<<a>>, b) \in Seq(T) /\ Len(Append(<<a>>, b)) = 2
      /\ Append(<<a>>, b)[1] = <<a>>[1] /\ Append(<<a>>, b)[2] = b
  BY <1>1, <1>2, AppendToOne
<1> QED
  BY <1>1, <1>2, <1>4, SamePair

LEMMA ReplayedIs ==
  ASSUME NEW r, NEW streams
  PROVE  Replayed(r, streams).rec = r /\ Replayed(r, streams).from = streams
BY DEF Replayed, Content

\* Files that belong to an older recording, or to this one as far as it is there.
LEMMA PutKeepsFiles ==
  ASSUME FixtureInv, NEW f \in Files, NEW content, Put(f, content),
         content.rec \in 0..Len(recording), UNCHANGED <<recording, whole>>
  PROVE  FilesInv'
<1>1. /\ file' = [g \in Files |-> file'[g]] /\ file'[f] = content
      /\ \A g \in Files \ {f} : file'[g] = file[g]
  BY PutIs DEF FixtureInv
<1> QED
  BY <1>1 DEF FixtureInv, FilesInv

\* A capture that writes is alone unless captures have overlapped.
LEMMA WriterIsAlone ==
  ASSUME FixtureInv, NEW p \in Procs, Writing(p)
  PROVE  /\ overlapped \/ p \in alone
         /\ p \in alone => Alone(p)
         /\ Place(p) /\ rec[p] \in 1..Len(recording) /\ doing[p] = "capture"
BY DEF FixtureInv, AloneInv, Place, InProgress, Writing

\* The files as they are before the expectations are promoted.
LEMMA AgesWhileWriting ==
  ASSUME FixtureInv, NEW p \in Procs, Alone(p), at[p] = 0, NEW f \in {"stdout", "stderr"},
         NEW content, Put(f, content), content.rec = rec[p], UNCHANGED <<recording, overlapped>>,
         f = "stderr" => file["stdout"].rec = rec[p]
  PROVE  AgesInv'
<1>1. /\ file'[f] = content /\ f \in Files
      /\ \A g \in Files \ {f} : file'[g] = file[g]
  BY PutIs, FilesDiffer DEF FixtureInv
<1>2. \A g \in Files : file[g].rec \in Nat /\ file[g].rec <= Len(recording)
  BY ElementIs DEF FixtureInv, FilesInv
<1>3. /\ rec[p] = Len(recording) /\ Len(recording) \in Nat
      /\ \A i \in 1..Len(Expected) : file[Expected[i]].rec < rec[p]
  BY ElementIs DEF Alone, Stage, FixtureInv, FilesInv
<1>4. \A i \in 1..Len(Expected) : file'[Expected[i]] = file[Expected[i]] /\ Expected[i] \in Files
  BY <1>1, FilesDiffer
<1>5. file'["command"] = file["command"] /\ file["command"].rec = rec[p]
  <2>1. file["command"] = Content(rec[p], 1, FALSE)
    BY DEF Alone, Stage
  <2> QED
    BY <1>1, <2>1, FilesDiffer DEF Content
<1>6. /\ file'["stdout"].rec = rec[p]
      /\ file'["stderr"].rec <= rec[p] /\ file'["stderr"].rec \in Nat
      /\ file'["stderr"].rec = rec[p] \/ file'["stderr"] = file["stderr"]
  <2>1. CASE f = "stdout"
    BY <1>1, <1>2, <1>3, <2>1, FilesDiffer
  <2>2. CASE f = "stderr"
    BY <1>1, <1>2, <1>3, <2>2, FilesDiffer
  <2> QED
    BY <2>1, <2>2
<1> SUFFICES ASSUME ~overlapped PROVE AgesInv'
  BY DEF AgesInv
<1>7. AgesInv
  BY DEF FixtureInv
<1>8. \A i \in 1..Len(Expected) :
        /\ file'["stderr"].rec >= file[Expected[i]].rec
        /\ file[Expected[i]].rec # file'["stdout"].rec
  BY <1>2, <1>3, <1>4, <1>6, <1>7, FilesDiffer DEF AgesInv
<1>9. /\ \A i \in 1..Len(Expected) :
           /\ \A j \in 1..Len(Expected) :
                i < j => file[Expected[i]].rec >= file[Expected[j]].rec
           /\ file[Expected[i]].rec # 0 => file[Expected[i]].from = StreamsOf(file[Expected[i]].rec)
      /\ \A r : StreamsOf(r)' = StreamsOf(r)
  BY <1>7 DEF AgesInv, StreamsOf, AllOf
<1> QED
  BY <1>3, <1>4, <1>5, <1>6, <1>8, <1>9 DEF AgesInv
-----------------------------------------------------------------------------
(* Before the fixture is written, and verifications. *)

LEMMA StartCaptureKeeps ==
  ASSUME FixtureInv, NEW p \in Procs, StartCapture(p)
  PROVE  FixtureInv'
<1>1. Rows' /\ OthersStay(p)
  BY RowsStay DEF FixtureInv, ProcessStep, CaptureStep
<1>2. /\ pc[p] = "idle" /\ pc'[p] = "record" /\ doing'[p] = "capture"
      /\ UNCHANGED <<rec, seen, at, file, recording, whole, steady, alone, overlapped>>
  BY DEF StartCapture, Goto, FixtureInv, Rows, fixtureVars
<1>3. Place(p)' /\ ~Writing(p)' /\ ~InProgress(p)' /\ ~Writing(p)
  BY <1>2 DEF Place, Writing, InProgress, OfCapture, OfVerify, FixtureInv
<1>4. FilesInv' /\ AgesInv'
  BY <1>2, FilesStay
<1>5. Proceeds(p) /\ p \notin steady'
  BY <1>1, <1>2, <1>3 DEF Proceeds, FixtureInv, Steady
<1> QED
  BY <1>1, <1>3, <1>4, <1>5, ProceedsKeeps

LEMMA FinishKeeps ==
  ASSUME FixtureInv, NEW p \in Procs, Finish(p)
  PROVE  FixtureInv'
<1>1. CASE End(p)
  BY <1>1, EndKeeps DEF Finish, ProcessStep, CaptureStep
<1>2. CASE Goto(p, "command") /\ UNCHANGED <<doing, rec, seen, at, steady>>
  <2>1. Rows' /\ OthersStay(p)
    BY RowsStay DEF FixtureInv, ProcessStep, CaptureStep
  <2>2. /\ pc[p] = "record" /\ pc'[p] = "command"
        /\ UNCHANGED <<doing, rec, seen, at, file, recording, whole, steady, alone, overlapped>>
    BY <1>2 DEF Finish, Goto, FixtureInv, Rows
  <2>3. Place(p)' /\ ~Writing(p)' /\ ~InProgress(p)' /\ ~Writing(p)
    BY <2>2 DEF Place, Writing, InProgress, OfCapture, OfVerify, FixtureInv
  <2>4. FilesInv' /\ AgesInv'
    BY <2>2, FilesStay
  <2>5. Proceeds(p) /\ p \notin steady'
    BY <2>1, <2>2, <2>3 DEF Proceeds, FixtureInv, Steady, Place, OfCapture
  <2> QED
    BY <2>1, <2>3, <2>4, <2>5, ProceedsKeeps
<1> QED
  BY <1>1, <1>2 DEF Finish

LEMMA StartVerifyKeeps ==
  ASSUME FixtureInv, NEW p \in Procs, StartVerify(p)
  PROVE  FixtureInv'
<1>1. Rows' /\ OthersStay(p)
  BY RowsStay DEF FixtureInv, ProcessStep, VerifyStep
<1>2. /\ pc[p] = "idle" /\ pc'[p] = "load"
      /\ UNCHANGED <<doing, rec, seen, at, file, recording, whole, alone, overlapped>>
      /\ steady' = IF whole # 0 THEN steady \union {p} ELSE steady
  BY DEF StartVerify, Goto, FixtureInv, Rows
<1>3. Place(p)' /\ ~Writing(p)' /\ ~InProgress(p)' /\ ~Writing(p)
  BY <1>2 DEF Place, Writing, InProgress, OfCapture, OfVerify, FixtureInv
<1>4. FilesInv' /\ AgesInv'
  BY <1>2, FilesStay
<1>5. Proceeds(p)
  BY <1>1, <1>2, <1>3 DEF Proceeds
<1>6. p \in steady' => Steady(p)'
  <2>1. p \notin steady
    BY <1>2 DEF FixtureInv, Steady
  <2>2. doing[p] = "verify"
    BY <1>2 DEF FixtureInv, Place, OfVerify
  <2> QED
    BY <1>2, <2>1, <2>2 DEF Steady
<1> QED
  BY <1>1, <1>3, <1>4, <1>5, <1>6, ProceedsKeeps

LEMMA LoadFixtureKeeps ==
  ASSUME FixtureInv, NEW p \in Procs, LoadFixture(p)
  PROVE  FixtureInv'
<1>1. UNCHANGED <<file, recording, whole, alone, overlapped>> /\ pc[p] = "load"
  BY DEF LoadFixture
<1>2. CASE End(p)
  BY <1>1, <1>2, EndKeeps DEF ProcessStep, VerifyStep
<1>3. CASE rec' = [rec EXCEPT ![p] = file["command"].rec] /\ Goto(p, "reopen")
           /\ UNCHANGED <<doing, seen, at, steady>>
  <2>1. Rows' /\ OthersStay(p)
    BY RowsStay DEF FixtureInv, ProcessStep, VerifyStep
  <2>2. pc'[p] = "reopen" /\ rec'[p] = file["command"].rec
    BY <1>3 DEF Goto, FixtureInv, Rows
  <2>3. Place(p) /\ doing[p] = "verify"
    BY <1>1 DEF FixtureInv, Place, OfVerify
  <2>4. Place(p)' /\ ~Writing(p)' /\ ~InProgress(p)' /\ ~Writing(p)
    BY <1>1, <1>3, <2>2, <2>3 DEF Place, Writing, InProgress, OfCapture, OfVerify
  <2>5. FilesInv' /\ AgesInv'
    BY <1>1, FilesStay
  <2>6. Proceeds(p)
    BY <1>1, <1>3, <2>1, <2>4 DEF Proceeds
  <2>7. p \in steady' => Steady(p)'
    <3> SUFFICES ASSUME p \in steady PROVE Steady(p)'
      BY <1>3
    <3>1. whole # 0
      BY DEF FixtureInv, Steady
    <3>2. file["command"].rec = whole
      <4>1. file["command"] = Content(whole, 1, FALSE)
        BY <3>1 DEF FixtureInv, WholeInv
      <4> QED
        BY <4>1 DEF Content
    <3> QED
      BY <1>1, <1>3, <2>2, <2>3, <3>1, <3>2 DEF Steady
  <2> QED
    BY <2>1, <2>4, <2>5, <2>6, <2>7, ProceedsKeeps
<1> QED
  BY <1>2, <1>3 DEF LoadFixture

LEMMA ReadStdoutKeeps ==
  ASSUME FixtureInv, NEW p \in Procs, ReadStdout(p)
  PROVE  FixtureInv'
<1>1. /\ UNCHANGED <<file, recording, whole, steady, alone, overlapped, doing, rec, at>>
      /\ pc[p] = "reopen" /\ Goto(p, "replay") /\ ReadStream(p, "stdout")
  BY DEF ReadStdout, fixtureVars
<1>2. Rows' /\ OthersStay(p)
  BY RowsStay DEF FixtureInv, ProcessStep
<1>3. Place(p) /\ seen[p] = <<>> /\ at[p] = 0
  BY <1>1 DEF FixtureInv, Place
<1>4. pc'[p] = "replay" /\ seen'[p] = <<file["stdout"]>>
  BY <1>1, <1>3 DEF Goto, ReadStream, FixtureInv, Rows
<1>5. /\ Place(p)' /\ Writing(p)' = Writing(p)
      /\ InProgress(p) = Writing(p) /\ InProgress(p)' = Writing(p)
  BY <1>1, <1>3, <1>4 DEF Place, Writing, InProgress, OfCapture, OfVerify
<1>6. FilesInv' /\ AgesInv'
  BY <1>1, FilesStay
<1>7. Proceeds(p)
  BY <1>1, <1>2, <1>5 DEF Proceeds
<1>8. p \in alone /\ InProgress(p)' => Stage(p)'
  <2> SUFFICES ASSUME p \in alone, Writing(p) PROVE Stage(p)'
    BY <1>5
  <2>1. Stage(p)
    BY WriterIsAlone DEF Alone
  <2> QED
    BY <1>1, <1>4, <2>1 DEF Stage, AllOf, StreamsOf
<1>9. p \in steady' => Steady(p)'
  <2> SUFFICES ASSUME p \in steady PROVE Steady(p)'
    BY <1>1
  <2>1. Steady(p)
    BY DEF FixtureInv
  <2>2. file["stdout"] = AllOf(whole, "stdout")
    BY <2>1 DEF FixtureInv, WholeInv, Steady, StreamsOf
  <2> QED
    BY <1>1, <1>4, <2>1, <2>2 DEF Steady, AllOf
<1> QED
  BY <1>2, <1>5, <1>6, <1>7, <1>8, <1>9, ProceedsKeeps

LEMMA ReadStderrKeeps ==
  ASSUME FixtureInv, NEW p \in Procs, ReadStderr(p)
  PROVE  FixtureInv'
<1>1. /\ UNCHANGED <<file, recording, whole, alone, overlapped>>
      /\ pc[p] = "replay"
  BY DEF ReadStderr
<1>2. CASE End(p)
  BY <1>1, <1>2, EndKeeps DEF ProcessStep
<1>3. CASE /\ ReadStream(p, "stderr") /\ UNCHANGED <<doing, rec, at, steady>>
           /\ Goto(p, IF doing[p] = "capture" THEN "promote" ELSE "report")
  <2>1. Rows' /\ OthersStay(p)
    BY RowsStay DEF FixtureInv, ProcessStep
  <2>2. Place(p) /\ at[p] = 0
    BY <1>1 DEF FixtureInv, Place
  <2>3. /\ pc'[p] = (IF doing[p] = "capture" THEN "promote" ELSE "report")
        /\ seen'[p] = Append(seen[p], file["stderr"])
    BY <1>3 DEF Goto, ReadStream, FixtureInv, Rows
  <2>4. CASE doing[p] = "capture"
    <3>1. Writing(p) /\ InProgress(p) /\ pc'[p] = "promote"
      BY <1>1, <2>3, <2>4 DEF Writing, InProgress
    <3>2. Writing(p)' /\ InProgress(p)'
      BY <1>3, <2>4, <3>1 DEF Writing, InProgress
    <3>3. 0 \in 0..(Len(Expected) - 1)
      BY FilesDiffer
    <3>4. Place(p)'
      BY <1>1, <1>3, <2>2, <2>4, <3>1, <3>2, <3>3 DEF Place, OfCapture, OfVerify
    <3>5. FilesInv' /\ AgesInv'
      BY <1>1, <1>3, FilesStay
    <3>6. Proceeds(p)
      BY <1>1, <1>3, <2>1, <3>1, <3>2 DEF Proceeds
    <3>7. p \in alone => Stage(p)'
      <4> SUFFICES ASSUME p \in alone PROVE Stage(p)'
        OBVIOUS
      <4>1. Stage(p)
        BY <3>1, WriterIsAlone DEF Alone
      <4>2. seen'[p] = StreamsOf(rec[p])
        <5>1. seen[p] = <<AllOf(rec[p], "stdout")>> /\ file["stderr"] = AllOf(rec[p], "stderr")
          BY <1>1, <4>1 DEF Stage
        <5> QED
          BY <2>3, <5>1, PairIs DEF StreamsOf
      <4> QED
        BY <1>1, <1>3, <3>1, <4>1, <4>2 DEF Stage, AllOf, StreamsOf
    <3>8. p \notin steady'
      BY <1>3, <2>4 DEF FixtureInv, Steady
    <3> QED
      BY <2>1, <3>4, <3>5, <3>6, <3>7, <3>8, ProceedsKeeps
  <2>5. CASE doing[p] # "capture"
    <3>1. pc'[p] = "report" /\ ~Writing(p) /\ ~Writing(p)' /\ ~InProgress(p)'
      BY <1>3, <2>3, <2>5 DEF Writing, InProgress
    <3>2. p \in steady' => Steady(p)'
      <4> SUFFICES ASSUME p \in steady PROVE Steady(p)'
        BY <1>3
      <4>1. Steady(p)
        BY DEF FixtureInv
      <4>2. <<file["stdout"], file["stderr"]>> = StreamsOf(whole)
        BY <4>1 DEF FixtureInv, WholeInv, Steady
      <4>3. seen'[p] = StreamsOf(whole)
        <5>1. seen[p] = <<AllOf(whole, "stdout")>> /\ file["stderr"] = AllOf(whole, "stderr")
          BY <1>1, <4>1, <4>2 DEF Steady, StreamsOf
        <5> QED
          BY <2>3, <5>1, PairIs DEF StreamsOf
      <4> QED
        BY <1>1, <1>3, <3>1, <4>1, <4>3 DEF Steady, AllOf, StreamsOf
    <3>4. FilesInv' /\ AgesInv'
      BY <1>1, <1>3, FilesStay
    <3>5. Proceeds(p)
      BY <1>1, <1>3, <2>1, <3>1 DEF Proceeds
    <3>6. doing[p] = "verify"
      BY <2>2, <2>5 DEF Place
    <3>7. Place(p)'
      BY <1>1, <1>3, <2>2, <2>5, <3>1, <3>6 DEF Place, OfCapture, OfVerify
    <3> QED
      BY <2>1, <3>1, <3>2, <3>4, <3>5, <3>7, ProceedsKeeps
  <2> QED
    BY <2>4, <2>5
<1> QED
  BY <1>2, <1>3 DEF ReadStderr

-----------------------------------------------------------------------------
(* A capture writes the streams. *)

\* A stream file is written and the capture goes on.
LEMMA StreamWritten ==
  ASSUME FixtureInv, NEW p \in Procs, ProcessStep(p), Writing(p), at[p] = 0, seen[p] = <<>>,
         NEW f \in {"stdout", "stderr"}, NEW content, Put(f, content), content.rec = rec[p],
         UNCHANGED <<recording, whole, steady, alone, overlapped, doing, rec, seen, at>>,
         pc'[p] \in {"openStderr", "write", "flushStderr", "reopen"},
         f = "stderr" /\ p \in alone => file["stdout"].rec = rec[p],
         p \in alone => Stage(p)'
  PROVE  FixtureInv'
<1>1. Rows' /\ OthersStay(p)
  BY RowsStay DEF FixtureInv
<1>2. Place(p) /\ rec[p] \in 1..Len(recording) /\ doing[p] = "capture"
  BY WriterIsAlone
<1>3. Writing(p)' /\ InProgress(p)' /\ InProgress(p)
  BY <1>2 DEF Writing, InProgress
<1>4. Place(p)'
  BY <1>2 DEF Place, OfCapture, OfVerify
<1>5. FilesInv'
  <2>1. f \in Files /\ content.rec \in 0..Len(recording)
    BY <1>2, FilesDiffer
  <2> QED
    BY <2>1, PutKeepsFiles
<1>6. AgesInv'
  <2>1. CASE overlapped
    BY <2>1 DEF AgesInv
  <2>2. CASE ~overlapped
    <3>1. p \in alone /\ Alone(p)
      BY <2>2, WriterIsAlone
    <3> QED
      BY <3>1, AgesWhileWriting
  <2> QED
    BY <2>1, <2>2
<1>7. Proceeds(p)
  BY <1>1, <1>3 DEF Proceeds
<1>8. p \notin steady'
  BY <1>2 DEF FixtureInv, Steady
<1> QED
  BY <1>1, <1>4, <1>5, <1>6, <1>7, <1>8, ProceedsKeeps

\* What a capture that is alone finds, after it has written one of the streams.
LEMMA StageWritten ==
  ASSUME FixtureInv, NEW p \in Procs, Stage(p), at[p] = 0, NEW f \in {"stdout", "stderr"},
         NEW content, Put(f, content), UNCHANGED <<recording, rec, at>>,
         pc'[p] \notin {"replay", "promote"},
         pc'[p] # "openStdout" => file'["stdout"].rec = rec[p],
         pc'[p] \notin {"openStdout", "openStderr"} => file'["stderr"].rec = rec[p],
         pc'[p] \notin {"openStdout", "openStderr", "write"} =>
           file'["stdout"] = AllOf(rec[p], "stdout"),
         pc'[p] \notin {"openStdout", "openStderr", "write", "flushStderr"} =>
           file'["stderr"] = AllOf(rec[p], "stderr")
  PROVE  Stage(p)'
<1>1. file'["command"] = file["command"]
      /\ \A i \in 1..Len(Expected) : file'[Expected[i]] = file[Expected[i]]
  BY PutIs, FilesDiffer DEF FixtureInv
<1>2. /\ file["command"] = Content(rec[p], 1, FALSE)
      /\ \A i \in 1..Len(Expected) : file[Expected[i]].rec < rec[p]
  BY FilesDiffer DEF Stage
<1>3. \A i \in 1..Len(Expected) : ~(i <= at'[p])
  BY FilesDiffer
<1> QED
  BY <1>1, <1>2, <1>3 DEF Stage, AllOf

LEMMA OpenStdoutKeeps ==
  ASSUME FixtureInv, NEW p \in Procs, OpenStdout(p)
  PROVE  FixtureInv'
<1> DEFINE content == Content(rec[p], 0, FALSE)
<1>1. /\ pc[p] = "openStdout" /\ Put("stdout", content) /\ content.rec = rec[p]
      /\ UNCHANGED <<recording, whole, steady, alone, overlapped, doing, rec, seen, at>>
  BY DEF OpenStdout, Content
<1> HIDE DEF content
<1>2. Place(p) /\ at[p] = 0 /\ seen[p] = <<>> /\ doing[p] = "capture"
  BY <1>1 DEF FixtureInv, Place, OfCapture
<1>3. pc'[p] = "openStderr"
  BY DEF OpenStdout, Goto, FixtureInv, Rows
<1>4. Writing(p)
  BY <1>1, <1>2 DEF Writing
<1>5. p \in alone => Stage(p)'
  <2>1. p \in alone => Stage(p)
    BY <1>4, WriterIsAlone DEF Alone
  <2>2. file'["stdout"].rec = rec[p]
    BY <1>1, PutIs, FilesDiffer DEF FixtureInv
  <2> QED
    BY <1>1, <1>2, <1>3, <2>1, <2>2, StageWritten
<1>6. ProcessStep(p)
  BY DEF ProcessStep, CaptureStep
<1> QED
  BY <1>1, <1>2, <1>3, <1>4, <1>5, <1>6, StreamWritten

LEMMA OpenStderrKeeps ==
  ASSUME FixtureInv, NEW p \in Procs, OpenStderr(p)
  PROVE  FixtureInv'
<1> DEFINE content == Content(rec[p], 0, FALSE)
<1>1. /\ pc[p] = "openStderr" /\ Put("stderr", content) /\ content.rec = rec[p]
      /\ UNCHANGED <<recording, whole, steady, alone, overlapped, doing, rec, seen, at>>
  BY DEF OpenStderr, Content
<1> HIDE DEF content
<1>2. Place(p) /\ at[p] = 0 /\ seen[p] = <<>> /\ doing[p] = "capture"
  BY <1>1 DEF FixtureInv, Place, OfCapture
<1>3. pc'[p] = "write"
  BY DEF OpenStderr, Goto, FixtureInv, Rows
<1>4. Writing(p)
  BY <1>1, <1>2 DEF Writing
<1>5. p \in alone => Stage(p)' /\ file["stdout"].rec = rec[p]
  <2> SUFFICES ASSUME p \in alone PROVE Stage(p)' /\ file["stdout"].rec = rec[p]
    OBVIOUS
  <2>1. Stage(p) /\ file["stdout"].rec = rec[p]
    BY <1>1, <1>4, WriterIsAlone DEF Alone, Stage
  <2>2. file'["stderr"].rec = rec[p] /\ file'["stdout"] = file["stdout"]
    BY <1>1, PutIs, FilesDiffer DEF FixtureInv
  <2> QED
    BY <1>1, <1>2, <1>3, <2>1, <2>2, StageWritten
<1>6. ProcessStep(p)
  BY DEF ProcessStep, CaptureStep
<1> QED
  BY <1>1, <1>2, <1>3, <1>4, <1>5, <1>6, StreamWritten

LEMMA SpillKeeps ==
  ASSUME FixtureInv, NEW p \in Procs, NEW s \in Streams, Spill(p, s)
  PROVE  FixtureInv'
<1>1. PICK k \in Int, torn \in BOOLEAN : Put(s, Content(rec[p], k, torn))
  <2>1. PICK k \in file[s].size..Cardinality(recording[rec[p]][s]), torn \in BOOLEAN :
          Put(s, Content(rec[p], k, torn))
    BY DEF Spill
  <2> QED
    BY <2>1
<1> DEFINE content == Content(rec[p], k, torn)
<1>2. Put(s, content) /\ content.rec = rec[p] /\ s \in {"stdout", "stderr"}
  BY <1>1 DEF Content, Streams
<1> HIDE DEF content
<1>3. /\ pc[p] = "write" /\ pc' = pc
      /\ UNCHANGED <<recording, whole, steady, alone, overlapped, doing, rec, seen, at>>
  BY DEF Spill, procVars
<1>4. Place(p) /\ at[p] = 0 /\ seen[p] = <<>> /\ doing[p] = "capture"
  BY <1>3 DEF FixtureInv, Place, OfCapture
<1>5. Writing(p)
  BY <1>3, <1>4 DEF Writing
<1>6. p \in alone => Stage(p)' /\ file["stdout"].rec = rec[p]
  <2> SUFFICES ASSUME p \in alone PROVE Stage(p)' /\ file["stdout"].rec = rec[p]
    OBVIOUS
  <2>1. Stage(p) /\ file["stdout"].rec = rec[p] /\ file["stderr"].rec = rec[p]
    BY <1>3, <1>5, WriterIsAlone DEF Alone, Stage
  <2>2. /\ file'[s].rec = rec[p]
        /\ \A g \in {"stdout", "stderr"} : g # s => file'[g] = file[g]
    BY <1>2, PutIs, FilesDiffer DEF FixtureInv
  <2>3. file'["stdout"].rec = rec[p] /\ file'["stderr"].rec = rec[p]
    BY <1>2, <2>1, <2>2
  <2> QED
    BY <1>2, <1>3, <1>4, <2>1, <2>3, StageWritten
<1>7. ProcessStep(p)
  BY DEF ProcessStep, CaptureStep
<1> QED
  BY <1>2, <1>3, <1>4, <1>5, <1>6, <1>7, StreamWritten

LEMMA FlushStdoutKeeps ==
  ASSUME FixtureInv, NEW p \in Procs, FlushStdout(p)
  PROVE  FixtureInv'
<1>1. pc[p] = "write" /\ UNCHANGED <<recording, whole, alone, overlapped>> /\ ProcessStep(p)
  BY DEF FlushStdout, ProcessStep, CaptureStep
<1>2. CASE End(p) /\ UNCHANGED file
  BY <1>1, <1>2, EndKeeps
<1>3. CASE /\ Put("stdout", AllOf(rec[p], "stdout")) /\ Goto(p, "flushStderr")
           /\ UNCHANGED <<doing, rec, seen, at, steady>>
  <2> DEFINE content == AllOf(rec[p], "stdout")
  <2>1. Put("stdout", content) /\ content.rec = rec[p]
    BY <1>3 DEF AllOf, Content
  <2>2. content = AllOf(rec[p], "stdout")
    OBVIOUS
  <2> HIDE DEF content
  <2>3. Place(p) /\ at[p] = 0 /\ seen[p] = <<>> /\ doing[p] = "capture"
    BY <1>1 DEF FixtureInv, Place, OfCapture
  <2>4. pc'[p] = "flushStderr"
    BY <1>3 DEF Goto, FixtureInv, Rows
  <2>5. Writing(p)
    BY <1>1, <2>3 DEF Writing
  <2>6. p \in alone => Stage(p)'
    <3> SUFFICES ASSUME p \in alone PROVE Stage(p)'
      OBVIOUS
    <3>1. Stage(p) /\ file["stderr"].rec = rec[p]
      BY <1>1, <2>5, WriterIsAlone DEF Alone, Stage
    <3>2. file'["stdout"] = content /\ file'["stderr"] = file["stderr"]
      BY <2>1, PutIs, FilesDiffer DEF FixtureInv
    <3> QED
      BY <1>1, <1>3, <2>1, <2>2, <2>3, <2>4, <3>1, <3>2, StageWritten
  <2> QED
    BY <1>1, <1>3, <2>1, <2>3, <2>4, <2>5, <2>6, StreamWritten
<1> QED
  BY <1>2, <1>3 DEF FlushStdout

LEMMA FlushStderrKeeps ==
  ASSUME FixtureInv, NEW p \in Procs, FlushStderr(p)
  PROVE  FixtureInv'
<1> DEFINE content == AllOf(rec[p], "stderr")
<1>1. /\ pc[p] = "flushStderr" /\ Put("stderr", content) /\ content.rec = rec[p]
      /\ UNCHANGED <<recording, whole, steady, alone, overlapped, doing, rec, seen, at>>
  BY DEF FlushStderr, AllOf, Content
<1>2. content = AllOf(rec[p], "stderr")
  OBVIOUS
<1> HIDE DEF content
<1>3. Place(p) /\ at[p] = 0 /\ seen[p] = <<>> /\ doing[p] = "capture"
  BY <1>1 DEF FixtureInv, Place, OfCapture
<1>4. pc'[p] = "reopen"
  BY DEF FlushStderr, Goto, FixtureInv, Rows
<1>5. Writing(p)
  BY <1>1, <1>3 DEF Writing
<1>6. p \in alone => Stage(p)' /\ file["stdout"].rec = rec[p]
  <2> SUFFICES ASSUME p \in alone PROVE Stage(p)' /\ file["stdout"].rec = rec[p]
    OBVIOUS
  <2>1. Stage(p) /\ file["stdout"].rec = rec[p] /\ file["stdout"] = AllOf(rec[p], "stdout")
    BY <1>1, <1>5, WriterIsAlone DEF Alone, Stage
  <2>2. file'["stderr"] = content /\ file'["stdout"] = file["stdout"]
    BY <1>1, PutIs, FilesDiffer DEF FixtureInv
  <2> QED
    BY <1>1, <1>2, <1>3, <1>4, <2>1, <2>2, StageWritten
<1>7. ProcessStep(p)
  BY DEF ProcessStep, CaptureStep
<1> QED
  BY <1>1, <1>3, <1>4, <1>5, <1>6, <1>7, StreamWritten

-----------------------------------------------------------------------------
(* A capture promotes the expectations and ends. *)

\* Of a capture that is alone, and has promoted some expectations, the files are
\* as old as they should be, if those it has not promoted were so before.
LEMMA StageHasAges ==
  ASSUME FixtureInv, AgesInv, NEW p \in Procs, Alone(p), pc[p] = "promote",
         rec[p] \in 1..Len(recording), NEW i \in 1..Len(Expected), i = at[p] + 1,
         Put(Expected[i], Replayed(rec[p], StreamsOf(rec[p]))), at[p] \in Nat,
         UNCHANGED <<recording, overlapped>>
  PROVE  AgesInv'
<1> DEFINE new == Replayed(rec[p], StreamsOf(rec[p]))
<1>1. /\ file'[Expected[i]] = new
      /\ \A g \in Files \ {Expected[i]} : file'[g] = file[g]
  BY PutIs, FilesDiffer DEF FixtureInv
<1>2. new.rec = rec[p] /\ new.from = StreamsOf(rec[p])
  BY ReplayedIs
<1>3. /\ file["command"].rec = rec[p] /\ file["stdout"].rec = rec[p] /\ file["stderr"].rec = rec[p]
      /\ <<file["stdout"], file["stderr"]>> = StreamsOf(rec[p])
  BY DEF Alone, Stage, Content, StreamsOf
<1>4. \A j \in 1..Len(Expected) : IF j <= at[p] THEN file[Expected[j]] = new
                                                ELSE file[Expected[j]].rec < rec[p]
  BY DEF Alone, Stage
<1> HIDE DEF new
<1>5. /\ file'["command"] = file["command"] /\ file'["stdout"] = file["stdout"]
      /\ file'["stderr"] = file["stderr"]
      /\ \A j \in 1..Len(Expected) : j # i => file'[Expected[j]] = file[Expected[j]]
  BY <1>1, FilesDiffer
<1>6. \A j \in 1..Len(Expected) :
        IF j <= i THEN file'[Expected[j]] = new
        ELSE file'[Expected[j]] = file[Expected[j]] /\ file[Expected[j]].rec < rec[p]
  BY <1>1, <1>4, <1>5
<1>7. rec[p] = Len(recording) /\ rec[p] \in Nat /\ \A r : StreamsOf(r)' = StreamsOf(r)
  BY ElementIs DEF Alone, StreamsOf, AllOf, FixtureInv, FilesInv
<1>8. \A j \in 1..Len(Expected) : file[Expected[j]].rec \in Nat
  BY FilesDiffer, <1>7 DEF FixtureInv, FilesInv
<1> SUFFICES ASSUME ~overlapped PROVE AgesInv'
  BY DEF AgesInv
<1>9. file'["command"].rec = Len(recording') /\ file'["stdout"].rec >= file'["stderr"].rec
  BY <1>3, <1>5, <1>7
<1>10. ASSUME NEW j \in 1..Len(Expected)
       PROVE  /\ file'["stderr"].rec >= file'[Expected[j]].rec
              /\ \A k \in 1..Len(Expected) :
                   j < k => file'[Expected[j]].rec >= file'[Expected[k]].rec
              /\ file'[Expected[j]].rec # 0 =>
                   /\ file'[Expected[j]].from = StreamsOf(file'[Expected[j]].rec)
                   /\ file'[Expected[j]].rec = file'["stdout"].rec =>
                        file'[Expected[j]].from = <<file'["stdout"], file'["stderr"]>>
  <2>1. CASE j <= i
    <3>1. /\ file'[Expected[j]] = new /\ file'["stdout"].rec = rec[p] /\ file'["stderr"].rec = rec[p]
          /\ <<file'["stdout"], file'["stderr"]>> = StreamsOf(rec[p])
      BY <1>3, <1>5, <1>6, <2>1
    <3>2. \A k \in 1..Len(Expected) : file'[Expected[k]].rec \in Nat /\ file'[Expected[k]].rec <= rec[p]
      BY <1>2, <1>6, <1>7, <1>8
    <3> QED
      BY <1>2, <1>7, <3>1, <3>2
  <2>2. CASE ~(j <= i)
    <3>1. /\ file'[Expected[j]] = file[Expected[j]] /\ file[Expected[j]].rec < rec[p]
          /\ \A k \in 1..Len(Expected) : j < k => file'[Expected[k]] = file[Expected[k]]
      BY <1>6, <2>2
    <3>2. /\ \A k \in 1..Len(Expected) :
               j < k => file[Expected[j]].rec >= file[Expected[k]].rec
          /\ file[Expected[j]].rec # 0 => file[Expected[j]].from = StreamsOf(file[Expected[j]].rec)
      BY DEF AgesInv
    <3> QED
      BY SMTT(30), <1>3, <1>5, <1>7, <1>8, <3>1, <3>2
  <2> QED
    BY <2>1, <2>2
<1> QED
  BY <1>7, <1>9, <1>10 DEF AgesInv

LEMMA PromoteKeeps ==
  ASSUME FixtureInv, NEW p \in Procs, Promote(p)
  PROVE  FixtureInv'
<1>1. /\ pc[p] = "promote" /\ Put(Expected[at[p] + 1], Replayed(rec[p], seen[p]))
      /\ UNCHANGED <<recording, whole, steady, alone, overlapped, doing, rec, seen>>
  BY DEF Promote
<1>2. Rows' /\ OthersStay(p)
  BY RowsStay DEF FixtureInv, ProcessStep, CaptureStep
<1>3. Place(p) /\ doing[p] = "capture" /\ at[p] \in 0..(Len(Expected) - 1)
  BY <1>1 DEF FixtureInv, Place, OfCapture
<1>4. Writing(p) /\ InProgress(p) /\ rec[p] \in 1..Len(recording)
  BY <1>1, <1>3, WriterIsAlone DEF Writing, InProgress
<1>5. PICK i \in 1..Len(Expected) : i = at[p] + 1
  BY <1>3, FilesDiffer
<1>6. /\ at'[p] = i
      /\ pc'[p] = (IF i = Len(Expected) THEN "stat" ELSE "promote")
  BY <1>5 DEF Promote, Goto, FixtureInv, Rows
<1>7. InProgress(p)'
  BY <1>1, <1>3, <1>6 DEF Writing, InProgress
<1>8. Place(p)'
  <2>1. CASE i = Len(Expected)
    BY <1>1, <1>3, <1>4, <1>6, <2>1 DEF Place, OfCapture, OfVerify
  <2>2. CASE i # Len(Expected)
    BY <1>1, <1>3, <1>4, <1>5, <1>6, <2>2, FilesDiffer DEF Place, OfCapture, OfVerify
  <2> QED
    BY <2>1, <2>2
<1> DEFINE new == Replayed(rec[p], seen[p])
<1>9. Put(Expected[i], new) /\ new.rec = rec[p] /\ Expected[i] \in Files
  BY <1>1, <1>5, ReplayedIs, FilesDiffer
<1>10. FilesInv'
  <2> HIDE DEF new
  <2>1. new.rec \in 0..Len(recording)
    BY <1>4, <1>9
  <2> QED
    BY <1>1, <1>9, <2>1, PutKeepsFiles
<1>11. p \in alone => Alone(p) /\ new = Replayed(rec[p], StreamsOf(rec[p]))
  BY <1>1, <1>4, WriterIsAlone DEF Alone, Stage
<1>12. AgesInv'
  <2>1. CASE overlapped
    BY <1>1, <2>1 DEF AgesInv
  <2>2. CASE ~overlapped
    <3>1. p \in alone
      BY <1>4, <2>2, WriterIsAlone
    <3>2. AgesInv /\ at[p] \in Nat
      BY <1>3 DEF FixtureInv
    <3> QED
      BY <1>1, <1>4, <1>5, <1>9, <1>11, <3>1, <3>2, StageHasAges
  <2> QED
    BY <2>1, <2>2
<1>13. Proceeds(p)
  <2>1. Writing(p)' => Writing(p)
    BY <1>4
  <2> QED
    BY <1>1, <1>2, <1>4, <2>1 DEF Proceeds
<1>14. p \in alone => Stage(p)'
  <2> SUFFICES ASSUME p \in alone PROVE Stage(p)'
    OBVIOUS
  <2>1. Stage(p) /\ new = Replayed(rec[p], StreamsOf(rec[p]))
    BY <1>11 DEF Alone
  <2> HIDE DEF new
  <2>2. /\ file'["command"] = file["command"] /\ file'["stdout"] = file["stdout"]
        /\ file'["stderr"] = file["stderr"] /\ file'[Expected[i]] = new
        /\ \A j \in 1..Len(Expected) : j # i => file'[Expected[j]] = file[Expected[j]]
    BY <1>9, PutIs, FilesDiffer DEF FixtureInv
  <2>3. /\ file["command"] = Content(rec[p], 1, FALSE)
        /\ file["stdout"].rec = rec[p] /\ file["stderr"].rec = rec[p]
        /\ file["stdout"] = AllOf(rec[p], "stdout") /\ file["stderr"] = AllOf(rec[p], "stderr")
        /\ seen[p] = StreamsOf(rec[p])
    BY <1>1, <2>1 DEF Stage
  <2>4. \A j \in 1..Len(Expected) :
          IF j <= i THEN file'[Expected[j]] = new ELSE file'[Expected[j]].rec < rec[p]
    <3>1. \A j \in 1..Len(Expected) : IF j <= at[p] THEN file[Expected[j]] = new
                                                    ELSE file[Expected[j]].rec < rec[p]
      BY <2>1 DEF Stage
    <3> QED
      BY <1>3, <1>5, <2>2, <3>1
  <2>5. rec' = rec /\ seen' = seen /\ \A r : StreamsOf(r)' = StreamsOf(r) /\ AllOf(r, "stdout")' = AllOf(r, "stdout")
        /\ AllOf(r, "stderr")' = AllOf(r, "stderr")
    BY <1>1 DEF StreamsOf, AllOf
  <2>6. pc'[p] # "replay"
    BY <1>6
  <2> QED
    BY <1>6, <2>1, <2>2, <2>3, <2>4, <2>5, <2>6 DEF Stage
<1>15. p \notin steady'
  BY <1>1, <1>3 DEF FixtureInv, Steady
<1> QED
  BY <1>2, <1>8, <1>10, <1>12, <1>13, <1>14, <1>15, ProceedsKeeps

LEMMA SucceedKeeps ==
  ASSUME FixtureInv, NEW p \in Procs, Succeed(p)
  PROVE  FixtureInv'
<1>1. /\ pc[p] = "stat" /\ End(p) /\ ProcessStep(p)
      /\ whole' = IF p \in alone THEN rec[p] ELSE whole
      /\ UNCHANGED <<file, recording, alone, overlapped>>
  BY DEF Succeed, ProcessStep, CaptureStep
<1>2. CASE p \notin alone
  BY <1>1, <1>2, EndKeeps
<1>3. CASE p \in alone
  <2>1. Rows' /\ OthersStay(p)
    BY <1>1, RowsStay DEF FixtureInv
  <2>2. Place(p) /\ rec[p] \in 1..Len(recording) /\ InProgress(p) /\ at[p] = Len(Expected)
    BY <1>1 DEF FixtureInv, Place, InProgress
  <2>3. Alone(p)
    BY <1>3, <2>2 DEF FixtureInv, AloneInv
  <2>4. /\ pc'[p] = "idle" /\ doing'[p] = "verify" /\ rec'[p] = 0 /\ seen'[p] = <<>>
        /\ at'[p] = 0 /\ steady' = steady \ {p}
    BY <1>1 DEF End, EndWith, Goto, FixtureInv, Rows
  <2>5. Place(p)' /\ ~Writing(p)' /\ ~InProgress(p)'
    BY <2>4 DEF Place, Writing, InProgress, OfCapture, OfVerify
  <2>6. \A q \in Procs : Place(q)' /\ ~Writing(q)'
    BY <1>1, <2>1, <2>3, <2>5, OthersProceed DEF FixtureInv, Alone
  <2>7. FilesInv' /\ AgesInv'
    <3>1. whole' \in 0..Len(recording)
      BY <1>1, <1>3, <2>2
    <3>2. FilesInv'
      BY <1>1, <3>1 DEF FixtureInv, FilesInv
    <3>3. AgesInv'
      BY <1>1 DEF FixtureInv, AgesInv, StreamsOf, AllOf
    <3> QED
      BY <3>2, <3>3
  <2>8. AloneInv'
    <3>1. \A q, r \in alone' : q = r
      BY <1>1 DEF FixtureInv, AloneInv
    <3>2. \A q \in alone' : ~InProgress(q)'
      BY <1>1, <1>3, <2>5 DEF FixtureInv, AloneInv
    <3> QED
      BY <2>6, <3>1, <3>2 DEF AloneInv
  <2>9. WholeInv'
    <3>1. whole' = rec[p] /\ Stage(p)
      BY <1>1, <1>3, <2>3 DEF Alone
    <3>2. /\ file["command"] = Content(rec[p], 1, FALSE)
          /\ <<file["stdout"], file["stderr"]>> = StreamsOf(rec[p])
          /\ \A i \in 1..Len(Expected) : file[Expected[i]] = Replayed(rec[p], StreamsOf(rec[p]))
      BY <1>1, <2>2, <3>1 DEF Stage, StreamsOf
    <3>3. \A r : StreamsOf(r)' = StreamsOf(r)
      BY <1>1 DEF StreamsOf, AllOf
    <3> QED
      BY <1>1, <2>6, <3>1, <3>2, <3>3 DEF WholeInv
  <2>10. steady' = {}
    BY <2>3, <2>4 DEF FixtureInv, Steady, Alone
  <2> QED
    BY <2>1, <2>6, <2>7, <2>8, <2>9, <2>10 DEF FixtureInv
<1> QED
  BY <1>2, <1>3

-----------------------------------------------------------------------------
(* A capture begins to write. *)

\* The new recording is the last one; the others are what they were.
LEMMA RecordingAdded ==
  ASSUME RecordingInv, FilesInv, recording' = Append(recording, Events)
  PROVE  /\ recording' \in Seq([Streams -> SUBSET Nat])
         /\ Len(recording) \in Nat /\ Len(recording') = Len(recording) + 1
         /\ \A r \in 1..Len(recording) : StreamsOf(r)' = StreamsOf(r)
<1>1. Events \in [Streams -> SUBSET Nat]
  <2>1. ASSUME NEW s \in Streams, NEW i \in DOMAIN staged[s] PROVE staged[s][i].seq \in Nat
    <3> DEFINE E == [seq : Nat, record : Nat]
    <3>1. staged[s] \in Seq(E)
      BY DEF RecordingInv, RecorderTypes
    <3> HIDE DEF E
    <3>2. staged[s][i] \in E
      BY <3>1, ElementIs
    <3> QED
      BY <3>2 DEF E
  <2> QED
    BY <2>1 DEF Events
<1> DEFINE T == [Streams -> SUBSET Nat]
<1>2. recording \in Seq(T) /\ Events \in T
  BY <1>1 DEF FilesInv
<1> HIDE DEF T
<1>3. /\ Append(recording, Events) \in Seq(T) /\ Len(recording) \in Nat
      /\ Len(Append(recording, Events)) = Len(recording) + 1
      /\ \A i \in 1..Len(recording) : Append(recording, Events)[i] = recording[i]
  BY <1>2, AppendIs
<1>4. \A r \in 1..Len(recording) : recording'[r] = recording[r]
  BY <1>3
<1>5. \A r \in 1..Len(recording) : StreamsOf(r)' = StreamsOf(r)
  BY <1>4 DEF StreamsOf, AllOf
<1> QED
  BY <1>3, <1>5 DEF T

LEMMA BeginKeeps ==
  ASSUME RecordingInv, FixtureInv, NEW p \in Procs, ProcessStep(p), BeginWriting(p),
         NEW content, Put("command", content), content.rec = Len(recording) + 1,
         steady' = {}, Place(p)',
         InProgress(p)' => /\ pc'[p] = "openStdout" /\ rec'[p] = Len(recording) + 1 /\ at'[p] = 0
                           /\ content = Content(Len(recording) + 1, 1, FALSE)
  PROVE  FixtureInv'
<1>1. Rows' /\ OthersStay(p)
  BY RowsStay DEF FixtureInv
<1>2. /\ recording' \in Seq([Streams -> SUBSET Nat])
      /\ Len(recording) \in Nat /\ Len(recording') = Len(recording) + 1
      /\ \A r \in 1..Len(recording) : StreamsOf(r)' = StreamsOf(r)
  BY RecordingAdded DEF FixtureInv, BeginWriting
<1>3. whole' = 0
  BY DEF BeginWriting
<1>4. /\ file' = [g \in Files |-> file'[g]] /\ file'["command"] = content
      /\ \A g \in Files \ {"command"} : file'[g] = file[g]
  BY PutIs, FilesDiffer DEF FixtureInv
<1>5. \A g \in Files : file[g].rec \in 0..Len(recording)
  BY DEF FixtureInv, FilesInv
<1>6. \A q \in Procs \ {p} : Writing(q)' = Writing(q) /\ InProgress(q)' = InProgress(q) /\ rec'[q] = rec[q]
  BY <1>1 DEF OthersStay, Writing, InProgress
<1>7. \A q \in Procs : Place(q)'
  <2>1. ASSUME NEW q \in Procs \ {p} PROVE Place(q)'
    <3>1. Place(q) /\ (InProgress(q)' => rec'[q] \in 1..Len(recording'))
      BY <1>2, <1>6 DEF FixtureInv, Place
    <3> QED
      BY <1>1, <3>1 DEF Place, OthersStay
  <2> QED
    BY <2>1
<1>8. FilesInv'
  <2>1. \A g \in Files : file'[g].rec \in 0..Len(recording')
    BY <1>2, <1>4, <1>5
  <2> QED
    BY <1>2, <1>3, <1>4, <2>1 DEF FilesInv
<1>9. AloneInv'
  <2>1. /\ alone' = IF {q \in Procs \ {p} : Writing(q)} = {} THEN {p} ELSE {}
        /\ overlapped' = (overlapped \/ {q \in Procs \ {p} : Writing(q)} # {})
    BY DEF BeginWriting
  <2>2. \A q, r \in alone' : q = r
    BY <2>1
  <2>3. ASSUME NEW q \in Procs, Writing(q)' PROVE overlapped' \/ q \in alone'
    BY <1>6, <2>1, <2>3
  <2>4. ASSUME NEW q \in alone' \intersect Procs, InProgress(q)' PROVE Alone(q)'
    <3>1. q = p /\ \A r \in Procs \ {p} : ~Writing(r)
      BY <2>1, <2>4
    <3>2. /\ pc'[p] = "openStdout" /\ rec'[p] = Len(recording) + 1 /\ at'[p] = 0
          /\ content = Content(Len(recording) + 1, 1, FALSE)
      BY <2>4, <3>1
    <3>3. \A i \in 1..Len(Expected) : file'[Expected[i]].rec < rec'[p] /\ ~(i <= at'[p])
      BY <1>2, <1>4, <1>5, <3>2, FilesDiffer
    <3>4. Stage(p)'
      BY <1>4, <3>2, <3>3 DEF Stage
    <3> QED
      BY <1>2, <1>3, <1>6, <3>1, <3>2, <3>4 DEF Alone
  <2> QED
    BY <2>2, <2>3, <2>4 DEF AloneInv
<1>10. AgesInv'
  <2> SUFFICES ASSUME ~overlapped' PROVE AgesInv'
    BY DEF AgesInv
  <2>1. AgesInv /\ ~overlapped
    BY DEF BeginWriting, FixtureInv
  <2>2. /\ file'["command"].rec = Len(recording')
        /\ file'["stdout"] = file["stdout"] /\ file'["stderr"] = file["stderr"]
        /\ \A i \in 1..Len(Expected) : file'[Expected[i]] = file[Expected[i]]
    BY <1>2, <1>4, FilesDiffer
  <2>3. /\ file["stdout"].rec >= file["stderr"].rec
        /\ \A i \in 1..Len(Expected) :
             /\ file["stderr"].rec >= file[Expected[i]].rec
             /\ \A j \in 1..Len(Expected) :
                  i < j => file[Expected[i]].rec >= file[Expected[j]].rec
             /\ file[Expected[i]].rec # 0 =>
                  /\ file[Expected[i]].from = StreamsOf(file[Expected[i]].rec)
                  /\ file[Expected[i]].rec = file["stdout"].rec =>
                       file[Expected[i]].from = <<file["stdout"], file["stderr"]>>
    BY <2>1 DEF AgesInv
  <2>4. ASSUME NEW i \in 1..Len(Expected), file[Expected[i]].rec # 0
        PROVE  (file[Expected[i]].from = StreamsOf(file[Expected[i]].rec))'
    <3>1. PICK r \in 1..Len(recording) : r = file[Expected[i]].rec
      BY <1>2, <1>5, <2>4, FilesDiffer
    <3>2. file[Expected[i]].from = StreamsOf(r) /\ StreamsOf(r)' = StreamsOf(r)
      BY <1>2, <2>3, <2>4, <3>1
    <3>3. file'[Expected[i]].from = file[Expected[i]].from /\ file'[Expected[i]].rec = r
      BY <2>2, <3>1
    <3> QED
      BY <3>2, <3>3 DEF StreamsOf, AllOf
  <2> QED
    BY <2>2, <2>3, <2>4 DEF AgesInv
<1>11. WholeInv'
  BY <1>3 DEF WholeInv
<1> QED
  BY <1>1, <1>7, <1>8, <1>9, <1>10, <1>11 DEF FixtureInv

LEMMA WriteCommandKeeps ==
  ASSUME RecordingInv, FixtureInv, NEW p \in Procs, WriteCommand(p)
  PROVE  FixtureInv'
<1> DEFINE content == Content(Len(recording) + 1, 1, FALSE)
<1>1. /\ pc[p] = "command" /\ Put("command", content) /\ content.rec = Len(recording) + 1
      /\ BeginWriting(p) /\ steady' = {} /\ UNCHANGED <<doing, seen, at>>
  BY DEF WriteCommand, Content
<1>2. content = Content(Len(recording) + 1, 1, FALSE)
  OBVIOUS
<1> HIDE DEF content
<1>3. Place(p) /\ doing[p] = "capture" /\ at[p] = 0 /\ seen[p] = <<>>
  BY <1>1 DEF FixtureInv, Place, OfCapture
<1>4. pc'[p] = "openStdout" /\ rec'[p] = Len(recording) + 1
  BY DEF WriteCommand, Goto, FixtureInv, Rows
<1>5. Len(recording) \in Nat /\ Len(recording') = Len(recording) + 1
  BY <1>1, RecordingAdded DEF FixtureInv, BeginWriting
<1>6. Place(p)'
  BY <1>1, <1>3, <1>4, <1>5 DEF Place, OfCapture, OfVerify
<1>7. ProcessStep(p)
  BY DEF ProcessStep, CaptureStep
<1>8. InProgress(p)' => /\ pc'[p] = "openStdout" /\ rec'[p] = Len(recording) + 1 /\ at'[p] = 0
                        /\ content = Content(Len(recording) + 1, 1, FALSE)
  BY <1>1, <1>2, <1>3, <1>4
<1> QED
  BY <1>1, <1>6, <1>7, <1>8, BeginKeeps

LEMMA BreaksKeeps ==
  ASSUME RecordingInv, FixtureInv, NEW p \in Procs, Breaks(p)
  PROVE  FixtureInv'
<1>1. ProcessStep(p) /\ EndWith(p, IF recording' = recording THEN steady \ {p} ELSE {})
  BY DEF ProcessStep, Breaks
<1>2. CASE UNCHANGED <<file, recording, whole, alone, overlapped>>
  BY <1>1, <1>2, EndKeeps DEF End
<1>3. CASE /\ BeginWriting(p)
           /\ \E torn \in BOOLEAN : Put("command", Content(Len(recording) + 1, 0, torn))
  <2>1. PICK torn \in BOOLEAN : Put("command", Content(Len(recording) + 1, 0, torn))
    BY <1>3
  <2> DEFINE content == Content(Len(recording) + 1, 0, torn)
  <2>2. Put("command", content) /\ content.rec = Len(recording) + 1
    BY <2>1 DEF Content
  <2> HIDE DEF content
  <2>3. Len(recording) \in Nat /\ Len(recording') = Len(recording) + 1
    BY <1>3, RecordingAdded DEF FixtureInv, BeginWriting
  <2>4. recording' # recording
    BY <2>3
  <2>5. /\ pc'[p] = "idle" /\ doing'[p] = "verify" /\ rec'[p] = 0 /\ seen'[p] = <<>>
        /\ at'[p] = 0 /\ steady' = {}
    BY <1>1, <2>4 DEF EndWith, Goto, FixtureInv, Rows
  <2>6. Place(p)' /\ ~InProgress(p)'
    BY <2>5 DEF Place, Writing, InProgress, OfCapture, OfVerify
  <2> QED
    BY <1>1, <1>3, <2>2, <2>5, <2>6, BeginKeeps
<1> QED
  BY <1>2, <1>3 DEF Breaks

LEMMA ProcessKeepsFixture ==
  ASSUME RecordingInv, FixtureInv, NEW p \in Procs, ProcessStep(p)
  PROVE  FixtureInv'
<1>1. CASE CaptureStep(p)
  BY <1>1, StartCaptureKeeps, FinishKeeps, WriteCommandKeeps, OpenStdoutKeeps, OpenStderrKeeps,
     SpillKeeps, FlushStdoutKeeps, FlushStderrKeeps, PromoteKeeps, SucceedKeeps DEF CaptureStep
<1>2. CASE Report(p)
  BY <1>2, EndKeeps DEF Report, ProcessStep, VerifyStep
<1>3. CASE VerifyStep(p)
  BY <1>2, <1>3, StartVerifyKeeps, LoadFixtureKeeps DEF VerifyStep
<1>4. CASE ReadStdout(p) \/ ReadStderr(p) \/ Breaks(p)
  BY <1>4, ReadStdoutKeeps, ReadStderrKeeps, BreaksKeeps
<1> QED
  BY <1>1, <1>3, <1>4 DEF ProcessStep

LEMMA FixtureStays ==
  ASSUME FixtureInv, UNCHANGED <<fixtureVars, procVars>>
  PROVE  FixtureInv'
<1>1. UNCHANGED <<file, recording, whole, steady, alone, overlapped, pc, doing, rec, seen, at>>
  BY DEF fixtureVars, procVars
<1>2. Rows' /\ \A p \in Procs : Place(p)'
  BY <1>1 DEF FixtureInv, Rows, Place, InProgress, Writing
<1>3. FilesInv' /\ AgesInv'
  BY <1>1, FilesStay
<1>4. \A p : Writing(p)' = Writing(p) /\ InProgress(p)' = InProgress(p) /\ Stage(p)' = Stage(p)
  BY <1>1 DEF Writing, InProgress, Stage, StreamsOf, AllOf
<1>5. AloneInv'
  BY <1>1, <1>4 DEF FixtureInv, AloneInv, Alone
<1>6. WholeInv'
  BY <1>1, <1>4 DEF FixtureInv, WholeInv, StreamsOf, AllOf
<1>7. steady' \subseteq Procs /\ \A p \in steady' : Steady(p)'
  BY <1>1 DEF FixtureInv, Steady, StreamsOf, AllOf
<1> QED
  BY <1>2, <1>3, <1>5, <1>6, <1>7 DEF FixtureInv

LEMMA FixtureAtStart == Init => FixtureInv
<1> SUFFICES ASSUME Init PROVE FixtureInv
  OBVIOUS
<1>1. /\ pc = [p \in Procs |-> "idle"] /\ doing = [p \in Procs |-> "verify"]
      /\ rec = [p \in Procs |-> 0] /\ seen = [p \in Procs |-> <<>>] /\ at = [p \in Procs |-> 0]
      /\ file = [f \in Files |-> NoFile] /\ recording = <<>>
      /\ whole = 0 /\ steady = {} /\ alone = {} /\ overlapped = FALSE
  BY DEF Init
<1>2. Len(recording) = 0 /\ recording \in Seq([Streams -> SUBSET Nat])
  BY <1>1
<1>3. \A f \in Files : file[f].rec = 0
  BY <1>1 DEF NoFile, Content
<1>4. \A p \in Procs : Place(p) /\ ~Writing(p)
  BY <1>1 DEF Place, Writing, InProgress, OfCapture, OfVerify
<1>5. FilesInv
  BY <1>1, <1>2, <1>3 DEF FilesInv
<1>6. AgesInv
  BY <1>1, <1>2, <1>3, FilesDiffer DEF AgesInv
<1>7. AloneInv /\ WholeInv
  BY <1>1, <1>4 DEF AloneInv, WholeInv
<1> QED
  BY <1>1, <1>4, <1>5, <1>6, <1>7 DEF FixtureInv, Rows

LEMMA Fixtures == Spec => []FixtureInv
<1>1. RecordingInv /\ FixtureInv /\ [Next]_vars => FixtureInv'
  <2> SUFFICES ASSUME RecordingInv, FixtureInv, [Next]_vars PROVE FixtureInv'
    OBVIOUS
  <2>1. CASE RecordStep
    BY <2>1, FixtureStays DEF RecordStep, ChildExits, Interrupt, Prints, ReadFirst, DrawAndStage
  <2>2. ASSUME NEW p \in Procs, ProcessStep(p) PROVE FixtureInv'
    BY <2>2, ProcessKeepsFixture
  <2>3. CASE UNCHANGED vars
    BY <2>3, FixtureStays DEF vars
  <2> QED
    BY <2>1, <2>2, <2>3 DEF Next, ProcessStep
<1> QED
  BY <1>1, FixtureAtStart, Recordings, PTL DEF Spec
-----------------------------------------------------------------------------
(* What the fixture promises. *)

\* The files in the order in which they are written.
LEMMA WriteOrderIs ==
  /\ DOMAIN WriteOrder = 1..(Len(Expected) + 3)
  /\ WriteOrder[1] = "command" /\ WriteOrder[2] = "stdout" /\ WriteOrder[3] = "stderr"
  /\ \A i \in 1..Len(Expected) : WriteOrder[i + 3] = Expected[i]
<1> DEFINE T == Files
           first == <<"command", "stdout", "stderr">>
<1>1. /\ first \in Seq(T) /\ Len(first) = 3
      /\ first[1] = "command" /\ first[2] = "stdout" /\ first[3] = "stderr"
  BY FilesDiffer
<1>2. Expected \in Seq(T)
  BY CaptureAssumption DEF Files
<1>3. WriteOrder = first \o Expected
  BY DEF WriteOrder
<1> HIDE DEF T, first
<1>4. ASSUME NEW q \in Seq(T), NEW r \in Seq(T)
      PROVE  /\ Len(q) \in Nat /\ Len(r) \in Nat
             /\ q \o r \in Seq(T) /\ Len(q \o r) = Len(q) + Len(r)
             /\ \A i \in 1..(Len(q) + Len(r)) :
                  (q \o r)[i] = IF i <= Len(q) THEN q[i] ELSE r[i - Len(q)]
  OBVIOUS
<1> DEFINE joined == first \o Expected
<1>5. /\ Len(Expected) \in Nat
      /\ joined \in Seq(T) /\ Len(joined) = Len(first) + Len(Expected)
      /\ \A i \in 1..(Len(first) + Len(Expected)) :
           joined[i] = IF i <= Len(first) THEN first[i] ELSE Expected[i - Len(first)]
  BY <1>1, <1>2, <1>4
<1>6. WriteOrder = joined
  BY <1>3
<1> HIDE DEF joined
<1>7. DOMAIN joined = 1..(3 + Len(Expected))
  BY <1>1, <1>5
<1>8. /\ \A i \in 1..3 : joined[i] = first[i]
      /\ \A i \in 1..Len(Expected) : joined[i + 3] = Expected[i]
  BY <1>1, <1>5
<1>9. 1 \in 1..3 /\ 2 \in 1..3 /\ 3 \in 1..3
  OBVIOUS
<1> QED
  BY <1>1, <1>5, <1>6, <1>7, <1>8, <1>9

LEMMA ExpectedAre == \A f \in ToSet(Expected) : \E i \in 1..Len(Expected) : f = Expected[i]
<1>1. DOMAIN Expected = 1..Len(Expected)
  BY CaptureAssumption, ElementIs
<1> QED
  BY <1>1 DEF ToSet

LEMMA AgesAreOrdered == FixtureInv => OldestLast
<1> SUFFICES ASSUME FixtureInv, ~overlapped PROVE OldestLast
  BY DEF OldestLast
<1>1. /\ file["command"].rec = Len(recording) /\ file["stdout"].rec >= file["stderr"].rec
      /\ \A i \in 1..Len(Expected) :
           /\ file["stderr"].rec >= file[Expected[i]].rec
           /\ \A j \in 1..Len(Expected) :
                i < j => file[Expected[i]].rec >= file[Expected[j]].rec
           /\ file[Expected[i]].rec # 0 =>
                /\ file[Expected[i]].from = StreamsOf(file[Expected[i]].rec)
                /\ file[Expected[i]].rec = file["stdout"].rec =>
                     file[Expected[i]].from = <<file["stdout"], file["stderr"]>>
  BY DEF FixtureInv, AgesInv
<1>2. Len(recording) \in Nat /\ \A f \in Files : file[f].rec \in 0..Len(recording)
  BY ElementIs DEF FixtureInv, FilesInv
<1>3. ASSUME NEW i \in DOMAIN WriteOrder, NEW j \in DOMAIN WriteOrder, i < j
      PROVE  file[WriteOrder[i]].rec >= file[WriteOrder[j]].rec
  <2>1. i \in Nat /\ j \in Nat /\ i >= 1 /\ j <= Len(Expected) + 3 /\ Len(Expected) \in Nat
    BY WriteOrderIs, FilesDiffer
  <2>2. file["stdout"].rec \in 0..Len(recording) /\ file["stderr"].rec \in 0..Len(recording)
        /\ \A k \in 1..Len(Expected) : file[Expected[k]].rec \in 0..Len(recording)
    BY <1>2, FilesDiffer
  <2>3. CASE j <= 3
    <3>1. (i = 1 /\ j = 2) \/ (i = 1 /\ j = 3) \/ (i = 2 /\ j = 3)
      BY <1>3, <2>1, <2>3
    <3> QED
      BY <1>1, <1>2, <2>2, <3>1, WriteOrderIs
  <2>4. CASE j > 3
    <3>1. PICK k \in 1..Len(Expected) : j = k + 3
      <4>1. j - 3 \in 1..Len(Expected)
        BY <2>1, <2>4
      <4> QED
        BY <2>1, <4>1
    <3>2. WriteOrder[j] = Expected[k]
      BY <3>1, WriteOrderIs
    <3>3. CASE i > 3
      <4>1. PICK l \in 1..Len(Expected) : i = l + 3
        <5>1. i - 3 \in 1..Len(Expected)
          BY <1>3, <2>1, <3>3
        <5> QED
          BY <2>1, <5>1
      <4>2. WriteOrder[i] = Expected[l] /\ l < k
        BY <1>3, <3>1, <4>1, WriteOrderIs
      <4> QED
        BY <1>1, <3>2, <4>2
    <3>4. CASE i <= 3
      <4>1. i = 1 \/ i = 2 \/ i = 3
        BY <2>1, <3>4
      <4>2. \/ WriteOrder[i] = "command" \/ WriteOrder[i] = "stdout" \/ WriteOrder[i] = "stderr"
        BY <4>1, WriteOrderIs
      <4>3. file["stderr"].rec >= file[Expected[k]].rec
        BY <1>1
      <4>4. file["command"].rec \in Nat /\ file["stdout"].rec \in Nat
            /\ file["stderr"].rec \in Nat /\ file[Expected[k]].rec \in Nat
            /\ file["stdout"].rec <= file["command"].rec
        BY <1>1, <1>2, <2>2
      <4>5. /\ file["command"].rec >= file[Expected[k]].rec
            /\ file["stdout"].rec >= file[Expected[k]].rec
        BY <1>1, <4>3, <4>4
      <4> QED
        BY <3>2, <4>2, <4>3, <4>5
    <3> QED
      BY <2>1, <3>3, <3>4
  <2> QED
    BY <2>1, <2>3, <2>4
<1>4. ASSUME NEW f \in ToSet(Expected), file[f].rec # 0
      PROVE  /\ file[f].from = StreamsOf(file[f].rec)
             /\ file[f].rec = file["stdout"].rec =>
                  file[f].from = <<file["stdout"], file["stderr"]>>
  BY <1>1, <1>4, ExpectedAre
<1> QED
  BY <1>3, <1>4 DEF OldestLast

\* Whatever fails, unless two captures overlap: no file is from a later recording
\* than those written before it, and an expectation as new as the streams was
\* replayed from all of them.
THEOREM FilesAgeInOrder == Spec => []OldestLast
BY Fixtures, AgesAreOrdered, PTL

\* A capture that was alone has left a whole fixture, and until another one
\* writes a verification accepts that recording and no other.
THEOREM FixturesAreWhole == Spec => []WholeFixture
<1>1. FixtureInv => WholeFixture
  BY ExpectedAre DEF FixtureInv, WholeInv, WholeFixture, Steady
<1> QED
  BY <1>1, Fixtures, PTL
=============================================================================
