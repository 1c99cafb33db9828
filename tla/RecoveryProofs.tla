--------------------------- MODULE RecoveryProofs ---------------------------
(***************************************************************************)
(* What RecoveryStore promises, for any processes and artifacts, any       *)
(* limits, and without a bound on operations and incidents.                *)
(***************************************************************************)
EXTENDS RecoveryStore, FiniteSetTheorems, TLAPS

-----------------------------------------------------------------------------
(* A non-empty set of naturals has a least element.                        *)
LEMMA LeastNat ==
  ASSUME NEW T \in SUBSET Nat, T # {}
  PROVE  \E n \in T : \A m \in T : n <= m
<1> DEFINE R == OpToRel(<, Nat)
<1>1. ASSUME NEW m \in Nat, NEW n \in Nat, ~(<<m, n>> \in R) PROVE n <= m
  BY <1>1 DEF OpToRel
<1>2. IsWellFoundedOn(R, Nat)
  BY NatLessThanWellFounded
<1> HIDE DEF R
<1>3. PICK n \in T : \A m \in T : ~(<<m, n>> \in R)
  BY <1>2, WFMin
<1>4. \A m \in T : n <= m
  BY <1>1, <1>3
<1> QED
  BY <1>4

(* So has a non-empty set of naturals with a bound a greatest one: mirror  *)
(* it in the bound.                                                        *)
LEMMA GreatestNat ==
  ASSUME NEW bound \in Nat, NEW T \in SUBSET (0..bound), T # {}
  PROVE  \E n \in T : \A m \in T : n >= m
<1> DEFINE mirror == {bound - t : t \in T}
<1>1. mirror \in SUBSET Nat /\ mirror # {}
  <2>1. \A t \in T : bound - t \in Nat
    OBVIOUS
  <2> QED BY <2>1
<1>2. PICK n \in mirror : \A m \in mirror : n <= m
  <2> HIDE DEF mirror
  <2> QED BY <1>1, LeastNat
<1>3. PICK t \in T : n = bound - t
  BY <1>2
<1>4. ASSUME NEW u \in T PROVE t >= u
  <2>1. n <= bound - u
    BY <1>2
  <2> QED BY <2>1, <1>3
<1> QED BY <1>4

-----------------------------------------------------------------------------
(* Types, and what belongs to each place of the code.                      *)

Jobs == {"store", "undo", "list", "purge"}
Kept == [id : Ids, time : Nat]
Removing == {"removeAll", "unlink"}

ArtType ==
  /\ art \in [Ids -> [there : BOOLEAN, parts : SUBSET Parts, time : Nat]]
  /\ \A x \in Ids : art[x].time <= now /\ (art[x].parts # {} => art[x].there)
  /\ now \in Nat /\ made \in 0..MaxStores
  /\ left \in SUBSET Ids /\ cut \in SUBSET Ids

ProcType ==
  /\ pc = [p \in Procs |-> pc[p]]
  /\ job \in [Procs -> Jobs]
  /\ mine \in [Procs -> 0..made]
  /\ entries \in [Procs -> SUBSET Ids]
  /\ kept \in [Procs -> SUBSET Kept]
  /\ target \in [Procs -> Ids \cup {0}]
  /\ names \in [Procs -> SUBSET Parts]
  /\ listed \in [Procs -> SUBSET Ids]
  /\ touched \in [Procs -> SUBSET Ids]

Place(p) ==
  /\ pc[p] \in {"idle", "readDir", "inspect", "purge", "stat", "readAgain", "look", "listed"}
                 \cup Parts \cup Removing
  /\ pc[p] = "idle" => job[p] = "list" /\ listed[p] = {} /\ touched[p] = {}
  /\ pc[p] \in Parts \cup {"stat"} => job[p] = "store"
  /\ pc[p] \in {"readAgain", "look", "listed"} => job[p] = "list"
  /\ pc[p] \notin {"look", "listed"} => listed[p] = {}
  /\ pc[p] = "purge" => job[p] = "purge"
  /\ job[p] = "purge" => kept[p] = {}
  /\ pc[p] = "inspect" => job[p] # "purge"
  /\ pc[p] \notin {"inspect"} \cup Removing => kept[p] = {}
  /\ pc[p] \in Removing => target[p] \in Ids \ entries[p]
  /\ pc[p] \notin Removing => target[p] = 0
  /\ job[p] \in {"store", "undo"} <=> mine[p] # 0
  /\ job[p] = "undo" => pc[p] \in Removing /\ target[p] = mine[p]
  /\ IsFiniteSet(kept[p])
  /\ \A a \in kept[p] : a.time <= now

OneStoreEach == \A p, q \in Procs : p # q /\ mine[p] = mine[q] => mine[p] = 0

RecoveryType ==
  /\ ArtType /\ ProcType
  /\ \A p \in Procs : Place(p)
  /\ OneStoreEach

-----------------------------------------------------------------------------
(* A list is faithful.  What a store has written is there as long as no    *)
(* removal has begun to take it away.                                      *)

Spoiled(x) == x \in cut \/ \E q \in Procs : pc[q] = "unlink" /\ target[q] = x

\* The files that are there before a store writes the next.
Before(label) ==
  CASE label = "command" -> {} [] label = "stdout" -> {"command"}
    [] label = "stderr" -> {"command", "stdout"} [] OTHER -> Parts

Progress(q) ==
  job[q] = "store" =>
    art[mine[q]].parts = Before(pc[q]) \/ Spoiled(mine[q]) \/ ~art[mine[q]].there

HasStore(x) == x \in left \/ \E q \in Procs : mine[q] = x

FoundInv ==
  /\ RecoveryType
  /\ \A q \in Procs : Progress(q)
  /\ \A x \in There : art[x].parts = Parts \/ HasStore(x) \/ Spoiled(x)
  /\ \A p \in Procs : \A x \in listed[p] : x \in touched[p] \/ "command" \in art[x].parts

\* What nobody else has touched is as a process has found or left it.
Covered(p) == entries[p] \cup {a.id : a \in kept[p]} \cup {target[p]}

Undisturbed(p) ==
  touched[p] = {} =>
    /\ pc[p] \in {"inspect"} \cup Removing /\ job[p] \in {"store", "list"} =>
         There \subseteq Covered(p) /\ entries[p] \subseteq There
    /\ pc[p] \in {"stat", "readAgain"} => Cardinality(There) <= MaxArtifacts
    /\ pc[p] \in {"look", "listed"} =>
         \A x \in There : x \in entries[p] \cup listed[p] \/ "command" \notin art[x].parts
    /\ pc[p] = "listed" => entries[p] = {}

UndisturbedInv == RecoveryType /\ \A p \in Procs : Undisturbed(p)

-----------------------------------------------------------------------------
(* The number of artifacts.  Of any stores that are rotating, the last to  *)
(* have read the directory has seen the artifacts of all the others and of *)
(* every store that had ended: it keeps no more of them than the limit.    *)

Rotating(q) == job[q] = "store" /\ pc[q] \in {"inspect", "stat"} \cup Removing

\* The artifacts whose store has ended or is one of Q.
Settled(Q) == {x \in There \ left : \A p \in Procs : mine[p] = x => p \in Q}

Budget ==
  \A Q \in SUBSET Procs : (\A q \in Q : Rotating(q)) =>
    \/ \E q \in Q : pc[q] # "stat" /\ Settled(Q) \subseteq Covered(q)
    \/ Cardinality(Settled(Q)) <= MaxArtifacts

BudgetInv == RecoveryType /\ Budget

\* What a step of p does to the artifacts, and who sees it.
At(p, x, content) ==
  /\ x \in Ids
  /\ art' = [art EXCEPT ![x] = content]
  /\ \A q \in Procs \ {p} : touched'[q] = IF pc[q] # "idle" THEN touched[q] \cup {x} ELSE touched[q]
  /\ left' = left /\ cut' = cut

Leaves(p) ==
  /\ art' = art /\ made' = made
  /\ \A q \in Procs \ {p} : touched'[q] = touched[q]
  /\ \/ left' = left /\ (pc'[p] = "idle" => mine[p] = 0 \/ pc[p] = "stat")
     \/ pc'[p] = "idle" /\ mine[p] # 0 /\ left' = left \cup {mine[p]}
  /\ pc[p] \in Parts => pc'[p] = "idle" \/ job'[p] = "undo"
  /\ \/ cut' = cut /\ (pc[p] = "unlink" => pc'[p] = "unlink" /\ target'[p] = target[p])
     \/ pc[p] = "unlink" /\ cut' = cut \cup {target[p]}

Makes(p) ==
  /\ pc[p] = "idle" /\ pc'[p] = "command"
  /\ made' = made + 1 /\ At(p, made + 1, [there |-> TRUE, parts |-> {}, time |-> now])

Writes(p) ==
  /\ pc[p] \in Parts /\ mine[p] # 0 /\ art[mine[p]].there /\ pc'[p] = After(pc[p])
  /\ made' = made /\ At(p, mine[p], [art[mine[p]] EXCEPT !.parts = @ \cup {pc[p]}, !.time = now])

Unlinks(p) ==
  /\ pc[p] = "unlink" /\ pc'[p] = "unlink" /\ target'[p] = target[p]
  /\ made' = made
  /\ \E part \in art[target[p]].parts :
       At(p, target[p], [art[target[p]] EXCEPT !.parts = @ \ {part}, !.time = now])

Removes(p) ==
  /\ pc[p] \in Removing
  /\ \/ job[p] = "undo" /\ pc'[p] = "idle"
     \/ pc'[p] \in {"purge", "inspect"} /\ target'[p] = 0
  /\ made' = made /\ At(p, target[p], Nothing)

ArtPart(p) == Leaves(p) \/ Makes(p) \/ Writes(p) \/ Unlinks(p) \/ Removes(p)

OthersPart(p) ==
  /\ now' = now
  /\ \A q \in Procs \ {p} :
       /\ pc'[q] = pc[q] /\ job'[q] = job[q] /\ mine'[q] = mine[q] /\ entries'[q] = entries[q]
       /\ kept'[q] = kept[q] /\ target'[q] = target[q] /\ listed'[q] = listed[q]

LEMMA StepParts ==
  ASSUME RecoveryType, NEW p \in Procs, Step(p)
  PROVE  OthersPart(p) /\ ArtPart(p)
<1>1. /\ pc = [q \in Procs |-> pc[q]] /\ job = [q \in Procs |-> job[q]] /\ mine = [q \in Procs |-> mine[q]]
      /\ entries = [q \in Procs |-> entries[q]] /\ kept = [q \in Procs |-> kept[q]]
      /\ target = [q \in Procs |-> target[q]] /\ listed = [q \in Procs |-> listed[q]]
      /\ touched = [q \in Procs |-> touched[q]]
  BY DEF RecoveryType, ProcType
<1>2. \A q \in Procs : pc[q] = "idle" => touched[q] = {}
  BY DEF RecoveryType, Place
<1>3. /\ pc[p] \in Parts => mine[p] \in Ids /\ mine[p] # 0 /\ job[p] = "store"
      /\ pc[p] \in Removing => target[p] \in Ids
      /\ job[p] \in {"store", "undo"} <=> mine[p] # 0
      /\ pc[p] \in {"purge", "look", "listed", "readAgain"} => mine[p] = 0
  BY RecoveryAssumption DEF RecoveryAssumption, RecoveryType, ArtType, ProcType, Place, Ids
<1>4. made < MaxStores => made + 1 \in Ids
  BY RecoveryAssumption DEF RecoveryAssumption, RecoveryType, ArtType, Ids
<1> HIDE DEF Ids, RecoveryType
<1> USE DEF Mkdir, WritePart, Stat, StartOther, ReadDir, Inspect, Overflow, Purge, RemoveAll, Unlink, RemoveDir, Removed,
            ReadAgain, Look, Shown, Crash,
            Change, End, EndUntouched, FailNext, Goto, Incident, artVars, procVars, countVars
<1>5. OthersPart(p) BY <1>1 DEF OthersPart, Step
<1> SUFFICES ArtPart(p) BY <1>5
<1>p. pc = [q \in Procs |-> pc[q]] BY <1>1
<1>t. touched = [q \in Procs |-> touched[q]] BY <1>1
\* Who sees a change.
<1>s. ASSUME NEW x, NEW content, Change(p, x, content)
      PROVE  \A q \in Procs \ {p} : touched'[q] = IF pc[q] # "idle" THEN touched[q] \cup {x} ELSE touched[q]
  BY <1>2, <1>5, <1>s DEF OthersPart
<1>a. CASE Mkdir(p)
  <2>1. \A q \in Procs \ {p} : touched'[q] = IF pc[q] # "idle" THEN touched[q] \cup {made + 1} ELSE touched[q]
    BY <1>2, <1>a, <1>s DEF Mkdir
  <2>2. At(p, made + 1, [there |-> TRUE, parts |-> {}, time |-> now]) BY <1>4, <1>a, <2>1 DEF At
  <2>3. pc[p] = "idle" /\ pc'[p] = "command" /\ made' = made + 1 BY <1>p, <1>a
  <2> QED BY <2>2, <2>3 DEF ArtPart, Makes
<1>b. CASE WritePart(p)
  <2>1. CASE FailNext(p) /\ UNCHANGED art
    BY <1>p, <1>t, <1>1, <1>3, <1>b, <2>1 DEF ArtPart, Leaves, Parts
  <2>2. CASE /\ art[mine[p]].there /\ Goto(p, After(pc[p])) /\ UNCHANGED left
             /\ Change(p, mine[p], [art[mine[p]] EXCEPT !.parts = @ \cup {pc[p]}, !.time = now])
    <3>1. At(p, mine[p], [art[mine[p]] EXCEPT !.parts = @ \cup {pc[p]}, !.time = now])
      BY <1>3, <1>b, <1>s, <2>2 DEF At
    <3>2. pc'[p] = After(pc[p]) BY <1>p, <2>2
    <3> QED BY <1>3, <1>b, <2>2, <3>1, <3>2 DEF ArtPart, Writes
  <2> QED BY <1>b, <2>1, <2>2
<1>r. ASSUME pc[p] \in Removing, Removed(p), Change(p, target[p], Nothing), UNCHANGED <<left, cut, made>>
      PROVE  Removes(p)
  <2>1. At(p, target[p], Nothing) BY <1>3, <1>r, <1>s DEF At
  <2>2. \/ job[p] = "undo" /\ pc'[p] = "idle"
        \/ pc'[p] \in {"purge", "inspect"} /\ target'[p] = 0
    BY <1>1, <1>r
  <2> QED BY <1>r, <2>1, <2>2 DEF Removes
<1>c. CASE RemoveAll(p)
  <2>1. CASE Removed(p) /\ Change(p, target[p], Nothing) /\ UNCHANGED left
    BY <1>c, <1>r, <2>1 DEF ArtPart, Removing
  <2>2. CASE Goto(p, "unlink") /\ UNCHANGED <<art, left, touched>>
    BY <1>p, <1>c, <2>2 DEF ArtPart, Leaves, Parts
  <2>3. CASE FailNext(p) /\ UNCHANGED art BY <1>p, <1>t, <1>3, <1>c, <2>3 DEF ArtPart, Leaves, Parts
  <2> QED BY <1>c, <2>1, <2>2, <2>3
<1>d. CASE Unlink(p)
  <2> PICK part \in names[p] \cap art[target[p]].parts :
        \/ Change(p, target[p], [art[target[p]] EXCEPT !.parts = @ \ {part}, !.time = now])
        \/ UNCHANGED <<art, touched>>
    BY <1>d
  <2>1. CASE Change(p, target[p], [art[target[p]] EXCEPT !.parts = @ \ {part}, !.time = now])
    <3>1. At(p, target[p], [art[target[p]] EXCEPT !.parts = @ \ {part}, !.time = now])
      BY <1>3, <1>d, <1>s, <2>1 DEF At, Removing
    <3> QED BY <1>d, <3>1 DEF ArtPart, Unlinks
  <2>2. CASE UNCHANGED <<art, touched>> BY <1>d, <2>2 DEF ArtPart, Leaves, Parts
  <2> QED BY <2>1, <2>2
<1>e. CASE RemoveDir(p)
  <2>1. CASE Removed(p) /\ Change(p, target[p], Nothing) /\ UNCHANGED <<left, cut>>
    BY <1>e, <1>r, <2>1 DEF ArtPart, Removing
  <2>2. CASE FailNext(p) /\ UNCHANGED art /\ cut' = cut \cup {target[p]}
    BY <1>p, <1>t, <1>3, <1>e, <2>2 DEF ArtPart, Leaves, Parts
  <2> QED BY <1>e, <2>1, <2>2
<1>f. CASE \/ Stat(p) \/ (\E what \in {"list", "purge"} : StartOther(p, what))
           \/ ReadDir(p) \/ Inspect(p) \/ Overflow(p) \/ Purge(p)
           \/ ReadAgain(p) \/ Look(p) \/ Shown(p)
  <2>1. Leaves(p) BY <1>p, <1>t, <1>3, <1>f DEF Leaves, Parts
  <2> QED BY <2>1 DEF ArtPart
<1>g. CASE Crash(p)
  <2>1. Leaves(p) BY <1>p, <1>t, <1>3, <1>g DEF Leaves, Parts
  <2> QED BY <2>1 DEF ArtPart
<1> HIDE DEF Mkdir, WritePart, Stat, StartOther, ReadDir, Inspect, Overflow, Purge, RemoveAll, Unlink, RemoveDir, Removed,
            ReadAgain, Look, Shown, Crash
<1> QED BY <1>a, <1>b, <1>c, <1>d, <1>e, <1>f, <1>g DEF Step

LEMMA TypedArts ==
  ASSUME RecoveryType, NEW p \in Procs, Step(p)
  PROVE  ArtType'
<1>1. OthersPart(p) /\ ArtPart(p) BY StepParts
<1>2. now' = now /\ ArtType /\ ProcType /\ Place(p) BY <1>1 DEF OthersPart, RecoveryType
<1>3. ASSUME NEW x, NEW content, At(p, x, content), made' \in 0..MaxStores,
             content \in [there : BOOLEAN, parts : SUBSET Parts, time : Nat],
             content.time <= now, content.parts # {} => content.there
      PROVE  ArtType'
  <2>1. art' \in [Ids -> [there : BOOLEAN, parts : SUBSET Parts, time : Nat]] BY <1>2, <1>3 DEF ArtType, At
  <2>2. \A y \in Ids : art'[y] = IF y = x THEN content ELSE art[y] BY <1>2, <1>3 DEF ArtType, At
  <2>3. left' = left /\ cut' = cut BY <1>3 DEF At
  <2> QED BY <1>2, <1>3, <2>1, <2>2, <2>3 DEF ArtType
<1>a. CASE Leaves(p)
  <2>1. mine[p] # 0 => mine[p] \in Ids BY <1>2, RecoveryAssumption DEF RecoveryAssumption, ProcType, ArtType, Ids
  <2>2. left' \in SUBSET Ids BY <1>a, <1>2, <2>1 DEF Leaves, ArtType
  <2>4. cut' \in SUBSET Ids BY <1>a, <1>2 DEF Leaves, ArtType, Place, Removing
  <2>3. art' = art /\ made' = made /\ now' = now BY <1>a, <1>2 DEF Leaves
  <2> QED BY <1>2, <2>2, <2>3, <2>4 DEF ArtType
<1>b. CASE Makes(p)
  <2> DEFINE c == [there |-> TRUE, parts |-> {}, time |-> now]
  <2>1. c \in [there : BOOLEAN, parts : SUBSET Parts, time : Nat] /\ c.time <= now /\ c.there = TRUE
    BY <1>2 DEF ArtType
  <2>2. made' \in 0..MaxStores BY <1>b, <1>2, RecoveryAssumption DEF RecoveryAssumption, Makes, At, Ids, ArtType
  <2>3. At(p, made + 1, c) BY <1>b DEF Makes
  <2> HIDE DEF c
  <2> QED BY <1>3, <2>1, <2>2, <2>3
<1>c. CASE Writes(p)
  <2>1. mine[p] \in Ids BY <1>c DEF Writes, At
  <2>2. art[mine[p]] \in [there : BOOLEAN, parts : SUBSET Parts, time : Nat] BY <1>2, <2>1 DEF ArtType
  <2> DEFINE c == [art[mine[p]] EXCEPT !.parts = @ \cup {pc[p]}, !.time = now]
  <2>3. c.time = now /\ c.there = TRUE /\ c.parts = art[mine[p]].parts \cup {pc[p]} BY <2>2, <1>c DEF Writes
  <2>4. c \in [there : BOOLEAN, parts : SUBSET Parts, time : Nat] BY <2>2, <1>2, <1>c DEF ArtType, Writes
  <2>5. At(p, mine[p], c) /\ made' = made BY <1>c DEF Writes
  <2>6. now <= now BY <1>2 DEF ArtType
  <2> HIDE DEF c
  <2> QED BY <1>2, <1>3, <2>3, <2>4, <2>5, <2>6 DEF ArtType
<1>e. CASE Unlinks(p)
  <2>0. PICK part \in art[target[p]].parts :
               At(p, target[p], [art[target[p]] EXCEPT !.parts = @ \ {part}, !.time = now])
    BY <1>e DEF Unlinks
  <2>1. target[p] \in Ids BY <2>0 DEF At
  <2>2. art[target[p]] \in [there : BOOLEAN, parts : SUBSET Parts, time : Nat] /\ art[target[p]].there
    BY <1>2, <2>0, <2>1 DEF ArtType
  <2> DEFINE c == [art[target[p]] EXCEPT !.parts = @ \ {part}, !.time = now]
  <2>3. c.time <= now /\ c.there BY <2>2, <1>2 DEF ArtType
  <2>4. c \in [there : BOOLEAN, parts : SUBSET Parts, time : Nat] BY <2>2, <1>2 DEF ArtType
  <2>5. At(p, target[p], c) /\ made' = made BY <1>e, <2>0 DEF Unlinks
  <2> HIDE DEF c
  <2> QED BY <1>2, <1>3, <2>3, <2>4, <2>5 DEF ArtType
<1>f. CASE Removes(p)
  <2>1. /\ Nothing \in [there : BOOLEAN, parts : SUBSET Parts, time : Nat] /\ Nothing.time <= now
        /\ Nothing.parts # {} => Nothing.there
    BY <1>2 DEF Nothing, ArtType
  <2> QED BY <1>f, <1>2, <1>3, <2>1 DEF Removes, ArtType
<1> QED BY <1>1, <1>a, <1>b, <1>c, <1>e, <1>f DEF ArtPart

-----------------------------------------------------------------------------
(* What is kept, by age.                                                   *)

\* Of any artifacts that are kept, one is the newest and one the oldest.
LEMMA NewestOfThem ==
  ASSUME NEW S \in SUBSET Kept, S # {}, NEW bound \in Nat, \A a \in S : a.time <= bound
  PROVE  \E a \in S : \A b \in S : ~Newer(b, a)
<1>1. MaxStores \in Nat BY RecoveryAssumption DEF RecoveryAssumption
<1>2. \A a \in S : a.time \in 0..bound /\ a.id \in 0..MaxStores BY <1>1 DEF Kept, Ids
<1> DEFINE times == {a.time : a \in S}
<1>3. times \in SUBSET (0..bound) /\ times # {} BY <1>2
<1> HIDE DEF times
<1>4. PICK t \in times : \A u \in times : t >= u BY <1>3, GreatestNat
<1> DEFINE ids == {a.id : a \in {b \in S : b.time = t}}
<1>5. ids \in SUBSET (0..MaxStores) /\ ids # {} BY <1>2, <1>4 DEF times
<1> HIDE DEF ids
<1>6. PICK i \in ids : \A j \in ids : i >= j BY <1>1, <1>5, GreatestNat
<1>7. PICK a \in S : a.time = t /\ a.id = i BY <1>6 DEF ids
<1>8. ASSUME NEW b \in S, Newer(b, a) PROVE FALSE
  <2>1. t >= b.time BY <1>4 DEF times
  <2>2. b.time = t => i >= b.id BY <1>6 DEF ids
  <2> QED BY <1>2, <1>7, <1>8, <2>1, <2>2 DEF Newer
<1> QED BY <1>7, <1>8

LEMMA OldestOfThem ==
  ASSUME NEW S \in SUBSET Kept, S # {}
  PROVE  \E a \in S : \A b \in S : b # a => Newer(b, a)
<1>1. \A a \in S : a.time \in Nat /\ a.id \in Nat /\ a = [id |-> a.id, time |-> a.time] BY DEF Kept, Ids
<1> DEFINE times == {a.time : a \in S}
<1>3. times \in SUBSET Nat /\ times # {} BY <1>1
<1> HIDE DEF times
<1>4. PICK t \in times : \A u \in times : t <= u BY <1>3, LeastNat
<1> DEFINE ids == {a.id : a \in {b \in S : b.time = t}}
<1>5. ids \in SUBSET Nat /\ ids # {} BY <1>1, <1>4 DEF times
<1> HIDE DEF ids
<1>6. PICK i \in ids : \A j \in ids : i <= j BY <1>5, LeastNat
<1>7. PICK a \in S : a.time = t /\ a.id = i BY <1>6 DEF ids
<1>8. ASSUME NEW b \in S, b # a PROVE Newer(b, a)
  <2>1. t <= b.time BY <1>4 DEF times
  <2>2. b.time = t => i <= b.id BY <1>6 DEF ids
  <2>3. b.time # a.time \/ b.id # a.id BY <1>1, <1>8
  <2> QED BY <1>1, <1>7, <2>1, <2>2, <2>3 DEF Newer
<1> QED BY <1>7, <1>8

\* Rotation stops when no more than the limit are kept.
LEMMA NoneOverflows ==
  ASSUME NEW S \in SUBSET Kept, IsFiniteSet(S), Overflowing(S) = {}
  PROVE  Cardinality(S) <= MaxArtifacts
<1>1. MaxArtifacts \in Nat BY RecoveryAssumption DEF RecoveryAssumption
<1>2. CASE S = {} BY <1>1, <1>2, FS_EmptySet
<1>3. CASE S # {}
  <2>1. PICK a \in S : \A b \in S : b # a => Newer(b, a) BY <1>3, OldestOfThem
  <2> DEFINE others_ == {b \in S : Newer(b, a)}
  <2>2. S \ {a} \subseteq others_ /\ others_ \subseteq S BY <2>1
  <2>3. IsFiniteSet(others_) /\ Cardinality(others_) \in Nat BY <2>2, FS_Subset, FS_CardinalityType
  <2>4. ~(Cardinality(others_) >= MaxArtifacts) BY <2>1 DEF Overflowing
  <2>5. Cardinality(S \ {a}) <= Cardinality(others_) BY <2>2, <2>3, FS_Subset
  <2>6. Cardinality(S \ {a}) = Cardinality(S) - 1 /\ Cardinality(S) \in Nat
    BY <2>1, FS_RemoveElement, FS_CardinalityType
  <2> HIDE DEF others_
  <2> QED BY <1>1, <2>3, <2>4, <2>5, <2>6
<1> QED BY <1>2, <1>3

\* The one that goes next is one of those kept.
LEMMA TheNextToGo ==
  ASSUME RecoveryType, NEW p \in Procs, Overflowing(kept[p]) # {}
  PROVE  (CHOOSE a \in Overflowing(kept[p]) : \A b \in Overflowing(kept[p]) : ~Newer(b, a)) \in kept[p]
<1>1. Overflowing(kept[p]) \subseteq kept[p] BY DEF Overflowing
<1>2. Overflowing(kept[p]) \in SUBSET Kept BY <1>1 DEF RecoveryType, ProcType
<1>3. now \in Nat /\ \A a \in Overflowing(kept[p]) : a.time <= now BY <1>1 DEF RecoveryType, ArtType, Place
<1>4. \E a \in Overflowing(kept[p]) : \A b \in Overflowing(kept[p]) : ~Newer(b, a)
  BY <1>2, <1>3, NewestOfThem
<1> QED BY <1>1, <1>4

LEMMA LowestOfThem ==
  ASSUME NEW S \in SUBSET Ids, S # {}
  PROVE  Lowest(S) \in S
<1>1. S \in SUBSET Nat BY DEF Ids
<1>2. \E x \in S : \A y \in S : x <= y BY <1>1, LeastNat
<1> QED BY <1>2 DEF Lowest

LEMMA TypedProcs ==
  ASSUME RecoveryType, NEW p \in Procs, Step(p)
  PROVE  ProcType'
<1>1. ProcType /\ ArtType BY DEF RecoveryType
<1>2. OthersPart(p) /\ ArtPart(p) BY StepParts
<1>3. ArtType' BY TypedArts
<1>4. There \subseteq Ids BY DEF There
<1>5. \A x \in Ids : [id |-> x, time |-> art[x].time] \in Kept BY <1>1 DEF ArtType, Kept
<1>6. /\ entries[p] # {} => Lowest(entries[p]) \in entries[p]
      /\ entries[p] \subseteq Ids /\ kept[p] \subseteq Kept /\ \A a \in kept[p] : a.id \in Ids
  BY <1>1, LowestOfThem DEF ProcType, Kept
<1>f. /\ pc = [q \in Procs |-> pc[q]] /\ job = [q \in Procs |-> job[q]] /\ mine = [q \in Procs |-> mine[q]]
      /\ entries = [q \in Procs |-> entries[q]] /\ kept = [q \in Procs |-> kept[q]]
      /\ target = [q \in Procs |-> target[q]] /\ listed = [q \in Procs |-> listed[q]]
      /\ touched = [q \in Procs |-> touched[q]]
  BY <1>1 DEF ProcType
<1>x. names' \in [Procs -> SUBSET Parts]
  <2>1. names \in [Procs -> SUBSET Parts] BY <1>1 DEF ProcType
  <2>2. CASE RemoveAll(p)
    <3>1. target[p] = 0 \/ art[target[p]].parts \subseteq Parts BY <1>1 DEF ProcType, ArtType
    <3>2. target[p] # 0 BY <2>2, <1>1 DEF RecoveryType, Place, RemoveAll, Removing, Ids
    <3>3. names' \in {[names EXCEPT ![p] = art[target[p]].parts], [names EXCEPT ![p] = {}]}
      BY <2>2 DEF RemoveAll, Removed, End, EndUntouched, FailNext
    <3> QED BY <2>1, <3>1, <3>2, <3>3
  <2>3. CASE ~RemoveAll(p)
    <3>1. \/ names' = names \/ names' = [names EXCEPT ![p] = {}]
          \/ \E part : names' = [names EXCEPT ![p] = @ \ {part}]
      BY <2>3 DEF Step, Mkdir, WritePart, Stat, StartOther, ReadDir, Inspect, Overflow, Purge, Unlink, RemoveDir,
           Removed, ReadAgain, Look, Shown, Crash, End, EndUntouched, FailNext, procVars
    <3> QED BY <2>1, <3>1
  <2> QED BY <2>2, <2>3
<1> USE DEF Mkdir, WritePart, Stat, StartOther, ReadDir, Inspect, Purge, RemoveAll, Unlink, RemoveDir, Removed,
            ReadAgain, Look, Shown, Crash,
            Change, End, EndUntouched, FailNext, Goto, Incident, artVars, procVars, countVars
<1>g. /\ pc' = [q \in Procs |-> pc'[q]] /\ job' = [q \in Procs |-> job'[q]] /\ mine' = [q \in Procs |-> mine'[q]]
      /\ entries' = [q \in Procs |-> entries'[q]] /\ kept' = [q \in Procs |-> kept'[q]]
      /\ target' = [q \in Procs |-> target'[q]] /\ listed' = [q \in Procs |-> listed'[q]]
      /\ touched' = [q \in Procs |-> touched'[q]]
  BY <1>f DEF Step, Overflow
<1>j. job'[p] \in {"store", "undo", "list", "purge", job[p]} BY <1>f DEF Step, Overflow
<1>m. mine'[p] \in {mine[p], 0} \/ mine'[p] = made' BY <1>f DEF Step, Overflow
<1>e. entries'[p] \in {entries[p], {}, There, entries[p] \ {Lowest(entries[p])}} BY <1>f DEF Step, Overflow
<1>l. \/ listed'[p] \in {listed[p], {}}
      \/ entries[p] # {} /\ listed'[p] = listed[p] \cup {Lowest(entries[p])}
  BY <1>f DEF Step, Overflow
<1>t. touched'[p] \subseteq touched[p] BY <1>f DEF Step, Overflow
<1>k. kept'[p] \subseteq Kept /\ target'[p] \in Ids \cup {0}
  <2>0. target[p] \in Ids \cup {0} /\ mine[p] \in Ids \cup {0}
    BY <1>1, RecoveryAssumption DEF RecoveryAssumption, ProcType, ArtType, Ids
  <2>1. CASE Overflow(p) /\ Overflowing(kept[p]) = {} BY <1>6, <1>f, <2>0, <2>1 DEF Overflow
  <2>2. CASE Overflow(p) /\ Overflowing(kept[p]) # {}
    <3> DEFINE a == CHOOSE a \in Overflowing(kept[p]) : \A b \in Overflowing(kept[p]) : ~Newer(b, a)
    <3>1. a \in kept[p] BY <2>2, TheNextToGo
    <3>2. kept' = [kept EXCEPT ![p] = @ \ {a}] /\ target' = [target EXCEPT ![p] = a.id]
      BY <2>2 DEF Overflow
    <3> HIDE DEF a
    <3> QED BY <1>6, <1>f, <3>1, <3>2
  <2>3. CASE Inspect(p) BY <1>5, <1>6, <1>f, <2>0, <2>3
  <2>4. CASE ~Overflow(p) /\ ~Inspect(p) BY <1>6, <1>f, <2>0, <2>4 DEF Step
  <2> QED BY <2>1, <2>2, <2>3, <2>4
<1> HIDE DEF Mkdir, WritePart, Stat, StartOther, ReadDir, Inspect, Purge, RemoveAll, Unlink, RemoveDir, Removed,
             ReadAgain, Look, Shown, Crash
<1>n. made' \in Nat /\ made \in Nat /\ made <= made'
  <2>1. made' = made \/ made' = made + 1
    BY <1>2 DEF ArtPart, Leaves, Makes, Writes, Unlinks, Removes
  <2> QED BY <1>1, <2>1, RecoveryAssumption DEF ArtType, RecoveryAssumption
<1>a. \A q \in Procs \ {p} : touched'[q] \subseteq Ids
  <2> SUFFICES ASSUME NEW q \in Procs \ {p} PROVE touched'[q] \subseteq Ids OBVIOUS
  <2>1. touched[q] \subseteq Ids BY <1>1 DEF ProcType
  <2>2. ASSUME NEW x, NEW c, At(p, x, c) PROVE touched'[q] \subseteq Ids BY <2>1, <2>2 DEF At
  <2>3. CASE Leaves(p) BY <2>1, <2>3 DEF Leaves
  <2>4. CASE Makes(p) BY <2>2, <2>4 DEF Makes
  <2>5. CASE Writes(p) BY <2>2, <2>5 DEF Writes
  <2>7. CASE Unlinks(p) BY <2>2, <2>7 DEF Unlinks
  <2>8. CASE Removes(p) BY <2>2, <2>8 DEF Removes
  <2> QED BY <1>2, <2>3, <2>4, <2>5, <2>7, <2>8 DEF ArtPart
<1>b. \A q \in Procs : touched'[q] \in SUBSET Ids BY <1>1, <1>a, <1>t DEF ProcType
<1>c. \A q \in Procs : mine'[q] \in 0..made' BY <1>1, <1>2, <1>m, <1>n DEF ProcType, OthersPart
<1>d. \A q \in Procs : job'[q] \in Jobs BY <1>1, <1>2, <1>j DEF ProcType, OthersPart, Jobs
<1>h. \A q \in Procs : entries'[q] \in SUBSET Ids /\ listed'[q] \in SUBSET Ids
  <2>1. entries'[p] \in SUBSET Ids BY <1>4, <1>6, <1>e
  <2>2. listed'[p] \in SUBSET Ids BY <1>1, <1>6, <1>l DEF ProcType
  <2> QED BY <1>1, <1>2, <2>1, <2>2 DEF ProcType, OthersPart
<1>i. \A q \in Procs : kept'[q] \in SUBSET Kept /\ target'[q] \in Ids \cup {0}
  BY <1>1, <1>2, <1>k DEF ProcType, OthersPart
<1> QED BY <1>g, <1>b, <1>c, <1>d, <1>h, <1>i, <1>x DEF ProcType

LEMMA Places ==
  ASSUME RecoveryType, NEW p \in Procs, Step(p)
  PROVE  \A q \in Procs : Place(q)'
<1>1. ProcType /\ ArtType /\ Place(p) BY DEF RecoveryType
<1>2. OthersPart(p) /\ ArtPart(p) BY StepParts
<1>3. ProcType' /\ ArtType' BY TypedArts, TypedProcs
<1>o. ASSUME NEW q \in Procs \ {p} PROVE Place(q)'
  <2>1. Place(q) /\ now' = now BY <1>2 DEF OthersPart, RecoveryType
  <2>2. pc[q] = "idle" => touched'[q] = touched[q]
    BY <1>2 DEF ArtPart, At, Leaves, Makes, Writes, Unlinks, Removes
  <2> QED BY <1>2, <2>1, <2>2 DEF OthersPart, Place, Parts, Removing
<1>f. /\ pc = [q \in Procs |-> pc[q]] /\ job = [q \in Procs |-> job[q]] /\ mine = [q \in Procs |-> mine[q]]
      /\ entries = [q \in Procs |-> entries[q]] /\ kept = [q \in Procs |-> kept[q]]
      /\ target = [q \in Procs |-> target[q]] /\ listed = [q \in Procs |-> listed[q]]
      /\ touched = [q \in Procs |-> touched[q]]
  BY <1>1 DEF ProcType
<1>n. made + 1 # 0 BY <1>1, RecoveryAssumption DEF RecoveryAssumption, ArtType
<1> USE DEF Mkdir, WritePart, Stat, StartOther, ReadDir, Inspect, Purge, RemoveAll, Unlink, RemoveDir, Removed,
            ReadAgain, Look, Shown, Crash,
            Change, End, EndUntouched, FailNext, Goto, Incident, artVars, procVars, countVars
<1>a. /\ pc'[p] \in {"idle", "readDir", "inspect", "purge", "stat", "readAgain", "look", "listed"}
                      \cup Parts \cup Removing
  BY <1>1, <1>f DEF Place, Step, Overflow, Parts, After, Removing
<1>y. pc'[p] = "idle" => job'[p] = "list" /\ listed'[p] = {} /\ touched'[p] = {}
  <2>2. pc'[p] = "idle" => End(p) BY <1>f DEF Step, Overflow, Removed, After
  <2>3. pc'[p] = "idle" => touched'[p] = {} BY <1>f DEF Step, Overflow, Removed, After
  <2> QED BY <1>f, <2>2, <2>3
<1>q. job[p] \in Jobs BY <1>1 DEF ProcType
<1>r. pc'[p] \in Parts \cup {"stat"} => job'[p] = "store"
  BY ZenonT(60), <1>1, <1>f, <1>q DEF Place, Step, Overflow, Parts, After, Removing, Jobs
<1>s. pc'[p] \in {"readAgain", "look", "listed"} => job'[p] = "list"
  BY <1>1, <1>f DEF Place, Step, Overflow, Parts, After
<1>t. pc'[p] = "purge" => job'[p] = "purge"
  BY <1>1, <1>f DEF Place, Step, Overflow, Parts, After
<1>u. pc'[p] = "inspect" => job'[p] # "purge"
  BY <1>1, <1>f DEF Place, Step, Overflow, Parts, After
<1>v. job'[p] = "purge" => kept'[p] = {}
  BY <1>1, <1>f DEF Place, Step, Overflow, Parts, Removing
<1>c. pc'[p] \notin {"look", "listed"} => listed'[p] = {}
  BY <1>1, <1>f DEF Place, Step, Overflow, Parts, After
<1>d. pc'[p] \notin {"inspect"} \cup Removing => kept'[p] = {}
  BY <1>1, <1>f DEF Place, Step, Overflow, Parts, After, Removing
<1>e. pc'[p] \notin Removing => target'[p] = 0
  BY <1>1, <1>f DEF Place, Step, Overflow, Parts, After, Removing
<1>g. job'[p] \in {"store", "undo"} <=> mine'[p] # 0
  BY ZenonT(60), <1>1, <1>f, <1>n DEF Place, Step, Overflow
<1>w. job'[p] = "undo" => pc'[p] \in Removing /\ target'[p] = mine'[p]
  <2>1. CASE job[p] = "undo" BY <1>1, <1>f, <2>1 DEF Place, Step, Overflow, Parts, Removing
  <2>2. CASE job[p] # "undo" /\ FailNext(p) BY <1>1, <1>f, <2>2 DEF Place, Removing
  <2>3. CASE job[p] # "undo" /\ ~FailNext(p) BY <1>f, <2>3 DEF Step, Overflow
  <2> QED BY <2>1, <2>2, <2>3
<1>h. pc'[p] \in Removing => target'[p] \in Ids \ entries'[p]
  <2>1. pc'[p] \in Removing => target'[p] \in Ids
    <3>1. target'[p] \in Ids \cup {0} BY <1>3 DEF ProcType
    <3>2. pc'[p] \in Removing => target'[p] # 0
      <4>1. CASE Overflow(p)
        <5>1. CASE Overflowing(kept[p]) = {} BY <1>f, <4>1, <5>1 DEF Overflow, Removing
        <5>2. CASE Overflowing(kept[p]) # {}
          <6> DEFINE a == CHOOSE a \in Overflowing(kept[p]) : \A b \in Overflowing(kept[p]) : ~Newer(b, a)
          <6>1. a \in kept[p] BY <5>2, TheNextToGo
          <6>2. target' = [target EXCEPT ![p] = a.id] BY <4>1, <5>2 DEF Overflow
          <6>3. a.id # 0 BY <1>1, <6>1 DEF ProcType, Kept, Ids
          <6> HIDE DEF a
          <6> QED BY <1>f, <6>2, <6>3
        <5> QED BY <5>1, <5>2
      <4>2. 0 \notin Ids BY DEF Ids
      <4>3. entries[p] # {} => Lowest(entries[p]) \in Ids
        BY <1>1, LowestOfThem DEF ProcType
      <4>4. CASE FailNext(p) BY <1>1, <1>f, <4>4 DEF Place, Removing
      <4>5. CASE (Inspect(p) \/ Purge(p)) /\ ~FailNext(p)
        BY <1>1, <1>f, <4>2, <4>3, <4>5 DEF Place, Removing
      <4>6. CASE (RemoveAll(p) \/ Unlink(p)) /\ ~FailNext(p)
        BY <1>1, <1>f, <4>2, <4>6 DEF Place, Removing
      <4>7. CASE ~(Inspect(p) \/ Purge(p) \/ Overflow(p) \/ RemoveAll(p) \/ Unlink(p)) /\ ~FailNext(p)
        BY <1>f, <4>7 DEF Step, Removing, Parts, After
      <4> QED BY <4>1, <4>4, <4>5, <4>6, <4>7
    <3> QED BY <3>1, <3>2
  <2>2. pc'[p] \in Removing => target'[p] \notin entries'[p]
    <3>1. CASE Inspect(p) \/ Purge(p) BY <1>f, <3>1 DEF Removing
    <3>2. CASE Overflow(p) BY <1>f, <3>2 DEF Overflow, Removing
    <3>3. CASE RemoveAll(p) \/ Unlink(p) BY <1>1, <1>f, <3>3 DEF Place, Removing
    <3>4. CASE ~(Inspect(p) \/ Purge(p) \/ Overflow(p) \/ RemoveAll(p) \/ Unlink(p))
      BY <1>f, <3>4 DEF Step, Removing, Parts, After
    <3> QED BY <3>1, <3>2, <3>3, <3>4
  <2> QED BY <2>1, <2>2
<1>i. IsFiniteSet(kept'[p]) /\ \A a \in kept'[p] : a.time <= now'
  <2>0. /\ now' = now /\ now \in Nat /\ \A x \in Ids : art[x].time <= now
        /\ IsFiniteSet(kept[p]) /\ \A a \in kept[p] : a.time <= now
    BY <1>1, <1>2 DEF OthersPart, ArtType, Place
  <2> DEFINE new == [id |-> Lowest(entries[p]), time |-> art[Lowest(entries[p])].time]
  <2>1. kept'[p] \in {kept[p], {}} \/ (\E a : kept'[p] = kept[p] \ {a}) \/ (entries[p] # {} /\ kept'[p] = kept[p] \cup {new})
    BY ZenonT(60), <1>f DEF Step, Overflow
  <2>2. entries[p] # {} => Lowest(entries[p]) \in Ids
    BY <1>1, LowestOfThem DEF ProcType
  <2>3. CASE kept'[p] \in {kept[p], {}} \/ (\E a : kept'[p] = kept[p] \ {a})
    <3>1. kept'[p] \subseteq kept[p] BY <2>3
    <3> QED BY <2>0, <3>1, FS_Subset
  <2>4. CASE entries[p] # {} /\ kept'[p] = kept[p] \cup {new}
    <3>1. new.time <= now BY <2>0, <2>2, <2>4
    <3>2. IsFiniteSet(kept[p] \cup {new}) BY <2>0, FS_AddElement
    <3> HIDE DEF new
    <3> QED BY <2>0, <2>4, <3>1, <3>2
  <2> QED BY <2>1, <2>3, <2>4
<1>p. Place(p)' BY <1>a, <1>y, <1>r, <1>s, <1>t, <1>u, <1>v, <1>c, <1>d, <1>e, <1>g, <1>w, <1>h, <1>i DEF Place
<1> QED BY <1>o, <1>p

LEMMA TypeInitially == Init => RecoveryType
<1> SUFFICES ASSUME Init PROVE RecoveryType OBVIOUS
<1> USE DEF Init, Nothing
<1>1. ArtType BY RecoveryAssumption DEF RecoveryAssumption, ArtType
<1>2. ProcType BY <1>1, RecoveryAssumption DEF RecoveryAssumption, ProcType, Jobs, Ids
<1>3. \A p \in Procs : Place(p) BY FS_EmptySet DEF Place, Parts, Removing
<1>4. OneStoreEach BY DEF OneStoreEach
<1> QED BY <1>1, <1>2, <1>3, <1>4 DEF RecoveryType

LEMMA Stores ==
  ASSUME RecoveryType, NEW p \in Procs, Step(p)
  PROVE  /\ \/ mine'[p] = mine[p] /\ pc'[p] # "idle"
            \/ mine'[p] = 0
            \/ mine'[p] = made + 1 /\ mine[p] = 0 /\ pc'[p] = "command" /\ Makes(p)
         /\ mine[p] # 0 /\ mine'[p] # mine[p] => pc'[p] = "idle"
<1>1. mine = [q \in Procs |-> mine[q]] /\ pc = [q \in Procs |-> pc[q]] BY DEF RecoveryType, ProcType
<1>2. pc[p] = "idle" => mine[p] = 0 BY DEF RecoveryType, Place
<1>3. made + 1 # 0 BY RecoveryAssumption DEF RecoveryType, ArtType, RecoveryAssumption
<1>4. CASE Mkdir(p)
  <2>1. ArtPart(p) BY StepParts
  <2>2. pc[p] = "idle" /\ pc'[p] = "command" /\ mine'[p] = made + 1 /\ made' = made + 1
    BY <1>1, <1>4 DEF Mkdir, Goto
  <2>3. made' # made BY <2>2 DEF RecoveryType, ArtType
  <2>4. Makes(p)
    BY <2>1, <2>2, <2>3 DEF ArtPart, Leaves, Writes, Unlinks, Removes
  <2> QED BY <1>2, <2>2, <2>4
<1>5. CASE ~Mkdir(p)
  BY <1>1, <1>2, <1>5 DEF Step, WritePart, Stat, StartOther, ReadDir, Inspect, Overflow, Purge, RemoveAll, Unlink, Removed,
       RemoveDir, ReadAgain, Look, Shown, Crash, End, EndUntouched, FailNext, Goto, After, Parts
<1> QED BY <1>4, <1>5

LEMMA TypeStep == RecoveryType /\ [Next]_vars => RecoveryType'
<1> SUFFICES ASSUME RecoveryType, [Next]_vars PROVE RecoveryType' OBVIOUS
<1>1. CASE UNCHANGED vars
  BY <1>1 DEF vars, artVars, countVars, procVars, RecoveryType, ArtType, ProcType, Place, OneStoreEach
<1>2. CASE Tick
  <2>1. now' = now + 1 /\ UNCHANGED <<artVars, countVars, procVars>> BY <1>2 DEF Tick
  <2> USE <2>1 DEF artVars, countVars, procVars, RecoveryType
  <2>2. ArtType' BY DEF ArtType
  <2>3. ProcType' /\ OneStoreEach' BY DEF ProcType, OneStoreEach
  <2>4. ASSUME NEW p \in Procs PROVE Place(p)'
    <3>1. \A a \in kept[p] : a.time \in Nat BY DEF ProcType, Kept
    <3>2. \A a \in kept'[p] : a.time <= now' BY <3>1 DEF ArtType, Place
    <3> QED BY <3>2 DEF Place
  <2> QED BY <2>2, <2>3, <2>4
<1>3. ASSUME NEW p \in Procs, Step(p) PROVE RecoveryType'
  <2>1. ArtType' /\ ProcType' /\ (\A q \in Procs : Place(q)') BY <1>3, TypedArts, TypedProcs, Places
  <2>2. OneStoreEach'
    <3>1. OthersPart(p) BY <1>3, StepParts
    <3>2. mine'[p] \in {mine[p], 0, made + 1} BY <1>3, Stores
    <3>3. \A q \in Procs : mine[q] \in 0..made BY DEF RecoveryType, ProcType
    <3>4. made \in Nat BY RecoveryAssumption DEF RecoveryType, ArtType, RecoveryAssumption
    <3>5. \A q \in Procs : mine[q] # made + 1 BY <3>3, <3>4
    <3> QED BY <3>1, <3>2, <3>5 DEF OthersPart, OneStoreEach, RecoveryType
  <2> QED BY <2>1, <2>2 DEF RecoveryType
<1> QED BY <1>1, <1>2, <1>3 DEF Next

\* Types hold.
THEOREM RecoveryTypesHold == Spec => []RecoveryType
<1> QED BY TypeInitially, TypeStep, PTL DEF Spec

-----------------------------------------------------------------------------
(* Lists.                                                                  *)

LEMMA FoundInitially == Init => FoundInv
BY TypeInitially DEF Init, FoundInv, Progress, Nothing, There

\* An artifact that is there after a step was there before or is new, and has only
\* been changed by its store or by a removal that is still to be answered for.
LEMMA PartsAfter ==
  ASSUME RecoveryType, NEW p \in Procs, Step(p), NEW x \in Ids, art'[x].there
  PROVE  /\ \/ Makes(p) /\ x = made + 1 /\ art'[x].parts = {}
            \/ Writes(p) /\ x = mine[p] /\ art[x].there /\ art'[x].parts = art[x].parts \cup {pc[p]}
            \/ art[x].there /\ art'[x].parts = art[x].parts
            \/ Spoiled(x)'
         /\ Spoiled(x) => Spoiled(x)'
<1>1. ProcType /\ ArtType /\ Place(p) BY DEF RecoveryType
<1>2. OthersPart(p) /\ ArtPart(p) BY StepParts
<1>3. art[x] \in [there : BOOLEAN, parts : SUBSET Parts, time : Nat] /\ art = [y \in Ids |-> art[y]] BY <1>1 DEF ArtType
<1>4. cut \subseteq cut' BY <1>2 DEF ArtPart, Leaves, Makes, Writes, Unlinks, Removes, At
<1>5. pc[p] = "unlink" => \/ pc'[p] = "unlink" /\ target'[p] = target[p]
                          \/ target[p] \in cut'
                          \/ ~art'[target[p]].there
  <2>1. CASE Leaves(p) BY <2>1 DEF Leaves
  <2>2. CASE Unlinks(p) BY <2>2 DEF Unlinks
  <2>3. CASE Removes(p) BY <1>1, <2>3 DEF Removes, At, Nothing, ArtType
  <2> QED BY <1>2, <2>1, <2>2, <2>3 DEF ArtPart, Makes, Writes, Parts
<1>6. ASSUME Spoiled(x) PROVE Spoiled(x)'
  <2>1. CASE x \in cut BY <1>4, <2>1 DEF Spoiled
  <2>2. ASSUME NEW q \in Procs, pc[q] = "unlink", target[q] = x PROVE Spoiled(x)'
    <3>1. CASE q = p BY <1>5, <2>2, <3>1 DEF Spoiled
    <3>2. CASE q # p BY <1>2, <2>2, <3>2 DEF Spoiled, OthersPart
    <3> QED BY <3>1, <3>2
  <2> QED BY <1>6, <2>1, <2>2 DEF Spoiled
<1>a. CASE Leaves(p) BY <1>a, <1>6 DEF Leaves
<1>b. CASE Makes(p) BY <1>3, <1>b, <1>6 DEF Makes, At
<1>c. CASE Writes(p) BY <1>3, <1>c, <1>6 DEF Writes, At
<1>d. CASE Unlinks(p)
  <2>1. x = target[p] => Spoiled(x)' BY <1>d DEF Unlinks, Spoiled
  <2>2. x # target[p] => art'[x] = art[x] BY <1>3, <1>d DEF Unlinks, At
  <2> QED BY <1>6, <2>1, <2>2
<1>e. CASE Removes(p) BY <1>3, <1>e, <1>6 DEF Removes, At, Nothing
<1> QED BY <1>2, <1>a, <1>b, <1>c, <1>d, <1>e DEF ArtPart

\* Every artifact is whole, or somebody is answerable for it.
LEMMA WholeStays ==
  ASSUME FoundInv, NEW p \in Procs, Step(p)
  PROVE  /\ \A q \in Procs : Progress(q)'
         /\ \A x \in There' : art'[x].parts = Parts \/ HasStore(x)' \/ Spoiled(x)'
<1>1. RecoveryType /\ ProcType /\ ArtType /\ OneStoreEach /\ Place(p) BY DEF FoundInv, RecoveryType
<1>2. OthersPart(p) /\ ArtPart(p) /\ ProcType' /\ Place(p)' BY <1>1, StepParts, TypedProcs, Places
<1>4. \A q \in Procs : mine[q] \in Nat /\ mine[q] <= made /\ (mine[q] # 0 => mine[q] \in Ids)
  BY <1>1, RecoveryAssumption DEF ProcType, ArtType, Ids, RecoveryAssumption
<1>5. made \in Nat BY <1>1, RecoveryAssumption DEF ArtType, RecoveryAssumption
<1>6. /\ (mine'[p] = mine[p] /\ pc'[p] # "idle") \/ mine'[p] = 0 \/ (mine'[p] = made + 1 /\ pc'[p] = "command" /\ Makes(p))
      /\ mine[p] # 0 /\ mine'[p] # mine[p] => pc'[p] = "idle"
  BY <1>1, Stores
<1>p. pc = [q \in Procs |-> pc[q]] /\ job = [q \in Procs |-> job[q]] BY <1>1 DEF ProcType
<1>7. ASSUME NEW x \in Ids, art'[x].there
      PROVE  /\ \/ Makes(p) /\ x = made + 1 /\ art'[x].parts = {}
                \/ Writes(p) /\ x = mine[p] /\ art[x].there /\ art'[x].parts = art[x].parts \cup {pc[p]}
                \/ art[x].there /\ art'[x].parts = art[x].parts
                \/ Spoiled(x)'
             /\ Spoiled(x) => Spoiled(x)'
  BY <1>1, <1>7, PartsAfter
<1>8. ASSUME NEW q \in Procs, NEW x \in Ids, mine'[q] = x, job'[q] = "store", art'[x].there, ~Spoiled(x)'
      PROVE  art'[x].parts = Before(pc'[q])
  <2>1. CASE q # p
    <3>1. pc'[q] = pc[q] /\ mine'[q] = mine[q] /\ job[q] = "store" /\ Progress(q)
      BY <1>2, <1>8, <2>1 DEF OthersPart, FoundInv
    <3>2. mine[q] = x /\ x # mine[p] /\ x # made + 1
      BY <1>1, <1>4, <1>5, <1>8, <2>1, <3>1 DEF OneStoreEach, Ids
    <3>3. art[x].there /\ art'[x].parts = art[x].parts /\ ~Spoiled(x)
      BY <1>7, <1>8, <3>1, <3>2
    <3> QED BY <3>1, <3>2, <3>3 DEF Progress
  <2>2. CASE q = p /\ mine'[p] = made + 1 /\ pc'[p] = "command" /\ Makes(p)
    <3>1. art'[x].parts = {} BY <1>1, <1>8, <2>2 DEF Makes, At, ArtType
    <3> QED BY <2>2, <3>1 DEF Before
  <2>3. CASE q = p /\ mine'[p] = mine[p] /\ mine[p] # 0
    <3>1. mine[p] = x /\ x # made + 1 /\ Progress(p) BY <1>4, <1>5, <1>8, <2>3 DEF FoundInv
    <3>2. job[p] = "store"
      BY <1>1, <1>p, <1>8, <2>3 DEF Place, Step, Mkdir, WritePart, Stat, StartOther, ReadDir, Inspect, Overflow, Purge,
           RemoveAll, Unlink, RemoveDir, Removed, ReadAgain, Look, Shown, Crash, End, EndUntouched, FailNext
    <3>3. ~Spoiled(x) /\ art[x].there BY <1>7, <1>8, <3>1
    <3>5. art[x].parts = Before(pc[p]) BY <3>1, <3>2, <3>3 DEF Progress
    <3>6. CASE Writes(p) /\ art'[x].parts = art[x].parts \cup {pc[p]}
      <4>1. pc'[p] = After(pc[p]) /\ pc[p] \in Parts BY <3>6 DEF Writes
      <4> QED BY <2>3, <3>5, <3>6, <4>1 DEF Before, After, Parts
    <3>7. CASE art'[x].parts = art[x].parts /\ ~Writes(p)
      <4>1. pc[p] \notin Parts
        BY <1>2, <1>8, <1>6, <2>3, <3>1, <3>7 DEF ArtPart, Leaves, Makes, Unlinks, Removes, Parts, Removing, Place
      <4>2. pc[p] # "idle" BY <1>1, <2>3 DEF Place
      <4>3. pc'[p] \notin Parts
        BY <1>p, <4>1, <4>2 DEF Step, Mkdir, WritePart, Stat, StartOther, ReadDir, Inspect, Overflow, Purge, RemoveAll,
               Unlink, RemoveDir, Removed, ReadAgain, Look, Shown, Crash, End, EndUntouched, FailNext, Goto, Parts
      <4> QED BY <2>3, <3>5, <3>7, <4>1, <4>3 DEF Before, Parts
    <3>8. Writes(p) => art'[x].parts = art[x].parts \cup {pc[p]}
      <4>1. art[x] \in [there : BOOLEAN, parts : SUBSET Parts, time : Nat] /\ art = [y \in Ids |-> art[y]]
        BY <1>1 DEF ArtType
      <4>2. Writes(p) => art'[x] = [art[x] EXCEPT !.parts = @ \cup {pc[p]}, !.time = now]
        BY <3>1, <4>1 DEF Writes, At
      <4> QED BY <4>1, <4>2
    <3> QED BY <1>7, <1>8, <2>3, <3>1, <3>6, <3>7, <3>8
  <2>4. ~(q = p /\ mine'[p] = 0) BY <1>8 DEF Ids
  <2>5. CASE q = p /\ mine'[p] = mine[p] /\ mine[p] = 0 BY <2>4, <2>5
  <2> QED BY <1>6, <2>1, <2>2, <2>3, <2>4, <2>5
<1>9. ASSUME NEW x \in There', ~HasStore(x)', ~Spoiled(x)' PROVE art'[x].parts = Parts
  <2>0. x \in Ids /\ art'[x].there BY DEF There
  <2>1. left \subseteq left'
    BY <1>2 DEF ArtPart, Leaves, Makes, Writes, Unlinks, Removes, At
  <2>2. \A q \in Procs : mine'[q] # x /\ x \notin left' BY <1>9 DEF HasStore
  <2>3. CASE Makes(p) /\ x = made + 1
    <3>1. pc'[p] = "command" /\ pc[p] = "idle" BY <2>3 DEF Makes
    <3>2. mine'[p] # 0 /\ mine[p] = 0 BY <1>1, <1>2, <3>1 DEF Place, Parts
    <3> QED BY <1>6, <2>2, <2>3, <3>2
  <2>4. ~Spoiled(x) BY <1>7, <1>9, <2>0
  <2>5. CASE mine[p] = x
    <3>1. x # 0 /\ pc'[p] = "idle" BY <1>6, <2>0, <2>2, <2>5 DEF Ids
    <3>2. CASE Leaves(p)
      <4>1. pc[p] = "stat" BY <2>2, <2>5, <3>1, <3>2 DEF Leaves
      <4>2. art' = art /\ job[p] = "store" /\ Progress(p) BY <1>1, <3>2, <4>1 DEF Leaves, Place, FoundInv
      <4>3. art[x].parts = Before("stat") BY <2>0, <2>4, <2>5, <4>1, <4>2 DEF Progress
      <4> QED BY <4>2, <4>3 DEF Before
    <3>3. CASE Removes(p)
      <4>1. target[p] = x BY <1>1, <2>5, <3>1, <3>3 DEF Removes, Place
      <4> QED BY <1>1, <2>0, <3>3, <4>1 DEF Removes, At, Nothing, ArtType
    <3> QED BY <1>2, <3>1, <3>2, <3>3 DEF ArtPart, Makes, Writes, Unlinks, After
  <2>6. CASE mine[p] # x /\ ~(Makes(p) /\ x = made + 1)
    <3>1. art[x].there /\ art'[x].parts = art[x].parts BY <1>7, <1>9, <2>0, <2>6
    <3>2. ~HasStore(x) BY <1>2, <2>1, <2>2, <2>6 DEF HasStore, OthersPart
    <3> QED BY <2>0, <2>4, <3>1, <3>2 DEF FoundInv, There
  <2> QED BY <2>3, <2>5, <2>6
<1>10. ASSUME NEW q \in Procs PROVE Progress(q)'
  <2>1. job'[q] = "store" => mine'[q] \in Ids
    <3>1. ArtType' /\ ProcType' /\ Place(q)' BY <1>1, TypedArts, TypedProcs, Places
    <3> QED BY <3>1, RecoveryAssumption DEF RecoveryAssumption, ProcType, ArtType, Place, Ids
  <2> QED BY <1>8, <2>1 DEF Progress, Spoiled
<1> QED BY <1>9, <1>10

\* What a list has found still has its command, or the list has been disturbed.
LEMMA FoundStays ==
  ASSUME FoundInv, NEW p \in Procs, Step(p)
  PROVE  \A q \in Procs : \A x \in listed'[q] : x \in touched'[q] \/ "command" \in art'[x].parts
<1>1. RecoveryType /\ ProcType /\ ArtType BY DEF FoundInv, RecoveryType
<1>2. OthersPart(p) /\ ArtPart(p) BY <1>1, StepParts
<1>3. ASSUME NEW q \in Procs \ {p}, NEW x \in listed'[q] PROVE x \in touched'[q] \/ "command" \in art'[x].parts
  <2>1. x \in listed[q] /\ x \in Ids BY <1>1, <1>2, <1>3 DEF OthersPart, ProcType
  <2>2. pc[q] # "idle" BY <1>1, <2>1 DEF RecoveryType, Place
  <2>3. x \in touched[q] \/ "command" \in art[x].parts BY <2>1 DEF FoundInv
  <2>4. ASSUME NEW y, NEW c, At(p, y, c) PROVE x \in touched'[q] \/ "command" \in art'[x].parts
    BY <1>1, <2>1, <2>2, <2>3, <2>4 DEF At, ArtType
  <2>5. CASE Leaves(p) BY <2>3, <2>5 DEF Leaves
  <2> QED BY <1>2, <2>4, <2>5 DEF ArtPart, Makes, Writes, Unlinks, Removes
<1>4. ASSUME NEW x \in listed'[p] PROVE x \in touched'[p] \/ "command" \in art'[x].parts
  <2>1. Place(p)' /\ Place(p) BY <1>1, Places DEF RecoveryType
  <2>2. pc'[p] \in {"look", "listed"} BY <1>4, <2>1 DEF Place
  <2>f. pc = [q \in Procs |-> pc[q]] /\ listed = [q \in Procs |-> listed[q]] /\ touched = [q \in Procs |-> touched[q]]
    BY <1>1 DEF ProcType
  <2>3. CASE Look(p)
    <3>1. \/ listed'[p] = listed[p]
          \/ "command" \in art[Lowest(entries[p])].parts /\ listed'[p] = listed[p] \cup {Lowest(entries[p])}
      BY <2>2, <2>f, <2>3 DEF Look, End, EndUntouched, Goto
    <3>2. touched'[p] = touched[p] /\ art' = art
      BY <2>2, <2>f, <2>3 DEF Look, End, EndUntouched, Goto
    <3> QED BY <1>4, <3>1, <3>2 DEF FoundInv
  <2>4. CASE ~Look(p)
    <3>1. pc[p] \in {"inspect", "readAgain"} /\ listed'[p] = listed[p]
      BY <2>2, <2>f, <2>4 DEF Step, Mkdir, WritePart, Stat, StartOther, ReadDir, Inspect, Overflow, Purge,
           RemoveAll, Unlink, RemoveDir, Removed, ReadAgain, Shown, Crash, End, EndUntouched, FailNext, Goto, After
    <3>2. listed[p] = {} BY <2>1, <3>1 DEF Place
    <3> QED BY <1>4, <3>1, <3>2
  <2> QED BY <2>3, <2>4
<1> QED BY <1>3, <1>4

LEMMA FoundStep == FoundInv /\ [Next]_vars => FoundInv'
<1> SUFFICES ASSUME FoundInv, [Next]_vars PROVE FoundInv' OBVIOUS
<1>1. RecoveryType' BY TypeStep DEF FoundInv
<1>2. CASE UNCHANGED vars \/ Tick
  BY <1>1, <1>2 DEF vars, Tick, artVars, countVars, procVars, FoundInv, Progress, HasStore, Spoiled, There
<1>3. CASE \E p \in Procs : Step(p) BY <1>1, <1>3, WholeStays, FoundStays DEF FoundInv
<1> QED BY <1>2, <1>3 DEF Next

-----------------------------------------------------------------------------
(* What is there, after a step.                                            *)

LEMMA ThereAfter ==
  ASSUME RecoveryType, NEW p \in Procs, Step(p)
  PROVE  \/ Leaves(p) /\ There' = There
         \/ Makes(p) /\ There' = There \cup {made + 1} /\ made + 1 \in Ids
         \/ Writes(p) /\ There' = There
         \/ Unlinks(p) /\ There' = There
         \/ Removes(p) /\ There' = There \ {target[p]}
<1>1. art \in [Ids -> [there : BOOLEAN, parts : SUBSET Parts, time : Nat]] BY DEF RecoveryType, ArtType
<1>2. ArtPart(p) BY StepParts
<1>3. ASSUME NEW x, NEW c, At(p, x, c)
      PROVE  There' = {y \in Ids : IF y = x THEN c.there ELSE art[y].there}
  BY <1>1, <1>3 DEF At, There
<1>a. CASE Leaves(p) BY <1>a DEF Leaves, There
<1>b. CASE Makes(p)
  <2> DEFINE c == [there |-> TRUE, parts |-> {}, time |-> now]
  <2>1. At(p, made + 1, c) /\ c.there = TRUE /\ made + 1 \in Ids BY <1>b DEF Makes, At
  <2> HIDE DEF c
  <2> QED BY <1>3, <1>b, <2>1 DEF There
<1>c. CASE Writes(p)
  <2>0. mine[p] \in Ids BY <1>c DEF Writes, At
  <2>1. art[mine[p]] \in [there : BOOLEAN, parts : SUBSET Parts, time : Nat] BY <1>1, <2>0
  <2> DEFINE c == [art[mine[p]] EXCEPT !.parts = @ \cup {pc[p]}, !.time = now]
  <2>2. At(p, mine[p], c) /\ c.there = TRUE /\ art[mine[p]].there BY <1>c, <2>1 DEF Writes
  <2> HIDE DEF c
  <2> QED BY <1>3, <1>c, <2>2 DEF There
<1>e. CASE Unlinks(p)
  <2>0. PICK part \in art[target[p]].parts :
               At(p, target[p], [art[target[p]] EXCEPT !.parts = @ \ {part}, !.time = now])
    BY <1>e DEF Unlinks
  <2>1. target[p] \in Ids BY <2>0 DEF At
  <2>2. art[target[p]] \in [there : BOOLEAN, parts : SUBSET Parts, time : Nat] BY <1>1, <2>1
  <2> DEFINE c == [art[target[p]] EXCEPT !.parts = @ \ {part}, !.time = now]
  <2>3. At(p, target[p], c) /\ c.there = art[target[p]].there BY <2>0, <2>2
  <2> HIDE DEF c
  <2> QED BY <1>3, <1>e, <2>1, <2>3 DEF There
<1>f. CASE Removes(p) BY <1>3, <1>f DEF Removes, There, Nothing
<1> QED BY <1>2, <1>a, <1>b, <1>c, <1>e, <1>f DEF ArtPart

LEMMA FiniteThere ==
  ASSUME NEW S \in SUBSET Ids
  PROVE  IsFiniteSet(S) /\ Cardinality(S) \in Nat
<1>1. IsFiniteSet(Ids) BY FS_Interval, RecoveryAssumption DEF Ids, RecoveryAssumption
<1> QED BY <1>1, FS_Subset, FS_CardinalityType

\* What a process keeps has no more members than the records it keeps of them.
LEMMA KeptCounts ==
  ASSUME RecoveryType, NEW p \in Procs, Overflowing(kept[p]) = {}, NEW S \in SUBSET {a.id : a \in kept[p]}
  PROVE  Cardinality(S) <= MaxArtifacts
<1>1. kept[p] \in SUBSET Kept /\ IsFiniteSet(kept[p]) BY DEF RecoveryType, ProcType, Place
<1>2. Cardinality(kept[p]) <= MaxArtifacts BY <1>1, NoneOverflows
<1> DEFINE ids == {a.id : a \in kept[p]}
<1> DEFINE id_ == [a \in kept[p] |-> a.id]
<1>6. id_ \in Surjection(kept[p], ids) BY DEF Surjection
<1> HIDE DEF id_
<1>3. IsFiniteSet(ids) /\ Cardinality(ids) <= Cardinality(kept[p]) BY <1>1, <1>6, FS_Surjection
<1>4. Cardinality(S) <= Cardinality(ids) BY <1>3, FS_Subset
<1>5. Cardinality(S) \in Nat /\ Cardinality(ids) \in Nat /\ Cardinality(kept[p]) \in Nat /\ MaxArtifacts \in Nat
  BY <1>1, <1>3, FS_Subset, FS_CardinalityType, RecoveryAssumption DEF RecoveryAssumption
<1> HIDE DEF ids
<1> QED BY <1>2, <1>3, <1>4, <1>5

-----------------------------------------------------------------------------
(* What nobody has disturbed.                                              *)

LEMMA UndisturbedInitially == Init => UndisturbedInv
BY TypeInitially DEF Init, UndisturbedInv, Undisturbed, Removing

LEMMA UndisturbedOther ==
  ASSUME UndisturbedInv, NEW p \in Procs, Step(p), NEW q \in Procs \ {p}
  PROVE  Undisturbed(q)'
<1>1. RecoveryType /\ ProcType /\ ArtType /\ Undisturbed(q) BY DEF UndisturbedInv, RecoveryType
<1>2. OthersPart(p) /\ ArtPart(p) BY <1>1, StepParts
<1>3. CASE Leaves(p)
  <2>1. There' = There /\ Covered(q)' = Covered(q) /\ art' = art /\ touched'[q] = touched[q]
    BY <1>2, <1>3 DEF Leaves, There, Covered, OthersPart
  <2> QED BY <1>1, <1>2, <2>1 DEF Undisturbed, OthersPart
<1>4. ASSUME NEW x, NEW c, At(p, x, c) PROVE Undisturbed(q)'
  <2>1. pc[q] = "idle" \/ touched'[q] # {} BY <1>4 DEF At
  <2>2. pc'[q] = pc[q] BY <1>2 DEF OthersPart
  <2> QED BY <2>1, <2>2 DEF Undisturbed, Removing
<1> QED BY <1>2, <1>3, <1>4 DEF ArtPart, Makes, Writes, Unlinks, Removes

LEMMA UndisturbedSelf ==
  ASSUME UndisturbedInv, NEW p \in Procs, Step(p)
  PROVE  Undisturbed(p)'
<1>1. RecoveryType /\ ProcType /\ ArtType /\ Undisturbed(p) /\ Place(p) BY DEF UndisturbedInv, RecoveryType
<1>2. OthersPart(p) /\ ArtPart(p) /\ Place(p)' BY <1>1, StepParts, Places
<1>0. job'[p] = "undo" => Undisturbed(p)' BY <1>2 DEF Undisturbed, Place, Removing
<1> SUFFICES ASSUME touched'[p] = {}, pc'[p] \in {"inspect", "stat", "readAgain", "look", "listed"} \cup Removing,
                    job'[p] # "undo"
             PROVE  Undisturbed(p)'
  BY <1>0 DEF Undisturbed, Removing
<1>f. /\ pc = [q \in Procs |-> pc[q]] /\ job = [q \in Procs |-> job[q]]
      /\ entries = [q \in Procs |-> entries[q]] /\ kept = [q \in Procs |-> kept[q]]
      /\ target = [q \in Procs |-> target[q]] /\ listed = [q \in Procs |-> listed[q]]
      /\ touched = [q \in Procs |-> touched[q]]
  BY <1>1 DEF ProcType
<1>3. pc'[p] # "idle" BY DEF Removing
<1>4. entries[p] # {} => Lowest(entries[p]) \in entries[p] BY <1>1, LowestOfThem DEF ProcType
<1>8. pc[p] = "inspect" => job[p] \in {"store", "list"} BY <1>1 DEF ProcType, Jobs, Place, Removing
<1> USE DEF End, EndUntouched, FailNext, Goto, artVars, procVars, countVars
<1>5. touched[p] = {} \/ pc[p] = "idle"
  BY <1>3, <1>f DEF Step, Mkdir, WritePart, Stat, StartOther, ReadDir, Inspect, Overflow, Purge, RemoveAll, Unlink, Removed,
       RemoveDir, ReadAgain, Look, Shown, Crash, Change
<1>6. \/ ReadDir(p) \/ Inspect(p) \/ Overflow(p) \/ Purge(p) \/ RemoveAll(p) \/ Unlink(p) \/ RemoveDir(p)
      \/ ReadAgain(p) \/ Look(p)
  BY <1>3, <1>f DEF Step, Mkdir, WritePart, Stat, StartOther, Shown, Crash, After, Parts, Removing
<1>7. pc[p] # "idle" /\ touched[p] = {}
  BY <1>5, <1>6 DEF ReadDir, Inspect, Overflow, Purge, RemoveAll, Unlink, RemoveDir, Removed, ReadAgain, Look
<1>a. CASE ReadDir(p)
  <2>1. There' = There BY <1>a DEF ReadDir, There
  <2>2. entries'[p] = There /\ pc'[p] \in {"purge", "inspect"} BY <1>f, <1>a DEF ReadDir
  <2> QED BY <2>1, <2>2 DEF Undisturbed, Covered, Removing
<1>b. CASE Inspect(p)
  <2>1. There' = There /\ art' = art BY <1>b DEF Inspect, There
  <2>2. There \subseteq Covered(p) /\ entries[p] \subseteq There
    BY <1>1, <1>7, <1>8, <1>b DEF Undisturbed, Inspect, Place
  <2> DEFINE x == Lowest(entries[p])
  <2>3. x \in entries[p] /\ x \in There /\ art[x].there BY <1>4, <1>b, <2>2 DEF Inspect, There
  <2>4. /\ entries'[p] = entries[p] \ {x} /\ job'[p] = job[p]
        /\ \/ pc'[p] = "removeAll" /\ target'[p] = x /\ kept'[p] = kept[p]
           \/ pc'[p] = "inspect" /\ target'[p] = target[p] /\ kept'[p] = kept[p] \cup {[id |-> x, time |-> art[x].time]}
    <3>1. entries' = [entries EXCEPT ![p] = @ \ {x}] /\ UNCHANGED job BY <1>b, <2>3 DEF Inspect
    <3>2. \/ Goto(p, "removeAll") /\ target' = [target EXCEPT ![p] = x] /\ UNCHANGED kept
          \/ kept' = [kept EXCEPT ![p] = @ \cup {[id |-> x, time |-> art[x].time]}] /\ UNCHANGED <<pc, target>>
      BY <1>b, <2>3 DEF Inspect
    <3>3. pc[p] = "inspect" BY <1>b DEF Inspect
    <3> HIDE DEF x
    <3> QED BY <1>f, <3>1, <3>2, <3>3
  <2>5. target[p] = 0 /\ 0 \notin There BY <1>1, <1>b DEF Place, Inspect, Removing, There, Ids
  <2>6. There' \subseteq Covered(p)'
    <3>1. CASE pc'[p] = "removeAll" /\ target'[p] = x /\ kept'[p] = kept[p]
      BY <2>1, <2>2, <2>4, <2>5, <3>1 DEF Covered
    <3>2. CASE kept'[p] = kept[p] \cup {[id |-> x, time |-> art[x].time]} /\ target'[p] = target[p]
      <4>0. [id |-> x, time |-> art[x].time] \in kept'[p] /\ [id |-> x, time |-> art[x].time].id = x BY <3>2
      <4>1. x \in {a.id : a \in kept'[p]} BY <4>0
      <4>2. {a.id : a \in kept[p]} \subseteq {a.id : a \in kept'[p]} BY <3>2
      <4> QED BY <2>1, <2>2, <2>4, <3>2, <4>1, <4>2 DEF Covered
    <3> QED BY <2>4, <3>1, <3>2
  <2>7. entries'[p] \subseteq There' BY <2>1, <2>2, <2>4
  <2> QED BY <2>4, <2>6, <2>7 DEF Undisturbed, Removing
<1>c. CASE Overflow(p)
  <2>1. There' = There BY <1>c DEF Overflow, There
  <2>2. There \subseteq Covered(p) /\ entries[p] = {} /\ target[p] = 0 /\ 0 \notin There
    BY <1>1, <1>7, <1>8, <1>c DEF Undisturbed, Overflow, Place, There, Ids, Removing
  <2>3. There \subseteq {a.id : a \in kept[p]} BY <2>2 DEF Covered
  <2>4. CASE Overflowing(kept[p]) = {}
    <3>1. pc'[p] \in {"readAgain", "stat"} BY <1>f, <1>c, <2>4 DEF Overflow
    <3>2. Cardinality(There) <= MaxArtifacts BY <1>1, <2>3, <2>4, KeptCounts
    <3> QED BY <2>1, <3>1, <3>2 DEF Undisturbed, Removing
  <2>5. CASE Overflowing(kept[p]) # {}
    <3> DEFINE a == CHOOSE a \in Overflowing(kept[p]) : \A b \in Overflowing(kept[p]) : ~Newer(b, a)
    <3>1. /\ kept' = [kept EXCEPT ![p] = @ \ {a}] /\ target' = [target EXCEPT ![p] = a.id] /\ Goto(p, "removeAll")
          /\ entries' = entries
      BY <1>c, <2>5 DEF Overflow
    <3> HIDE DEF a
    <3>2. kept'[p] = kept[p] \ {a} /\ target'[p] = a.id /\ pc'[p] = "removeAll" /\ entries'[p] = {} BY <1>f, <2>2, <3>1
    <3>3. There' \subseteq Covered(p)' BY <2>1, <2>3, <3>2 DEF Covered
    <3> QED BY <3>2, <3>3 DEF Undisturbed, Removing
  <2> QED BY <2>4, <2>5
<1>d. CASE Purge(p)
  <2>1. pc'[p] = "removeAll" /\ job'[p] = "purge" BY <1>1, <1>3, <1>f, <1>d DEF Purge, Place
  <2> QED BY <2>1 DEF Undisturbed
\* A removal that is done, or has got as far as another file.
<1>e. CASE RemoveAll(p) \/ Unlink(p) \/ RemoveDir(p)
  <2>1. UNCHANGED <<job, entries, kept>> /\ job[p] # "undo" /\ pc[p] \in Removing
    BY <1>1, <1>3, <1>f, <1>e DEF RemoveAll, Unlink, RemoveDir, Removed, Removing, Place
  <2>2. \/ There' = There /\ pc'[p] = "unlink" /\ UNCHANGED target
        \/ There' = There \ {target[p]} /\ pc'[p] \in {"inspect", "purge"} /\ target'[p] = 0
    <3>1. CASE Removed(p) /\ Change(p, target[p], Nothing)
      <4>1. target[p] \in Ids /\ art' = [art EXCEPT ![target[p]] = Nothing]
        BY <1>1, <2>1, <3>1 DEF Change, Place
      <4>2. There' = There \ {target[p]} BY <1>1, <4>1 DEF ArtType, There, Nothing
      <4> QED BY <1>f, <2>1, <3>1, <4>2 DEF Removed
    <3>2. CASE pc'[p] = "unlink" /\ UNCHANGED target
      <4>1. pc[p] = "unlink" \/ art' = art BY <1>e, <1>f, <3>2 DEF RemoveAll, Unlink, RemoveDir, Removed
      <4>2. CASE art' = art BY <3>2, <4>2 DEF There
      <4>3. CASE pc[p] = "unlink"
        <5>1. \/ Leaves(p) /\ There' = There
              \/ Makes(p)
              \/ Writes(p) /\ There' = There
              \/ Unlinks(p) /\ There' = There
              \/ Removes(p)
          BY <1>1, ThereAfter
        <5>2. ~Makes(p) /\ ~Removes(p) BY <3>2, <4>3 DEF Makes, Removes
        <5> QED BY <3>2, <5>1, <5>2
      <4> QED BY <4>1, <4>2, <4>3
    <3> QED BY <1>3, <1>f, <1>e, <2>1, <3>1, <3>2 DEF RemoveAll, Unlink, RemoveDir
  <2>3. job[p] \in {"store", "list"} => There \subseteq Covered(p) /\ entries[p] \subseteq There
    BY <1>1, <1>7, <1>e, <2>1 DEF Undisturbed, Removing
  <2>4. target[p] \notin entries[p] BY <1>1, <2>1 DEF Place
  <2>5. Covered(p) \ {target[p]} \subseteq Covered(p)' /\ (target' = target => Covered(p)' = Covered(p))
    BY <2>1 DEF Covered
  <2>6. pc'[p] \in {"inspect", "purge", "unlink"} BY <2>2
  <2> QED BY <2>1, <2>2, <2>3, <2>4, <2>5, <2>6 DEF Undisturbed, Removing
<1>h. CASE ReadAgain(p)
  <2>1. There' = There /\ entries'[p] = There /\ pc'[p] = "look" BY <1>f, <1>h DEF ReadAgain, There
  <2> QED BY <2>1 DEF Undisturbed, Removing
<1>i. CASE Look(p)
  <2>1. There' = There /\ art' = art BY <1>i DEF Look, There
  <2>2. \A x \in There : x \in entries[p] \cup listed[p] \/ "command" \notin art[x].parts
    BY <1>1, <1>7, <1>i DEF Undisturbed, Look
  <2>3. CASE entries[p] = {}
    <3>1. pc'[p] = "listed" /\ entries'[p] = {} /\ listed'[p] = listed[p] BY <1>f, <1>i, <2>3 DEF Look
    <3> QED BY <2>1, <2>2, <2>3, <3>1 DEF Undisturbed, Removing
  <2>4. CASE entries[p] # {}
    <3> DEFINE x == Lowest(entries[p])
    <3>1. /\ pc'[p] = "look" /\ entries'[p] = entries[p] \ {x}
          /\ listed'[p] = IF "command" \in art[x].parts THEN listed[p] \cup {x} ELSE listed[p]
      BY <1>3, <1>f, <1>i, <2>4 DEF Look
    <3> HIDE DEF x
    <3> QED BY <2>1, <2>2, <3>1 DEF Undisturbed, Removing
  <2> QED BY <2>3, <2>4
<1> QED BY <1>6, <1>a, <1>b, <1>c, <1>d, <1>e, <1>h, <1>i

LEMMA UndisturbedStep == UndisturbedInv /\ [Next]_vars => UndisturbedInv'
<1> SUFFICES ASSUME UndisturbedInv, [Next]_vars PROVE UndisturbedInv' OBVIOUS
<1>1. RecoveryType' BY TypeStep DEF UndisturbedInv
<1>2. CASE UNCHANGED vars \/ Tick
  <2>1. UNCHANGED <<artVars, procVars>> BY <1>2 DEF vars, Tick
  <2>2. There' = There /\ \A p \in Procs : Covered(p)' = Covered(p)
    BY <2>1 DEF artVars, procVars, There, Covered
  <2> QED BY <1>1, <2>1, <2>2 DEF artVars, procVars, UndisturbedInv, Undisturbed
<1>3. CASE \E p \in Procs : Step(p)
  BY <1>1, <1>3, UndisturbedOther, UndisturbedSelf DEF UndisturbedInv
<1> QED BY <1>2, <1>3 DEF Next

-----------------------------------------------------------------------------
(* The number of artifacts.                                                *)

LEMMA BudgetInitially == Init => BudgetInv
<1> SUFFICES ASSUME Init PROVE Budget BY TypeInitially DEF BudgetInv
<1>1. There = {} BY DEF Init, There, Nothing
<1>2. \A Q \in SUBSET Procs : Settled(Q) = {} BY <1>1 DEF Settled
<1>3. MaxArtifacts \in Nat BY RecoveryAssumption DEF RecoveryAssumption
<1>4. Cardinality({}) <= MaxArtifacts BY <1>3, FS_EmptySet
<1> QED BY <1>2, <1>4 DEF Budget

\* Which of the stores are rotating, after a step.
LEMMA RotatingAfter ==
  ASSUME RecoveryType, NEW p \in Procs, Step(p), Rotating(p)'
  PROVE  /\ job[p] = "store" /\ mine'[p] = mine[p]
         /\ pc[p] = "readDir" \/ (Rotating(p) /\ pc[p] # "stat")
<1>1. ProcType /\ Place(p) BY DEF RecoveryType
<1>2. Place(p)' BY Places
<1>3. ProcType' BY TypedProcs
<1>f. /\ pc = [q \in Procs |-> pc[q]] /\ job = [q \in Procs |-> job[q]] /\ mine = [q \in Procs |-> mine[q]]
  BY <1>1 DEF ProcType
<1>4. /\ pc'[p] \in {"inspect", "stat"} \cup Removing /\ job'[p] = "store" BY DEF Rotating
<1>5. /\ job[p] = "store" /\ mine'[p] = mine[p]
      /\ pc[p] \in {"readDir", "inspect", "purge", "removeAll", "unlink"}
  BY <1>f, <1>4 DEF Step, Mkdir, WritePart, Stat, StartOther, ReadDir, Inspect, Overflow, Purge, RemoveAll, Unlink, Removed,
       RemoveDir, ReadAgain, Look, Shown, Crash, End, EndUntouched, FailNext, Goto, After, Parts, Removing
<1> QED BY <1>1, <1>5 DEF Place, Rotating, Removing

\* What is covered stays so, but for what is not there any more.
LEMMA CoveredAfter ==
  ASSUME RecoveryType, NEW p \in Procs, Step(p), Rotating(p), pc[p] # "stat", Rotating(p)', pc'[p] # "stat"
  PROVE  Covered(p) \cap There' \subseteq Covered(p)'
<1>1. ProcType /\ ArtType /\ Place(p) BY DEF RecoveryType
<1>f. /\ pc = [q \in Procs |-> pc[q]] /\ job = [q \in Procs |-> job[q]]
      /\ entries = [q \in Procs |-> entries[q]] /\ kept = [q \in Procs |-> kept[q]]
      /\ target = [q \in Procs |-> target[q]]
  BY <1>1 DEF ProcType
<1>2. 0 \notin There' BY DEF There, Ids
<1>3. pc'[p] \in {"inspect"} \cup Removing /\ pc[p] \in {"inspect"} \cup Removing /\ job[p] = "store" /\ job'[p] = "store"
  BY DEF Rotating, Removing
<1>4. Inspect(p) \/ Overflow(p) \/ RemoveAll(p) \/ Unlink(p) \/ RemoveDir(p)
  BY <1>f, <1>3 DEF Step, Mkdir, WritePart, Stat, StartOther, ReadDir, Purge, ReadAgain, Look, Shown, Crash,
       End, EndUntouched, FailNext, Goto, After, Parts, Removing
<1>a. CASE Inspect(p)
  <2> DEFINE x == Lowest(entries[p])
  <2>0. pc[p] = "inspect" /\ target[p] = 0 BY <1>1, <1>a DEF Inspect, Place, Removing
  <2>1. entries' = [entries EXCEPT ![p] = @ \ {x}]
    BY <1>3, <1>f, <1>a DEF Inspect, FailNext, Goto, Removing
  <2>2. \/ target' = [target EXCEPT ![p] = x] /\ UNCHANGED kept
        \/ kept' = [kept EXCEPT ![p] = @ \cup {[id |-> x, time |-> art[x].time]}] /\ UNCHANGED target
    BY <1>3, <1>f, <1>a DEF Inspect, FailNext, Goto, Removing
  <2> HIDE DEF x
  <2>3. CASE target' = [target EXCEPT ![p] = x] /\ UNCHANGED kept
    BY <1>f, <1>2, <2>0, <2>1, <2>3 DEF Covered
  <2>4. CASE kept' = [kept EXCEPT ![p] = @ \cup {[id |-> x, time |-> art[x].time]}] /\ UNCHANGED target
    <3>0. [id |-> x, time |-> art[x].time] \in kept'[p] /\ [id |-> x, time |-> art[x].time].id = x BY <1>f, <2>4
    <3>1. x \in {a.id : a \in kept'[p]} BY <3>0
    <3>2. {a.id : a \in kept[p]} \subseteq {a.id : a \in kept'[p]} BY <1>f, <2>4
    <3>3. entries[p] \subseteq entries'[p] \cup {x} BY <1>f, <2>1
    <3> QED BY <2>0, <1>2, <2>4, <3>1, <3>2, <3>3 DEF Covered
  <2> QED BY <2>2, <2>3, <2>4
<1>b. CASE Overflow(p)
  <2>0. entries[p] = {} /\ target[p] = 0 BY <1>1, <1>b DEF Overflow, Place, Removing
  <2>1. Overflowing(kept[p]) # {} BY <1>3, <1>f, <1>b DEF Overflow, Goto, Removing
  <2> DEFINE a == CHOOSE a \in Overflowing(kept[p]) : \A b \in Overflowing(kept[p]) : ~Newer(b, a)
  <2>2. kept' = [kept EXCEPT ![p] = @ \ {a}] /\ target' = [target EXCEPT ![p] = a.id]
    BY <1>b, <2>1 DEF Overflow
  <2> HIDE DEF a
  <2>3. kept'[p] = kept[p] \ {a} /\ target'[p] = a.id BY <1>f, <2>2
  <2> QED BY <1>2, <2>0, <2>3 DEF Covered
<1>c. CASE (RemoveAll(p) \/ Unlink(p) \/ RemoveDir(p)) /\ UNCHANGED <<entries, kept, target>>
  BY <1>c DEF Covered
<1>d. CASE Removed(p) /\ Change(p, target[p], Nothing) /\ pc[p] \in Removing
  <2>1. UNCHANGED <<entries, kept>> BY <1>3, <1>d DEF Removed
  <2>2. target[p] \in Ids BY <1>1, <1>d DEF Place
  <2>3. target[p] \notin There' BY <1>1, <1>d, <2>2 DEF Change, ArtType, There, Nothing
  <2> QED BY <2>1, <2>3 DEF Covered
<1>e. CASE RemoveAll(p) \/ Unlink(p) \/ RemoveDir(p)
  BY <1>3, <1>f, <1>c, <1>d, <1>e DEF RemoveAll, Unlink, RemoveDir, FailNext, Goto, Removing
<1> QED BY <1>4, <1>a, <1>b, <1>e

\* A step settles no artifact but that of a store which ends well.
LEMMA SettledAfter ==
  ASSUME RecoveryType, NEW p \in Procs, Step(p), NEW Q \in SUBSET Procs, p \in Q => mine'[p] = mine[p]
  PROVE  /\ Settled(Q)' \subseteq Settled(Q \cup {p})
         /\ pc[p] # "stat" => Settled(Q)' \subseteq Settled(Q)
<1>1. OthersPart(p) /\ Place(p) /\ ArtType /\ ProcType BY StepParts DEF RecoveryType
<1>2. /\ mine'[p] = mine[p] \/ mine'[p] = 0 \/ (mine'[p] = made + 1 /\ mine[p] = 0 /\ Makes(p))
      /\ mine[p] # 0 /\ mine'[p] # mine[p] => pc'[p] = "idle"
  BY Stores
<1>3. \/ Leaves(p) /\ There' = There
      \/ Makes(p) /\ There' = There \cup {made + 1}
      \/ Writes(p) /\ There' = There
      \/ Unlinks(p) /\ There' = There
      \/ Removes(p) /\ There' = There \ {target[p]}
  BY ThereAfter
<1>4. left \subseteq left' BY <1>3 DEF Leaves, Makes, Writes, Unlinks, Removes, At
<1>5. ASSUME NEW x \in Settled(Q)' PROVE x \in There \ left
  <2>1. x \in There' /\ x \notin left' /\ (mine'[p] = x => p \in Q) BY DEF Settled
  <2>2. CASE Makes(p) /\ x = made + 1
    <3>1. mine'[p] = made + 1
      <4>1. pc[p] = "idle" /\ pc'[p] = "command" /\ made' = made + 1 BY <2>2 DEF Makes
      <4>2. mine[p] = 0 BY <1>1, <4>1 DEF Place
      <4>3. Place(p)' BY Places
      <4>4. mine'[p] # 0 BY <4>1, <4>3 DEF Place, Parts
      <4> QED BY <1>2, <4>2, <4>4
    <3>2. mine[p] = 0 BY <1>1, <2>2 DEF Makes, Place
    <3>3. made + 1 # 0 BY <1>1, RecoveryAssumption DEF ArtType, RecoveryAssumption
    <3> QED BY <2>1, <2>2, <3>1, <3>2, <3>3
  <2>3. CASE ~(Makes(p) /\ x = made + 1) BY <1>3, <1>4, <2>1, <2>3
  <2> QED BY <2>2, <2>3
<1>6. ASSUME NEW x \in Settled(Q)', NEW r \in Procs, mine[r] = x, r # p PROVE r \in Q
  BY <1>1, <1>6 DEF Settled, OthersPart
<1>7. ASSUME NEW x \in Settled(Q)', mine[p] = x, pc[p] # "stat" PROVE p \in Q
  <2>1. x \in There' /\ x \notin left' /\ (mine'[p] = x => p \in Q) BY DEF Settled
  <2>2. x # 0 BY <2>1 DEF There, Ids
  <2>3. CASE mine'[p] # mine[p]
    <3>1. pc'[p] = "idle" BY <1>2, <1>7, <2>2, <2>3
    <3>2. CASE Leaves(p) BY <1>7, <2>1, <2>2, <3>1, <3>2 DEF Leaves
    <3>3. CASE Removes(p) /\ There' = There \ {target[p]}
      <4>1. target[p] = mine[p] BY <1>1, <3>1, <3>3 DEF Removes, Place
      <4> QED BY <1>7, <2>1, <3>3, <4>1
    <3>4. ~Makes(p) /\ ~Writes(p) /\ ~Unlinks(p)
      BY <3>1 DEF Makes, Writes, Unlinks, After
    <3> QED BY <1>3, <3>2, <3>3, <3>4
  <2> QED BY <1>7, <2>1, <2>3
<1>8. ASSUME NEW x \in Settled(Q)' PROVE x \in Settled(Q \cup {p})
  BY <1>5, <1>6 DEF Settled
<1>9. ASSUME pc[p] # "stat", NEW x \in Settled(Q)' PROVE x \in Settled(Q)
  BY <1>5, <1>6, <1>7, <1>9 DEF Settled
<1> QED BY <1>8, <1>9

LEMMA BudgetProcStep ==
  ASSUME BudgetInv, NEW p \in Procs, Step(p)
  PROVE  Budget'
<1>1. RecoveryType /\ OthersPart(p) /\ Place(p) /\ ProcType BY StepParts DEF BudgetInv, RecoveryType
<1>2. MaxArtifacts \in Nat BY RecoveryAssumption DEF RecoveryAssumption
<1> SUFFICES ASSUME NEW Q \in SUBSET Procs, \A q \in Q : Rotating(q)'
             PROVE  \/ \E q \in Q : pc'[q] # "stat" /\ Settled(Q)' \subseteq Covered(q)'
                    \/ Cardinality(Settled(Q)') <= MaxArtifacts
  BY DEF Budget
<1>3. p \in Q => mine'[p] = mine[p] BY <1>1, RotatingAfter
<1>4. \A q \in Q \ {p} : Rotating(q) /\ pc'[q] = pc[q] /\ Covered(q)' = Covered(q)
  BY <1>1 DEF OthersPart, Rotating, Covered
\* Fewer of them are no more.
<1>5. ASSUME NEW S \in SUBSET Ids, Settled(Q)' \subseteq S, Cardinality(S) <= MaxArtifacts
      PROVE  Cardinality(Settled(Q)') <= MaxArtifacts
  <2>1. IsFiniteSet(S) /\ Cardinality(S) \in Nat BY FiniteThere
  <2>2. Cardinality(Settled(Q)') <= Cardinality(S) /\ IsFiniteSet(Settled(Q)') BY <1>5, <2>1, FS_Subset
  <2>3. Cardinality(Settled(Q)') \in Nat BY <2>2, FS_CardinalityType
  <2> QED BY <1>2, <1>5, <2>1, <2>2, <2>3
<1>6. \A R \in SUBSET Procs : Settled(R) \in SUBSET Ids BY DEF Settled, There
<1>7. CASE p \notin Q /\ pc[p] = "stat" /\ job[p] = "store"
  <2> DEFINE R == Q \cup {p}
  <2>1. \A q \in R : Rotating(q) BY <1>4, <1>7 DEF Rotating
  <2>2. Settled(Q)' \subseteq Settled(R) BY <1>1, <1>3, SettledAfter
  <2>3. \/ \E q \in R : pc[q] # "stat" /\ Settled(R) \subseteq Covered(q)
        \/ Cardinality(Settled(R)) <= MaxArtifacts
    BY <2>1 DEF BudgetInv, Budget
  <2>4. CASE Cardinality(Settled(R)) <= MaxArtifacts BY <1>5, <1>6, <2>2, <2>4
  <2>5. CASE \E q \in R : pc[q] # "stat" /\ Settled(R) \subseteq Covered(q)
    BY <1>4, <1>7, <2>2, <2>5
  <2> QED BY <2>3, <2>4, <2>5
<1>8. CASE p \in Q /\ pc[p] = "readDir"
  <2>1. Place(p)' /\ pc = [q \in Procs |-> pc[q]] /\ entries = [q \in Procs |-> entries[q]]
    BY <1>1, Places DEF ProcType
  <2>2. ReadDir(p) \/ Crash(p)
    BY <1>8 DEF Step, Mkdir, WritePart, Stat, StartOther, Inspect, Overflow, Purge, RemoveAll, Unlink, Removed,
       RemoveDir, ReadAgain, Look, Shown, Parts
  <2>3. pc'[p] # "idle" BY <1>8 DEF Rotating, Removing
  <2>4. ReadDir(p) BY <2>1, <2>2, <2>3 DEF Crash, EndUntouched, End, Goto
  <2>5. entries'[p] = There /\ There' = There /\ pc'[p] # "stat"
    BY <2>1, <2>4 DEF ReadDir, Goto, There, artVars
  <2>6. Settled(Q)' \subseteq Covered(p)' BY <2>5 DEF Settled, Covered
  <2> QED BY <1>8, <2>5, <2>6
<1>9. CASE (p \notin Q /\ ~(pc[p] = "stat" /\ job[p] = "store")) \/ (p \in Q /\ pc[p] # "readDir")
  <2>1. p \in Q => Rotating(p) /\ pc[p] # "stat" BY <1>1, <1>9, RotatingAfter
  <2>2. pc[p] # "stat" BY <1>1, <1>9, <2>1 DEF Place
  <2>3. Settled(Q)' \subseteq Settled(Q) BY <1>1, <1>3, <2>2, SettledAfter
  <2>4. \A q \in Q : Rotating(q) BY <1>4, <2>1
  <2>5. \/ \E q \in Q : pc[q] # "stat" /\ Settled(Q) \subseteq Covered(q)
        \/ Cardinality(Settled(Q)) <= MaxArtifacts
    BY <2>4 DEF BudgetInv, Budget
  <2>6. CASE Cardinality(Settled(Q)) <= MaxArtifacts BY <1>5, <1>6, <2>3, <2>6
  <2>7. ASSUME NEW q \in Q \ {p}, pc[q] # "stat", Settled(Q) \subseteq Covered(q)
        PROVE  pc'[q] # "stat" /\ Settled(Q)' \subseteq Covered(q)'
    BY <1>4, <2>3, <2>7
  <2>8. CASE p \in Q /\ Settled(Q) \subseteq Covered(p)
    <3>1. CASE pc'[p] # "stat"
      <4>1. Covered(p) \cap There' \subseteq Covered(p)' BY <1>1, <2>1, <2>8, <3>1, CoveredAfter
      <4>2. Settled(Q)' \subseteq There' BY DEF Settled
      <4> QED BY <2>3, <2>8, <3>1, <4>1, <4>2
    <3>2. CASE pc'[p] = "stat"
      <4>1. pc = [q \in Procs |-> pc[q]] BY <1>1 DEF ProcType
      <4>2. pc[p] \in {"inspect"} \cup Removing BY <2>1, <2>8 DEF Rotating
      <4>3. Overflow(p) /\ Overflowing(kept[p]) = {} /\ entries[p] = {} /\ pc[p] = "inspect"
        BY <3>2, <4>1, <4>2 DEF Step, Mkdir, WritePart, Stat, StartOther, ReadDir, Inspect, Overflow, Purge,
             RemoveAll, Unlink, RemoveDir, Removed, ReadAgain, Look, Shown, Crash, End, EndUntouched, FailNext, Goto, Parts, Removing
      <4>4. target[p] = 0 BY <1>1, <4>3 DEF Place, Removing
      <4>5. Settled(Q)' \subseteq {a.id : a \in kept[p]}
        BY <1>6, <2>3, <2>8, <4>3, <4>4 DEF Covered, Ids
      <4>6. Cardinality(Settled(Q)') <= MaxArtifacts BY <1>1, <4>3, <4>5, KeptCounts
      <4> QED BY <4>6
    <3> QED BY <3>1, <3>2
  <2> QED BY <2>5, <2>6, <2>7, <2>8
<1> QED BY <1>7, <1>8, <1>9

LEMMA BudgetStep == BudgetInv /\ [Next]_vars => BudgetInv'
<1> SUFFICES ASSUME BudgetInv, [Next]_vars PROVE BudgetInv' OBVIOUS
<1>1. RecoveryType' BY TypeStep DEF BudgetInv
<1>2. CASE UNCHANGED vars \/ Tick
  <2>1. UNCHANGED <<artVars, procVars>> BY <1>2 DEF vars, Tick
  <2>2. /\ \A Q \in SUBSET Procs : Settled(Q)' = Settled(Q)
        /\ \A p \in Procs : Covered(p)' = Covered(p) /\ Rotating(p)' = Rotating(p)
    BY <2>1 DEF artVars, procVars, There, Covered, Settled, Rotating
  <2>3. pc' = pc BY <2>1 DEF procVars
  <2>4. Budget' BY <2>2, <2>3 DEF BudgetInv, Budget
  <2> QED BY <1>1, <2>4 DEF BudgetInv
<1>3. CASE \E p \in Procs : Step(p) BY <1>1, <1>3, BudgetProcStep DEF BudgetInv
<1> QED BY <1>2, <1>3 DEF Next

-----------------------------------------------------------------------------

LEMMA AtMostTheSum ==
  ASSUME NEW S, IsFiniteSet(S), NEW T, IsFiniteSet(T)
  PROVE  /\ IsFiniteSet(S \cup T)
         /\ Cardinality(S \cup T) <= Cardinality(S) + Cardinality(T)
         /\ Cardinality(S \cup T) \in Nat
<1>1. IsFiniteSet(S \cup T) /\ Cardinality(S \cup T) = Cardinality(S) + Cardinality(T) - Cardinality(S \cap T)
  BY FS_Union
<1>2. IsFiniteSet(S \cap T) BY FS_Intersection
<1>3. /\ Cardinality(S) \in Nat /\ Cardinality(T) \in Nat /\ Cardinality(S \cap T) \in Nat
      /\ Cardinality(S \cup T) \in Nat
  BY <1>1, <1>2, FS_CardinalityType
<1> QED BY <1>1, <1>3

\* The limit of artifacts holds but for stores that run or were killed
\* (internal/recovery, Store and enforceRetention).
THEOREM NeverTooMany == Spec => []Bounded
<1>1. BudgetInv /\ UndisturbedInv => Bounded
  <2> SUFFICES ASSUME BudgetInv, UndisturbedInv PROVE Bounded OBVIOUS
  <2>1. RecoveryType /\ ProcType /\ ArtType /\ OneStoreEach BY DEF BudgetInv, RecoveryType
  <2>2. \A p \in Procs : pc[p] \in {"stat", "readAgain"} /\ touched[p] = {} => Cardinality(There) <= MaxArtifacts
    BY DEF UndisturbedInv, Undisturbed
  <2> DEFINE running == {p \in Procs : Storing(p)}
             theirs == {mine[p] : p \in running} \cap There
             over == left \cap There
  <2>3. IsFiniteSet(running) BY FS_Subset, RecoveryAssumption DEF RecoveryAssumption
  <2>4. Cardinality(Settled({})) <= MaxArtifacts BY DEF BudgetInv, Budget
  <2>5. There \subseteq (Settled({}) \cup over) \cup theirs
    <3> SUFFICES ASSUME NEW x \in There, x \notin Settled({}), x \notin left PROVE x \in theirs
      OBVIOUS
    <3>1. PICK p \in Procs : mine[p] = x BY DEF Settled
    <3>2. x # 0 BY DEF There, Ids
    <3>3. Storing(p) BY <2>1, <3>1, <3>2 DEF RecoveryType, Place, Storing
    <3> QED BY <3>1, <3>3
  <2>6. IsFiniteSet(theirs) /\ Cardinality(theirs) <= Cardinality(running)
    <3> DEFINE all == {mine[p] : p \in running}
               its == [p \in running |-> mine[p]]
    <3>1. its \in Surjection(running, all) BY DEF Surjection
    <3> HIDE DEF its
    <3>2. IsFiniteSet(all) /\ Cardinality(all) <= Cardinality(running) BY <2>3, <3>1, FS_Surjection
    <3>3. IsFiniteSet(theirs) /\ Cardinality(theirs) <= Cardinality(all) BY <3>2, FS_Subset
    <3>4. Cardinality(theirs) \in Nat /\ Cardinality(all) \in Nat /\ Cardinality(running) \in Nat
      BY <2>3, <3>2, <3>3, FS_CardinalityType
    <3> HIDE DEF all, theirs, running
    <3> QED BY <3>2, <3>3, <3>4
  <2>7. /\ There \in SUBSET Ids /\ Settled({}) \in SUBSET Ids /\ over \in SUBSET Ids /\ theirs \in SUBSET Ids
    BY DEF There, Settled
  <2> HIDE DEF running, theirs, over
  <2>8. /\ IsFiniteSet(There) /\ Cardinality(There) \in Nat
        /\ IsFiniteSet(Settled({})) /\ Cardinality(Settled({})) \in Nat
        /\ IsFiniteSet(over) /\ Cardinality(over) \in Nat
        /\ Cardinality(theirs) \in Nat /\ Cardinality(running) \in Nat
    BY <2>3, <2>7, FiniteThere, FS_CardinalityType
  <2>9. /\ IsFiniteSet(Settled({}) \cup over)
        /\ Cardinality(Settled({}) \cup over) <= Cardinality(Settled({})) + Cardinality(over)
        /\ Cardinality(Settled({}) \cup over) \in Nat
    BY <2>8, AtMostTheSum
  <2>10. /\ IsFiniteSet((Settled({}) \cup over) \cup theirs)
         /\ Cardinality((Settled({}) \cup over) \cup theirs) <= Cardinality(Settled({}) \cup over) + Cardinality(theirs)
    BY <2>6, <2>9, AtMostTheSum
  <2>11. Cardinality(There) <= Cardinality((Settled({}) \cup over) \cup theirs)
    BY <2>5, <2>10, FS_Subset
  <2>12. Cardinality((Settled({}) \cup over) \cup theirs) \in Nat BY <2>10, FS_CardinalityType
  <2>13. MaxArtifacts \in Nat BY RecoveryAssumption DEF RecoveryAssumption
  <2>14. Cardinality(There) <= MaxArtifacts + Cardinality(running) + Cardinality(over)
    BY <2>4, <2>6, <2>8, <2>9, <2>10, <2>11, <2>12, <2>13
  <2> QED BY <2>2, <2>14 DEF Bounded, running, over
<1> QED BY <1>1, BudgetInitially, BudgetStep, UndisturbedInitially, UndisturbedStep, PTL DEF Spec

\* A list shows a part of an artifact only where a store or a removal is at work or
\* was cut short or the artifact was changed meanwhile, and every whole artifact if
\* nothing was changed (internal/recovery, List).
THEOREM ListsAreFaithful == Spec => []ListIsFaithful
<1>1. FoundInv /\ UndisturbedInv => ListIsFaithful
  <2> SUFFICES ASSUME FoundInv, UndisturbedInv, NEW p \in Procs, pc[p] = "listed"
               PROVE  /\ \A x \in listed[p] :
                            \/ Whole(x) \/ x \in left \union cut \union touched[p]
                            \/ \E q \in Procs : x \in {mine[q], target[q]}
                      /\ touched[p] = {} => \A x \in Ids : Whole(x) => x \in listed[p]
    BY DEF ListIsFaithful
  <2>1. RecoveryType /\ ProcType /\ ArtType BY DEF FoundInv, RecoveryType
  <2>2. ASSUME NEW x \in listed[p], x \notin touched[p] PROVE Whole(x) \/ HasStore(x) \/ Spoiled(x)
    <3>1. x \in Ids /\ "command" \in art[x].parts BY <2>1, <2>2 DEF FoundInv, ProcType
    <3>2. x \in There BY <2>1, <3>1 DEF ArtType, There
    <3>3. art[x].parts = Parts \/ HasStore(x) \/ Spoiled(x) BY <3>2 DEF FoundInv
    <3> QED BY <3>2, <3>3 DEF Whole, There
  <2>3. ASSUME touched[p] = {}, NEW x \in Ids, Whole(x) PROVE x \in listed[p]
    <3>1. x \in There /\ "command" \in art[x].parts BY <2>3 DEF Whole, There, Parts
    <3> QED BY <2>3, <3>1 DEF UndisturbedInv, Undisturbed
  <2> QED BY <2>2, <2>3 DEF HasStore, Spoiled
<1> QED BY <1>1, FoundInitially, FoundStep, UndisturbedInitially, UndisturbedStep, PTL DEF Spec
=============================================================================
