----------------------------- MODULE HomeProofs -----------------------------
(***************************************************************************)
(* What HomeFilters and Upgrade promise, for any processes, filters and    *)
(* versions and without a bound on operations and incidents.               *)
(***************************************************************************)
EXTENDS Upgrade, FiniteSetTheorems, TLAPS

-----------------------------------------------------------------------------
(* A non-empty set of naturals has a least element.                        *)
LEMMA LeastNat ==
  ASSUME NEW T \in SUBSET Nat, T # {}
  PROVE  \E n \in T : \A m \in T : n <= m
<1> DEFINE R == OpToRel(<, Nat)
<1>1. ASSUME NEW m \in Nat, NEW n \in Nat, ~(<<m, n>> \in R) PROVE n <= m
  BY <1>1 DEF OpToRel
<1>2. IsWellFoundedOn(R, Nat)
  BY NatLessThanWellFounded
<1> HIDE DEF R
<1>3. PICK n \in T : \A m \in T : ~(<<m, n>> \in R)
  BY <1>2, WFMin
<1>4. \A m \in T : n <= m
  BY <1>1, <1>3
<1> QED
  BY <1>4

-----------------------------------------------------------------------------
(* Mutual exclusion.  The lock file names its creator in the model only;   *)
(* the code never asks.  That it is enough needs that nobody is about to   *)
(* remove it by name, which takes a lock that is ten seconds old.          *)

Taking == {"takeover", "again"}

Guarded ==
  lapses = 0 =>
    /\ ~lock.stale
    /\ \A p \in Procs : pc[p] \notin Taking /\ (Holding(p) => lock.owner = p)

LockInv ==
  /\ pc = [p \in Procs |-> pc[p]]
  /\ lapses \in Nat
  /\ lock \in [owner : Procs \cup {Nobody}, stale : BOOLEAN]
  /\ Guarded

LEMMA LockInitially == Init => LockInv
<1> SUFFICES ASSUME Init PROVE LockInv OBVIOUS
<1>1. /\ lock = [owner |-> Nobody, stale |-> FALSE]
      /\ pc = [p \in Procs |-> "idle"] /\ lapses = 0
  BY DEF Init, HomeInit
<1>2. pc = [p \in Procs |-> pc[p]] BY <1>1
<1>3. lapses \in Nat BY <1>1
<1>4. lock \in [owner : Procs \cup {Nobody}, stale : BOOLEAN] BY <1>1
<1>5. Guarded BY <1>1 DEF Guarded, Taking, Holding, Adding, Rewriting
<1> QED BY <1>2, <1>3, <1>4, <1>5 DEF LockInv

\* A step of p that leaves the lock alone, and after which p holds it only if it
\* did before.
LEMMA LockRests ==
  ASSUME LockInv, NEW p \in Procs, NEW label, Goto(p, label),
         UNCHANGED lockVars, label \notin Taking,
         label \in Adding \cup Rewriting \cup {"release"} => Holding(p)
  PROVE  LockInv'
  BY DEF LockInv, Guarded, Holding, Goto, lockVars

\* The same for a step that leaves every process where it is.
LEMMA LockStays ==
  ASSUME LockInv, UNCHANGED <<lockVars, pc>>
  PROVE  LockInv'
  BY DEF LockInv, Guarded, Holding, lockVars

LEMMA LockTaken ==
  ASSUME LockInv, NEW p \in Procs, CreateLock(p), UNCHANGED lapses
  PROVE  LockInv'
<1>1. FirstStep(p) \in {"clear", "add"} BY DEF FirstStep
<1>2. lock.owner = Nobody BY DEF CreateLock, Locked
<1>3. lapses = 0 => \A q \in Procs : ~Holding(q)
  BY <1>2, HomeAssumption DEF LockInv, Guarded, HomeAssumption
<1> QED
  BY <1>1, <1>3 DEF LockInv, Guarded, CreateLock, Goto, Holding, Taking, Adding, Rewriting

LEMMA LockGivenUp ==
  ASSUME LockInv, NEW p \in Procs, GiveUp(p), UNCHANGED lapses
  PROVE  LockInv'
<1>1. Goto(p, "repaired") \/ Goto(p, "idle") BY DEF GiveUp, End
<1> QED BY <1>1, LockRests DEF GiveUp, lockVars, Taking, Adding, Rewriting

LEMMA LockSteps ==
  ASSUME LockInv, NEW p \in Procs, LockStep(p)
  PROVE  LockInv'
<1>1. CASE Acquire(p)
  <2>1. CASE CreateLock(p) BY <1>1, <2>1, LockTaken DEF Acquire
  <2>2. CASE Goto(p, "stat") /\ UNCHANGED lock
    BY <1>1, <2>2, LockRests DEF Acquire, lockVars, Taking, Adding, Rewriting
  <2> QED BY <1>1, <2>1, <2>2 DEF Acquire
<1>2. CASE StatLock(p)
  <2>1. CASE GiveUp(p) BY <1>2, <2>1, LockGivenUp DEF StatLock
  <2>2. CASE lock.stale /\ Goto(p, "takeover") /\ UNCHANGED lock
    <3>1. lapses # 0 /\ UNCHANGED lapses BY <1>2, <2>2 DEF StatLock, LockInv, Guarded
    <3> QED BY <2>2, <3>1 DEF LockInv, Guarded, Goto
  <2> QED BY <1>2, <2>1, <2>2 DEF StatLock
<1>3. CASE TakeOver(p)
  <2>1. lapses # 0 /\ UNCHANGED lapses BY <1>3 DEF TakeOver, LockInv, Guarded, Taking
  <2> QED BY <1>3, <2>1 DEF TakeOver, LockInv, Guarded, Goto
<1>4. CASE AcquireAgain(p)
  <2>1. CASE CreateLock(p) BY <1>4, <2>1, LockTaken DEF AcquireAgain
  <2>2. CASE GiveUp(p) BY <1>4, <2>2, LockGivenUp DEF AcquireAgain
  <2> QED BY <1>4, <2>1, <2>2 DEF AcquireAgain
<1>5. CASE Release(p)
  <2>1. Goto(p, "repaired") \/ Goto(p, "idle") BY <1>5 DEF Release, End
  <2>2. lapses = 0 => \A q \in Procs \ {p} : ~Holding(q)
    BY <1>5 DEF Release, LockInv, Guarded, Holding
  <2>3. /\ UNCHANGED lapses
        /\ lock' = [owner |-> Nobody, stale |-> FALSE] \/ UNCHANGED lock
    BY <1>5 DEF Release
  <2> QED
    <3>1. pc' = [q \in Procs |-> pc'[q]] /\ \A q \in Procs \ {p} : pc'[q] = pc[q]
      BY <2>1 DEF LockInv, Goto
    <3>2. pc'[p] \notin Taking \cup Adding \cup Rewriting \cup {"release"}
      BY <2>1 DEF LockInv, Goto, Taking, Adding, Rewriting
    <3>3. CASE UNCHANGED lock
      <4>1. Guarded' BY <2>2, <2>3, <3>1, <3>2, <3>3 DEF LockInv, Guarded, Holding
      <4> QED BY <2>3, <3>1, <3>3, <4>1 DEF LockInv
    <3>4. CASE lock' = [owner |-> Nobody, stale |-> FALSE]
      <4>1. lock' \in [owner : Procs \cup {Nobody}, stale : BOOLEAN] BY <3>4
      <4>2. Guarded' BY <2>2, <2>3, <3>1, <3>2, <3>4 DEF LockInv, Guarded, Holding
      <4> QED BY <2>3, <3>1, <4>1, <4>2 DEF LockInv
    <3> QED BY <2>3, <3>3, <3>4
<1> QED BY <1>1, <1>2, <1>3, <1>4, <1>5 DEF LockStep

LEMMA LockSparesFiles ==
  ASSUME LockInv, NEW p \in Procs,
         \/ AddStep(p) \/ RewriteStep(p) \/ WriteFails(p) \/ Crash(p)
         \/ \E k \in Kinds : Start(p, k)
  PROVE  LockInv'
<1>1. UNCHANGED lockVars
  BY DEF AddStep, RewriteStep, CheckFile, WriteFile, ReadMappings, WriteMappings, ClearFile,
         Cleared, CreateMappings, FillMappings, CreateFile, FillFile, Rewritten, WriteFails,
         Crash, Start
<1>2. \/ UNCHANGED pc
      \/ Holding(p) /\ \E label \in Adding \cup Rewriting \cup {"release"} : Goto(p, label)
      \/ Goto(p, "acquire") \/ Goto(p, "idle")
  BY DEF AddStep, RewriteStep, CheckFile, WriteFile, ReadMappings, WriteMappings, ClearFile,
         Cleared, CreateMappings, FillMappings, CreateFile, FillFile, Rewritten, WriteFails,
         Crash, Start, End, procVars, Holding, Adding, Rewriting
<1>3. (Adding \cup Rewriting \cup {"release"}) \cap Taking = {}
  BY DEF Adding, Rewriting, Taking
<1> QED
  BY <1>1, <1>2, <1>3, LockRests, LockStays DEF lockVars, Adding, Rewriting, Taking

LEMMA LockSparesUpgrade ==
  ASSUME LockInv, NEW p \in Procs, UpgradeStep(p)
  PROVE  LockInv'
<1>1. UNCHANGED lockVars
  BY DEF UpgradeStep, StartUpgrade, Replace, ReplaceFails, MoveAside, MoveAsideFails, Place,
         PlaceFails, RemovePartial, Restore, RunRepair, ChildCrashes, ScheduleRemove, Report,
         ScriptDeletes, Rest, homeVars
<1>2. \/ UNCHANGED pc
      \/ \E label \in {"staged", "installed", "aside", "undo", "restore", "repaired",
                       "acquire", "scheduled", "idle"} : Goto(p, label)
  BY DEF UpgradeStep, StartUpgrade, Replace, ReplaceFails, MoveAside, MoveAsideFails, Place,
         PlaceFails, RemovePartial, Restore, RunRepair, ChildCrashes, ScheduleRemove, Report,
         ScriptDeletes, Exit, End, homeVars, procVars
<1> QED
  BY <1>1, <1>2, LockRests, LockStays DEF lockVars, Adding, Rewriting, Taking

LEMMA LockSparesUsers ==
  ASSUME LockInv, EnvironmentStep
  PROVE  LockInv'
<1>1. CASE LockAges
  <2>1. UNCHANGED pc /\ lapses' = lapses + 1 /\ lock' = [lock EXCEPT !.stale = TRUE]
    BY <1>1 DEF LockAges, procVars
  <2>2. lapses' \in Nat /\ lapses' # 0 BY <2>1 DEF LockInv
  <2>3. lock' \in [owner : Procs \cup {Nobody}, stale : BOOLEAN] BY <2>1 DEF LockInv
  <2> QED BY <2>1, <2>2, <2>3 DEF LockInv, Guarded
<1>2. ASSUME NEW x \in Items, NEW content \in {User, Absent}, Edit(x, content) PROVE LockInv'
  BY <1>2, LockStays DEF Edit, lockVars, procVars
<1> QED BY <1>1, <1>2 DEF EnvironmentStep

LEMMA LockInvariant == Spec => []LockInv
<1>1. LockInv /\ [Next]_vars => LockInv'
  <2> SUFFICES ASSUME LockInv, [Next]_vars PROVE LockInv' OBVIOUS
  <2>1. ASSUME NEW p \in Procs, UpgradeStep(p) PROVE LockInv' BY <2>1, LockSparesUpgrade
  <2>2. ASSUME NEW p \in Procs, HomeStep(p) PROVE LockInv'
    BY <2>2, LockSteps, LockSparesFiles DEF HomeStep
  <2>3. CASE EnvironmentStep BY <2>3, LockSparesUsers
  <2>4. CASE UNCHANGED vars
    BY <2>4, LockStays DEF vars, homeVars, lockVars, procVars
  <2> QED BY <2>1, <2>2, <2>3, <2>4 DEF Next
<1> QED BY <1>1, LockInitially, PTL DEF Spec

\* At most one process works on the home filters while no lock file gets ten
\* seconds old (acquireStartupMaintenanceLock and its callers), however many start,
\* fail or are killed.
THEOREM OneHolderAtATime == Spec => []OneHolder
<1>1. LockInv => OneHolder
  BY DEF LockInv, Guarded, OneHolder
<1> QED BY <1>1, LockInvariant, PTL

-----------------------------------------------------------------------------
(* Adding leaves alone what was there.  Between its look at a file and its *)
(* write, and between its reading of the mappings and their replacement,   *)
(* what a process has found still stands, or somebody else has changed it. *)

Careful(p) ==
  /\ pc[p] = "write" /\ Next1(p) \in Items =>
       home[Next1(p)] = Absent \/ Next1(p) \in others[p]
  /\ pc[p] = "merge" => \A x \in Aliases : seen[p][x] = home[x] \/ x \in others[p]

CareInv ==
  /\ pc = [p \in Procs |-> pc[p]] /\ todo = [p \in Procs |-> todo[p]]
  /\ seen = [p \in Procs |-> seen[p]] /\ others = [p \in Procs |-> others[p]]
  /\ home = [x \in Items |-> home[x]]
  /\ \A p \in Procs : Careful(p)

\* What a process is told of the changes of others.
Told(p) ==
  /\ pc'[p] = pc[p] /\ todo'[p] = todo[p] /\ seen'[p] = seen[p]
  /\ others[p] \subseteq others'[p]
  /\ \A x \in Items : home'[x] # home[x] => x \in others'[p]

\* The state stays one of functions.
Functional ==
  /\ pc' = [p \in Procs |-> pc'[p]] /\ todo' = [p \in Procs |-> todo'[p]]
  /\ seen' = [p \in Procs |-> seen'[p]] /\ others' = [p \in Procs |-> others'[p]]
  /\ home' = [x \in Items |-> home'[x]]

LEMMA CareInitially == Init => CareInv
<1> SUFFICES ASSUME Init PROVE CareInv OBVIOUS
<1>1. /\ pc = [p \in Procs |-> "idle"] /\ todo = [p \in Procs |-> {}]
      /\ seen = [p \in Procs |-> NoAliases] /\ others = [p \in Procs |-> {}]
      /\ home = [x \in Items |-> home[x]]
  BY DEF Init, HomeInit
<1>2. \A p \in Procs : Careful(p) BY <1>1 DEF Careful
<1> QED BY <1>1, <1>2 DEF CareInv

LEMMA TheToldStayCareful ==
  ASSUME NEW p \in Procs, Careful(p), pc[p] \in {"write", "merge"} => Told(p),
         pc'[p] \in {"write", "merge"} => pc'[p] = pc[p]
  PROVE  Careful(p)'
<1>1. CASE pc'[p] = "write"
  <2>1. Next1(p)' = Next1(p) BY <1>1 DEF Next1, Told
  <2> QED BY <1>1, <2>1 DEF Careful, Told
<1>2. CASE pc'[p] = "merge"
  BY <1>2 DEF Careful, Told, Items
<1> QED BY <1>1, <1>2 DEF Careful

LEMMA FilesPut ==
  ASSUME CareInv, NEW p \in Procs \cup {Nobody}, NEW f, NEW content,
         home' = [home EXCEPT ![f] = content], Touch(p, {f}),
         NEW q \in Procs \ {p}, pc[q] # "idle"
  PROVE  /\ others[q] \subseteq others'[q]
         /\ \A x \in Items : home'[x] # home[x] => x \in others'[q]
  BY DEF CareInv, Touch

LEMMA AliasesPut ==
  ASSUME CareInv, NEW p \in Procs, NEW aliases, NEW state, PutAliases(p, aliases, state),
         NEW q \in Procs \ {p}, pc[q] # "idle"
  PROVE  /\ others[q] \subseteq others'[q]
         /\ \A x \in Items : home'[x] # home[x] => x \in others'[q]
  BY DEF CareInv, PutAliases, Touch

\* What a step of p changes of the processes: its own part of their state.
OwnOnly(p) ==
  \E l, t, s, o :
    /\ pc' = [pc EXCEPT ![p] = l] /\ todo' = [todo EXCEPT ![p] = t]
    /\ seen' = [seen EXCEPT ![p] = s]
    /\ UNCHANGED home /\ others' = [others EXCEPT ![p] = o]

LEMMA OwnStep ==
  ASSUME NEW p \in Procs, NEW l, NEW t, NEW s, NEW o,
         pc' = [pc EXCEPT ![p] = l], todo' = [todo EXCEPT ![p] = t],
         seen' = [seen EXCEPT ![p] = s], UNCHANGED home, others' = [others EXCEPT ![p] = o]
  PROVE  OwnOnly(p)
  BY DEF OwnOnly

\* A step of p that leaves the files alone leaves everybody else careful.
LEMMA OwnOnlyTells ==
  ASSUME CareInv, NEW p \in Procs, OwnOnly(p)
  PROVE  Functional /\ \A q \in Procs \ {p} : Told(q)
  BY DEF CareInv, OwnOnly, Functional, Told

\* A step of p that changes the files.
Writing(p) ==
  /\ \E l, t : pc' = [pc EXCEPT ![p] = l] /\ todo' = [todo EXCEPT ![p] = t]
  /\ UNCHANGED seen
  /\ \/ \E f, content : home' = [home EXCEPT ![f] = content] /\ Touch(p, {f})
     \/ \E aliases, state : PutAliases(p, aliases, state)

LEMMA WritingTells ==
  ASSUME CareInv, NEW p \in Procs, Writing(p)
  PROVE  Functional /\ \A q \in Procs \ {p} : pc[q] # "idle" => Told(q)
<1>1. /\ pc' = [q \in Procs |-> pc'[q]] /\ todo' = [q \in Procs |-> todo'[q]]
      /\ seen' = [q \in Procs |-> seen'[q]]
      /\ \A q \in Procs \ {p} : pc'[q] = pc[q] /\ todo'[q] = todo[q] /\ seen'[q] = seen[q]
  BY DEF Writing, CareInv
<1>2. others' = [q \in Procs |-> others'[q]] /\ home' = [x \in Items |-> home'[x]]
  BY DEF Writing, CareInv, PutAliases, Touch
<1>3. ASSUME NEW q \in Procs \ {p}, pc[q] # "idle" PROVE Told(q)
  <2>1. /\ others[q] \subseteq others'[q]
        /\ \A x \in Items : home'[x] # home[x] => x \in others'[q]
    BY <1>3, FilesPut, AliasesPut DEF Writing
  <2> QED BY <1>1, <2>1 DEF Told
<1> QED BY <1>1, <1>2, <1>3 DEF Functional

\* Only a look at a file, or at the mappings, comes before a write.
LEMMA LooksAreCareful ==
  ASSUME CareInv, NEW p \in Procs, CheckFile(p) \/ ReadMappings(p)
  PROVE  OwnOnly(p) /\ Careful(p)'
<1>1. CASE CheckFile(p) /\ home[Next1(p)] = Absent
  <2>1. /\ pc' = [pc EXCEPT ![p] = "write"] /\ UNCHANGED <<todo, seen, home, others>>
    BY <1>1 DEF CheckFile, Goto, fileVars
  <2>2. Next1(p)' = Next1(p) BY <2>1 DEF Next1
  <2>3. Careful(p)' BY <1>1, <2>1, <2>2 DEF Careful, CareInv
  <2>4. /\ todo' = [todo EXCEPT ![p] = todo[p]] /\ seen' = [seen EXCEPT ![p] = seen[p]]
        /\ others' = [others EXCEPT ![p] = others[p]]
    BY <2>1 DEF CareInv
  <2> QED BY <2>1, <2>3, <2>4, OwnStep
<1>2. CASE CheckFile(p) /\ home[Next1(p)] # Absent
  <2>1. /\ todo' = [todo EXCEPT ![p] = @ \ {Next1(p)}]
        /\ UNCHANGED <<pc, seen, home, others>> /\ pc[p] = "add"
    BY <1>2 DEF CheckFile, fileVars
  <2>2. Careful(p)' BY <2>1 DEF Careful
  <2>3. /\ pc' = [pc EXCEPT ![p] = pc[p]] /\ seen' = [seen EXCEPT ![p] = seen[p]]
        /\ others' = [others EXCEPT ![p] = others[p]]
    BY <2>1 DEF CareInv
  <2> QED BY <2>1, <2>2, <2>3, OwnStep
<1>3. CASE ReadMappings(p)
  <2>1. UNCHANGED <<todo, home, others>> BY <1>3 DEF ReadMappings, fileVars
  <2>2. /\ todo' = [todo EXCEPT ![p] = todo[p]] /\ others' = [others EXCEPT ![p] = others[p]]
    BY <2>1 DEF CareInv
  <2>3. CASE pc' = [pc EXCEPT ![p] = "release"] /\ UNCHANGED seen
    <3>1. Careful(p)' BY <2>3 DEF Careful, CareInv
    <3>2. seen' = [seen EXCEPT ![p] = seen[p]] BY <2>3 DEF CareInv
    <3> QED BY <2>1, <2>2, <2>3, <3>1, <3>2, OwnStep
  <2>4. CASE /\ pc' = [pc EXCEPT ![p] = "merge"]
             /\ seen' = [seen EXCEPT ![p] = [a \in Aliases |-> home[a]]]
    <3>1. Careful(p)' BY <2>1, <2>4 DEF Careful, CareInv
    <3> QED BY <2>1, <2>2, <2>4, <3>1, OwnStep
  <2> QED BY <1>3, <2>3, <2>4 DEF ReadMappings, Goto
<1> QED BY <1>1, <1>2, <1>3

\* Every other step of a process that leaves the files alone ends before the next
\* look, and those that change the files come after it.
Idles(p) == OwnOnly(p) /\ pc'[p] \notin {"write", "merge"}

LEMMA OwnParts ==
  ASSUME CareInv, NEW p \in Procs, UNCHANGED home,
         NEW l, l \notin {"write", "merge"}, pc' = [pc EXCEPT ![p] = l],
         UNCHANGED todo \/ \E t : todo' = [todo EXCEPT ![p] = t],
         UNCHANGED seen \/ \E s : seen' = [seen EXCEPT ![p] = s],
         UNCHANGED others \/ \E o : others' = [others EXCEPT ![p] = o]
  PROVE  Idles(p)
<1>1. PICK t : todo' = [todo EXCEPT ![p] = t]
  <2>1. CASE UNCHANGED todo
    <3>1. todo' = [todo EXCEPT ![p] = todo[p]] BY <2>1 DEF CareInv
    <3> QED BY <3>1
  <2> QED BY <2>1
<1>2. PICK s : seen' = [seen EXCEPT ![p] = s]
  <2>1. CASE UNCHANGED seen
    <3>1. seen' = [seen EXCEPT ![p] = seen[p]] BY <2>1 DEF CareInv
    <3> QED BY <3>1
  <2> QED BY <2>1
<1>3. PICK o : others' = [others EXCEPT ![p] = o]
  <2>1. CASE UNCHANGED others
    <3>1. others' = [others EXCEPT ![p] = others[p]] BY <2>1 DEF CareInv
    <3> QED BY <3>1
  <2> QED BY <2>1
<1>4. OwnOnly(p) BY <1>1, <1>2, <1>3, OwnStep
<1> QED BY <1>4 DEF CareInv, Idles

LEMMA EndIdles ==
  ASSUME CareInv, NEW p \in Procs, End(p), UNCHANGED home
  PROVE  Idles(p)
  BY OwnParts DEF End, Goto

LEMMA LockIdles ==
  ASSUME CareInv, NEW p \in Procs, LockStep(p)
  PROVE  Idles(p)
<1>1. FirstStep(p) \notin {"write", "merge"} BY DEF FirstStep
<1>2. ASSUME CreateLock(p), UNCHANGED home PROVE Idles(p)
  BY <1>1, <1>2, OwnParts DEF CreateLock, Goto
<1>3. ASSUME GiveUp(p), UNCHANGED home PROVE Idles(p)
  BY <1>3, OwnParts, EndIdles DEF GiveUp, Goto
<1>4. ASSUME NEW l, l \notin {"write", "merge"}, Goto(p, l), UNCHANGED <<todo, seen, others, home>>
      PROVE  Idles(p)
  BY <1>4, OwnParts DEF Goto
<1>5. CASE Acquire(p) BY <1>5, <1>2, <1>4 DEF Acquire, Locals
<1>6. CASE StatLock(p) BY <1>6, <1>3, <1>4 DEF StatLock, Locals
<1>7. CASE TakeOver(p) BY <1>7, <1>4 DEF TakeOver, Locals, fileVars
<1>8. CASE AcquireAgain(p) BY <1>8, <1>2, <1>3 DEF AcquireAgain
<1>9. CASE Release(p) BY <1>9, <1>4, EndIdles DEF Release, Locals
<1> QED BY <1>5, <1>6, <1>7, <1>8, <1>9 DEF LockStep

LEMMA OthersIdle ==
  ASSUME CareInv, NEW p \in Procs,
         \/ Cleared(p) \/ Rewritten(p) \/ Crash(p)
         \/ \E k \in Kinds : Start(p, k)
  PROVE  Idles(p)
<1>1. CASE Cleared(p) BY <1>1, OwnParts DEF Cleared, Goto, Locals
<1>2. CASE Rewritten(p) BY <1>2, OwnParts DEF Rewritten, Goto, Locals, fileVars
<1>3. CASE Crash(p) BY <1>3, EndIdles DEF Crash
<1>4. CASE \E k \in Kinds : Start(p, k) BY <1>4, OwnParts DEF Start, Goto, fileVars
<1> QED BY <1>1, <1>2, <1>3, <1>4

LEMMA UpgradeIdles ==
  ASSUME CareInv, NEW p \in Procs, UpgradeStep(p)
  PROVE  Idles(p) \/ UNCHANGED homeVars
<1>1. CASE StartUpgrade(p) BY <1>1, OwnParts DEF StartUpgrade, Goto, Rest
<1>2. CASE ReplaceFails(p) \/ MoveAsideFails(p) \/ Restore(p) \/ Report(p)
  BY <1>2, EndIdles DEF ReplaceFails, MoveAsideFails, Restore, Report, Exit, Rest
<1>3. CASE Replace(p) \/ MoveAside(p) \/ Place(p) \/ PlaceFails(p) \/ RemovePartial(p)
  BY <1>3, OwnParts DEF Replace, MoveAside, Place, PlaceFails, RemovePartial, Goto, Rest, Locals
<1>4. CASE RunRepair(p) \/ ChildCrashes(p) \/ ScheduleRemove(p)
  BY <1>4, OwnParts DEF RunRepair, ChildCrashes, ScheduleRemove, Goto, Rest
<1>5. CASE ScriptDeletes(p) BY <1>5 DEF ScriptDeletes
<1> QED BY <1>1, <1>2, <1>3, <1>4, <1>5 DEF UpgradeStep

LEMMA Writes ==
  ASSUME CareInv, NEW p \in Procs,
         \/ WriteFile(p) \/ WriteMappings(p) \/ ClearFile(p) \/ CreateMappings(p)
         \/ FillMappings(p) \/ CreateFile(p) \/ FillFile(p) \/ WriteFails(p)
  PROVE  Idles(p) \/ (Writing(p) /\ pc'[p] \notin {"write", "merge"})
<1> DEFINE T(l) == /\ pc' = [pc EXCEPT ![p] = l] /\ l \notin {"write", "merge"}
                   /\ UNCHANGED seen
                   /\ UNCHANGED todo \/ \E t : todo' = [todo EXCEPT ![p] = t]
<1>1. ASSUME NEW l, T(l), NEW f, NEW content, Put(p, f, content)
      PROVE  Writing(p) /\ pc'[p] \notin {"write", "merge"}
  <2>1. PICK t : todo' = [todo EXCEPT ![p] = t]
    <3>1. CASE UNCHANGED todo
      <4>1. todo' = [todo EXCEPT ![p] = todo[p]] BY <3>1 DEF CareInv
      <4> QED BY <4>1
    <3> QED BY <1>1, <3>1
  <2>2. Writing(p) BY <1>1, <2>1 DEF Writing, Put
  <2> QED BY <1>1, <2>2 DEF CareInv
<1>2. ASSUME NEW l, T(l), NEW aliases, NEW state, PutAliases(p, aliases, state)
      PROVE  Writing(p) /\ pc'[p] \notin {"write", "merge"}
  <2>1. PICK t : todo' = [todo EXCEPT ![p] = t]
    <3>1. CASE UNCHANGED todo
      <4>1. todo' = [todo EXCEPT ![p] = todo[p]] BY <3>1 DEF CareInv
      <4> QED BY <4>1
    <3> QED BY <1>2, <3>1
  <2>2. Writing(p) BY <1>2, <2>1 DEF Writing
  <2> QED BY <1>2, <2>2 DEF CareInv
<1> HIDE DEF T
<1>3. CASE WriteFile(p)
  <2>1. T("add") BY <1>3 DEF WriteFile, Goto, T
  <2> QED BY <1>3, <2>1, <1>1 DEF WriteFile
<1>4. CASE WriteMappings(p)
  <2>1. T("release") BY <1>4 DEF WriteMappings, Goto, Locals, T
  <2> QED BY <1>4, <2>1, <1>2 DEF WriteMappings
<1>5. CASE ClearFile(p)
  <2>1. T("clear") BY <1>5 DEF ClearFile, procVars, CareInv, T
  <2> QED BY <1>5, <2>1, <1>1, <1>2 DEF ClearFile
<1>6. CASE CreateMappings(p)
  <2>1. T("fillMap") BY <1>6 DEF CreateMappings, Goto, Locals, T
  <2> QED BY <1>6, <2>1, <1>2 DEF CreateMappings
<1>7. CASE FillMappings(p)
  <2>1. T("rewrite") BY <1>7 DEF FillMappings, Goto, Locals, T
  <2> QED BY <1>7, <2>1, <1>2 DEF FillMappings
<1>8. CASE CreateFile(p)
  <2>1. T("fill") BY <1>8 DEF CreateFile, Goto, Locals, T
  <2> QED BY <1>8, <2>1, <1>1 DEF CreateFile
<1>9. CASE FillFile(p)
  <2>1. T("rewrite") BY <1>9 DEF FillFile, Goto, T
  <2> QED BY <1>9, <2>1, <1>1 DEF FillFile
<1>10. CASE WriteFails(p)
  <2>1. T("release") BY <1>10 DEF WriteFails, Goto, T
  <2>2. CASE UNCHANGED <<home, mapFile, others>>
    BY <1>10, <2>2, OwnParts DEF WriteFails, Goto
  <2> QED BY <1>10, <2>1, <2>2, <1>1, <1>2 DEF WriteFails
<1> QED BY <1>3, <1>4, <1>5, <1>6, <1>7, <1>8, <1>9, <1>10

\* Users change files under the eyes of every process.
LEMMA EditsTell ==
  ASSUME CareInv, NEW x \in Items, NEW content, Edit(x, content)
  PROVE  Functional /\ \A p \in Procs : pc[p] # "idle" => Told(p)
<1>1. /\ UNCHANGED <<pc, todo, seen>> /\ home' = [home EXCEPT ![x] = content]
      /\ Touch(Nobody, {x})
  BY DEF Edit, procVars
<1>2. Functional BY <1>1 DEF Functional, CareInv, Touch
<1>3. ASSUME NEW p \in Procs, pc[p] # "idle" PROVE Told(p)
  <2>1. p \in Procs \ {Nobody} BY HomeAssumption DEF HomeAssumption
  <2>2. /\ others[p] \subseteq others'[p]
        /\ \A y \in Items : home'[y] # home[y] => y \in others'[p]
    BY <1>1, <1>3, <2>1, FilesPut
  <2> QED BY <1>1, <2>2 DEF Told
<1> QED BY <1>2, <1>3

LEMMA StepsAreCareful ==
  ASSUME CareInv, NEW p \in Procs, OwnOnly(p) \/ Writing(p),
         pc'[p] \notin {"write", "merge"} \/ Careful(p)'
  PROVE  CareInv'
<1>1. Functional /\ \A q \in Procs \ {p} : pc[q] # "idle" => Told(q)
  BY OwnOnlyTells, WritingTells
<1>2. ASSUME NEW q \in Procs \ {p} PROVE Careful(q)'
  <2>1. pc'[q] = pc[q] BY DEF OwnOnly, Writing, CareInv
  <2> QED BY <1>1, <2>1, TheToldStayCareful DEF CareInv
<1>3. Careful(p)' BY DEF Careful
<1> QED BY <1>1, <1>2, <1>3 DEF CareInv, Functional

LEMMA CareStays ==
  ASSUME CareInv, UNCHANGED homeVars
  PROVE  CareInv'
<1>1. UNCHANGED <<pc, todo, seen, others, home>> BY DEF homeVars, procVars, fileVars
<1>2. \A p \in Procs : Careful(p)' = Careful(p) BY <1>1 DEF Careful, Next1
<1> QED BY <1>1, <1>2 DEF CareInv

LEMMA CareInvariant == Spec => []CareInv
<1>1. CareInv /\ [Next]_vars => CareInv'
  <2> SUFFICES ASSUME CareInv, [Next]_vars PROVE CareInv' OBVIOUS
  <2>1. ASSUME NEW p \in Procs, Idles(p) PROVE CareInv'
    BY <2>1, StepsAreCareful DEF Idles
  <2>2. ASSUME NEW p \in Procs, UpgradeStep(p) PROVE CareInv'
    BY <2>2, <2>1, UpgradeIdles, CareStays
  <2>3. ASSUME NEW p \in Procs, HomeStep(p) PROVE CareInv'
    <3>1. CASE CheckFile(p) \/ ReadMappings(p) BY <3>1, LooksAreCareful, StepsAreCareful
    <3>2. CASE \/ WriteFile(p) \/ WriteMappings(p) \/ ClearFile(p) \/ CreateMappings(p)
               \/ FillMappings(p) \/ CreateFile(p) \/ FillFile(p) \/ WriteFails(p)
      BY <3>2, <2>1, Writes, StepsAreCareful
    <3>3. CASE LockStep(p) BY <3>3, <2>1, LockIdles
    <3>4. CASE \/ Cleared(p) \/ Rewritten(p) \/ Crash(p) \/ \E k \in Kinds : Start(p, k)
      BY <3>4, <2>1, OthersIdle
    <3> QED BY <2>3, <3>1, <3>2, <3>3, <3>4 DEF HomeStep, AddStep, RewriteStep
  <2>4. CASE EnvironmentStep
    <3>1. ASSUME NEW x \in Items, NEW content, Edit(x, content) PROVE CareInv'
      <4>1. \A p \in Procs : pc'[p] = pc[p] BY <3>1 DEF Edit, procVars
      <4> QED BY <3>1, <4>1, EditsTell, TheToldStayCareful DEF CareInv, Functional
    <3>2. CASE LockAges
      <4>1. UNCHANGED <<pc, todo, seen, others, home>> BY <3>2 DEF LockAges, procVars
      <4>2. \A p \in Procs : Careful(p)' = Careful(p) BY <4>1 DEF Careful, Next1
      <4> QED BY <4>1, <4>2 DEF CareInv
    <3> QED BY <2>4, <3>1, <3>2 DEF EnvironmentStep
  <2>5. CASE UNCHANGED vars BY <2>5, CareStays DEF vars
  <2> QED BY <2>2, <2>3, <2>4, <2>5 DEF Next
<1> QED BY <1>1, CareInitially, PTL DEF Spec

LEMMA WritesKeep ==
  ASSUME CareInv, NEW p \in Procs, pc[p] \in Adding, AddStep(p) \/ WriteFails(p),
         NEW x \in Items \ others[p], home[x] # Absent
  PROVE  home'[x] = home[x]
<1>1. CASE UNCHANGED home BY <1>1
<1>2. CASE pc[p] = "write" /\ Put(p, Next1(p), version[p])
  <2>1. x # Next1(p) BY <1>2 DEF CareInv, Careful
  <2> QED BY <1>2, <2>1 DEF Put, CareInv
<1>3. CASE pc[p] = "merge" /\ PutAliases(p, Merged(seen[p], version[p]), "ok")
  <2>1. x \in Aliases => seen[p][x] = home[x] BY <1>3 DEF CareInv, Careful
  <2>2. x \in Aliases => Merged(seen[p], version[p])[x] = home[x] BY <2>1 DEF Merged
  <2> QED BY <1>3, <2>2 DEF PutAliases
<1> QED
  BY <1>1, <1>2, <1>3 DEF AddStep, CheckFile, WriteFile, ReadMappings, WriteMappings,
                          WriteFails, fileVars

\* Adding the shipped filters (copyMissingFilterFile, mergeMissingMappings) changes no
\* filter and no alias that was there when it began, whatever other processes and
\* users do meanwhile and even when the lock has lapsed, unless they changed it, too.
THEOREM AddingNeverOverwrites == Spec => AddingKeeps
<1>1. CareInv => [\A p \in Procs : pc[p] \in Adding /\ (AddStep(p) \/ WriteFails(p)) =>
         \A x \in Items \ others[p] : home[x] # Absent => home'[x] = home[x]]_homeVars
  BY WritesKeep
<1> QED BY <1>1, CareInvariant, PTL DEF AddingKeeps

-----------------------------------------------------------------------------
(* Types.                                                                  *)

Typed ==
  /\ TypeOK
  /\ pc = [p \in Procs |-> pc[p]]
  /\ \A p \in Procs : pc[p] \in {"write", "fill"} => todo[p] # {}

LEMMA TypedInitially == Init => Typed
<1> SUFFICES ASSUME Init PROVE Typed OBVIOUS
<1>1. 1 \in Versions BY HomeAssumption DEF HomeAssumption, Versions
<1>2. HomeTypeOK
  <2>1. lock \in [owner : Procs \cup {Nobody}, stale : BOOLEAN] BY DEF Init, HomeInit
  <2>2. home \in [Items -> Content] BY <1>1 DEF Init, HomeInit, Content
  <2>3. failed \in [Procs -> BOOLEAN] /\ wiped \in BOOLEAN BY DEF Init, HomeInit
  <2>4. settled \in [exact : Versions \cup {0}, added : SUBSET Versions]
    BY DEF Init, HomeInit, Unsettled
  <2>5. seen \in [Procs -> [Aliases -> Content]]
    BY DEF Init, HomeInit, NoAliases, Content
  <2> QED BY <1>1, <2>1, <2>2, <2>3, <2>4, <2>5 DEF Init, HomeInit, HomeTypeOK
<1>3. asset \in [Procs -> [tag : Versions, prints : Versions]] BY <1>1 DEF Init, NoAsset
<1>4. doomed \in [Procs -> BOOLEAN] BY DEF Init
<1> QED BY <1>2, <1>3, <1>4 DEF Init, HomeInit, Typed, TypeOK

LEMMA NextFile ==
  ASSUME Typed, NEW p \in Procs, todo[p] # {}
  PROVE  Next1(p) \in todo[p] /\ Next1(p) \in Files /\ Next1(p) \in Items
<1>1. todo[p] \in SUBSET Nat /\ todo[p] \subseteq Files
  BY HomeAssumption DEF Typed, TypeOK, HomeTypeOK, HomeAssumption
<1>2. \E f \in todo[p] : \A g \in todo[p] : f <= g BY <1>1, LeastNat
<1> QED BY <1>1, <1>2 DEF Next1, Items

LEMMA TouchTyped ==
  ASSUME Typed, NEW p \in Procs \cup {Nobody}, NEW changed \in SUBSET Items, Touch(p, changed)
  PROVE  others' \in [Procs -> SUBSET Items]
  BY DEF Typed, TypeOK, HomeTypeOK, Touch

LEMMA SetAtTyped ==
  ASSUME NEW p \in Procs, failed \in [Procs -> BOOLEAN], NEW b \in BOOLEAN,
         failed' = [failed EXCEPT ![p] = b]
  PROVE  failed' \in [Procs -> BOOLEAN]
  OBVIOUS

\* What a step of an operation on the home filters may do to each part of the
\* state: the lock, the files, the process, what is counted and settled.
LockPart(p) ==
  \/ UNCHANGED lock
  \/ lock' = [owner |-> p, stale |-> FALSE]
  \/ lock' = [owner |-> Nobody, stale |-> FALSE]

FilePart(p) ==
  \/ UNCHANGED <<home, mapFile>> /\ (UNCHANGED others \/ others' = [others EXCEPT ![p] = {}])
  \/ pc[p] \in {"write", "fill"} /\ Put(p, Next1(p), version[p])
  \/ pc[p] = "rewrite" /\ todo[p] # {} /\ Put(p, Next1(p), Partial)
  \/ pc[p] = "clear" /\ (\E f \in Files : Put(p, f, Absent))
  \/ pc[p] = "clear" /\ PutAliases(p, NoAliases, "none")
  \/ pc[p] = "map" /\ PutAliases(p, NoAliases, "broken")
  \/ pc[p] = "fillMap" /\ PutAliases(p, Merged(NoAliases, version[p]), "ok")
  \/ pc[p] = "merge" /\ PutAliases(p, Merged(seen[p], version[p]), "ok")

KindPart(p) ==
  \/ UNCHANGED kind
  \/ kind' = [kind EXCEPT ![p] = "bootstrap"]
  \/ \E k \in Kinds : kind' = [kind EXCEPT ![p] = k]

VersionPart(p) ==
  \/ UNCHANGED version
  \/ version' = [version EXCEPT ![p] = 1]
  \/ exe # Absent /\ version' = [version EXCEPT ![p] = exe]

TodoPart(p) ==
  \/ UNCHANGED todo
  \/ todo' = [todo EXCEPT ![p] = {}]
  \/ todo' = [todo EXCEPT ![p] = FilesOf(version[p])]
  \/ todo' = [todo EXCEPT ![p] = @ \ {Next1(p)}]

SeenPart(p) ==
  \/ UNCHANGED seen
  \/ seen' = [seen EXCEPT ![p] = NoAliases]
  \/ seen' = [seen EXCEPT ![p] = [x \in Aliases |-> home[x]]]

FailedPart(p) == UNCHANGED failed \/ \E b \in BOOLEAN : failed' = [failed EXCEPT ![p] = b]

CountPart ==
  /\ starts' \in {starts, starts + 1}
  /\ faults' \in {faults, faults + 1}
  /\ crashes' \in {crashes, crashes + 1}

SettledPart(p) ==
  \/ UNCHANGED settled
  \/ settled' = Unsettled
  \/ settled' = [exact |-> version[p], added |-> settled.added \cup {version[p]}]
  \/ settled' = [exact |-> settled.exact, added |-> settled.added \cup {version[p]}]

LEMMA HomeStepParts ==
  ASSUME NEW p \in Procs, HomeStep(p)
  PROVE  /\ LockPart(p) /\ FilePart(p) /\ KindPart(p) /\ VersionPart(p)
         /\ TodoPart(p) /\ SeenPart(p) /\ FailedPart(p) /\ CountPart /\ SettledPart(p)
         /\ UNCHANGED <<exe, deleted, lapses, edits>> /\ wiped' \in {wiped, TRUE}
<1> USE DEF HomeStep, LockStep, AddStep, RewriteStep,
            Acquire, StatLock, TakeOver, AcquireAgain, Release, CreateLock, GiveUp,
            CheckFile, WriteFile, ReadMappings, WriteMappings, ClearFile, Cleared,
            CreateMappings, FillMappings, CreateFile, FillFile, Rewritten, WriteFails,
            Crash, Start, End, lockVars, fileVars, procVars, countVars, Locals
<1>1. LockPart(p) BY DEF LockPart
<1>2. FilePart(p) BY DEF FilePart
<1>3. KindPart(p) BY DEF KindPart
<1>4. VersionPart(p) BY DEF VersionPart
<1>5. TodoPart(p) BY DEF TodoPart
<1>6. SeenPart(p) BY DEF SeenPart
<1>7. FailedPart(p) BY DEF FailedPart
<1>8. CountPart BY DEF CountPart
<1>9. SettledPart(p) BY DEF SettledPart
<1>10. UNCHANGED <<exe, deleted, lapses, edits>> /\ wiped' \in {wiped, TRUE} OBVIOUS
<1> QED BY <1>1, <1>2, <1>3, <1>4, <1>5, <1>6, <1>7, <1>8, <1>9, <1>10

LEMMA HomeStepTyped ==
  ASSUME Typed, NEW p \in Procs, HomeStep(p)
  PROVE  HomeTypeOK'
<1>0. HomeTypeOK BY DEF Typed, TypeOK
<1>1. lock' \in [owner : Procs \cup {Nobody}, stale : BOOLEAN]
  <2>1. LockPart(p) BY HomeStepParts
  <2>2. lock \in [owner : Procs \cup {Nobody}, stale : BOOLEAN] BY <1>0 DEF HomeTypeOK
  <2>3. CASE UNCHANGED lock BY <2>2, <2>3
  <2>4. CASE lock' = [owner |-> p, stale |-> FALSE] BY <2>4
  <2>5. CASE lock' = [owner |-> Nobody, stale |-> FALSE] BY <2>5
  <2> QED BY <2>1, <2>3, <2>4, <2>5 DEF LockPart
<1> DEFINE AllContents == [Aliases -> Content]
<1>2. home' \in [Items -> Content] /\ seen' \in [Procs -> AllContents]
  <2>1. FilePart(p) /\ SeenPart(p) BY HomeStepParts
  <2>2. /\ home \in [Items -> Content] /\ version[p] \in Content
        /\ seen \in [Procs -> AllContents]
    BY <1>0 DEF HomeTypeOK, Content
  <2>3. seen' \in [Procs -> AllContents]
    <3>1. NoAliases \in AllContents BY DEF NoAliases, Content
    <3>2. [x \in Aliases |-> home[x]] \in AllContents BY <2>2 DEF Items
    <3> HIDE DEF AllContents
    <3> QED BY <2>1, <2>2, <3>1, <3>2 DEF SeenPart
  <2>4. ASSUME NEW f, NEW content \in Content, Put(p, f, content) PROVE home' \in [Items -> Content]
    BY <2>2, <2>4 DEF Put
  <2>5. ASSUME NEW aliases \in AllContents, NEW state, PutAliases(p, aliases, state)
        PROVE  home' \in [Items -> Content]
    BY <2>2, <2>5 DEF PutAliases
  <2>6. /\ NoAliases \in AllContents /\ Merged(NoAliases, version[p]) \in AllContents
        /\ Merged(seen[p], version[p]) \in AllContents
    BY <2>2 DEF NoAliases, Merged, Content
  <2>7. Absent \in Content /\ Partial \in Content BY DEF Content
  <2> HIDE DEF AllContents
  <2> QED BY <2>1, <2>2, <2>3, <2>4, <2>5, <2>6, <2>7 DEF FilePart
<1>3. mapFile' \in {"none", "broken", "ok"}
  BY <1>0, HomeStepParts DEF FilePart, HomeTypeOK, Put, PutAliases
<1>4. others' \in [Procs -> SUBSET Items]
  <2>1. \/ UNCHANGED others \/ others' = [others EXCEPT ![p] = {}]
        \/ Touch(p, {Next1(p)}) /\ todo[p] # {}
        \/ \E f \in Files : Touch(p, {f})
        \/ \E aliases : Touch(p, {x \in Aliases : aliases[x] # home[x]})
    BY ZenonT(60), HomeStepParts DEF FilePart, Put, PutAliases, Typed
  <2>2. \A aliases : {x \in Aliases : aliases[x] # home[x]} \subseteq Items BY DEF Items
  <2>3. todo[p] # {} => {Next1(p)} \subseteq Items BY NextFile
  <2>4. \A f \in Files : {f} \subseteq Items BY DEF Items
  <2> QED BY <1>0, <2>1, <2>2, <2>3, <2>4, TouchTyped DEF HomeTypeOK
<1>5. kind' \in [Procs -> {"bootstrap", "rewrite", "upgrade"}]
  BY <1>0, HomeStepParts, HomeAssumption DEF KindPart, HomeTypeOK, HomeAssumption
<1>6. version' \in [Procs -> Versions] /\ exe' \in Versions \cup {Absent}
  <2>1. VersionPart(p) /\ UNCHANGED exe BY HomeStepParts
  <2>2. version \in [Procs -> Versions] /\ exe \in Versions \cup {Absent} BY <1>0 DEF HomeTypeOK
  <2>3. 1 \in Versions BY HomeAssumption DEF HomeAssumption, Versions
  <2> QED BY <2>1, <2>2, <2>3 DEF VersionPart
<1>7. todo' \in [Procs -> SUBSET Files]
  <2>1. TodoPart(p) BY HomeStepParts
  <2>2. todo \in [Procs -> SUBSET Files] BY <1>0 DEF HomeTypeOK
  <2> QED BY <2>1, <2>2 DEF TodoPart, FilesOf
<1>8. failed' \in [Procs -> BOOLEAN]
  BY <1>0, HomeStepParts, SetAtTyped DEF FailedPart, HomeTypeOK
<1>9. starts' \in Nat /\ faults' \in Nat /\ crashes' \in Nat /\ edits' \in Nat /\ lapses' \in Nat
  <2>1. CountPart /\ UNCHANGED <<edits, lapses>> BY HomeStepParts
  <2>2. starts \in Nat /\ faults \in Nat /\ crashes \in Nat /\ edits \in Nat /\ lapses \in Nat
    BY <1>0 DEF HomeTypeOK
  <2> QED BY <2>1, <2>2 DEF CountPart
<1>10. settled' \in [exact : Versions \cup {0}, added : SUBSET Versions]
  <2>1. SettledPart(p) BY HomeStepParts
  <2>2. /\ settled \in [exact : Versions \cup {0}, added : SUBSET Versions]
        /\ version[p] \in Versions
    BY <1>0 DEF HomeTypeOK
  <2> QED BY <2>1, <2>2 DEF SettledPart, Unsettled
<1>11. wiped' \in BOOLEAN /\ deleted' \in SUBSET Items BY <1>0, HomeStepParts DEF HomeTypeOK
<1> QED
  BY <1>1, <1>2, <1>3, <1>4, <1>5, <1>6, <1>7, <1>8, <1>9, <1>10, <1>11 DEF HomeTypeOK

\* Where a process may be.
Labels ==
  {"idle", "acquire", "stat", "takeover", "again", "release", "staged", "aside", "undo",
   "restore", "installed", "repair", "repaired", "scheduled"} \cup Adding \cup Rewriting

Placed(q) == pc[q] \in Labels /\ (pc[q] \in {"write", "fill"} => todo[q] # {})

LEMMA MovesPlaced ==
  ASSUME Typed, NEW p \in Procs, NEW l \in Labels, pc' = [pc EXCEPT ![p] = l],
         \A q \in Procs \ {p} : todo'[q] = todo[q],
         l \in {"write", "fill"} => todo'[p] # {}
  PROVE  pc' = [q \in Procs |-> pc'[q]] /\ \A q \in Procs : Placed(q)'
<1>1. pc = [q \in Procs |-> pc[q]] /\ \A q \in Procs : Placed(q)
  BY DEF Typed, TypeOK, Placed, Labels
<1> QED BY <1>1 DEF Placed

LEMMA LabelsStay ==
  ASSUME Typed, NEW p \in Procs, HomeStep(p) \/ UpgradeStep(p)
  PROVE  pc' = [q \in Procs |-> pc'[q]] /\ \A q \in Procs : Placed(q)'
<1>1. /\ pc = [q \in Procs |-> pc[q]] /\ todo \in [Procs -> SUBSET Files]
      /\ \A q \in Procs : Placed(q)
  BY DEF Typed, TypeOK, HomeTypeOK, Placed, Labels
<1>2. CASE UpgradeStep(p)
  <2>1. \/ UNCHANGED <<pc, todo>>
        \/ \E l \in {"staged", "installed", "aside", "undo", "restore", "repaired", "acquire",
                     "scheduled", "idle"} :
             pc' = [pc EXCEPT ![p] = l] /\ (UNCHANGED todo \/ todo' = [todo EXCEPT ![p] = {}])
    BY <1>2 DEF UpgradeStep, StartUpgrade, Replace, ReplaceFails, MoveAside, MoveAsideFails,
       Place, PlaceFails, RemovePartial, Restore, RunRepair, ChildCrashes, ScheduleRemove,
       Report, ScriptDeletes, Exit, End, Goto, homeVars, procVars, Locals, Rest
  <2>2. CASE UNCHANGED <<pc, todo>> BY <1>1, <2>2 DEF Placed
  <2>3. ASSUME NEW l \in {"staged", "installed", "aside", "undo", "restore", "repaired", "acquire",
                          "scheduled", "idle"},
               pc' = [pc EXCEPT ![p] = l], UNCHANGED todo \/ todo' = [todo EXCEPT ![p] = {}]
        PROVE  pc' = [q \in Procs |-> pc'[q]] /\ \A q \in Procs : Placed(q)'
    <3>1. l \in Labels /\ l \notin {"write", "fill"} BY <2>3 DEF Labels
    <3>2. \A q \in Procs \ {p} : todo'[q] = todo[q] BY <1>1, <2>3
    <3> QED BY <2>3, <3>1, <3>2, MovesPlaced
  <2> QED BY <2>1, <2>2, <2>3
<1>3. CASE HomeStep(p)
  <2>1. \/ UNCHANGED pc /\ pc[p] \in {"add", "clear"}
        \/ \E l \in Labels \ {"write", "fill"} : pc' = [pc EXCEPT ![p] = l]
        \/ \E l \in {"write", "fill"} : pc' = [pc EXCEPT ![p] = l] /\ UNCHANGED todo /\ todo[p] # {}
    BY <1>3 DEF HomeStep, LockStep, AddStep, RewriteStep,
            Acquire, StatLock, TakeOver, AcquireAgain, Release, CreateLock, GiveUp, FirstStep,
            CheckFile, WriteFile, ReadMappings, WriteMappings, ClearFile, Cleared,
            CreateMappings, FillMappings, CreateFile, FillFile, Rewritten, WriteFails,
            Crash, Start, End, Goto, procVars, Locals, Labels, Adding, Rewriting
  <2>2. \A q \in Procs \ {p} : todo'[q] = todo[q]
    BY <1>1, <1>3, HomeStepParts DEF TodoPart
  <2>3. CASE UNCHANGED pc /\ pc[p] \in {"add", "clear"} BY <1>1, <2>2, <2>3 DEF Placed
  <2>4. {"write", "fill"} \subseteq Labels BY DEF Labels, Adding, Rewriting
  <2> QED BY <2>1, <2>2, <2>3, <2>4, MovesPlaced
<1> QED BY <1>2, <1>3

\* What a step of an upgrade may do to them, and to the binaries.
UpgradePart(p) ==
  /\ asset' = asset \/ \E a \in [tag : Versions, prints : Versions] : asset' = [asset EXCEPT ![p] = a]
  /\ backup' \in {backup, [backup EXCEPT ![p] = exe], [backup EXCEPT ![p] = Absent]}
  /\ UNCHANGED doomed \/ \E b \in BOOLEAN : doomed' = [doomed EXCEPT ![p] = b]
  /\ exe' \in {exe, Absent, asset[p].prints, backup[p]}
  /\ UNCHANGED <<lock, lapses, home, mapFile, wiped, deleted, settled, edits, platform>>
  /\ UNCHANGED others \/ others' = [others EXCEPT ![p] = {}]

LEMMA UpgradeStepParts ==
  ASSUME NEW p \in Procs, UpgradeStep(p), HomeTypeOK
  PROVE  /\ UpgradePart(p) /\ VersionPart(p) /\ FailedPart(p) /\ CountPart
         /\ \/ UNCHANGED kind \/ kind' = [kind EXCEPT ![p] = "bootstrap"]
            \/ kind' = [kind EXCEPT ![p] = "upgrade"]
         /\ UNCHANGED todo \/ todo' = [todo EXCEPT ![p] = {}]
         /\ UNCHANGED seen \/ seen' = [seen EXCEPT ![p] = NoAliases]
<1> USE DEF UpgradeStep, StartUpgrade, Replace, ReplaceFails, MoveAside, MoveAsideFails,
            Place, PlaceFails, RemovePartial, Restore, RunRepair, ChildCrashes, ScheduleRemove,
            Report, ScriptDeletes, Exit, End, lockVars, fileVars, procVars, countVars, homeVars,
            Locals, Rest
<1>0. 1 \in Versions BY HomeAssumption DEF HomeAssumption, Versions
<1>1. asset' = asset \/ \E a \in [tag : Versions, prints : Versions] : asset' = [asset EXCEPT ![p] = a]
  <2>1. CASE StartUpgrade(p)
    <3>1. exe \in Versions BY <2>1 DEF HomeTypeOK
    <3>2. exe..MaxVersion \subseteq Versions BY <3>1, HomeAssumption DEF HomeAssumption, Versions
    <3> QED BY <2>1, <3>2 DEF Archives
  <2>2. NoAsset \in [tag : Versions, prints : Versions] BY <1>0 DEF NoAsset
  <2>3. CASE ~StartUpgrade(p)
    <3>1. asset' = asset \/ asset' = [asset EXCEPT ![p] = NoAsset] BY <2>3
    <3> QED BY <2>2, <3>1
  <2> QED BY <2>1, <2>3
<1>2. backup' \in {backup, [backup EXCEPT ![p] = exe], [backup EXCEPT ![p] = Absent]} OBVIOUS
<1>3. UNCHANGED doomed \/ \E b \in BOOLEAN : doomed' = [doomed EXCEPT ![p] = b] OBVIOUS
<1>4. exe' \in {exe, Absent, asset[p].prints, backup[p]} OBVIOUS
<1>5. UNCHANGED <<lock, lapses, home, mapFile, wiped, deleted, settled, edits, platform>> OBVIOUS
<1>6. UNCHANGED others \/ others' = [others EXCEPT ![p] = {}] OBVIOUS
<1>7. VersionPart(p) BY DEF VersionPart
<1>8. FailedPart(p) BY DEF FailedPart
<1>9. CountPart BY DEF CountPart
<1>10. \/ UNCHANGED kind \/ kind' = [kind EXCEPT ![p] = "bootstrap"]
       \/ kind' = [kind EXCEPT ![p] = "upgrade"]
  OBVIOUS
<1>11. UNCHANGED todo \/ todo' = [todo EXCEPT ![p] = {}] OBVIOUS
<1>12. UNCHANGED seen \/ seen' = [seen EXCEPT ![p] = NoAliases] OBVIOUS
<1>13. UpgradePart(p) BY <1>1, <1>2, <1>3, <1>4, <1>5, <1>6 DEF UpgradePart
<1> QED BY <1>7, <1>8, <1>9, <1>10, <1>11, <1>12, <1>13

LEMMA UpgradeStepTyped ==
  ASSUME Typed, NEW p \in Procs, UpgradeStep(p)
  PROVE  /\ HomeTypeOK' /\ platform' \in Platforms
         /\ asset' \in [Procs -> [tag : Versions, prints : Versions]]
         /\ backup' \in [Procs -> Versions \cup {Absent}]
         /\ doomed' \in [Procs -> BOOLEAN]
<1>0. HomeTypeOK BY DEF Typed, TypeOK
<1>1. UpgradePart(p) /\ VersionPart(p) /\ FailedPart(p) /\ CountPart BY <1>0, UpgradeStepParts
<1> DEFINE Assets == [tag : Versions, prints : Versions]
<1>2. asset' \in [Procs -> Assets]
  <2>1. asset \in [Procs -> Assets] BY DEF Typed, TypeOK
  <2>2. asset' = asset \/ \E a \in Assets : asset' = [asset EXCEPT ![p] = a] BY <1>1 DEF UpgradePart
  <2> HIDE DEF Assets
  <2> QED BY <2>1, <2>2
<1>3. exe' \in Versions \cup {Absent} /\ backup' \in [Procs -> Versions \cup {Absent}]
  <2>1. /\ exe \in Versions \cup {Absent} /\ asset[p].prints \in Versions
        /\ backup \in [Procs -> Versions \cup {Absent}]
    BY DEF Typed, TypeOK, HomeTypeOK
  <2> QED BY <1>1, <2>1 DEF UpgradePart
<1>4. doomed' \in [Procs -> BOOLEAN]
  <2>1. doomed \in [Procs -> BOOLEAN] BY DEF Typed, TypeOK
  <2>2. UNCHANGED doomed \/ \E b \in BOOLEAN : doomed' = [doomed EXCEPT ![p] = b]
    BY <1>1 DEF UpgradePart
  <2> QED BY <2>1, <2>2
<1>5. /\ lock' \in [owner : Procs \cup {Nobody}, stale : BOOLEAN]
      /\ home' \in [Items -> Content] /\ mapFile' \in {"none", "broken", "ok"}
      /\ wiped' \in BOOLEAN /\ deleted' \in SUBSET Items
      /\ settled' \in [exact : Versions \cup {0}, added : SUBSET Versions]
      /\ edits' \in Nat /\ lapses' \in Nat
  BY <1>0, <1>1 DEF UpgradePart, HomeTypeOK
<1>6. others' \in [Procs -> SUBSET Items]
  <2>1. others \in [Procs -> SUBSET Items] BY <1>0 DEF HomeTypeOK
  <2> QED BY <1>1, <2>1 DEF UpgradePart
<1>7. kind' \in [Procs -> {"bootstrap", "rewrite", "upgrade"}]
  <2>1. kind \in [Procs -> {"bootstrap", "rewrite", "upgrade"}] BY <1>0 DEF HomeTypeOK
  <2> QED BY <1>0, <2>1, UpgradeStepParts
<1>8. version' \in [Procs -> Versions]
  <2>1. version \in [Procs -> Versions] /\ exe \in Versions \cup {Absent} BY <1>0 DEF HomeTypeOK
  <2>2. 1 \in Versions BY HomeAssumption DEF HomeAssumption, Versions
  <2> QED BY <1>1, <2>1, <2>2 DEF VersionPart
<1>9. todo' \in [Procs -> SUBSET Files]
  <2>1. todo \in [Procs -> SUBSET Files] BY <1>0 DEF HomeTypeOK
  <2> QED BY <1>0, <2>1, UpgradeStepParts
<1> DEFINE AllContents == [Aliases -> Content]
<1>10. seen' \in [Procs -> AllContents]
  <2>1. seen \in [Procs -> AllContents] BY <1>0 DEF HomeTypeOK
  <2>2. NoAliases \in AllContents BY DEF NoAliases, Content
  <2> HIDE DEF AllContents
  <2> QED BY <1>0, <2>1, <2>2, UpgradeStepParts
<1>11. failed' \in [Procs -> BOOLEAN]
  BY <1>0, <1>1, SetAtTyped DEF FailedPart, HomeTypeOK
<1>12. starts' \in Nat /\ faults' \in Nat /\ crashes' \in Nat
  BY <1>0, <1>1 DEF CountPart, HomeTypeOK
<1>13. platform' \in Platforms BY <1>1 DEF UpgradePart, Typed, TypeOK
<1>14. HomeTypeOK'
  BY <1>3, <1>5, <1>6, <1>7, <1>8, <1>9, <1>10, <1>11, <1>12 DEF HomeTypeOK
<1> QED BY <1>2, <1>3, <1>4, <1>13, <1>14

LEMMA EnvironmentTyped ==
  ASSUME Typed, EnvironmentStep
  PROVE  HomeTypeOK' /\ UNCHANGED <<pc, todo>>
<1>0. HomeTypeOK BY DEF Typed, TypeOK
<1>1. ASSUME NEW x \in Items, NEW content \in {User, Absent}, Edit(x, content)
      PROVE  HomeTypeOK' /\ UNCHANGED <<pc, todo>>
  <2>1. others' \in [Procs -> SUBSET Items] BY <1>1, TouchTyped DEF Edit
  <2>2. home' \in [Items -> Content] BY <1>0, <1>1 DEF Edit, HomeTypeOK, Content
  <2>3. settled' \in [exact : Versions \cup {0}, added : SUBSET Versions]
    BY <1>1 DEF Edit, Unsettled
  <2>4. mapFile' \in {"none", "broken", "ok"} /\ deleted' \in SUBSET Items /\ edits' \in Nat
    BY <1>0, <1>1 DEF Edit, HomeTypeOK
  <2>5. UNCHANGED <<lock, lapses, wiped, exe, pc, kind, version, todo, seen, failed, starts,
                    faults, crashes>>
    BY <1>1 DEF Edit, lockVars, procVars
  <2> QED BY <1>0, <2>1, <2>2, <2>3, <2>4, <2>5 DEF HomeTypeOK
<1>2. CASE LockAges
  <2>1. lock' \in [owner : Procs \cup {Nobody}, stale : BOOLEAN]
    BY <1>0, <1>2 DEF LockAges, HomeTypeOK
  <2>2. settled' \in [exact : Versions \cup {0}, added : SUBSET Versions] /\ lapses' \in Nat
    BY <1>0, <1>2 DEF LockAges, Unsettled, HomeTypeOK
  <2>3. UNCHANGED <<home, mapFile, others, wiped, deleted, exe, procVars, countVars>>
    BY <1>2 DEF LockAges
  <2>4. UNCHANGED <<pc, todo>> BY <2>3 DEF procVars
  <2>5. HomeTypeOK' BY <1>0, <2>1, <2>2, <2>3 DEF HomeTypeOK, procVars, countVars
  <2> QED BY <2>4, <2>5
<1> QED BY <1>1, <1>2 DEF EnvironmentStep

LEMMA TypedInvariant == Spec => []Typed
<1>1. Typed /\ [Next]_vars => Typed'
  <2> SUFFICES ASSUME Typed, [Next]_vars PROVE Typed' OBVIOUS
  <2> DEFINE Upgrades == /\ platform \in Platforms
                         /\ asset \in [Procs -> [tag : Versions, prints : Versions]]
                         /\ backup \in [Procs -> Versions \cup {Absent}]
                         /\ doomed \in [Procs -> BOOLEAN]
  <2>0. /\ HomeTypeOK /\ Upgrades
        /\ pc = [q \in Procs |-> pc[q]] /\ \A q \in Procs : Placed(q)
    BY DEF Typed, TypeOK, Placed, Labels
  <2>1. HomeTypeOK' /\ Upgrades' /\ pc' = [q \in Procs |-> pc'[q]] /\ \A q \in Procs : Placed(q)'
    <3>1. ASSUME NEW p \in Procs, UpgradeStep(p) PROVE HomeTypeOK' /\ Upgrades'
      BY <3>1, UpgradeStepTyped
    <3>2. ASSUME NEW p \in Procs, HomeStep(p), UNCHANGED upgradeVars PROVE HomeTypeOK' /\ Upgrades'
      BY <2>0, <3>2, HomeStepTyped DEF upgradeVars
    <3>3. CASE EnvironmentStep /\ UNCHANGED upgradeVars
      BY <2>0, <3>3, EnvironmentTyped DEF upgradeVars, Placed
    <3>4. CASE UNCHANGED vars
      BY <2>0, <3>4 DEF vars, homeVars, lockVars, fileVars, procVars, countVars, upgradeVars,
                        HomeTypeOK, Placed
    <3> HIDE DEF Upgrades
    <3> QED BY <3>1, <3>2, <3>3, <3>4, LabelsStay DEF Next
  <2> QED BY <2>1 DEF Typed, TypeOK, Placed, Labels
<1> QED BY <1>1, TypedInitially, PTL DEF Spec

\* The types of the state of the home filters and of the upgrades hold whatever
\* processes, files and versions there are (lifecycle reconcile.go, upgrade.go).
THEOREM TypesHold == Spec => []TypeOK
<1>1. Typed => TypeOK BY DEF Typed
<1> QED BY <1>1, TypedInvariant, PTL

-----------------------------------------------------------------------------
(* A binary survives.  While none is in place, one stands by: a backup     *)
(* whose removal nobody has scheduled, and whose process is still at its   *)
(* installation or has been ended in it.                                   *)

Moving == {"aside", "undo", "restore"}

StandsBy(p) == backup[p] # Absent /\ ~doomed[p] /\ pc[p] \in Moving \cup {"idle"}

SurvivalInv ==
  /\ exe # Absent \/ \E p \in Procs : StandsBy(p)
  /\ \A p \in Procs :
       /\ pc[p] \in Moving => backup[p] # Absent /\ ~doomed[p]
       /\ pc[p] \in {"undo", "restore"} => faults > 0
  /\ exe = Absent /\ faults < 2 /\ crashes = 0 => \E p \in Procs : pc[p] \in Moving

LEMMA SurvivalInitially == Init => SurvivalInv
  BY DEF Init, HomeInit, SurvivalInv, Moving, Absent

\* A step that leaves the binaries alone, and every process that moves one.
LEMMA SurvivalStays ==
  ASSUME Typed, SurvivalInv, UNCHANGED <<exe, backup, doomed>>,
         faults' \in {faults, faults + 1}, crashes' \in {crashes, crashes + 1},
         NEW p \in Procs, \A q \in Procs \ {p} : pc'[q] = pc[q],
         pc'[p] \notin Moving, pc[p] \in Moving => pc'[p] = "idle" /\ crashes' # 0,
         pc[p] = "idle" /\ pc'[p] # "idle" => exe # Absent
  PROVE  SurvivalInv'
<1>1. faults \in Nat /\ crashes \in Nat BY DEF Typed, TypeOK, HomeTypeOK
<1>2. exe' # Absent \/ \E q \in Procs : StandsBy(q)'
  BY DEF SurvivalInv, StandsBy
<1>3. \A q \in Procs : /\ pc'[q] \in Moving => backup'[q] # Absent /\ ~doomed'[q]
                       /\ pc'[q] \in {"undo", "restore"} => faults' > 0
  BY <1>1 DEF SurvivalInv, Moving
<1>4. exe' = Absent /\ faults' < 2 /\ crashes' = 0 => \E q \in Procs : pc'[q] \in Moving
  BY <1>1 DEF SurvivalInv
<1> QED BY <1>2, <1>3, <1>4 DEF SurvivalInv

LEMMA HomeStepsSurvive ==
  ASSUME Typed, SurvivalInv, NEW p \in Procs, HomeStep(p), UNCHANGED upgradeVars
  PROVE  SurvivalInv'
<1>1. UNCHANGED <<exe, backup, doomed>> /\ CountPart BY HomeStepParts DEF upgradeVars
<1>2. \/ UNCHANGED pc
      \/ \E l : Goto(p, l)
  BY DEF HomeStep, LockStep, AddStep, RewriteStep,
         Acquire, StatLock, TakeOver, AcquireAgain, Release, CreateLock, GiveUp,
         CheckFile, WriteFile, ReadMappings, WriteMappings, ClearFile, Cleared,
         CreateMappings, FillMappings, CreateFile, FillFile, Rewritten, WriteFails,
         Crash, Start, End, procVars, Locals
<1>3. /\ pc'[p] \notin Moving
      /\ pc[p] \in Moving => pc'[p] = "idle" /\ crashes' # 0
      /\ pc[p] = "idle" /\ pc'[p] # "idle" => exe # Absent
  <2>1. pc = [q \in Procs |-> pc[q]] /\ crashes \in Nat BY DEF Typed, TypeOK, HomeTypeOK
  <2> QED
  BY <2>1
  DEF HomeStep, LockStep, AddStep, RewriteStep, Moving, Adding, Rewriting, FirstStep,
         Acquire, StatLock, TakeOver, AcquireAgain, Release, CreateLock, GiveUp, Goto,
         CheckFile, WriteFile, ReadMappings, WriteMappings, ClearFile, Cleared,
         CreateMappings, FillMappings, CreateFile, FillFile, Rewritten, WriteFails,
         Crash, Start, End, procVars, Locals
<1>4. \A q \in Procs \ {p} : pc'[q] = pc[q] BY <1>2 DEF Goto, Typed
<1> QED BY <1>1, <1>3, <1>4, SurvivalStays DEF CountPart

LEMMA UpgradeStepsSurvive ==
  ASSUME Typed, SurvivalInv, NEW p \in Procs, UpgradeStep(p)
  PROVE  SurvivalInv'
<1>1. /\ pc = [q \in Procs |-> pc[q]] /\ exe \in Versions \cup {Absent}
      /\ backup \in [Procs -> Versions \cup {Absent}] /\ doomed \in [Procs -> BOOLEAN]
      /\ asset[p].prints # Absent /\ faults \in Nat /\ crashes \in Nat
  BY DEF Typed, TypeOK, HomeTypeOK, Versions, Absent
<1> USE DEF Goto, Exit, End, Rest, homeVars, procVars, countVars, Locals
<1>2. CASE StartUpgrade(p) BY <1>1, <1>2, SurvivalStays DEF StartUpgrade, Moving
<1>3. CASE Replace(p) BY <1>1, <1>3 DEF Replace, SurvivalInv, Moving
<1>4. CASE ReplaceFails(p) BY <1>1, <1>4 DEF ReplaceFails, SurvivalInv, Moving, StandsBy
<1>5. CASE MoveAside(p) BY <1>1, <1>5 DEF MoveAside, SurvivalInv, Moving, StandsBy
<1>6. CASE MoveAsideFails(p)
  BY <1>1, <1>6, SurvivalStays DEF MoveAsideFails, Moving
<1>7. CASE Place(p) BY <1>1, <1>7 DEF Place, SurvivalInv, Moving
<1>8. CASE PlaceFails(p) BY <1>1, <1>8 DEF PlaceFails, SurvivalInv, Moving, StandsBy
<1>9. CASE RemovePartial(p) BY <1>1, <1>9 DEF RemovePartial, SurvivalInv, Moving, StandsBy
<1>10. CASE Restore(p) BY <1>1, <1>10 DEF Restore, SurvivalInv, Moving, StandsBy
<1>11. CASE RunRepair(p) BY <1>1, <1>11, SurvivalStays DEF RunRepair, Moving
<1>12. CASE ChildCrashes(p) BY <1>1, <1>12, SurvivalStays DEF ChildCrashes, Moving, Rewriting
<1>13. CASE ScheduleRemove(p) BY <1>1, <1>13 DEF ScheduleRemove, SurvivalInv, Moving, StandsBy
<1>14. CASE Report(p) BY <1>1, <1>14, SurvivalStays DEF Report, Moving
<1>15. CASE ScriptDeletes(p) BY <1>1, <1>15 DEF ScriptDeletes, SurvivalInv, Moving, StandsBy
<1> QED
  BY <1>2, <1>3, <1>4, <1>5, <1>6, <1>7, <1>8, <1>9, <1>10, <1>11, <1>12, <1>13, <1>14, <1>15
  DEF UpgradeStep

LEMMA SurvivalInvariant == Spec => []SurvivalInv
<1>1. Typed /\ SurvivalInv /\ [Next]_vars => SurvivalInv'
  <2> SUFFICES ASSUME Typed, SurvivalInv, [Next]_vars PROVE SurvivalInv' OBVIOUS
  <2>1. CASE EnvironmentStep /\ UNCHANGED upgradeVars
    <3>1. UNCHANGED <<exe, faults, crashes, pc, backup, doomed>>
      BY <2>1 DEF EnvironmentStep, Edit, LockAges, procVars, countVars, upgradeVars
    <3> QED BY <3>1 DEF SurvivalInv, StandsBy
  <2>2. CASE UNCHANGED vars
    <3>1. UNCHANGED <<exe, faults, crashes, pc, backup, doomed>>
      BY <2>2 DEF vars, homeVars, procVars, countVars, upgradeVars
    <3> QED BY <3>1 DEF SurvivalInv, StandsBy
  <2> QED BY <2>1, <2>2, HomeStepsSurvive, UpgradeStepsSurvive DEF Next
<1> QED BY <1>1, SurvivalInitially, TypedInvariant, PTL DEF Spec

\* However an upgrade ends (installBinary: on Windows the old binary is moved aside,
\* and back when the new one cannot be placed), whatever is killed and whoever
\* upgrades beside it: there is a complete binary in place or in a backup, and with
\* less than two failures and nobody killed it is in place when the upgrades are over.
THEOREM ABinarySurvives == Spec => []BinarySurvives
<1>1. SurvivalInv => BinarySurvives
  BY DEF SurvivalInv, BinarySurvives, StandsBy, Moving
<1> QED BY <1>1, SurvivalInvariant, PTL

-----------------------------------------------------------------------------
(* An alias has its filter.  Filters go before the mappings that name      *)
(* them: whoever is about to add mappings has found or written the filters *)
(* of its version, and those of the aliases it has read were there.        *)

Provided(f) == home[f] # Absent \/ f \in deleted

Served(p) ==
  /\ pc[p] \in {"add", "write"} => \A f \in FilesOf(version[p]) \ todo[p] : Provided(f)
  /\ pc[p] = "merge" =>
       /\ \A f \in FilesOf(version[p]) : Provided(f)
       /\ \A x \in Aliases : seen[p][x] \in Versions => Provided(Target[x])
  /\ pc[p] \notin {"map", "fillMap", "rewrite", "fill"}

ServedInv ==
  ~wiped =>
    /\ \A x \in Aliases : home[x] \in Versions => Provided(Target[x])
    /\ \A p \in Procs : Served(p)

LEMMA VersionIsNoMarker ==
  ~(Absent \in Versions) /\ ~(User \in Versions) /\ ~(Partial \in Versions)
  BY HomeAssumption DEF HomeAssumption, Absent, User, Partial, Versions

LEMMA ServedInitially == Init => ServedInv
<1> SUFFICES ASSUME Init PROVE ServedInv OBVIOUS
<1>1. \A p \in Procs : Served(p) BY DEF Init, HomeInit, Served
<1>2. ASSUME NEW x \in Aliases, home[x] \in Versions PROVE Provided(Target[x])
  <2>1. x \in Items /\ Target[x] \in Items /\ 1 \in Versions
    BY HomeAssumption DEF HomeAssumption, Items, Versions
  <2>2. home[x] = 1 /\ x \in Shipped[1] /\ home = [y \in Items |-> IF y \in Shipped[1] THEN 1 ELSE Absent]
    BY <1>2, <2>1, VersionIsNoMarker DEF Init, HomeInit
  <2>3. Target[x] \in Shipped[1] BY <2>1, <2>2, HomeAssumption DEF HomeAssumption
  <2>4. home[Target[x]] = 1 BY <2>1, <2>2, <2>3
  <2> QED BY <2>4 DEF Provided, Absent
<1> QED BY <1>1, <1>2 DEF ServedInv

LEMMA StaysProvided ==
  ASSUME Typed, NEW p \in Procs, HomeStep(p), ~wiped', ServedInv,
         NEW f \in Files, Provided(f)
  PROVE  Provided(f)'
<1>1. UNCHANGED home \/ pc[p] # "clear"
  BY DEF HomeStep, LockStep, AddStep, RewriteStep, Adding, Rewriting,
         Acquire, StatLock, TakeOver, AcquireAgain, Release,
         CheckFile, WriteFile, ReadMappings, WriteMappings, ClearFile, Cleared,
         CreateMappings, FillMappings, CreateFile, FillFile, Rewritten, WriteFails,
         Crash, Start, fileVars
<1>2. FilePart(p) /\ UNCHANGED deleted BY HomeStepParts
<1>3. /\ home \in [Items -> Content] /\ f \in Items /\ f \notin Aliases /\ version[p] # Absent
      /\ Partial # Absent
  BY HomeAssumption, VersionIsNoMarker
  DEF Typed, TypeOK, HomeTypeOK, Items, HomeAssumption, Partial, Absent
<1>4. \A aliases, state : PutAliases(p, aliases, state) => home'[f] = home[f]
  BY <1>3 DEF PutAliases
<1>5. \A g, content : Put(p, g, content) /\ content # Absent /\ home[f] # Absent => home'[f] # Absent
  BY <1>3 DEF Put
<1> QED BY <1>1, <1>2, <1>3, <1>4, <1>5 DEF FilePart, Provided

\* The processes that a step does not move are served as they were.
LEMMA OthersServed ==
  ASSUME Typed, ServedInv, ~wiped, NEW q \in Procs,
         \A f \in Files : Provided(f) => Provided(f)',
         pc'[q] = pc[q], version'[q] = version[q], todo'[q] = todo[q], seen'[q] = seen[q]
  PROVE  Served(q)'
<1>1. FilesOf(version[q]) \subseteq Files /\ \A x \in Aliases : Target[x] \in Files
  BY HomeAssumption DEF HomeAssumption, FilesOf
<1>2. FilesOf(version[q])' = FilesOf(version[q]) BY DEF FilesOf
<1>3. Served(q) BY DEF ServedInv
<1> QED BY <1>1, <1>2, <1>3 DEF Served

LEMMA AliasesServed ==
  ASSUME Typed, ServedInv, NEW p \in Procs, HomeStep(p), ~wiped', ~wiped
  PROVE  \A x \in Aliases : home'[x] \in Versions => Provided(Target[x])'
<1> SUFFICES ASSUME NEW x \in Aliases, home'[x] \in Versions PROVE Provided(Target[x])' OBVIOUS
<1>1. /\ home \in [Items -> Content] /\ x \in Items /\ x \notin Files /\ Target[x] \in Files
      /\ version[p] \in Versions
  BY HomeAssumption DEF Typed, TypeOK, HomeTypeOK, Items, HomeAssumption
<1>2. Provided(Target[x]) => Provided(Target[x])' BY <1>1, StaysProvided
<1>3. Served(p) /\ (home[x] \in Versions => Provided(Target[x])) BY DEF ServedInv
<1>4. \A f \in Files : \A content : Put(p, f, content) => home'[x] = home[x] BY <1>1 DEF Put
<1>5. pc[p] \in {"write", "fill"} \/ todo[p] # {} => Next1(p) \in Files BY NextFile DEF Typed
<1>6. PutAliases(p, NoAliases, "none") \/ PutAliases(p, NoAliases, "broken") => FALSE
  <2>1. PutAliases(p, NoAliases, "none") \/ PutAliases(p, NoAliases, "broken") => home'[x] = Absent
    BY <1>1 DEF PutAliases, NoAliases
  <2> QED BY <2>1, VersionIsNoMarker
<1>7. ASSUME pc[p] = "merge", PutAliases(p, Merged(seen[p], version[p]), "ok")
      PROVE  Provided(Target[x])
  <2>1. home'[x] = Merged(seen[p], version[p])[x] BY <1>1, <1>7 DEF PutAliases
  <2>2. CASE x \in Shipped[version[p]]
    <3>1. Target[x] \in FilesOf(version[p])
      BY <1>1, <2>2, HomeAssumption DEF HomeAssumption, FilesOf
    <3> QED BY <1>3, <1>7, <3>1 DEF Served
  <2>3. CASE x \notin Shipped[version[p]]
    <3>1. seen[p][x] \in Versions BY <2>1, <2>3 DEF Merged
    <3> QED BY <1>3, <1>7, <3>1 DEF Served
  <2> QED BY <2>2, <2>3
<1>8. FilePart(p) BY HomeStepParts
<1> QED BY <1>2, <1>3, <1>4, <1>5, <1>6, <1>7, <1>8 DEF FilePart, Served

LEMMA MoverServed ==
  ASSUME Typed, ServedInv, NEW p \in Procs, HomeStep(p), ~wiped', ~wiped
  PROVE  Served(p)'
<1>1. /\ pc = [q \in Procs |-> pc[q]] /\ version \in [Procs -> Versions]
      /\ todo \in [Procs -> SUBSET Files] /\ seen \in [Procs -> [Aliases -> Content]]
      /\ home \in [Items -> Content]
  BY DEF Typed, TypeOK, HomeTypeOK
<1>2. Served(p) /\ \A x \in Aliases : home[x] \in Versions => Provided(Target[x]) BY DEF ServedInv
<1>3. \A f \in Files : Provided(f) => Provided(f)' BY StaysProvided
<1>4. \A v \in Versions : FilesOf(v) \subseteq Files BY DEF FilesOf
<1>5. \A x \in Aliases : Target[x] \in Files BY HomeAssumption DEF HomeAssumption
<1>6. CASE CheckFile(p)
  <2>1. UNCHANGED <<version, home, deleted>> BY <1>6 DEF CheckFile, fileVars
  <2>2. CASE home[Next1(p)] = Absent
    <3>1. pc'[p] = "write" /\ pc[p] = "add" /\ UNCHANGED todo BY <1>1, <1>6, <2>2 DEF CheckFile, Goto
    <3> QED BY <1>2, <2>1, <3>1 DEF Served, Provided, FilesOf
  <2>3. CASE home[Next1(p)] # Absent
    <3>1. pc'[p] = "add" /\ pc[p] = "add" /\ todo'[p] = todo[p] \ {Next1(p)}
      BY <1>1, <1>6, <2>3 DEF CheckFile
    <3>2. Provided(Next1(p)) BY <2>3 DEF Provided
    <3> QED BY <1>2, <2>1, <3>1, <3>2 DEF Served, Provided, FilesOf
  <2> QED BY <2>2, <2>3
<1>7. CASE WriteFile(p)
  <2>1. /\ pc'[p] = "add" /\ pc[p] = "write" /\ todo'[p] = todo[p] \ {Next1(p)} /\ UNCHANGED version
        /\ home' = [home EXCEPT ![Next1(p)] = version[p]]
    BY <1>1, <1>7 DEF WriteFile, Goto, Put
  <2>2. Next1(p) \in Items BY <2>1, NextFile DEF Typed
  <2>3. home'[Next1(p)] # Absent BY <1>1, <2>1, <2>2, VersionIsNoMarker
  <2>4. FilesOf(version[p])' = FilesOf(version[p]) BY <2>1 DEF FilesOf
  <2>5. \A f \in FilesOf(version[p]) \ todo[p] : Provided(f)' BY <1>1, <1>2, <1>3, <1>4, <2>1 DEF Served
  <2> QED BY <2>1, <2>3, <2>4, <2>5 DEF Served, Provided
<1>8. CASE ReadMappings(p)
  <2>1. UNCHANGED <<version, home, deleted>> /\ pc[p] = "add" /\ todo[p] = {}
    BY <1>8 DEF ReadMappings, fileVars
  <2>2. CASE pc'[p] = "release" BY <2>2 DEF Served
  <2>3. CASE pc'[p] = "merge" /\ seen'[p] = [x \in Aliases |-> home[x]]
    BY <1>2, <2>1, <2>3 DEF Served, Provided, FilesOf
  <2> QED BY <1>1, <1>8, <2>2, <2>3 DEF ReadMappings, Goto
<1>9. CASE /\ pc'[p] = "add" /\ todo'[p] = FilesOf(version[p]) /\ UNCHANGED version
  BY <1>9 DEF Served, FilesOf
<1>10. CASE pc'[p] \notin {"add", "write", "merge", "map", "fillMap", "rewrite", "fill"}
  BY <1>10 DEF Served
<1>11. \/ CheckFile(p) \/ WriteFile(p) \/ ReadMappings(p)
       \/ pc'[p] = "add" /\ todo'[p] = FilesOf(version[p]) /\ UNCHANGED version
       \/ pc'[p] \notin {"add", "write", "merge", "map", "fillMap", "rewrite", "fill"}
  BY <1>1, <1>2
  DEF HomeStep, LockStep, AddStep, RewriteStep, Served, FirstStep, Goto,
         Acquire, StatLock, TakeOver, AcquireAgain, Release, CreateLock, GiveUp,
         WriteMappings, ClearFile, Cleared,
         CreateMappings, FillMappings, CreateFile, FillFile, Rewritten, WriteFails,
         Crash, Start, End, procVars
<1> QED BY <1>6, <1>7, <1>8, <1>9, <1>10, <1>11

LEMMA OthersKeepTheirPart ==
  ASSUME Typed, NEW p \in Procs, HomeStep(p) \/ UpgradeStep(p), NEW q \in Procs \ {p}
  PROVE  /\ pc'[q] = pc[q] /\ version'[q] = version[q] /\ todo'[q] = todo[q] /\ seen'[q] = seen[q]
         /\ kind'[q] = kind[q] /\ failed'[q] = failed[q]
<1>1. /\ pc = [r \in Procs |-> pc[r]] /\ version \in [Procs -> Versions]
      /\ todo \in [Procs -> SUBSET Files] /\ seen \in [Procs -> [Aliases -> Content]]
      /\ kind = [r \in Procs |-> kind[r]] /\ failed = [r \in Procs |-> failed[r]] /\ HomeTypeOK
  BY DEF Typed, TypeOK, HomeTypeOK
<1>2. UNCHANGED pc \/ \E l : pc' = [pc EXCEPT ![p] = l]
  <2>1. CASE HomeStep(p)
    BY <2>1 DEF HomeStep, LockStep, AddStep, RewriteStep, Goto,
         Acquire, StatLock, TakeOver, AcquireAgain, Release, CreateLock, GiveUp,
         CheckFile, WriteFile, ReadMappings, WriteMappings, ClearFile, Cleared,
         CreateMappings, FillMappings, CreateFile, FillFile, Rewritten, WriteFails,
         Crash, Start, End, procVars
  <2>2. CASE UpgradeStep(p)
    BY <2>2 DEF UpgradeStep, StartUpgrade, Replace, ReplaceFails, MoveAside, MoveAsideFails,
       Place, PlaceFails, RemovePartial, Restore, RunRepair, ChildCrashes, ScheduleRemove,
       Report, ScriptDeletes, Exit, End, Goto, homeVars, procVars
  <2> QED BY <2>1, <2>2
<1>3. VersionPart(p) /\ FailedPart(p) /\ TodoPart(p) /\ SeenPart(p)
  BY <1>1, HomeStepParts, UpgradeStepParts DEF TodoPart, SeenPart
<1>4. UNCHANGED kind \/ \E k : kind' = [kind EXCEPT ![p] = k]
  BY <1>1, HomeStepParts, UpgradeStepParts DEF KindPart
<1>5. pc'[q] = pc[q] /\ kind'[q] = kind[q] BY <1>1, <1>2, <1>4
<1>6. version'[q] = version[q] BY <1>1, <1>3 DEF VersionPart
<1>7. todo'[q] = todo[q] BY <1>1, <1>3 DEF TodoPart
<1>8. seen'[q] = seen[q] BY <1>1, <1>3 DEF SeenPart
<1>9. failed'[q] = failed[q] BY <1>1, <1>3 DEF FailedPart
<1> QED BY <1>5, <1>6, <1>7, <1>8, <1>9

LEMMA HomeStepsServe ==
  ASSUME Typed, ServedInv, NEW p \in Procs, HomeStep(p)
  PROVE  ServedInv'
<1> SUFFICES ASSUME ~wiped' PROVE ServedInv' BY DEF ServedInv
<1>1. ~wiped BY HomeStepParts
<1>2. \A q \in Procs \ {p} : Served(q)'
  BY <1>1, OthersServed, OthersKeepTheirPart, StaysProvided
<1> QED BY <1>1, <1>2, MoverServed, AliasesServed DEF ServedInv

LEMMA UpgradesServe ==
  ASSUME Typed, ServedInv, NEW p \in Procs, UpgradeStep(p)
  PROVE  ServedInv'
<1> SUFFICES ASSUME ~wiped' PROVE ServedInv' BY DEF ServedInv
<1>1. HomeTypeOK BY DEF Typed, TypeOK
<1>2. UNCHANGED <<home, wiped, deleted>> BY <1>1, UpgradeStepParts DEF UpgradePart
<1>3. \A q \in Procs \ {p} : Served(q)'
  BY <1>2, OthersServed, OthersKeepTheirPart DEF Provided
<1>4. Served(p)'
  <2>1. \/ UNCHANGED <<pc, version, todo, seen>>
        \/ pc'[p] \notin {"add", "write", "merge", "map", "fillMap", "rewrite", "fill"}
    BY DEF UpgradeStep, StartUpgrade, Replace, ReplaceFails, MoveAside, MoveAsideFails,
       Place, PlaceFails, RemovePartial, Restore, RunRepair, ChildCrashes, ScheduleRemove,
       Report, ScriptDeletes, Exit, End, Goto, homeVars, procVars, Typed
  <2>2. CASE UNCHANGED <<pc, version, todo, seen>> BY <1>2, <2>2, OthersServed DEF Provided
  <2> QED BY <2>1, <2>2 DEF Served
<1>5. \A x \in Aliases : home'[x] \in Versions => Provided(Target[x])'
  BY <1>2 DEF ServedInv, Provided
<1> QED BY <1>3, <1>4, <1>5 DEF ServedInv

LEMMA EnvironmentServes ==
  ASSUME Typed, ServedInv, EnvironmentStep
  PROVE  ServedInv'
<1> SUFFICES ASSUME ~wiped' PROVE ServedInv' BY DEF ServedInv
<1>1. /\ UNCHANGED <<pc, version, todo, seen, wiped>>
      /\ \A f \in Files : Provided(f) => Provided(f)'
      /\ \A x \in Aliases : home'[x] \in Versions => home[x] \in Versions
  <2>1. ASSUME NEW x \in Items, NEW content \in {User, Absent}, Edit(x, content)
        PROVE  /\ \A f \in Files : Provided(f) => Provided(f)'
               /\ \A y \in Aliases : home'[y] \in Versions => home[y] \in Versions
    <3>1. home \in [Items -> Content] /\ home' = [home EXCEPT ![x] = content]
          /\ deleted' = IF content = Absent THEN deleted \cup {x} ELSE deleted
      BY <2>1 DEF Edit, Typed, TypeOK, HomeTypeOK
    <3>2. content \notin Versions /\ User # Absent BY VersionIsNoMarker DEF User, Absent
    <3> QED BY <3>1, <3>2 DEF Provided, Items
  <2>2. ASSUME LockAges PROVE UNCHANGED <<home, deleted>> BY <2>2 DEF LockAges
  <2>3. UNCHANGED <<pc, version, todo, seen, wiped>>
    BY DEF EnvironmentStep, Edit, LockAges, procVars
  <2> QED BY <2>1, <2>2, <2>3 DEF EnvironmentStep, Provided
<1>2. \A q \in Procs : Served(q)' BY <1>1, OthersServed
<1>3. \A x \in Aliases : Target[x] \in Files BY HomeAssumption DEF HomeAssumption
<1> QED BY <1>1, <1>2, <1>3 DEF ServedInv

\* Whatever is killed, fails or runs beside it, the adding of shipped filters
\* (ensureHomeFilters: the mappings are merged after the files are there) leaves no
\* shipped alias without its filter, until a rewrite begins; but for filters that
\* the user has removed.
THEOREM AliasesHaveFilters == Spec => []AliasHasFilter
<1>1. Typed /\ ServedInv /\ [Next]_vars => ServedInv'
  <2> SUFFICES ASSUME Typed, ServedInv, [Next]_vars PROVE ServedInv' OBVIOUS
  <2>1. CASE UNCHANGED vars
    <3>1. UNCHANGED <<home, deleted, wiped, pc, version, todo, seen>>
      BY <2>1 DEF vars, homeVars, fileVars, procVars
    <3> QED BY <3>1, OthersServed DEF ServedInv, Provided
  <2> QED BY <2>1, HomeStepsServe, UpgradesServe, EnvironmentServes DEF Next
<1>2. ServedInv => AliasHasFilter BY DEF ServedInv, AliasHasFilter, Provided
<1> QED BY <1>1, <1>2, ServedInitially, TypedInvariant, PTL DEF Spec

-----------------------------------------------------------------------------
(* An upgrade is effective.  A rewrite leaves no shipped item without the  *)
(* content of its version but those it has still to write, and those that  *)
(* others have changed in its back; an upgrade that knows of no failure    *)
(* has gone through one.                                                   *)

Upgraders == {"staged", "installed", "repaired", "scheduled"} \cup Moving

Role(p) ==
  /\ pc[p] \in Upgraders => kind[p] = "upgrade"
  /\ pc[p] \in Rewriting => Rewrites(kind[p])
  /\ pc[p] \in Adding => ~Rewrites(kind[p])

Unwritten(p) == {x \in Shipped[version[p]] : home[x] # version[p]}

Applied(p) ==
  /\ pc[p] \in {"clear", "map", "fillMap"} => FilesOf(version[p]) \subseteq todo[p]
  /\ pc[p] \in {"rewrite", "fill"} => Unwritten(p) \subseteq others[p] \cup todo[p]
  /\ pc[p] = "release" /\ Rewrites(kind[p]) /\ ~failed[p] => Unwritten(p) \subseteq others[p]
  /\ pc[p] \in {"repaired", "scheduled"} /\ ~failed[p] => Unwritten(p) \subseteq others[p]

ApplyInv == \A p \in Procs : Role(p) /\ Applied(p)

LEMMA ApplyInitially == Init => ApplyInv
  BY DEF Init, HomeInit, ApplyInv, Role, Applied, Upgraders, Moving, Rewriting, Adding

\* Whoever steps, the others are told of the files that change.
LEMMA StepsTell ==
  ASSUME CareInv, NEW p \in Procs, HomeStep(p) \/ UpgradeStep(p),
         NEW q \in Procs \ {p}, pc[q] # "idle"
  PROVE  Told(q) \/ UNCHANGED homeVars
<1>1. \A r \in Procs : Idles(r) => OwnOnly(r) BY DEF Idles
<1>2. OwnOnly(p) \/ Writing(p) \/ UNCHANGED homeVars
  BY <1>1, UpgradeIdles, LooksAreCareful, Writes, LockIdles, OthersIdle
  DEF HomeStep, AddStep, RewriteStep
<1> QED BY <1>2, OwnOnlyTells, WritingTells

LEMMA ToldApplied ==
  ASSUME Typed, ApplyInv, NEW q \in Procs, Told(q), 
         version'[q] = version[q], kind'[q] = kind[q], failed'[q] = failed[q]
  PROVE  (Role(q) /\ Applied(q))'
<1>1. Unwritten(q)' \subseteq Unwritten(q) \cup others'[q]
  <2>1. Shipped[version[q]] \subseteq Items
    BY HomeAssumption DEF Typed, TypeOK, HomeTypeOK, HomeAssumption
  <2> QED BY <2>1 DEF Unwritten, Told
<1>2. Role(q)' BY DEF Told, ApplyInv, Role
<1>3. FilesOf(version[q])' = FilesOf(version[q]) BY DEF FilesOf
<1>4. Applied(q)' BY <1>1, <1>3 DEF Told, ApplyInv, Applied
<1> QED BY <1>2, <1>4

LEMMA RoleKept ==
  ASSUME Typed, ApplyInv, NEW p \in Procs, HomeStep(p) \/ UpgradeStep(p)
  PROVE  Role(p)'
<1>1. Role(p) /\ pc = [q \in Procs |-> pc[q]] /\ kind = [q \in Procs |-> kind[q]]
  BY DEF ApplyInv, Typed, TypeOK, HomeTypeOK
<1>2. CASE HomeStep(p)
  BY <1>1, <1>2
  DEF HomeStep, LockStep, AddStep, RewriteStep, FirstStep, Goto, Role, Upgraders, Moving,
         Adding, Rewriting, Rewrites,
         Acquire, StatLock, TakeOver, AcquireAgain, Release, CreateLock, GiveUp,
         CheckFile, WriteFile, ReadMappings, WriteMappings, ClearFile, Cleared,
         CreateMappings, FillMappings, CreateFile, FillFile, Rewritten, WriteFails,
         Crash, Start, End, procVars, Locals
<1>3. CASE UpgradeStep(p)
  BY <1>1, <1>3
  DEF UpgradeStep, StartUpgrade, Replace, ReplaceFails, MoveAside, MoveAsideFails,
       Place, PlaceFails, RemovePartial, Restore, RunRepair, ChildCrashes, ScheduleRemove,
       Report, ScriptDeletes, Exit, End, Goto, homeVars, procVars, Locals,
       Role, Upgraders, Moving, Adding, Rewriting, Rewrites
<1> QED BY <1>2, <1>3

LEMMA RewriteApplies ==
  ASSUME Typed, ApplyInv, NEW p \in Procs, RewriteStep(p)
  PROVE  Applied(p)'
<1>1. /\ pc = [q \in Procs |-> pc[q]] /\ todo \in [Procs -> SUBSET Files]
      /\ home \in [Items -> Content] /\ version[p] \in Versions
      /\ others \in [Procs -> SUBSET Items]
  BY DEF Typed, TypeOK, HomeTypeOK
<1>2. Applied(p) BY DEF ApplyInv
<1>3. Shipped[version[p]] \subseteq Items BY <1>1, HomeAssumption DEF HomeAssumption
<1>4. CASE ClearFile(p) \/ Cleared(p) \/ CreateMappings(p)
  <2>1. pc[p] \in {"clear", "map", "fillMap"} /\ pc'[p] \in {"clear", "map", "fillMap"}
        /\ UNCHANGED <<version, todo>>
    BY <1>1, <1>4 DEF ClearFile, Cleared, CreateMappings, Goto, procVars, Locals
  <2> QED BY <1>2, <2>1 DEF Applied, FilesOf
<1>5. CASE FillMappings(p)
  <2>1. pc[p] = "fillMap" /\ pc'[p] = "rewrite" /\ UNCHANGED <<version, todo>>
    BY <1>1, <1>5 DEF FillMappings, Goto, Locals
  <2>2. \A x \in Shipped[version[p]] \cap Aliases : home'[x] = version[p]
    BY <1>1, <1>3, <1>5 DEF FillMappings, PutAliases, Merged, NoAliases
  <2>3. Shipped[version[p]] \subseteq todo[p] \cup Aliases
    BY <1>2, <1>3, <2>1 DEF Applied, FilesOf, Items
  <2> QED BY <2>1, <2>2, <2>3 DEF Applied, Unwritten
<1>6. CASE CreateFile(p)
  <2>1. /\ pc[p] = "rewrite" /\ pc'[p] = "fill" /\ UNCHANGED <<version, todo>>
        /\ home' = [home EXCEPT ![Next1(p)] = Partial] /\ others'[p] = others[p] \ {Next1(p)}
    BY <1>1, <1>6 DEF CreateFile, Goto, Locals, Put, Touch
  <2>2. Next1(p) \in todo[p] BY <1>6, NextFile DEF CreateFile
  <2> QED BY <1>1, <1>2, <1>3, <2>1, <2>2 DEF Applied, Unwritten
<1>7. CASE FillFile(p)
  <2>1. /\ pc[p] = "fill" /\ pc'[p] = "rewrite" /\ UNCHANGED version
        /\ todo'[p] = todo[p] \ {Next1(p)}
        /\ home' = [home EXCEPT ![Next1(p)] = version[p]] /\ others'[p] = others[p] \ {Next1(p)}
    BY <1>1, <1>7 DEF FillFile, Goto, Put, Touch
  <2> QED BY <1>1, <1>2, <1>3, <2>1 DEF Applied, Unwritten
<1>8. CASE Rewritten(p)
  <2>1. /\ pc[p] = "rewrite" /\ pc'[p] = "release" /\ UNCHANGED <<version, home, others>>
        /\ todo[p] = {}
    BY <1>1, <1>8 DEF Rewritten, Goto, Locals, fileVars
  <2> QED BY <1>2, <2>1 DEF Applied, Unwritten
<1> QED BY <1>4, <1>5, <1>6, <1>7, <1>8 DEF RewriteStep

LEMMA OthersApply ==
  ASSUME Typed, ApplyInv, NEW p \in Procs,
         UpgradeStep(p) \/ HomeStep(p), ~RewriteStep(p)
  PROVE  Applied(p)'
<1>1. /\ pc = [q \in Procs |-> pc[q]] /\ failed = [q \in Procs |-> failed[q]]
      /\ todo \in [Procs -> SUBSET Files] /\ kind = [q \in Procs |-> kind[q]]
  BY DEF Typed, TypeOK, HomeTypeOK
<1>2. Applied(p) /\ Role(p) BY DEF ApplyInv
<1> DEFINE After == {"clear", "map", "fillMap", "rewrite", "fill", "release", "repaired", "scheduled"}
<1>3. CASE UpgradeStep(p)
  <2>1. \/ UNCHANGED <<pc, kind, version, todo, failed, others, home>>
        \/ pc'[p] \notin After
        \/ pc'[p] \in {"repaired", "scheduled"} /\ failed'[p]
        \/ /\ pc[p] = "repaired" /\ pc'[p] = "scheduled"
           /\ UNCHANGED <<kind, version, failed, others, home>>
    BY SMTT(30), <1>1, <1>3
    DEF UpgradeStep, StartUpgrade, Replace, ReplaceFails, MoveAside, MoveAsideFails,
       Place, PlaceFails, RemovePartial, Restore, RunRepair, ChildCrashes, ScheduleRemove,
       Report, ScriptDeletes, Exit, End, Goto, homeVars, procVars, fileVars, Locals, Rest
  <2>2. CASE UNCHANGED <<pc, kind, version, todo, failed, others, home>>
    BY <1>2, <2>2 DEF Applied, Unwritten, FilesOf
  <2>3. CASE pc'[p] \notin After BY <2>3 DEF Applied
  <2>4. CASE pc'[p] \in {"repaired", "scheduled"} /\ failed'[p] BY <2>4 DEF Applied
  <2>5. CASE /\ pc[p] = "repaired" /\ pc'[p] = "scheduled"
             /\ UNCHANGED <<kind, version, failed, others, home>>
    BY <1>2, <2>5 DEF Applied, Unwritten
  <2> QED BY <2>1, <2>2, <2>3, <2>4, <2>5
<1>4. CASE HomeStep(p)
  <2>1. \/ pc'[p] \notin After
        \/ pc'[p] \in {"repaired", "release"} /\ failed'[p]
        \/ pc'[p] = "release" /\ ~Rewrites(kind'[p])
        \/ pc'[p] = "clear" /\ todo'[p] = FilesOf(version[p]) /\ UNCHANGED version
        \/ /\ pc[p] = "release" /\ pc'[p] = "repaired" /\ kind[p] = "upgrade"
           /\ UNCHANGED <<kind, version, failed, others, home>>
    BY SMTT(30), <1>1, <1>2, <1>4
    DEF HomeStep, LockStep, AddStep, FirstStep, Goto, Role, Adding,
         Acquire, StatLock, TakeOver, AcquireAgain, Release, CreateLock, GiveUp,
         CheckFile, WriteFile, ReadMappings, WriteMappings, WriteFails,
         Crash, Start, End, procVars, Locals
  <2>2. CASE pc'[p] \notin After BY <2>2 DEF Applied
  <2>3. CASE pc'[p] \in {"repaired", "release"} /\ failed'[p] BY <2>3 DEF Applied
  <2>4. CASE pc'[p] = "release" /\ ~Rewrites(kind'[p]) BY <2>4 DEF Applied
  <2>5. CASE pc'[p] = "clear" /\ todo'[p] = FilesOf(version[p]) /\ UNCHANGED version
    BY <2>5 DEF Applied, FilesOf
  <2>6. CASE /\ pc[p] = "release" /\ pc'[p] = "repaired" /\ kind[p] = "upgrade"
             /\ UNCHANGED <<kind, version, failed, others, home>>
    BY <1>2, <2>6 DEF Applied, Unwritten, Rewrites
  <2> QED BY <2>1, <2>2, <2>3, <2>4, <2>5, <2>6
<1> QED BY <1>3, <1>4

LEMMA StepsApply ==
  ASSUME Typed, CareInv, ApplyInv, NEW p \in Procs, HomeStep(p) \/ UpgradeStep(p)
  PROVE  ApplyInv'
<1>1. Role(p)' /\ Applied(p)' BY RoleKept, RewriteApplies, OthersApply
<1>2. ASSUME NEW q \in Procs \ {p} PROVE (Role(q) /\ Applied(q))'
  <2>1. /\ pc'[q] = pc[q] /\ version'[q] = version[q] /\ kind'[q] = kind[q]
        /\ failed'[q] = failed[q]
    BY OthersKeepTheirPart
  <2>2. CASE pc[q] = "idle"
    BY <2>1, <2>2 DEF Role, Applied, Upgraders, Moving, Adding, Rewriting
  <2>3. CASE UNCHANGED homeVars
    BY <2>3 DEF ApplyInv, Role, Applied, Unwritten, FilesOf, homeVars, procVars, fileVars
  <2>4. CASE Told(q) BY <2>1, <2>4, ToldApplied
  <2> QED BY <2>2, <2>3, <2>4, StepsTell
<1> QED BY <1>1, <1>2 DEF ApplyInv

LEMMA ApplyInvariant == Spec => []ApplyInv
<1>1. Typed /\ CareInv /\ ApplyInv /\ [Next]_vars => ApplyInv'
  <2> SUFFICES ASSUME Typed, CareInv, ApplyInv, [Next]_vars PROVE ApplyInv' OBVIOUS
  <2>1. CASE UNCHANGED homeVars
    BY <2>1 DEF ApplyInv, Role, Applied, Unwritten, FilesOf, homeVars, procVars, fileVars
  <2>2. CASE EnvironmentStep
    <3>1. ASSUME NEW x \in Items, NEW content, Edit(x, content) PROVE ApplyInv'
      <4>1. UNCHANGED <<pc, kind, version, failed>> BY <3>1 DEF Edit, procVars
      <4>2. ASSUME NEW q \in Procs, pc[q] = "idle" PROVE (Role(q) /\ Applied(q))'
        BY <4>1, <4>2 DEF Role, Applied, Upgraders, Moving, Adding, Rewriting
      <4> QED BY <3>1, <4>1, <4>2, EditsTell, ToldApplied DEF ApplyInv
    <3>2. CASE LockAges
      BY <3>2 DEF LockAges, procVars, ApplyInv, Role, Applied, Unwritten, FilesOf
    <3> QED BY <2>2, <3>1, <3>2 DEF EnvironmentStep
  <2> QED BY <2>1, <2>2, StepsApply DEF Next, vars
<1> QED BY <1>1, ApplyInitially, TypedInvariant, CareInvariant, PTL DEF Spec

\* One upgrade at a time finds in place what it has put there.
Before == {"staged"} \cup Moving

Alone(p) ==
  /\ asset[p].prints = asset[p].tag
  /\ pc[p] = "staged" => exe = version[p]
  /\ pc[p] = "aside" => backup[p] = version[p]
  /\ pc[p] \in Moving => exe = Absent
  /\ pc[p] \in Before => version[p] <= asset[p].tag
  /\ pc[p] \notin Before => exe = asset[p].tag
  /\ pc[p] \notin Before \cup {"installed"} => version[p] = asset[p].tag

AloneInv ==
  /\ \A p, q \in Procs : Upgrading(p) /\ Upgrading(q) => p = q
  /\ \A p \in Procs : Upgrading(p) => Alone(p)

LEMMA HomeStepsAlone ==
  ASSUME Typed, AloneInv, NEW p \in Procs, HomeStep(p), UNCHANGED upgradeVars
  PROVE  AloneInv'
<1>1. /\ pc = [r \in Procs |-> pc[r]] /\ kind = [r \in Procs |-> kind[r]]
      /\ version = [r \in Procs |-> version[r]]
  BY DEF Typed, TypeOK, HomeTypeOK
<1>2. UNCHANGED <<exe, asset, backup>> BY HomeStepParts DEF upgradeVars
<1>3. Upgrading(p)' =>
        Upgrading(p) /\ UNCHANGED version /\ pc[p] \notin Before \cup {"installed"} /\ pc'[p] \notin Before \cup {"installed"}
  BY <1>1
  DEF HomeStep, LockStep, AddStep, RewriteStep, FirstStep, Goto, Moving, Before, Upgrading,
         Adding, Rewriting, 
         Acquire, StatLock, TakeOver, AcquireAgain, Release, CreateLock, GiveUp,
         CheckFile, WriteFile, ReadMappings, WriteMappings, ClearFile, Cleared,
         CreateMappings, FillMappings, CreateFile, FillFile, Rewritten, WriteFails,
         Crash, Start, End, procVars, Locals
<1>4. \A q \in Procs \ {p} : /\ Upgrading(q)' = Upgrading(q)
                             /\ pc'[q] = pc[q] /\ version'[q] = version[q]
  BY OthersKeepTheirPart DEF Upgrading
<1>5. \A q \in Procs : Upgrading(q)' => Upgrading(q) BY <1>3, <1>4
<1>6. \A q \in Procs \ {p} : Upgrading(q)' => Alone(q)'
  BY <1>2, <1>4 DEF AloneInv, Alone
<1>7. ASSUME Upgrading(p)' PROVE Alone(p)'
  <2>1. Alone(p) BY <1>3, <1>7 DEF AloneInv
  <2>2. {"staged", "aside"} \cup Moving \subseteq Before BY DEF Before, Moving
  <2> QED BY <1>2, <1>3, <1>7, <2>1, <2>2 DEF Alone
<1> QED BY <1>5, <1>6, <1>7 DEF AloneInv

LEMMA UpgradeStepsAlone ==
  ASSUME ~MayRace, Typed, SurvivalInv, ApplyInv, AloneInv, NEW p \in Procs, UpgradeStep(p)
  PROVE  AloneInv'
<1>1. /\ pc = [r \in Procs |-> pc[r]] /\ kind = [r \in Procs |-> kind[r]]
      /\ version \in [Procs -> Versions] /\ exe \in Versions \cup {Absent}
      /\ asset \in [Procs -> [tag : Versions, prints : Versions]]
      /\ backup \in [Procs -> Versions \cup {Absent}]
      /\ Versions \subseteq Nat /\ ~(Absent \in Versions)
  BY VersionIsNoMarker DEF Typed, TypeOK, HomeTypeOK, Versions
<1>2. \A q \in Procs \ {p} : /\ Upgrading(q)' = Upgrading(q)
                             /\ pc'[q] = pc[q] /\ version'[q] = version[q]
  BY OthersKeepTheirPart DEF Upgrading
<1>3. CASE StartUpgrade(p)
  <2>1. \A q \in Procs : ~Upgrading(q) BY <1>3 DEF StartUpgrade
  <2>2. PICK tag \in exe..MaxVersion, archive \in Archives :
          Verified(archive, tag) /\ asset' = [asset EXCEPT ![p] = [tag |-> tag, prints |-> archive.prints]]
    BY <1>3 DEF StartUpgrade
  <2>3. asset'[p].prints = tag /\ asset'[p].tag = tag BY <1>1, <2>2 DEF Verified
  <2>4. exe \in Versions /\ exe <= tag BY <1>1, <1>3, <2>2 DEF StartUpgrade
  <2>5. pc'[p] = "staged" /\ version'[p] = exe /\ exe' = exe
    BY <1>1, <1>3 DEF StartUpgrade, Goto
  <2>6. Alone(p)' BY <2>3, <2>4, <2>5 DEF Alone, Before, Moving
  <2> QED BY <1>2, <2>1, <2>6 DEF AloneInv
<1>4. CASE ScriptDeletes(p)
  <2>1. UNCHANGED <<exe, pc, kind, version, asset>> /\ \A q \in Procs \ {p} : backup'[q] = backup[q]
    BY <1>1, <1>4 DEF ScriptDeletes, homeVars, procVars
  <2>2. pc[p] # "aside" BY <1>4 DEF ScriptDeletes, SurvivalInv, Moving
  <2>3. \A q \in Procs : Alone(q) => Alone(q)' BY <2>1, <2>2 DEF Alone
  <2> QED BY <2>1, <2>3 DEF AloneInv, Upgrading
<1>5. CASE ~StartUpgrade(p) /\ ~ScriptDeletes(p)
  <2>1. Role(p) BY DEF ApplyInv
  <2>2. Upgrading(p)
    BY <1>5, <2>1
    DEF UpgradeStep, Replace, ReplaceFails, MoveAside, MoveAsideFails,
       Place, PlaceFails, RemovePartial, Restore, RunRepair, ChildCrashes, ScheduleRemove,
       Report, Role, Upgraders, Moving, Upgrading, Rewriting
  <2>3. /\ \A q \in Procs \ {p} : ~Upgrading(q)
        /\ Alone(p)
    BY <2>2 DEF AloneInv
  <2>4. asset[p].tag \in Versions BY <1>1
  <2>5. Upgrading(p)' => Alone(p)'
    <3> USE DEF Goto, Exit, End, Rest, homeVars, procVars, countVars, Locals, Upgrading
    <3> SUFFICES ASSUME Upgrading(p)' PROVE Alone(p)' OBVIOUS
    <3>1. CASE Replace(p) BY <1>1, <2>3, <3>1 DEF Replace, Alone, Before, Moving
    <3>2. CASE MoveAside(p) BY <1>1, <2>3, <3>2 DEF MoveAside, Alone, Before, Moving
    <3>3. CASE Place(p) BY <1>1, <2>3, <3>3 DEF Place, Alone, Before, Moving
    <3>4. CASE PlaceFails(p) BY <1>1, <2>3, <3>4 DEF PlaceFails, Alone, Before, Moving
    <3>5. CASE RemovePartial(p) BY <1>1, <2>3, <3>5 DEF RemovePartial, Alone, Before, Moving
    <3>6. CASE RunRepair(p) BY <1>1, <2>3, <2>4, <3>6 DEF RunRepair, Alone, Before, Moving
    <3>7. CASE ChildCrashes(p)
      BY <1>1, <2>3, <3>7 DEF ChildCrashes, Alone, Before, Moving, Rewriting
    <3>8. CASE ScheduleRemove(p) BY <1>1, <2>3, <3>8 DEF ScheduleRemove, Alone, Before, Moving
    <3>9. CASE ReplaceFails(p) \/ MoveAsideFails(p) \/ Restore(p) \/ Report(p)
      BY <1>1, <3>9 DEF ReplaceFails, MoveAsideFails, Restore, Report
    <3> QED
      BY <1>5, <3>1, <3>2, <3>3, <3>4, <3>5, <3>6, <3>7, <3>8, <3>9 DEF UpgradeStep
  <2> QED BY <1>2, <2>3, <2>5 DEF AloneInv
<1> QED BY <1>3, <1>4, <1>5

LEMMA AloneInvariant == ~MayRace /\ Spec => []AloneInv
<1> SUFFICES ASSUME ~MayRace PROVE Spec => []AloneInv
  OBVIOUS
<1>1. Init => AloneInv BY DEF Init, HomeInit, AloneInv, Upgrading
<1>2. Typed /\ SurvivalInv /\ ApplyInv /\ AloneInv /\ [Next]_vars => AloneInv'
  <2> SUFFICES ASSUME Typed, SurvivalInv, ApplyInv, AloneInv, [Next]_vars PROVE AloneInv' OBVIOUS
  <2>1. CASE (EnvironmentStep /\ UNCHANGED upgradeVars) \/ UNCHANGED vars
    <3>1. UNCHANGED <<exe, pc, kind, version, asset, backup>>
      BY <2>1 DEF EnvironmentStep, Edit, LockAges, procVars, countVars, upgradeVars, vars, homeVars
    <3> QED BY <3>1 DEF AloneInv, Alone, Upgrading
  <2> QED BY <2>1, HomeStepsAlone, UpgradeStepsAlone DEF Next
<1> QED BY <1>1, <1>2, TypedInvariant, SurvivalInvariant, ApplyInvariant, PTL DEF Spec

\* An upgrade that reports success (Upgrade: install, then `repair --yes` of the new
\* binary) has installed the release it was asked for, and every item that this
\* release ships has its content, unless somebody has changed it since: whatever
\* failed, was killed or worked on the home filters beside it, and also when the lock
\* had lapsed; but for a second upgrade at the same time.
THEOREM UpgradesAreEffective == ~MayRace /\ Spec => []UpgradeIsEffective
<1> SUFFICES ASSUME ~MayRace PROVE Spec => []UpgradeIsEffective
  OBVIOUS
<1>1. ASSUME ApplyInv, AloneInv PROVE UpgradeIsEffective
  <2> SUFFICES ASSUME NEW p \in Procs, pc[p] = "scheduled", ~failed[p]
               PROVE  /\ exe = asset[p].tag
                      /\ \A x \in Shipped[asset[p].tag] \ others[p] : home[x] = asset[p].tag
    BY DEF UpgradeIsEffective
  <2>1. Role(p) /\ Applied(p) BY <1>1 DEF ApplyInv
  <2>2. Upgrading(p) BY <2>1 DEF Role, Upgraders, Upgrading
  <2>3. exe = asset[p].tag /\ version[p] = asset[p].tag
    BY <1>1, <2>2 DEF AloneInv, Alone, Before, Moving
  <2>4. Unwritten(p) \subseteq others[p] BY <2>1 DEF Applied
  <2> QED BY <2>3, <2>4 DEF Unwritten
<1> QED BY <1>1, ApplyInvariant, AloneInvariant, PTL

LEMMA StepsDoNotDowngrade ==
  ASSUME ~MayRace, Typed, ApplyInv, AloneInv, [Next]_vars, exe' # exe, exe' # Absent
  PROVE  /\ exe # Absent => exe' >= exe
         /\ \A q \in Procs : pc[q] = "aside" /\ pc'[q] # "aside" => exe' >= backup[q]
<1>1. PICK p \in Procs : UpgradeStep(p)
  <2>1. \A q \in Procs : HomeStep(q) => UNCHANGED exe BY HomeStepParts
  <2>2. EnvironmentStep => UNCHANGED exe BY DEF EnvironmentStep, Edit, LockAges
  <2>3. UNCHANGED vars => UNCHANGED exe BY DEF vars, homeVars
  <2> QED BY <2>1, <2>2, <2>3 DEF Next
<1>2. /\ Role(p) /\ version[p] \in Nat /\ asset[p].tag \in Nat
      /\ exe \in Versions \cup {Absent} /\ pc = [r \in Procs |-> pc[r]]
  BY DEF ApplyInv, Typed, TypeOK, HomeTypeOK, Versions
<1>3. \/ Place(p) \/ Restore(p)
      \/ pc[p] = "staged" /\ exe' = asset[p].prints
  BY <1>1 DEF UpgradeStep, StartUpgrade, Replace, ReplaceFails, MoveAside, MoveAsideFails,
       Place, PlaceFails, RemovePartial, RunRepair, ChildCrashes, ScheduleRemove,
       Report, ScriptDeletes, homeVars
<1>4. Upgrading(p) BY <1>2, <1>3 DEF Role, Upgraders, Moving, Upgrading, Place, Restore
<1>5. Alone(p) BY <1>4 DEF AloneInv
<1>6. ASSUME NEW q \in Procs, pc[q] = "aside", pc'[q] # "aside" PROVE q = p
  BY <1>1, <1>6, OthersKeepTheirPart
<1>7. CASE Place(p) BY <1>2, <1>5, <1>6, <1>7 DEF Place, Alone, Before, Moving
<1>8. CASE Restore(p) BY <1>2, <1>5, <1>6, <1>8 DEF Restore, Alone, Before, Moving
<1>9. CASE pc[p] = "staged" /\ exe' = asset[p].prints
  BY <1>2, <1>5, <1>6, <1>9 DEF Alone, Before
<1> QED BY <1>3, <1>7, <1>8, <1>9

\* Upgrades one after the other never install an older binary than the one they
\* replace: that two at the same time can (run downgrade_race) is the only way.
THEOREM NoDowngradeAlone == ~MayRace /\ Spec => NoDowngrade
<1> SUFFICES ASSUME ~MayRace PROVE Spec => NoDowngrade
  OBVIOUS
<1>1. Typed /\ ApplyInv /\ AloneInv /\ [Next]_vars =>
        [exe' # exe /\ exe' # Absent =>
           /\ exe # Absent => exe' >= exe
           /\ \A p \in Procs : pc[p] = "aside" /\ pc'[p] # "aside" => exe' >= backup[p]]_vars
  BY StepsDoNotDowngrade
<1> QED BY <1>1, TypedInvariant, ApplyInvariant, AloneInvariant, PTL DEF NoDowngrade, Spec

-----------------------------------------------------------------------------
(* What is settled stays.  As long as the lock has not lapsed, only its    *)
(* holder works on the files: what it has looked at still stands, or a     *)
(* user has unsettled everything.                                          *)

Calm == settled = Unsettled

Prepared(p) ==
  /\ pc[p] \in {"map", "fillMap", "rewrite", "fill"} => Calm
  /\ lapses = 0 =>
       /\ pc[p] = "write" => home[Next1(p)] = Absent \/ Calm
       /\ pc[p] = "merge" => (\A x \in Aliases : seen[p][x] = home[x]) \/ Calm
       /\ pc[p] \in {"add", "write"} =>
            \A f \in FilesOf(version[p]) \ todo[p] : home[f] # Absent \/ f \in others[p]
       /\ pc[p] = "merge" => \A f \in FilesOf(version[p]) : home[f] # Absent \/ f \in others[p]
       /\ pc[p] \in {"rewrite", "fill"} => mapFile = "ok"
       /\ pc[p] = "release" /\ ~failed[p] =>
            mapFile = "ok" /\ \A x \in Shipped[version[p]] : home[x] # Absent \/ x \in others[p]

SettleInv ==
  /\ SettledStays
  /\ settled.exact # 0 => settled.exact \in settled.added
  /\ lapses > 0 => Calm
  /\ \A p \in Procs : Prepared(p)

LEMMA CalmIsSettled ==
  ASSUME Calm
  PROVE  SettledStays /\ (settled.exact # 0 => settled.exact \in settled.added)
  BY DEF Calm, Unsettled, SettledStays

LEMMA SettleInitially == Init => SettleInv
<1> SUFFICES ASSUME Init PROVE SettleInv OBVIOUS
<1>1. Calm /\ lapses = 0 /\ \A p \in Procs : pc[p] = "idle" BY DEF Init, HomeInit, Calm
<1> QED BY <1>1, CalmIsSettled DEF SettleInv, Prepared

\* Only who believes to hold the lock changes the files.
LEMMA OnlyHoldersWrite ==
  ASSUME Typed, NEW p \in Procs, HomeStep(p) \/ UpgradeStep(p), ~Holding(p)
  PROVE  /\ UNCHANGED <<home, mapFile, settled, lapses>>
         /\ \A q \in Procs \ {p} : others'[q] = others[q]
         /\ \/ pc'[p] = "add" /\ todo'[p] = FilesOf(version'[p])
            \/ pc'[p] \notin Adding \cup Rewriting \cup {"release"} \/ pc'[p] = "clear"
<1>1. /\ pc = [q \in Procs |-> pc[q]] /\ others \in [Procs -> SUBSET Items]
      /\ version \in [Procs -> Versions] /\ todo \in [Procs -> SUBSET Files] /\ HomeTypeOK
  BY DEF Typed, TypeOK, HomeTypeOK
<1>2. CASE HomeStep(p)
  <2>1. \/ (\E k \in Kinds : Start(p, k)) \/ Crash(p) \/ Acquire(p) \/ StatLock(p)
        \/ TakeOver(p) \/ AcquireAgain(p)
    BY <1>2
    DEF HomeStep, LockStep, AddStep, RewriteStep, Holding, Adding, Rewriting,
         Release, CheckFile, WriteFile, ReadMappings, WriteMappings, ClearFile, Cleared,
         CreateMappings, FillMappings, CreateFile, FillFile, Rewritten, WriteFails
  <2>2. /\ UNCHANGED <<home, mapFile, settled, lapses>>
        /\ UNCHANGED others \/ others' = [others EXCEPT ![p] = {}]
    BY <2>1
    DEF Start, Crash, Acquire, StatLock, TakeOver, AcquireAgain, CreateLock, GiveUp, End,
        fileVars, lockVars, Locals
  <2>3. \/ pc'[p] = "add" /\ todo'[p] = FilesOf(version'[p])
        \/ pc'[p] \in {"idle", "acquire", "stat", "takeover", "again", "repaired", "clear"}
    BY <1>1, <2>1
    DEF Start, Crash, Acquire, StatLock, TakeOver, AcquireAgain, CreateLock, GiveUp, End,
        Goto, FirstStep, Locals, FilesOf
  <2> QED BY <1>1, <2>2, <2>3 DEF Adding, Rewriting
<1>3. CASE UpgradeStep(p)
  <2>1. /\ UNCHANGED <<home, mapFile, settled, lapses>>
        /\ UNCHANGED others \/ others' = [others EXCEPT ![p] = {}]
    BY <1>1, <1>3, UpgradeStepParts DEF UpgradePart
  <2>2. pc'[p] \notin Adding \cup Rewriting \cup {"release"}
    BY <1>1, <1>3
    DEF UpgradeStep, StartUpgrade, Replace, ReplaceFails, MoveAside, MoveAsideFails,
       Place, PlaceFails, RemovePartial, Restore, RunRepair, ChildCrashes, ScheduleRemove,
       Report, ScriptDeletes, Exit, End, Goto, homeVars, procVars, Holding, Adding, Rewriting
  <2> QED BY <1>1, <2>1, <2>2
<1> QED BY <1>2, <1>3

\* Files that are added, and mappings that are merged, take nothing away.
OnlyAdds == \A x \in Items : home[x] # Absent => home'[x] = home[x]

LEMMA AddingSettles ==
  ASSUME Typed, SettleInv, UNCHANGED settled, OnlyAdds \/ Calm,
         mapFile' = mapFile \/ mapFile' = "ok"
  PROVE  SettledStays' /\ (settled.exact # 0 => settled.exact \in settled.added)'
<1>1. CASE Calm BY <1>1 DEF Calm, Unsettled, SettledStays
<1>2. CASE OnlyAdds
  <2>1. /\ settled.added \subseteq Versions /\ (settled.exact # 0 => settled.exact \in Versions)
        /\ \A v \in Versions : Shipped[v] \subseteq Items /\ v # Absent
    BY HomeAssumption, VersionIsNoMarker
    DEF Typed, TypeOK, HomeTypeOK, HomeAssumption
  <2>2. /\ \A v \in settled.added : mapFile = "ok" /\ \A x \in Shipped[v] : home[x] # Absent
        /\ settled.exact # 0 => \A x \in Shipped[settled.exact] : home[x] = settled.exact
        /\ settled.exact # 0 => settled.exact \in settled.added
    BY DEF SettleInv, SettledStays
  <2>3. \A v \in settled.added : mapFile' = "ok" /\ \A x \in Shipped[v] : home'[x] # Absent
    BY <1>2, <2>1, <2>2 DEF OnlyAdds
  <2>4. settled.exact # 0 => \A x \in Shipped[settled.exact] : home'[x] = settled.exact
    BY <1>2, <2>1, <2>2 DEF OnlyAdds
  <2> QED BY <2>2, <2>3, <2>4 DEF SettledStays
<1> QED BY <1>1, <1>2

LEMMA AliasesOnlyAdd ==
  ASSUME Typed, SettleInv, NEW p \in Procs, pc[p] = "merge", lapses = 0,
         PutAliases(p, Merged(seen[p], version[p]), "ok")
  PROVE  OnlyAdds \/ Calm
  BY DEF SettleInv, Prepared, OnlyAdds, PutAliases, Merged, Typed, TypeOK, HomeTypeOK

LEMMA FilesOnlyAdd ==
  ASSUME Typed, SettleInv, NEW p \in Procs, pc[p] = "write", lapses = 0,
         Put(p, Next1(p), version[p])
  PROVE  OnlyAdds \/ Calm
  BY DEF SettleInv, Prepared, OnlyAdds, Put, Typed, TypeOK, HomeTypeOK

LEMMA HolderAdds ==
  ASSUME Typed, SettleInv, NEW p \in Procs, AddStep(p), lapses = 0
  PROVE  /\ UNCHANGED <<settled, lapses>> /\ Prepared(p)'
         /\ SettledStays' /\ (settled.exact # 0 => settled.exact \in settled.added)'
<1>1. /\ pc = [q \in Procs |-> pc[q]] /\ todo \in [Procs -> SUBSET Files]
      /\ home \in [Items -> Content] /\ version \in [Procs -> Versions]
      /\ others \in [Procs -> SUBSET Items] /\ failed = [q \in Procs |-> failed[q]]
      /\ seen = [q \in Procs |-> seen[q]]
  BY DEF Typed, TypeOK, HomeTypeOK
<1>2. Prepared(p) BY DEF SettleInv
<1>3. UNCHANGED <<settled, lapses, version>>
  BY DEF AddStep, CheckFile, WriteFile, ReadMappings, WriteMappings, fileVars, lockVars, Locals
<1>4. Shipped[version[p]] \subseteq Items /\ version[p] # Absent
  BY <1>1, HomeAssumption, VersionIsNoMarker DEF HomeAssumption
<1>5. FilesOf(version[p])' = FilesOf(version[p]) /\ Shipped[version[p]]' = Shipped[version[p]]
  BY <1>3 DEF FilesOf
<1>6. CASE CheckFile(p) \/ ReadMappings(p)
  <2>1. UNCHANGED <<home, mapFile, others>> BY <1>6 DEF CheckFile, ReadMappings, fileVars
  <2>2. SettledStays' /\ (settled.exact # 0 => settled.exact \in settled.added)'
    BY <1>3, <2>1, AddingSettles DEF OnlyAdds
  <2>3. CASE CheckFile(p) /\ home[Next1(p)] = Absent
    <3>1. pc[p] = "add" /\ pc'[p] = "write" /\ UNCHANGED todo BY <1>1, <2>3 DEF CheckFile, Goto
    <3>2. Next1(p)' = Next1(p) BY <3>1 DEF Next1
    <3> QED BY <1>2, <1>3, <1>5, <2>1, <2>2, <2>3, <3>1, <3>2 DEF Prepared
  <2>4. CASE CheckFile(p) /\ home[Next1(p)] # Absent
    <3>1. pc[p] = "add" /\ pc'[p] = "add" /\ todo'[p] = todo[p] \ {Next1(p)}
      BY <1>1, <2>4 DEF CheckFile
    <3> QED BY <1>2, <1>3, <1>5, <2>1, <2>2, <2>4, <3>1 DEF Prepared
  <2>5. CASE ReadMappings(p)
    <3>1. /\ pc[p] = "add" /\ todo[p] = {}
          /\ \/ pc'[p] = "release" /\ failed'[p]
             \/ pc'[p] = "merge" /\ seen'[p] = [x \in Aliases |-> home[x]]
      BY <1>1, <2>5 DEF ReadMappings, Goto
    <3> QED BY <1>2, <1>3, <1>5, <2>1, <2>2, <3>1 DEF Prepared
  <2> QED BY <1>6, <2>3, <2>4, <2>5
<1>7. CASE WriteFile(p)
  <2>1. /\ pc[p] = "write" /\ pc'[p] = "add" /\ todo'[p] = todo[p] \ {Next1(p)}
        /\ Put(p, Next1(p), version[p]) /\ others'[p] = others[p] \ {Next1(p)}
    BY <1>1, <1>7 DEF WriteFile, Goto, Put, Touch
  <2>2. /\ SettledStays' /\ (settled.exact # 0 => settled.exact \in settled.added)'
    BY <1>3, <2>1, AddingSettles, FilesOnlyAdd DEF Put
  <2>3. \A f \in FilesOf(version[p]) \ todo'[p] : home'[f] # Absent \/ f \in others'[p]
    <3>1. home' = [home EXCEPT ![Next1(p)] = version[p]] BY <2>1 DEF Put
    <3>2. FilesOf(version[p]) \subseteq Items BY <1>4 DEF FilesOf
    <3> QED BY <1>1, <1>2, <1>4, <2>1, <3>1, <3>2 DEF Prepared
  <2> QED BY <1>3, <1>5, <2>1, <2>2, <2>3 DEF Prepared
<1>8. CASE WriteMappings(p)
  <2>1. /\ pc[p] = "merge" /\ pc'[p] = "release"
        /\ PutAliases(p, Merged(seen[p], version[p]), "ok")
    BY <1>1, <1>8 DEF WriteMappings, Goto
  <2>2. /\ SettledStays' /\ (settled.exact # 0 => settled.exact \in settled.added)'
    BY <1>3, <2>1, AddingSettles, AliasesOnlyAdd DEF PutAliases
  <2>3. ASSUME NEW x \in Shipped[version[p]] PROVE home'[x] # Absent \/ x \in others'[p]
    <3>1. CASE x \in Aliases
      <4>1. home'[x] = Merged(seen[p], version[p])[x] BY <1>4, <2>1, <3>1 DEF PutAliases
      <4> QED BY <1>4, <3>1, <4>1 DEF Merged
    <3>2. CASE x \in Files
      <4>1. x \in FilesOf(version[p]) /\ x \notin Aliases /\ x \in Items
        BY <3>2, HomeAssumption DEF HomeAssumption, FilesOf, Items
      <4>2. home'[x] = home[x] /\ (x \in others[p] => x \in others'[p])
        BY <2>1, <4>1 DEF PutAliases, Touch
      <4> QED BY <1>2, <2>1, <4>1, <4>2 DEF Prepared
    <3> QED BY <1>4, <3>1, <3>2 DEF Items
  <2>4. mapFile' = "ok" BY <2>1 DEF PutAliases
  <2> QED BY <1>3, <1>5, <2>1, <2>2, <2>3, <2>4 DEF Prepared
<1> QED BY <1>3, <1>6, <1>7, <1>8 DEF AddStep

LEMMA HolderRewrites ==
  ASSUME Typed, ApplyInv, SettleInv, NEW p \in Procs, RewriteStep(p), lapses = 0
  PROVE  /\ UNCHANGED lapses /\ Prepared(p)'
         /\ SettledStays' /\ (settled.exact # 0 => settled.exact \in settled.added)'
<1>1. /\ pc = [q \in Procs |-> pc[q]] /\ version \in [Procs -> Versions]
      /\ settled \in [exact : Versions \cup {0}, added : SUBSET Versions]
  BY DEF Typed, TypeOK, HomeTypeOK
<1>2. Prepared(p) /\ Applied(p) BY DEF SettleInv, ApplyInv
<1>3. UNCHANGED lapses
  BY DEF RewriteStep, ClearFile, Cleared, CreateMappings, FillMappings, CreateFile, FillFile,
         Rewritten, lockVars
<1>4. CASE ClearFile(p)
  <2>1. Calm' /\ pc[p] = "clear" /\ pc'[p] = "clear" BY <1>4 DEF ClearFile, Calm, procVars
  <2>2. SettledStays' /\ (settled.exact # 0 => settled.exact \in settled.added)'
    BY <2>1 DEF Calm, Unsettled, SettledStays
  <2> QED BY <1>3, <2>1, <2>2 DEF Prepared
<1>5. CASE Cleared(p)
  <2>1. mapFile = "none" /\ UNCHANGED settled /\ pc'[p] = "map" BY <1>1, <1>5 DEF Cleared, Goto
  <2>2. settled.added = {} BY <1>1, <2>1 DEF SettleInv, SettledStays
  <2>3. settled.exact = 0 BY <2>2 DEF SettleInv
  <2>4. Calm BY <1>1, <2>2, <2>3 DEF Calm, Unsettled
  <2>5. Calm' BY <2>1, <2>4 DEF Calm
  <2>6. SettledStays' /\ (settled.exact # 0 => settled.exact \in settled.added)'
    BY <2>5 DEF Calm, Unsettled, SettledStays
  <2> QED BY <1>3, <2>1, <2>5, <2>6 DEF Prepared
<1>6. CASE CreateMappings(p) \/ FillMappings(p) \/ CreateFile(p) \/ FillFile(p) \/ Rewritten(p)
  <2>1. Calm /\ UNCHANGED settled
    BY <1>2, <1>6
    DEF CreateMappings, FillMappings, CreateFile, FillFile, Rewritten, Prepared, fileVars
  <2>2. Calm' BY <2>1 DEF Calm
  <2>3. SettledStays' /\ (settled.exact # 0 => settled.exact \in settled.added)'
    BY <2>2 DEF Calm, Unsettled, SettledStays
  <2>4. CASE CreateMappings(p)
    <3>1. pc'[p] = "fillMap" BY <1>1, <2>4 DEF CreateMappings, Goto
    <3> QED BY <1>3, <2>2, <2>3, <3>1 DEF Prepared
  <2>5. CASE FillMappings(p) \/ CreateFile(p) \/ FillFile(p)
    <3>1. pc'[p] \in {"rewrite", "fill"} /\ mapFile' = "ok"
      BY <1>1, <1>2, <2>5 DEF FillMappings, CreateFile, FillFile, Goto, PutAliases, Put, Prepared
    <3> QED BY <1>3, <2>2, <2>3, <3>1 DEF Prepared
  <2>6. CASE Rewritten(p)
    <3>1. /\ pc[p] = "rewrite" /\ pc'[p] = "release" /\ todo[p] = {}
          /\ UNCHANGED <<home, mapFile, others, version>>
      BY <1>1, <2>6 DEF Rewritten, Goto, Locals, fileVars
    <3>2. Unwritten(p) \subseteq others[p] /\ mapFile = "ok" BY <1>2, <3>1 DEF Applied, Prepared
    <3>3. \A x \in Shipped[version[p]] : home[x] # Absent \/ x \in others[p]
      BY <1>1, <3>2, VersionIsNoMarker DEF Unwritten
    <3> QED BY <1>3, <2>2, <2>3, <3>1, <3>2, <3>3 DEF Prepared
  <2> QED BY <1>6, <2>4, <2>5, <2>6
<1> QED BY <1>4, <1>5, <1>6 DEF RewriteStep

LEMMA HolderReleases ==
  ASSUME Typed, ApplyInv, SettleInv, NEW p \in Procs, Release(p), lapses = 0
  PROVE  /\ UNCHANGED lapses /\ Prepared(p)'
         /\ SettledStays' /\ (settled.exact # 0 => settled.exact \in settled.added)'
<1>1. /\ pc = [q \in Procs |-> pc[q]] /\ version \in [Procs -> Versions]
      /\ settled \in [exact : Versions \cup {0}, added : SUBSET Versions]
  BY DEF Typed, TypeOK, HomeTypeOK
<1>2. Prepared(p) /\ Applied(p) BY DEF SettleInv, ApplyInv
<1>3. /\ UNCHANGED <<lapses, home, mapFile>> /\ pc[p] = "release"
      /\ pc'[p] \in {"repaired", "idle"}
  BY <1>1 DEF Release, End, Goto
<1>4. Prepared(p)' BY <1>3 DEF Prepared
<1>5. CASE UNCHANGED settled
  BY <1>3, <1>4, <1>5 DEF SettleInv, SettledStays
<1>6. CASE ~UNCHANGED settled
  <2>1. /\ ~failed[p] /\ others[p] = {}
        /\ settled' = [exact |-> IF Rewrites(kind[p]) THEN version[p] ELSE settled.exact,
                       added |-> settled.added \cup {version[p]}]
    BY <1>6 DEF Release
  <2>2. /\ settled'.exact = IF Rewrites(kind[p]) THEN version[p] ELSE settled.exact
        /\ settled'.added = settled.added \cup {version[p]}
    BY <2>1
  <2>3. mapFile = "ok" /\ \A x \in Shipped[version[p]] : home[x] # Absent
    BY <1>2, <1>3, <2>1 DEF Prepared
  <2>4. Rewrites(kind[p]) => \A x \in Shipped[version[p]] : home[x] = version[p]
    BY <1>2, <1>3, <2>1 DEF Applied, Unwritten
  <2>5. SettledStays /\ (settled.exact # 0 => settled.exact \in settled.added) BY DEF SettleInv
  <2>6. SettledStays' BY <1>3, <2>2, <2>3, <2>4, <2>5 DEF SettledStays
  <2>7. (settled.exact # 0 => settled.exact \in settled.added)' BY <2>2, <2>5
  <2> QED BY <1>3, <1>4, <2>6, <2>7
<1> QED BY <1>5, <1>6

LEMMA HolderEnds ==
  ASSUME Typed, SettleInv, NEW p \in Procs, Holding(p), lapses = 0,
         WriteFails(p) \/ Crash(p) \/ UpgradeStep(p)
  PROVE  /\ UNCHANGED lapses /\ Prepared(p)'
         /\ SettledStays' /\ (settled.exact # 0 => settled.exact \in settled.added)'
<1>1. pc = [q \in Procs |-> pc[q]] /\ failed = [q \in Procs |-> failed[q]] /\ HomeTypeOK
  BY DEF Typed, TypeOK, HomeTypeOK
<1>2. CASE WriteFails(p)
  <2>1. /\ UNCHANGED <<lapses, settled>> /\ pc'[p] = "release" /\ failed'[p]
    BY <1>1, <1>2 DEF WriteFails, Goto, lockVars
  <2>2. Prepared(p)' BY <2>1 DEF Prepared
  <2>3. (OnlyAdds \/ Calm) /\ (mapFile' = mapFile \/ mapFile' = "ok")
    BY <1>2, FilesOnlyAdd, AliasesOnlyAdd DEF WriteFails, OnlyAdds, Put, PutAliases
  <2> QED BY <2>1, <2>2, <2>3, AddingSettles
<1>3. CASE Crash(p) \/ UpgradeStep(p)
  <2>1. UNCHANGED <<home, mapFile, settled, lapses>>
    <3>1. CASE Crash(p) BY <3>1 DEF Crash, lockVars
    <3>2. CASE UpgradeStep(p) BY <1>1, <3>2, UpgradeStepParts DEF UpgradePart
    <3> QED BY <1>3, <3>1, <3>2
  <2>2. pc'[p] \notin Adding \cup Rewriting \cup {"release"} \/ UNCHANGED <<pc, version, todo, seen, failed, others>>
    BY <1>1, <1>3
    DEF UpgradeStep, StartUpgrade, Replace, ReplaceFails, MoveAside, MoveAsideFails,
       Place, PlaceFails, RemovePartial, Restore, RunRepair, ChildCrashes, ScheduleRemove,
       Report, ScriptDeletes, Exit, End, Goto, homeVars, procVars, fileVars, Adding, Rewriting, Crash
  <2>3. Prepared(p)'
    <3>1. CASE UNCHANGED <<pc, version, todo, seen, failed, others>>
      BY <2>1, <3>1 DEF SettleInv, Prepared, Calm, FilesOf, Next1
    <3> QED BY <2>2, <3>1 DEF Prepared, Adding, Rewriting
  <2> QED BY <2>1, <2>3, AddingSettles DEF OnlyAdds
<1> QED BY <1>2, <1>3

LEMMA StepsSettle ==
  ASSUME Typed, LockInv, ApplyInv, SettleInv, NEW p \in Procs, HomeStep(p) \/ UpgradeStep(p)
  PROVE  SettleInv'
<1>1. lapses \in Nat /\ UNCHANGED lapses
  <2>1. HomeTypeOK BY DEF Typed, TypeOK
  <2> QED BY <2>1, HomeStepParts, UpgradeStepParts DEF UpgradePart, HomeTypeOK
<1>2. CASE lapses > 0
  <2>1. Calm BY <1>2 DEF SettleInv
  <2>2. UNCHANGED settled \/ settled' = Unsettled
    BY <1>1, <1>2
    DEF HomeStep, LockStep, AddStep, RewriteStep,
         Acquire, StatLock, TakeOver, AcquireAgain, Release,
         CheckFile, WriteFile, ReadMappings, WriteMappings, ClearFile, Cleared,
         CreateMappings, FillMappings, CreateFile, FillFile, Rewritten, WriteFails,
         Crash, Start, fileVars, UpgradeStep, StartUpgrade, Replace, ReplaceFails, MoveAside,
         MoveAsideFails, Place, PlaceFails, RemovePartial, Restore, RunRepair, ChildCrashes,
         ScheduleRemove, Report, ScriptDeletes, homeVars, Rest
  <2>3. Calm' BY <2>1, <2>2 DEF Calm
  <2>4. SettledStays' /\ (settled.exact # 0 => settled.exact \in settled.added)'
    BY <2>3 DEF Calm, Unsettled, SettledStays
  <2> QED BY <1>1, <1>2, <2>3, <2>4 DEF SettleInv, Prepared
<1>3. CASE lapses = 0 /\ Holding(p)
  <2>1. /\ Prepared(p)'
        /\ SettledStays' /\ (settled.exact # 0 => settled.exact \in settled.added)'
    <3>1. \/ AddStep(p) \/ RewriteStep(p) \/ Release(p)
          \/ WriteFails(p) \/ Crash(p) \/ UpgradeStep(p)
      BY <1>3 DEF HomeStep, LockStep, Acquire, StatLock, TakeOver, AcquireAgain, Start,
                  Holding, Adding, Rewriting
    <3> QED BY <1>3, <3>1, HolderAdds, HolderRewrites, HolderReleases, HolderEnds
  <2>2. \A q \in Procs \ {p} : ~Holding(q) /\ pc'[q] = pc[q]
    BY <1>3, OthersKeepTheirPart DEF LockInv, Guarded
  <2>3. \A q \in Procs \ {p} : Prepared(q)'
    BY <2>2 DEF Prepared, Holding, Adding, Rewriting
  <2> QED BY <1>1, <1>3, <2>1, <2>3 DEF SettleInv
<1>4. CASE lapses = 0 /\ ~Holding(p)
  <2>1. /\ UNCHANGED <<home, mapFile, settled>>
        /\ \A q \in Procs \ {p} : others'[q] = others[q]
        /\ \/ pc'[p] = "add" /\ todo'[p] = FilesOf(version'[p])
           \/ pc'[p] \notin Adding \cup Rewriting \cup {"release"} \/ pc'[p] = "clear"
    BY <1>4, OnlyHoldersWrite
  <2>2. SettledStays' /\ (settled.exact # 0 => settled.exact \in settled.added)'
    BY <2>1, AddingSettles DEF OnlyAdds
  <2>3. Prepared(p)' BY <2>1 DEF Prepared, Adding, Rewriting, FilesOf
  <2>4. ASSUME NEW q \in Procs \ {p} PROVE Prepared(q)'
    <3>1. /\ pc'[q] = pc[q] /\ version'[q] = version[q] /\ todo'[q] = todo[q]
          /\ seen'[q] = seen[q] /\ failed'[q] = failed[q]
      BY OthersKeepTheirPart
    <3>2. Next1(q)' = Next1(q) BY <3>1 DEF Next1
    <3>3. Prepared(q) BY DEF SettleInv
    <3> QED BY <1>1, <2>1, <3>1, <3>2, <3>3 DEF Prepared, Calm, FilesOf
  <2> QED BY <1>1, <1>4, <2>2, <2>3, <2>4 DEF SettleInv
<1> QED BY <1>1, <1>2, <1>3, <1>4

LEMMA EnvironmentSettles ==
  ASSUME Typed, CareInv, SettleInv, EnvironmentStep
  PROVE  SettleInv'
<1>1. Calm' BY DEF EnvironmentStep, Edit, LockAges, Calm
<1>2. SettledStays' /\ (settled.exact # 0 => settled.exact \in settled.added)'
  BY <1>1 DEF Calm, Unsettled, SettledStays
<1>3. CASE LockAges
  <2>1. lapses' # 0 BY <1>3 DEF LockAges, Typed, TypeOK, HomeTypeOK
  <2> QED BY <1>1, <1>2, <2>1 DEF SettleInv, Prepared
<1>4. ASSUME NEW x \in Items, NEW content, Edit(x, content) PROVE SettleInv'
  <2>1. UNCHANGED <<pc, version, todo, failed, lapses>> /\ (mapFile' = mapFile \/ mapFile' = "ok")
    BY <1>4 DEF Edit, procVars, lockVars
  <2>2. ASSUME NEW q \in Procs PROVE Prepared(q)'
    <3>1. CASE pc[q] = "idle" BY <2>1, <3>1 DEF Prepared
    <3>2. CASE pc[q] # "idle"
      <4>1. Told(q) BY <1>4, <3>2, EditsTell
      <4>2. \A y \in Shipped[version[q]] : y \in Items
        BY HomeAssumption DEF HomeAssumption, Typed, TypeOK, HomeTypeOK
      <4>3. \A y \in Shipped[version[q]] :
              home[y] # Absent \/ y \in others[q] => home'[y] # Absent \/ y \in others'[q]
        BY <4>1, <4>2 DEF Told
      <4>4. Prepared(q) BY DEF SettleInv
      <4> QED BY <1>1, <2>1, <4>3, <4>4 DEF Prepared, FilesOf
    <3> QED BY <3>1, <3>2
  <2> QED BY <1>1, <1>2, <2>2 DEF SettleInv
<1> QED BY <1>3, <1>4 DEF EnvironmentStep

\* What an operation that has succeeded undisturbed leaves of the home filters stays:
\* nothing that its version ships gets lost, and after a repair every shipped item
\* keeps the content of its version, however many processes of which versions add or
\* repair after it, fail or are killed; until a user edits, a repair deletes or the
\* lock lapses.
THEOREM WhatIsSettledStays == Spec => []SettledStays
<1>1. Typed /\ LockInv /\ CareInv /\ ApplyInv /\ SettleInv /\ [Next]_vars => SettleInv'
  <2> SUFFICES ASSUME Typed, LockInv, CareInv, ApplyInv, SettleInv, [Next]_vars
               PROVE  SettleInv'
    OBVIOUS
  <2>1. CASE UNCHANGED vars
    <3>1. UNCHANGED <<home, mapFile, settled, lapses, pc, version, todo, seen, failed, others>>
      BY <2>1 DEF vars, homeVars, fileVars, procVars, lockVars
    <3>2. \A q \in Procs : Prepared(q)'
      BY <3>1 DEF SettleInv, Prepared, Calm, FilesOf, Next1
    <3> QED BY <3>1, <3>2 DEF SettleInv, SettledStays, Calm
  <2> QED BY <2>1, StepsSettle, EnvironmentSettles DEF Next
<1>2. SettleInv => SettledStays BY DEF SettleInv
<1> QED
  BY <1>1, <1>2, SettleInitially, TypedInvariant, LockInvariant, CareInvariant, ApplyInvariant, PTL
  DEF Spec
=============================================================================
