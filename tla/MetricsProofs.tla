---------------------------- MODULE MetricsProofs ----------------------------
(***************************************************************************)
(* Recording a run, proved for any number of processes, up to 100 runs,    *)
(* any retention and any faults.                                           *)
(***************************************************************************)
EXTENDS MetricsSpool, FiniteSetTheorems, TLAPS

(* The part of the type that the proofs need. *)
Typed ==
  /\ now \in Nat /\ purgedTo \in Nat
  /\ stamps \in Seq(Nat) /\ Len(stamps) <= MaxRuns
  /\ runs \in [RunIds -> Nat] /\ marks \subseteq Drawn
  /\ files \subseteq spooled /\ spooled \subseteq Drawn
  /\ pc \in [Procs -> Places] /\ failed \in [Procs -> BOOLEAN]
  /\ todo \in [Procs -> SUBSET Drawn] /\ due \in [Procs -> SUBSET spooled]
  /\ cutoff \in [Procs -> Nat]

LEMMA LaterIsMax ==
  ASSUME NEW a \in Nat, NEW b \in Nat
  PROVE  Max({a, b}) \in Nat /\ Max({a, b}) >= a /\ Max({a, b}) >= b
<1>1. \E x \in {a, b} : \A y \in {a, b} : x >= y
  OBVIOUS
<1>2. Max({a, b}) \in {a, b} /\ \A y \in {a, b} : Max({a, b}) >= y
  BY <1>1 DEF Max
<1> QED BY <1>2

(* Time goes on, and a run keeps its timestamp. *)
Forward ==
  /\ now' \in Nat /\ now' >= now
  /\ stamps' \in Seq(Nat) /\ Len(stamps') <= MaxRuns
  /\ Drawn \subseteq Drawn'
  /\ \A e \in Drawn : stamps'[e] = stamps[e]

LEMMA StepsForward == Typed /\ [SpoolNext]_vars => Forward
<1> SUFFICES ASSUME Typed, [SpoolNext]_vars PROVE Forward
  OBVIOUS
<1>1. CASE UNCHANGED <<now, stamps>>
  BY <1>1 DEF Typed, Forward, Drawn
<1>2. CASE Tick
  BY <1>2 DEF Tick, Typed, Forward, Drawn
<1>3. ASSUME NEW p \in Procs, AppendProject(p) PROVE Forward
  <2>1. /\ stamps' \in Seq(Nat) /\ Len(stamps') = Len(stamps) + 1
        /\ \A e \in 1..Len(stamps) : stamps'[e] = stamps[e]
    BY <1>3 DEF AppendProject, Typed
  <2>2. Drawn = 1..Len(stamps) /\ Drawn' = 1..Len(stamps') /\ Len(stamps) \in Nat
    BY <2>1 DEF Typed, Drawn
  <2> QED BY <1>3, <2>1, <2>2, SpoolAssumption DEF AppendProject, Typed, Forward
<1> QED BY <1>1, <1>2, <1>3
  DEF SpoolNext, vars, SpoolProjectMetric, ListSpool, OpenDatabase, OpenFails, MoveRun, MoveMissing,
      MoveFails, RemoveFile, CloseDatabase, PurgeProjectBefore, PurgeBefore, InspectStorage,
      Inspect,
      Crash

LEMMA RunsAreIds == Typed => Drawn \subseteq RunIds
BY SpoolAssumption DEF Typed, Drawn, RunIds

LEMMA CommitType ==
  ASSUME Typed, NEW e \in Drawn, CommitSpoolEvent(e)
  PROVE  runs' \in [RunIds -> Nat] /\ marks' \subseteq Drawn
<1>1. CASE e \in marks
  BY <1>1 DEF CommitSpoolEvent, Typed, db
<1>2. CASE e \notin marks
  <2>1. [runs EXCEPT ![e] = @ + 1] \in [RunIds -> Nat]
    BY RunsAreIds DEF Typed
  <2> DEFINE added == [runs EXCEPT ![e] = @ + 1]
             old   == {d \in Drawn : Expired(d)}
  <2>2. /\ runs' = [d \in RunIds |-> IF d \in old THEN 0 ELSE added[d]]
        /\ marks' = (marks \union {e}) \ old
    BY <1>2 DEF CommitSpoolEvent
  <2>3. added \in [RunIds -> Nat]
    BY <2>1
  <2> HIDE DEF added, old
  <2> QED BY <2>2, <2>3 DEF Typed
<1> QED BY <1>1, <1>2

LEMMA StartsType ==
  ASSUME Typed, NEW p \in Procs, NEW place \in Places, NEW moves \in SUBSET Drawn',
         NEW before \in Nat, NEW durable \in SUBSET spooled,
         Drawn \subseteq Drawn', Starts(p, place, moves, before, durable)
  PROVE  /\ pc' \in [Procs -> Places] /\ todo' \in [Procs -> SUBSET Drawn']
         /\ cutoff' \in [Procs -> Nat] /\ due' \in [Procs -> SUBSET spooled]
<1>1. todo \in [Procs -> SUBSET Drawn']
  BY DEF Typed
<1> QED BY <1>1 DEF Typed, Starts, Goto

LEMMA EndsType ==
  ASSUME Typed, NEW p \in Procs, Ends(p)
  PROVE  /\ pc' \in [Procs -> Places] /\ todo' \in [Procs -> SUBSET Drawn]
         /\ cutoff' \in [Procs -> Nat] /\ due' \in [Procs -> SUBSET spooled]
         /\ failed' \in [Procs -> BOOLEAN]
<1>1. "idle" \in Places
  BY DEF Places
<1> QED BY <1>1 DEF Typed, Ends, Goto

LEMMA GotoType ==
  ASSUME Typed, NEW p \in Procs, NEW place \in Places, Goto(p, place)
  PROVE  pc' \in [Procs -> Places]
BY DEF Typed, Goto

LEMMA ConsolidatedType ==
  ASSUME Typed, NEW p \in Procs, Consolidated(p)
  PROVE  /\ pc' \in [Procs -> Places] /\ todo' \in [Procs -> SUBSET Drawn]
         /\ cutoff' \in [Procs -> Nat] /\ due' \in [Procs -> SUBSET spooled]
         /\ failed' \in [Procs -> BOOLEAN]
<1>1. CASE cutoff[p] > 0 /\ ~failed[p]
  <2>1. "purge" \in Places
    BY DEF Places
  <2> QED BY <1>1, <2>1, GotoType DEF Consolidated, Typed, job
<1> QED BY <1>1, EndsType DEF Consolidated

(* A run leaves the list of its process whatever its number. *)
LEMMA PassedType ==
  ASSUME Typed, NEW p \in Procs, Passed(p)
  PROVE  todo' \in [Procs -> SUBSET Drawn]
<1> DEFINE first == NextFile(p)
<1>1. todo' = [todo EXCEPT ![p] = @ \ {first}]
  BY DEF Passed
<1> HIDE DEF first
<1> QED BY <1>1 DEF Typed

LEMMA TypedStep == Typed /\ [SpoolNext]_vars => Typed'
<1> SUFFICES ASSUME Typed, [SpoolNext]_vars PROVE Typed'
  OBVIOUS
<1>0. Forward
  BY StepsForward
<1>a. {"spool", "list", "open", "move", "remove", "purge", "inspect", "reported"}
        \subseteq Places
  BY DEF Places
<1>1. CASE UNCHANGED vars
  BY <1>1 DEF vars, db, job, history, Typed, Drawn
<1>2. CASE Tick
  BY <1>0, <1>2 DEF Tick, db, job, history, Typed, Drawn, Forward
<1>3. ASSUME NEW p \in Procs, AppendProject(p) PROVE Typed'
  <2>1. stamps' = Append(stamps, now) /\ Drawn' = 1..Len(stamps') /\ Len(stamps') = Len(stamps) + 1
    BY <1>0, <1>3 DEF AppendProject, Typed, Drawn, Forward
  <2>2. {Len(stamps) + 1} \in SUBSET Drawn'
    BY <2>1 DEF Typed
  <2>3. /\ pc' \in [Procs -> Places] /\ todo' \in [Procs -> SUBSET Drawn']
        /\ cutoff' \in [Procs -> Nat] /\ due' \in [Procs -> SUBSET spooled]
    <3>1. "spool" \in Places /\ 0 \in Nat /\ {} \in SUBSET spooled /\ Drawn \subseteq Drawn'
      BY <1>0, <1>a DEF Forward
    <3>2. Starts(p, "spool", {Len(stamps) + 1}, 0, {})
      BY <1>3 DEF AppendProject
    <3> QED BY <2>2, <3>1, <3>2, StartsType
  <2> QED BY <1>0, <1>3, <2>3 DEF AppendProject, db, history, Typed, Forward
<1>4. ASSUME NEW p \in Procs, SpoolProjectMetric(p) PROVE Typed'
  <2> USE DEF SpoolProjectMetric
  <2>0. todo[p] \subseteq Drawn
    BY DEF Typed
  <2>1. files' \subseteq spooled' /\ spooled' \subseteq Drawn /\ spooled \subseteq spooled'
    BY <1>4, <2>0 DEF Typed
  <2>2. /\ pc' \in [Procs -> Places] /\ todo' \in [Procs -> SUBSET Drawn]
        /\ cutoff' \in [Procs -> Nat] /\ due' \in [Procs -> SUBSET spooled]
        /\ failed' \in [Procs -> BOOLEAN]
    <3>1. CASE Goto(p, "list") /\ UNCHANGED job
      BY <3>1, <1>a, GotoType DEF Typed, job
    <3> QED BY <3>1, <1>4, EndsType
  <2>3. due' \in [Procs -> SUBSET spooled']
    BY <2>1, <2>2
  <2> QED BY <1>4, <2>1, <2>2, <2>3 DEF Typed, Drawn, db
<1>5. ASSUME NEW p \in Procs, ListSpool(p) PROVE Typed'
  <2>1. /\ pc' \in [Procs -> Places] /\ todo' \in [Procs -> SUBSET Drawn]
        /\ cutoff' \in [Procs -> Nat] /\ due' \in [Procs -> SUBSET spooled]
        /\ failed' \in [Procs -> BOOLEAN]
    <3>1. CASE spooled = {}
      BY <1>5, <3>1, ConsolidatedType DEF ListSpool
    <3>2. CASE spooled # {}
      BY <1>5, <3>2, <1>a, GotoType DEF ListSpool, Typed
    <3> QED BY <3>1, <3>2
  <2> QED BY <1>5, <2>1 DEF ListSpool, Typed, Drawn, db, history
<1>6. ASSUME NEW p \in Procs, OpenDatabase(p) PROVE Typed'
  BY <1>6, <1>a, GotoType DEF OpenDatabase, Typed, Drawn, db, job, history
<1>7. ASSUME NEW p \in Procs, OpenFails(p) \/ MoveFails(p) \/ Crash(p) PROVE Typed'
  BY <1>7, EndsType DEF OpenFails, MoveFails, Crash, Typed, Drawn, db, history
<1>8. ASSUME NEW p \in Procs, MoveRun(p) PROVE Typed'
  <2>1. NextFile(p) \in Drawn
    BY <1>8 DEF MoveRun, Typed
  <2>2. runs' \in [RunIds -> Nat] /\ marks' \subseteq Drawn
    BY <1>8, <2>1, CommitType DEF MoveRun
  <2> QED BY <1>8, <1>a, <2>2, GotoType DEF MoveRun, Typed, Drawn, job
<1>9. ASSUME NEW p \in Procs, MoveMissing(p) PROVE Typed'
  BY <1>9, PassedType DEF MoveMissing, Typed, Drawn, db, history
<1>10. ASSUME NEW p \in Procs, RemoveFile(p) PROVE Typed'
  <2>1. files' \subseteq files /\ failed' \in [Procs -> BOOLEAN]
    BY <1>10 DEF RemoveFile, Typed
  <2> QED BY <1>10, <1>a, <2>1, PassedType, GotoType DEF RemoveFile, Typed, Drawn, db, history
<1>11. ASSUME NEW p \in Procs, CloseDatabase(p) PROVE Typed'
  BY <1>11, ConsolidatedType DEF CloseDatabase, Typed, Drawn, db, history
<1>12. ASSUME NEW p \in Procs, NEW before \in 1..now, PurgeProjectBefore(p, before) PROVE Typed'
  <2>1. before \in Nat /\ {} \in SUBSET Drawn' /\ spooled \in SUBSET spooled
    BY DEF Typed
  <2>2. /\ pc' \in [Procs -> Places] /\ todo' \in [Procs -> SUBSET Drawn']
        /\ cutoff' \in [Procs -> Nat] /\ due' \in [Procs -> SUBSET spooled]
    BY <1>0, <1>12, <1>a, <2>1, StartsType DEF PurgeProjectBefore, Forward
  <2> QED BY <1>0, <1>12, <2>2 DEF PurgeProjectBefore, Typed, Drawn, db, history
<1>13. ASSUME NEW p \in Procs, PurgeBefore(p) PROVE Typed'
  <2>1. runs' \in [RunIds -> Nat]
    BY <1>13 DEF PurgeBefore, Typed
  <2>2. purgedTo' \in Nat
    BY <1>13, LaterIsMax DEF PurgeBefore, Typed
  <2> QED BY <1>13, <2>1, <2>2, EndsType DEF PurgeBefore, Typed, Drawn
<1>14. ASSUME NEW p \in Procs, InspectStorage(p) PROVE Typed'
  <2>0. UNCHANGED <<now, stamps, files, db, lock, history>>
    BY <1>14 DEF InspectStorage, Inspect
  <2>1. /\ pc' \in [Procs -> Places] /\ todo' \in [Procs -> SUBSET Drawn]
        /\ cutoff' \in [Procs -> Nat] /\ due' \in [Procs -> SUBSET spooled]
        /\ failed' \in [Procs -> BOOLEAN]
    <3>1. CASE Starts(p, "inspect", {}, 0, spooled) /\ UNCHANGED failed
      <4>1. 0 \in Nat /\ {} \in SUBSET Drawn' /\ spooled \in SUBSET spooled /\ Drawn' = Drawn
        BY <2>0 DEF Drawn
      <4> QED BY <3>1, <4>1, <1>a, StartsType DEF Typed
    <3>2. CASE Goto(p, "reported") /\ UNCHANGED <<todo, cutoff, failed, due>>
      BY <3>2, <1>a, GotoType DEF Typed
    <3>3. CASE Ends(p)
      BY <3>3, EndsType
    <3> QED BY <1>14, <3>1, <3>2, <3>3 DEF InspectStorage, Inspect
  <2> QED BY <2>0, <2>1 DEF Typed, Drawn, db, history
<1> QED BY <1>1, <1>2, <1>3, <1>4, <1>5, <1>6, <1>7, <1>8, <1>9, <1>10, <1>11, <1>12, <1>13, <1>14
  DEF SpoolNext

-----------------------------------------------------------------------------
(* Steps *)

(* What one process does. *)
Acts(p) ==
  \/ AppendProject(p) \/ SpoolProjectMetric(p)
  \/ ListSpool(p) \/ OpenDatabase(p) \/ OpenFails(p)
  \/ MoveRun(p) \/ MoveMissing(p) \/ MoveFails(p) \/ RemoveFile(p) \/ CloseDatabase(p)
  \/ \E before \in 1..now : PurgeProjectBefore(p, before)
  \/ PurgeBefore(p) \/ InspectStorage(p) \/ Crash(p)

LEMMA StepsAreActs == [SpoolNext]_vars <=> UNCHANGED vars \/ Tick \/ \E p \in Procs : Acts(p)
BY DEF SpoolNext, Acts

(* It leaves the others where they are. *)
LEMMA OthersRest ==
  ASSUME Typed, NEW p \in Procs, NEW q \in Procs, p # q, Acts(p)
  PROVE  /\ pc'[q] = pc[q] /\ todo'[q] = todo[q] /\ due'[q] = due[q] /\ failed'[q] = failed[q]
<1>1. ASSUME NEW place, Goto(p, place) PROVE pc'[q] = pc[q]
  BY <1>1 DEF Goto, Typed
<1>2. ASSUME Passed(p) PROVE todo'[q] = todo[q]
  <2> DEFINE first == NextFile(p)
  <2>1. todo' = [todo EXCEPT ![p] = @ \ {first}]
    BY <1>2 DEF Passed
  <2> HIDE DEF first
  <2> QED BY <2>1 DEF Typed
<1>3. ASSUME Ends(p)
      PROVE  /\ pc'[q] = pc[q] /\ todo'[q] = todo[q] /\ due'[q] = due[q] /\ failed'[q] = failed[q]
  BY <1>1, <1>3 DEF Ends, Typed
<1>4. ASSUME NEW place, NEW moves, NEW before, NEW durable, Starts(p, place, moves, before, durable)
      PROVE  pc'[q] = pc[q] /\ todo'[q] = todo[q] /\ due'[q] = due[q]
  BY <1>1, <1>4 DEF Starts, Typed
<1>5. ASSUME Consolidated(p)
      PROVE  /\ pc'[q] = pc[q] /\ todo'[q] = todo[q] /\ due'[q] = due[q] /\ failed'[q] = failed[q]
  BY <1>1, <1>3, <1>5 DEF Consolidated, job
<1>6. CASE AppendProject(p)
  BY <1>4, <1>6 DEF AppendProject
<1>7. CASE SpoolProjectMetric(p)
  BY <1>1, <1>3, <1>7 DEF SpoolProjectMetric, job
<1>8. CASE ListSpool(p)
  BY <1>1, <1>5, <1>8 DEF ListSpool, Typed
<1>9. CASE OpenDatabase(p) \/ MoveRun(p)
  BY <1>1, <1>9 DEF OpenDatabase, MoveRun, job
<1>10. CASE OpenFails(p) \/ MoveFails(p) \/ PurgeBefore(p) \/ Crash(p)
  BY <1>3, <1>10 DEF OpenFails, MoveFails, PurgeBefore, Crash
<1>11. CASE MoveMissing(p)
  BY <1>2, <1>11 DEF MoveMissing, Typed
<1>12. CASE RemoveFile(p)
  <2>1. failed'[q] = failed[q]
    BY <1>12 DEF RemoveFile, Typed
  <2> QED BY <1>1, <1>2, <1>12, <2>1 DEF RemoveFile
<1>13. CASE CloseDatabase(p)
  BY <1>5, <1>13 DEF CloseDatabase
<1>14. ASSUME NEW before \in 1..now, PurgeProjectBefore(p, before)
       PROVE  /\ pc'[q] = pc[q] /\ todo'[q] = todo[q] /\ due'[q] = due[q] /\ failed'[q] = failed[q]
  BY <1>4, <1>14 DEF PurgeProjectBefore
<1>15. CASE InspectStorage(p)
  BY <1>1, <1>3, <1>4, <1>15 DEF InspectStorage, Inspect
<1> QED BY <1>6, <1>7, <1>8, <1>9, <1>10, <1>11, <1>12, <1>13, <1>14, <1>15 DEF Acts

-----------------------------------------------------------------------------
(* Only moving a run and purging touch the database.                       *)
LEMMA DatabaseSteps ==
  [SpoolNext]_vars => \/ UNCHANGED <<db, forgotten, purgedTo, erased>>
                      \/ \E p \in Procs : MoveRun(p)
                      \/ \E p \in Procs : PurgeBefore(p)
BY DEF SpoolNext, vars, db, history, Tick, AppendProject, SpoolProjectMetric, ListSpool,
       OpenDatabase, OpenFails, MoveMissing, MoveFails, RemoveFile, CloseDatabase,
       PurgeProjectBefore, InspectStorage, Inspect, Crash

(* What moving a run does: a run that has no marker gets an entry, and     *)
(* entries and markers that are too old go.                                *)
LEMMA MoveChanges ==
  ASSUME Typed, NEW p \in Procs, MoveRun(p)
  PROVE  /\ NextFile(p) \in files
         /\ UNCHANGED <<now, stamps, files, spooled, purgedTo, erased>>
         /\ \/ NextFile(p) \in marks /\ UNCHANGED <<runs, marks, forgotten>>
            \/ /\ NextFile(p) \notin marks
               /\ \A d \in RunIds :
                    runs'[d] = IF d \in Drawn /\ Expired(d) THEN 0
                               ELSE IF d = NextFile(p) THEN runs[d] + 1 ELSE runs[d]
               /\ \A d \in Drawn :
                    d \in marks' <=> (d \in marks \/ d = NextFile(p)) /\ ~Expired(d)
               /\ \A d \in RunIds :
                    d \in forgotten' <=>
                        (d \in forgotten \/ (d \in Drawn /\ Expired(d) /\ (d = NextFile(p) \/ runs[d] > 0)))
<1> DEFINE e == NextFile(p)
           added == [runs EXCEPT ![e] = @ + 1]
           old   == {d \in Drawn : Expired(d)}
<1>1. /\ e \in files /\ CommitSpoolEvent(e)
      /\ UNCHANGED <<now, stamps, files, spooled, purgedTo, erased>>
  BY DEF MoveRun
<1>2. e \in RunIds /\ e \in Drawn
  BY <1>1, RunsAreIds DEF Typed
<1>3. CASE e \in marks
  BY <1>1, <1>3 DEF CommitSpoolEvent, db
<1>4. CASE e \notin marks
  <2>1. /\ runs' = [d \in RunIds |-> IF d \in old THEN 0 ELSE added[d]]
        /\ marks' = (marks \union {e}) \ old
        /\ forgotten' = forgotten \union {d \in old : added[d] > 0}
    BY <1>1, <1>4 DEF CommitSpoolEvent
  <2>2. \A d \in RunIds : added[d] = IF d = e THEN runs[d] + 1 ELSE runs[d]
    BY DEF Typed
  <2>3. old \subseteq RunIds
    BY RunsAreIds
  <2>4. \A d \in RunIds : runs[d] \in Nat
    BY DEF Typed
  <2>5. \A d \in RunIds : d \in old <=> d \in Drawn /\ Expired(d)
    OBVIOUS
  <2>6. \A d \in RunIds : added[d] > 0 <=> (d = e \/ runs[d] > 0)
    BY <2>2, <2>4
  <2> HIDE DEF e, added, old
  <2>7. \A d \in RunIds : runs'[d] = IF d \in Drawn /\ Expired(d) THEN 0
                                    ELSE IF d = e THEN runs[d] + 1 ELSE runs[d]
    BY <2>1, <2>2, <2>5
  <2>8. \A d \in RunIds :
          d \in forgotten' <=>
              (d \in forgotten \/ (d \in Drawn /\ Expired(d) /\ (d = e \/ runs[d] > 0)))
    BY <2>1, <2>5, <2>6
  <2>9. \A d \in Drawn : d \in marks' <=> (d \in marks \/ d = e) /\ ~Expired(d)
    BY <2>1, <2>5, RunsAreIds
  <2> QED BY <1>1, <1>4, <2>7, <2>8, <2>9 DEF e
<1> QED BY <1>1, <1>3, <1>4

LEMMA PurgeChanges ==
  ASSUME Typed, NEW p \in Procs, PurgeBefore(p)
  PROVE  /\ UNCHANGED <<now, stamps, files, marks, spooled>>
         /\ purgedTo' >= purgedTo /\ purgedTo' >= cutoff[p]
         /\ \A d \in RunIds :
              runs'[d] = IF d \in Drawn /\ stamps[d] < cutoff[p] THEN 0 ELSE runs[d]
         /\ \A d \in RunIds :
              d \in forgotten' <=>
                  (d \in forgotten \/ (d \in Drawn /\ stamps[d] < cutoff[p] /\ runs[d] > 0))
         /\ \A d \in Drawn :
              d \in erased' => d \in erased \/ (d \in due[p] /\ stamps[d] < cutoff[p])
<1>1. purgedTo' >= purgedTo /\ purgedTo' >= cutoff[p]
  BY LaterIsMax DEF PurgeBefore, Typed
<1>2. \A d \in RunIds : runs'[d] = IF d \in Drawn /\ stamps[d] < cutoff[p] THEN 0 ELSE runs[d]
  BY RunsAreIds DEF PurgeBefore
<1>3. \A d \in RunIds : d \in forgotten' <=>
          (d \in forgotten \/ (d \in Drawn /\ stamps[d] < cutoff[p] /\ runs[d] > 0))
  BY DEF PurgeBefore
<1>4. \A d \in Drawn : d \in erased' => d \in erased \/ (d \in due[p] /\ stamps[d] < cutoff[p])
  BY DEF PurgeBefore
<1> QED BY <1>1, <1>2, <1>3, <1>4 DEF PurgeBefore

-----------------------------------------------------------------------------
(* The marker is what makes moving a run idempotent: it stays when a purge *)
(* deletes the entry, and goes only with an entry that is too old anyway.  *)
Marked ==
  /\ \A e \in RunIds : runs[e] <= 1 /\ (runs[e] > 0 => e \in marks)
  /\ forgotten \subseteq Drawn
  /\ \A e \in forgotten : runs[e] = 0 /\ (e \in marks \/ Expired(e))

LEMMA ExpiredStays ==
  ASSUME Typed, Forward, NEW e \in Drawn, Expired(e)
  PROVE  Expired(e)'
<1>1. stamps'[e] = stamps[e] /\ stamps[e] \in Nat /\ now' >= now /\ now' \in Nat
  BY DEF Typed, Forward, Drawn
<1> QED BY <1>1, SpoolAssumption DEF Expired, Typed

LEMMA ForgottenIsDrawn ==
  ASSUME Marked, NEW p \in Procs, MoveRun(p)
  PROVE  forgotten' \subseteq Drawn
BY DEF MoveRun, CommitSpoolEvent, Marked

LEMMA MarkedStep == Typed /\ Marked /\ [SpoolNext]_vars => Marked'
<1> SUFFICES ASSUME Typed, Marked, [SpoolNext]_vars PROVE Marked'
  OBVIOUS
<1>1. Forward /\ Typed' /\ Drawn \subseteq RunIds
  BY StepsForward, TypedStep, RunsAreIds
<1>2. \A e \in Drawn : Expired(e) => Expired(e)'
  BY <1>1, ExpiredStays
<1>3. CASE UNCHANGED <<db, forgotten, purgedTo, erased>>
  BY <1>1, <1>2, <1>3 DEF Marked, db, Forward
<1>4. ASSUME NEW p \in Procs, MoveRun(p) PROVE Marked'
  <2>1. CASE UNCHANGED <<runs, marks, forgotten>>
    BY <1>1, <1>2, <2>1 DEF Marked, Forward
  <2>2. CASE ~UNCHANGED <<runs, marks, forgotten>>
    <3> DEFINE e == NextFile(p)
    <3>1. /\ e \in Drawn /\ e \notin marks /\ Drawn' = Drawn
          /\ \A d \in Drawn : Expired(d)' <=> Expired(d)
          /\ forgotten' \subseteq Drawn
      BY <1>4, <2>2, MoveChanges DEF Typed, Drawn, Expired, MoveRun, CommitSpoolEvent, Marked
    <3>2. /\ \A d \in RunIds : runs'[d] = IF d \in Drawn /\ Expired(d) THEN 0
                                         ELSE IF d = e THEN runs[d] + 1 ELSE runs[d]
          /\ \A d \in Drawn : d \in marks' <=> (d \in marks \/ d = e) /\ ~Expired(d)
          /\ \A d \in RunIds : d \in forgotten' <=>
              (d \in forgotten \/ (d \in Drawn /\ Expired(d) /\ (d = e \/ runs[d] > 0)))
      BY <1>4, <2>2, MoveChanges
    <3> HIDE DEF e
    <3>3. \A d \in RunIds :
            runs[d] \in Nat /\ runs[d] <= 1 /\ (runs[d] > 0 => d \in marks) /\ runs[e] = 0
      BY <1>1, <3>1 DEF Typed, Marked
    <3>4. marks \subseteq Drawn
      BY DEF Typed
    <3>5. \A d \in RunIds : runs'[d] <= 1 /\ (runs'[d] > 0 => d \in marks')
      BY <3>2, <3>3, <3>1, <3>4
    <3>6. \A d \in forgotten' : runs'[d] = 0 /\ (d \in marks' \/ Expired(d)')
      BY <1>1, <3>1, <3>2, <3>3 DEF Marked
    <3> QED BY <3>1, <3>5, <3>6 DEF Marked
  <2> QED BY <2>1, <2>2
<1>5. ASSUME NEW p \in Procs, PurgeBefore(p) PROVE Marked'
  <2>1. Drawn' = Drawn /\ \A d \in Drawn : Expired(d)' <=> Expired(d)
    BY <1>5, PurgeChanges DEF Drawn, Expired
  <2>2. \A d \in RunIds : runs[d] \in Nat
    BY DEF Typed
  <2>3. forgotten' \subseteq Drawn
    BY <1>5 DEF PurgeBefore, Marked
  <2> QED BY <1>1, <1>5, <2>1, <2>2, <2>3, PurgeChanges DEF Marked
<1> QED BY <1>3, <1>4, <1>5, DatabaseSteps

-----------------------------------------------------------------------------
(* A run that was moved is counted until it is forgotten, so its file may  *)
(* go; and only old runs are forgotten.                                    *)
Settled(e) == runs[e] > 0 \/ e \in forgotten

Kept ==
  /\ \A e \in marks : Settled(e)
  /\ \A p \in Procs : Is(p, "remove") => NextFile(p) \in Drawn /\ Settled(NextFile(p))
  /\ \A e \in spooled : e \in files \/ Settled(e)
  /\ \A e \in forgotten : stamps[e] < purgedTo \/ Expired(e)

LEMMA SettledStays ==
  ASSUME Typed, [SpoolNext]_vars, NEW e \in Drawn, Settled(e)
  PROVE  Settled(e)'
<1>1. e \in RunIds /\ runs[e] \in Nat
  BY RunsAreIds DEF Typed
<1>2. CASE UNCHANGED <<db, forgotten, purgedTo, erased>>
  BY <1>2 DEF Settled, db
<1>3. ASSUME NEW p \in Procs, MoveRun(p) PROVE Settled(e)'
  BY <1>1, <1>3, MoveChanges DEF Settled
<1>4. ASSUME NEW p \in Procs, PurgeBefore(p) PROVE Settled(e)'
  BY <1>1, <1>4, PurgeChanges DEF Settled
<1> QED BY <1>2, <1>3, <1>4, DatabaseSteps

LEMMA OnlyOldIsForgotten ==
  ASSUME Typed, Marked, Kept, [SpoolNext]_vars, NEW e \in forgotten'
  PROVE  stamps'[e] < purgedTo' \/ Expired(e)'
<1>1. Forward /\ Typed' /\ Drawn \subseteq RunIds /\ forgotten \subseteq Drawn
  BY StepsForward, TypedStep, RunsAreIds DEF Marked
<1>2. purgedTo' >= purgedTo /\ purgedTo' \in Nat /\ purgedTo \in Nat
  BY <1>1, DatabaseSteps, MoveChanges, PurgeChanges DEF Typed
<1>3. \A d \in Drawn : stamps'[d] = stamps[d] /\ stamps[d] \in Nat
  BY <1>1 DEF Forward, Typed, Drawn
<1>4. CASE e \in forgotten
  <2>1. e \in Drawn /\ (stamps[e] < purgedTo \/ Expired(e))
    BY <1>1, <1>4 DEF Kept
  <2>2. CASE Expired(e)
    BY <1>1, <2>1, <2>2, ExpiredStays
  <2>3. CASE stamps[e] < purgedTo
    BY <1>2, <1>3, <2>1, <2>3
  <2> QED BY <2>1, <2>2, <2>3
<1>5. CASE e \notin forgotten
  <2>1. ASSUME NEW p \in Procs, MoveRun(p) PROVE Expired(e)'
    <3>1. e \in RunIds
      BY <1>1, <2>1, ForgottenIsDrawn
    <3> QED BY <1>1, <1>5, <2>1, <3>1, MoveChanges, ExpiredStays
  <2>2. ASSUME NEW p \in Procs, PurgeBefore(p) PROVE stamps'[e] < purgedTo'
    <3>1. e \in RunIds /\ cutoff[p] \in Nat
      BY <1>1, <2>2 DEF PurgeBefore, Typed
    <3>2. e \in Drawn /\ stamps[e] < cutoff[p] /\ purgedTo' >= cutoff[p]
      BY <1>5, <2>2, <3>1, PurgeChanges
    <3> QED BY <1>2, <1>3, <3>1, <3>2
  <2> QED BY <1>5, <2>1, <2>2, DatabaseSteps
<1> QED BY <1>4, <1>5

(* A process that stands before writing or removing a file has just        *)
(* decided to, or stood there already.                                     *)
LEMMA BeforeFileAccess ==
  ASSUME Typed, [SpoolNext]_vars, NEW p \in Procs, Is(p, "spool")' \/ Is(p, "remove")'
  PROVE  \/ AppendProject(p) \/ MoveRun(p)
         \/ pc'[p] = pc[p] /\ todo'[p] = todo[p]
<1> DEFINE Same == pc'[p] = pc[p] /\ todo'[p] = todo[p]
<1>1. CASE UNCHANGED vars \/ Tick
  BY <1>1 DEF vars, job, Tick
<1>2. CASE Acts(p)
  <2>1. ASSUME NEW place \in Places \ {"spool", "remove"}, Goto(p, place) PROVE FALSE
    BY <2>1 DEF Goto, Is, Typed
  <2>2. {"idle", "list", "open", "move", "purge", "inspect", "reported"}
          \subseteq Places \ {"spool", "remove"}
    BY DEF Places
  <2>3. ASSUME ~ AppendProject(p), ~ MoveRun(p) PROVE FALSE
    <3>1. ~ Ends(p) /\ ~ Consolidated(p)
      BY <2>1, <2>2 DEF Consolidated, Ends
    <3>2. ~ MoveMissing(p)
      BY DEF MoveMissing, Is, Typed
    <3>3. ~ \E place \in {"list", "open", "move", "purge", "inspect", "reported"} : Goto(p, place)
      BY <2>1, <2>2
    <3> QED BY <1>2, <2>3, <3>1, <3>2, <3>3
      DEF Acts, SpoolProjectMetric, ListSpool, OpenDatabase, OpenFails, MoveFails, RemoveFile,
          CloseDatabase, PurgeBefore, InspectStorage, Inspect, Crash, PurgeProjectBefore, Starts
  <2> QED BY <2>3
<1>3. ASSUME NEW q \in Procs, q # p, Acts(q) PROVE Same
  BY <1>3, OthersRest
<1> QED BY <1>1, <1>2, <1>3, StepsAreActs

(* The run that was moved is settled.                                      *)
LEMMA MovedIsSettled ==
  ASSUME Typed, Kept, NEW p \in Procs, MoveRun(p)
  PROVE  Settled(NextFile(p))'
<1> DEFINE e == NextFile(p)
<1>0. e \in Drawn /\ e \in RunIds /\ runs[e] \in Nat /\ NextFile(p)' = e
  BY MoveChanges, RunsAreIds DEF Typed, MoveRun, job, NextFile
<1>1. CASE e \in marks
  BY <1>0, <1>1, MoveChanges DEF Kept, Settled
<1>2. CASE e \notin marks
  <2>1. (Expired(e) /\ e \in forgotten') \/ runs'[e] = runs[e] + 1
    BY <1>0, <1>2, MoveChanges
  <2> QED BY <1>0, <2>1 DEF Settled
<1> QED BY <1>1, <1>2

LEMMA KeptStep == Typed /\ Marked /\ Kept /\ [SpoolNext]_vars => Kept'
<1> SUFFICES ASSUME Typed, Marked, Kept, [SpoolNext]_vars PROVE Kept'
  OBVIOUS
<1>1. Forward /\ Typed' /\ Drawn \subseteq RunIds
  BY StepsForward, TypedStep, RunsAreIds
<1>2. \A e \in Drawn : Settled(e) => Settled(e)'
  BY SettledStays
<1>3. \A e \in marks' : Settled(e)'
  <2>1. CASE marks' \subseteq marks
    BY <1>2, <2>1 DEF Kept, Typed
  <2>2. ASSUME NEW p \in Procs, MoveRun(p) PROVE \A e \in marks' : Settled(e)'
    <3>1. NextFile(p)' = NextFile(p) /\ Drawn' = Drawn
      BY <2>2 DEF MoveRun, job, NextFile, Drawn
    <3>2. \A e \in marks' : e \in marks \/ e = NextFile(p)
      BY <1>1, <2>2, <3>1, MoveChanges DEF Typed
    <3>3. Settled(NextFile(p))'
      BY <2>2, MovedIsSettled
    <3> QED BY <1>2, <3>1, <3>2, <3>3 DEF Kept, Typed, Settled
  <2>3. ASSUME NEW p \in Procs, PurgeBefore(p) PROVE marks' \subseteq marks
    BY <2>3, PurgeChanges
  <2> QED BY <2>1, <2>2, <2>3, DatabaseSteps DEF db
<1>4. ASSUME NEW p \in Procs, Is(p, "remove")'
      PROVE  NextFile(p)' \in Drawn' /\ Settled(NextFile(p))'
  <2>1. CASE MoveRun(p)
    <3>1. NextFile(p)' = NextFile(p) /\ NextFile(p) \in Drawn /\ Drawn' = Drawn
      BY <2>1 DEF MoveRun, job, NextFile, Drawn, Typed
    <3> QED BY <2>1, <3>1, MovedIsSettled
  <2>2. CASE Is(p, "remove") /\ todo'[p] = todo[p]
    <3>1. NextFile(p)' = NextFile(p)
      BY <2>2 DEF NextFile
    <3> QED BY <1>1, <1>2, <2>2, <3>1 DEF Kept, Forward, Settled
  <2>3. ~ AppendProject(p)
    BY <1>4 DEF AppendProject, Starts, Goto, Is, Typed
  <2> QED BY <1>4, <2>1, <2>2, <2>3, BeforeFileAccess DEF Is
<1>5. ASSUME NEW e \in spooled' PROVE e \in files' \/ Settled(e)'
  <2>1. e \in files' \/ e \in spooled
    BY <1>5 DEF SpoolNext, vars, history, Tick, AppendProject, SpoolProjectMetric, ListSpool,
           OpenDatabase, OpenFails, MoveRun, MoveMissing, MoveFails, RemoveFile, CloseDatabase,
           PurgeProjectBefore, PurgeBefore, InspectStorage, Inspect, Crash
  <2>2. CASE e \in spooled /\ Settled(e)
    BY <1>2, <2>2 DEF Typed
  <2>3. CASE e \in files
    <3>1. e \in files' \/ \E p \in Procs : RemoveFile(p) /\ e = NextFile(p)
      BY <2>3 DEF SpoolNext, vars, Tick, AppendProject, SpoolProjectMetric, ListSpool,
           OpenDatabase, OpenFails, MoveRun, MoveMissing, MoveFails, RemoveFile, CloseDatabase,
           PurgeProjectBefore, PurgeBefore, InspectStorage, Inspect, Crash
    <3> QED BY <1>2, <2>3, <3>1 DEF RemoveFile, Kept, Typed
  <2> QED BY <2>1, <2>2, <2>3 DEF Kept
<1> QED BY <1>3, <1>4, <1>5, OnlyOldIsForgotten DEF Kept

-----------------------------------------------------------------------------
(* A run is written by the process that drew it, once.                     *)
Fresh ==
  /\ \A p \in Procs : Is(p, "spool") => \E e \in Drawn \ spooled : todo[p] = {e}
  /\ \A p, q \in Procs :
       p # q /\ Is(p, "spool") /\ Is(q, "spool") => todo[p] \intersect todo[q] = {}

(* Files appear only where a process writes its run.                       *)
LEMMA SpoolSteps ==
  [SpoolNext]_vars =>
    \/ UNCHANGED spooled /\ files' \subseteq files
    \/ \E p \in Procs : /\ SpoolProjectMetric(p)
                        /\ files' \subseteq files \union todo[p]
                        /\ spooled' \in {spooled, spooled \union todo[p]}
BY DEF SpoolNext, vars, history, Tick, AppendProject, SpoolProjectMetric, ListSpool,
       OpenDatabase, OpenFails, MoveRun, MoveMissing, MoveFails, RemoveFile, CloseDatabase,
       PurgeProjectBefore, PurgeBefore, InspectStorage, Inspect, Crash

LEMMA FreshStep == Typed /\ Fresh /\ [SpoolNext]_vars => Fresh'
<1> SUFFICES ASSUME Typed, Fresh, [SpoolNext]_vars PROVE Fresh'
  OBVIOUS
<1>1. Forward /\ Typed'
  BY StepsForward, TypedStep
<1> DEFINE Draws(p) == /\ stamps' = Append(stamps, now) /\ UNCHANGED spooled
                       /\ todo'[p] = {Len(stamps) + 1}
           Stays(p) == Is(p, "spool") /\ todo'[p] = todo[p]
<1>2. ASSUME NEW p \in Procs, Is(p, "spool")' PROVE AppendProject(p) \/ Stays(p)
  <2>1. ~ MoveRun(p)
    BY <1>2 DEF MoveRun, Goto, Is, Typed
  <2> QED BY <1>2, <2>1, BeforeFileAccess DEF Is
<1>3. ASSUME NEW p \in Procs, AppendProject(p)
      PROVE  /\ UNCHANGED spooled
             /\ \E e \in Drawn' \ spooled' : e \notin Drawn /\ todo'[p] = {e}
             /\ \A q \in Procs \ {p} : ~ AppendProject(q)
  <2>1. UNCHANGED spooled /\ Len(stamps) + 1 \in Drawn' /\ Len(stamps) + 1 \notin Drawn
    BY <1>1, <1>3 DEF AppendProject, history, Drawn, Typed, Forward
  <2>2. todo'[p] = {Len(stamps) + 1} /\ pc'[p] = "spool" /\ pc[p] = "idle"
    BY <1>3 DEF AppendProject, Starts, Goto, Is, Typed
  <2>3. ASSUME NEW q \in Procs \ {p}, AppendProject(q) PROVE FALSE
    BY <2>2, <2>3, OthersRest DEF Acts
  <2> QED BY <2>1, <2>2, <2>3 DEF Typed
<1>4. ASSUME NEW p \in Procs, Is(p, "spool")'
      PROVE  \E e \in Drawn' \ spooled' : todo'[p] = {e}
  <2>1. CASE AppendProject(p)
    BY <1>3, <2>1
  <2>2. CASE Stays(p)
    <3>1. PICK e \in Drawn \ spooled : todo[p] = {e}
      BY <2>2 DEF Fresh
    <3>2. ASSUME NEW q \in Procs, SpoolProjectMetric(q) PROVE e \notin todo[q]
      <4>1. Is(q, "spool") /\ ~ Is(q, "spool")'
        BY <3>2 DEF SpoolProjectMetric, Ends, Goto, Is, Typed
      <4> QED BY <1>4, <2>2, <3>1, <4>1 DEF Fresh
    <3>3. e \notin spooled'
      BY <3>1, <3>2, SpoolSteps
    <3> QED BY <1>1, <2>2, <3>1, <3>3 DEF Forward
  <2> QED BY <1>2, <1>4, <2>1, <2>2
<1>5. ASSUME NEW p \in Procs, NEW q \in Procs, p # q, Is(p, "spool")', Is(q, "spool")'
      PROVE  todo'[p] \intersect todo'[q] = {}
  <2>1. CASE Stays(p) /\ Stays(q)
    BY <1>5, <2>1 DEF Fresh
  <2>2. CASE AppendProject(p) /\ Stays(q)
    BY <1>3, <2>2 DEF Typed
  <2>3. CASE AppendProject(q) /\ Stays(p)
    BY <1>3, <2>3 DEF Typed
  <2>4. CASE AppendProject(q) /\ AppendProject(p)
    BY <1>3, <1>5, <2>4
  <2> QED BY <1>2, <1>5, <2>1, <2>2, <2>3, <2>4
<1> QED BY <1>4, <1>5 DEF Fresh, Is

-----------------------------------------------------------------------------
(* What a purge may count on: a run that was durable when it began and has *)
(* a file is still to be moved, unless moving failed; then it does not     *)
(* delete.                                                                 *)
Reaches(p) ==
  /\ pc[p] \in {"open", "move", "remove"} /\ ~failed[p] =>
       due[p] \intersect files \subseteq todo[p]
  /\ Is(p, "purge") => due[p] \intersect files = {}

Gone ==
  /\ \A p \in Procs : Reaches(p)
  /\ erased \subseteq spooled
  /\ \A e \in erased : e \notin files /\ runs[e] = 0

LEMMA NoOldFileReturns ==
  ASSUME Typed, Fresh, [SpoolNext]_vars
  PROVE  spooled \intersect files' \subseteq files
BY SpoolSteps DEF Fresh, SpoolProjectMetric

LEMMA ReachesStep ==
  ASSUME Typed, Fresh, Gone, [SpoolNext]_vars, NEW q \in Procs
  PROVE  Reaches(q)'
<1>0. Typed' /\ Reaches(q) /\ due[q] \subseteq spooled /\ spooled \intersect files' \subseteq files
  BY TypedStep, NoOldFileReturns DEF Gone, Typed
<1>1. ASSUME pc'[q] = pc[q], todo'[q] = todo[q], due'[q] = due[q], failed'[q] = failed[q]
      PROVE  Reaches(q)'
  BY <1>0, <1>1 DEF Reaches, Is
<1>2. CASE UNCHANGED vars \/ Tick
  BY <1>1, <1>2 DEF vars, job, Tick
<1>3. ASSUME NEW p \in Procs, p # q, Acts(p) PROVE Reaches(q)'
  BY <1>1, <1>3, OthersRest
<1>4. CASE Acts(q)
  <2> DEFINE Elsewhere == pc'[q] \in {"idle", "spool", "list", "inspect", "reported"}
  <2>1. CASE Elsewhere
    BY <2>1 DEF Reaches, Is
  <2>2. ASSUME Consolidated(q), ~Elsewhere, due[q] \intersect files' = {} PROVE Reaches(q)'
    <3>1. Goto(q, "purge") /\ UNCHANGED due
      BY <2>2 DEF Consolidated, Ends, Goto, Typed, job
    <3> QED BY <2>2, <3>1 DEF Reaches, Goto, Is, Typed
  <2>3. CASE ListSpool(q) /\ ~Elsewhere
    <3>1. CASE spooled = {}
      BY <1>0, <2>2, <2>3, <3>1 DEF ListSpool
    <3>2. CASE spooled # {}
      BY <2>3, <3>2 DEF ListSpool, Goto, Reaches, Is, Typed
    <3> QED BY <3>1, <3>2
  <2>4. CASE OpenDatabase(q) \/ MoveRun(q)
    <3>1. /\ pc[q] \in {"open", "move"} /\ pc'[q] \in {"move", "remove"}
          /\ UNCHANGED <<todo, due, failed, files>>
      BY <2>4 DEF OpenDatabase, MoveRun, Goto, Is, Typed, job
    <3> QED BY <1>0, <3>1 DEF Reaches, Is
  <2>5. CASE MoveMissing(q)
    BY <2>5 DEF MoveMissing, Reaches, Is, Typed
  <2>6. CASE RemoveFile(q)
    <3> DEFINE first == NextFile(q)
    <3>1. /\ pc[q] = "remove" /\ pc'[q] = "move" /\ UNCHANGED due
          /\ todo'[q] = todo[q] \ {first}
          /\ failed'[q] \/ (failed'[q] = failed[q] /\ files' = files \ {first})
      BY <2>6 DEF RemoveFile, Passed, Goto, Is, Typed
    <3> HIDE DEF first
    <3> QED BY <1>0, <3>1 DEF Reaches, Is
  <2>7. CASE CloseDatabase(q) /\ ~Elsewhere
    <3>1. /\ Goto(q, "purge") /\ UNCHANGED <<due, files>>
          /\ ~failed[q] /\ todo[q] = {} /\ pc[q] = "move"
      BY <2>7 DEF CloseDatabase, Consolidated, Ends, Goto, Is, Typed, job
    <3> QED BY <1>0, <3>1 DEF Reaches, Goto, Is, Typed
  <2>8. ASSUME NEW place \in {"idle", "spool", "list", "inspect", "reported"}, Goto(q, place)
        PROVE  Elsewhere
    BY <2>8 DEF Goto, Typed
  <2>9. Ends(q) => Elsewhere
    BY <2>8 DEF Ends
  <2> QED BY <1>4, <2>1, <2>3, <2>4, <2>5, <2>6, <2>7, <2>8, <2>9
    DEF Acts, AppendProject, SpoolProjectMetric, OpenFails, MoveFails, PurgeBefore, InspectStorage,
        Inspect, Crash, PurgeProjectBefore, Starts
<1> QED BY <1>2, <1>3, <1>4, StepsAreActs

LEMMA GoneStep == Typed /\ Fresh /\ Gone /\ [SpoolNext]_vars => Gone'
<1> SUFFICES ASSUME Typed, Fresh, Gone, [SpoolNext]_vars PROVE Gone'
  OBVIOUS
<1>1. /\ Typed' /\ Drawn \subseteq RunIds /\ spooled \subseteq Drawn /\ spooled \subseteq spooled'
      /\ spooled \intersect files' \subseteq files
  BY TypedStep, RunsAreIds, NoOldFileReturns, SpoolSteps DEF Typed
<1>2. \A q \in Procs : Reaches(q)'
  BY ReachesStep
<1>3. erased' \subseteq spooled' /\ \A e \in erased' : e \notin files' /\ runs'[e] = 0
  <2>1. CASE UNCHANGED <<db, forgotten, purgedTo, erased>>
    BY <1>1, <2>1 DEF Gone, db
  <2>2. ASSUME NEW p \in Procs, MoveRun(p)
        PROVE  erased' \subseteq spooled' /\ \A e \in erased' : e \notin files' /\ runs'[e] = 0
    <3>1. erased' = erased /\ files' = files /\ NextFile(p) \in files
      BY <2>2, MoveChanges
    <3>2. \A e \in erased : runs'[e] = 0
      BY <1>1, <2>2, <3>1, MoveChanges DEF Gone
    <3> QED BY <1>1, <3>1, <3>2 DEF Gone
  <2>3. ASSUME NEW p \in Procs, PurgeBefore(p)
        PROVE  erased' \subseteq spooled' /\ \A e \in erased' : e \notin files' /\ runs'[e] = 0
    <3>1. due[p] \intersect files = {} /\ files' = files /\ due[p] \subseteq spooled
      BY <2>3, PurgeChanges DEF Gone, Reaches, PurgeBefore, Typed
    <3>2. erased' \subseteq spooled
      BY <2>3, <3>1 DEF PurgeBefore, Gone
    <3>3. \A e \in erased' : e \in erased \/ (e \in due[p] /\ stamps[e] < cutoff[p])
      BY <1>1, <2>3, <3>2, PurgeChanges
    <3>4. \A e \in erased' : runs'[e] = 0
      BY <1>1, <2>3, <3>2, <3>3, PurgeChanges DEF Gone
    <3> QED BY <1>1, <3>1, <3>2, <3>3, <3>4 DEF Gone
  <2> QED BY <2>1, <2>2, <2>3, DatabaseSteps
<1> QED BY <1>2, <1>3 DEF Gone

-----------------------------------------------------------------------------
(* The ledger *)

Counted == {e \in RunIds : runs[e] > 0}

LEMMA MoveSettles ==
  ASSUME Typed, Marked, NEW p \in Procs, MoveRun(p)
  PROVE  \/ UNCHANGED <<spooled, Counted, forgotten>>
         \/ \E new, old \in SUBSET RunIds : Ledger!Settle(new, old)
<1> DEFINE e == NextFile(p)
<1>1. e \in spooled /\ e \in RunIds /\ e \in Drawn /\ spooled' = spooled /\ Drawn \subseteq RunIds
  BY MoveChanges, RunsAreIds DEF Typed
<1>2. CASE UNCHANGED <<runs, marks, forgotten>>
  BY <1>1, <1>2 DEF Counted
<1>3. CASE ~UNCHANGED <<runs, marks, forgotten>>
  <2> DEFINE new == {e} \ forgotten
             old == {d \in Counted \union new : d \in Drawn /\ Expired(d)}
  <2>1. /\ e \notin marks
        /\ \A d \in RunIds : runs'[d] = IF d \in Drawn /\ Expired(d) THEN 0
                                       ELSE IF d = e THEN runs[d] + 1 ELSE runs[d]
        /\ \A d \in RunIds :
             d \in forgotten' <=>
                 (d \in forgotten \/ (d \in Drawn /\ Expired(d) /\ (d = e \/ runs[d] > 0)))
    BY <1>3, MoveChanges
  <2>2. \A d \in RunIds : runs[d] \in Nat
    BY DEF Typed
  <2>3. e \notin Counted /\ (e \in forgotten => Expired(e))
    BY <1>1, <2>1 DEF Marked, Counted
  <2>4. forgotten' \subseteq RunIds /\ forgotten \subseteq RunIds
    BY <1>1, ForgottenIsDrawn DEF Marked
  <2>5. new \subseteq spooled \ (Counted \union forgotten) /\ new \subseteq RunIds
    BY <1>1, <2>3
  <2>6. \A c, d \in new : c = d
    OBVIOUS
  <2>7. Counted' = (Counted \union new) \ old
    <3> HIDE DEF e
    <3>1. ASSUME NEW d \in RunIds PROVE runs'[d] > 0 <=> d \in (Counted \union new) \ old
      BY <1>1, <2>1, <2>2, <2>3 DEF Counted
    <3> QED BY <3>1, <2>5 DEF Counted
  <2>8. forgotten' = forgotten \union old
    <3> HIDE DEF e
    <3>1. ASSUME NEW d \in RunIds PROVE d \in forgotten' <=> d \in forgotten \union old
      BY <1>1, <2>1, <2>2 DEF Counted
    <3>2. old \subseteq RunIds
      BY <2>5 DEF Counted
    <3> QED BY <2>4, <3>1, <3>2
  <2>9. old \subseteq Counted \union new /\ old \subseteq RunIds
    BY <2>5 DEF Counted
  <2> HIDE DEF new, old
  <2>10. Ledger!Settle(new, old)
    BY <1>1, <2>5, <2>6, <2>7, <2>8, <2>9 DEF Ledger!Settle, Counted
  <2> QED BY <2>5, <2>9, <2>10, Zenon DEF Ledger!Settle
<1> QED BY <1>2, <1>3

LEMMA PurgeSettles ==
  ASSUME Typed, Marked, NEW p \in Procs, PurgeBefore(p)
  PROVE  \E new, old \in SUBSET RunIds : Ledger!Settle(new, old)
<1> DEFINE old == {d \in Counted : d \in Drawn /\ stamps[d] < cutoff[p]}
<1>1. /\ spooled' = spooled
      /\ \A d \in RunIds :
           runs'[d] = IF d \in Drawn /\ stamps[d] < cutoff[p] THEN 0 ELSE runs[d]
      /\ \A d \in RunIds :
           d \in forgotten' <=>
               (d \in forgotten \/ (d \in Drawn /\ stamps[d] < cutoff[p] /\ runs[d] > 0))
  BY PurgeChanges
<1>2. forgotten' \subseteq RunIds /\ forgotten \subseteq RunIds
  BY RunsAreIds DEF PurgeBefore, Marked
<1>3. Counted' = (Counted \union {}) \ old
  <2>1. ASSUME NEW d \in RunIds PROVE runs'[d] > 0 <=> d \in Counted \ old
    BY <1>1 DEF Counted
  <2> QED BY <2>1 DEF Counted
<1>4. forgotten' = forgotten \union old
  <2>1. ASSUME NEW d \in RunIds PROVE d \in forgotten' <=> d \in forgotten \union old
    BY <1>1 DEF Counted
  <2> QED BY <1>2, <2>1 DEF Counted
<1>5. old \in SUBSET RunIds /\ {} \in SUBSET RunIds /\ old \subseteq Counted \union {}
  BY DEF Counted
<1> HIDE DEF old
<1>6. Ledger!Settle({}, old)
  BY <1>1, <1>3, <1>4, <1>5 DEF Ledger!Settle, Counted
<1> QED BY <1>5, <1>6, Zenon DEF Ledger!Settle

LEMMA LedgerStep ==
  Typed /\ Marked /\ Fresh /\ [SpoolNext]_vars => [Ledger!LedgerNext]_(Ledger!ledger)
<1> SUFFICES ASSUME Typed, Marked, Fresh, [SpoolNext]_vars
             PROVE  [Ledger!LedgerNext]_(Ledger!ledger)
  OBVIOUS
<1> USE DEF Ledger!LedgerNext, Ledger!ledger
<1>1. ASSUME NEW p \in Procs, SpoolProjectMetric(p) PROVE [Ledger!LedgerNext]_(Ledger!ledger)
  <2>1. PICK e \in Drawn \ spooled : todo[p] = {e}
    BY <1>1 DEF SpoolProjectMetric, Fresh
  <2>2. spooled' = spooled \/ spooled' = spooled \union {e}
    BY <1>1, <2>1 DEF SpoolProjectMetric
  <2>3. UNCHANGED <<runs, forgotten>>
    BY <1>1 DEF SpoolProjectMetric, db
  <2>4. e \in RunIds
    BY <2>1, RunsAreIds
  <2> QED BY <2>1, <2>2, <2>3, <2>4 DEF Ledger!Record
<1>2. ASSUME NEW p \in Procs, MoveRun(p) PROVE [Ledger!LedgerNext]_(Ledger!ledger)
  BY <1>2, MoveSettles DEF Counted
<1>3. ASSUME NEW p \in Procs, PurgeBefore(p) PROVE [Ledger!LedgerNext]_(Ledger!ledger)
  BY <1>3, PurgeSettles
<1>4. CASE UNCHANGED spooled /\ UNCHANGED <<db, forgotten, purgedTo, erased>>
  BY <1>4 DEF db
<1> QED BY <1>1, <1>2, <1>3, <1>4, SpoolSteps, DatabaseSteps

-----------------------------------------------------------------------------
(* Who holds the database, and what the reports add up.                    *)
Held ==
  /\ lock = {p \in Procs : pc[p] \in {"move", "remove"}}
  /\ \A p, q \in lock : p = q

LEMMA HeldStep == Typed /\ Held /\ [SpoolNext]_vars => Held'
<1> SUFFICES ASSUME Typed, Held, [SpoolNext]_vars PROVE Held'
  OBVIOUS
<1> DEFINE Holds(x) == x \in {"move", "remove"}
<1>1. CASE UNCHANGED vars \/ Tick
  BY <1>1 DEF vars, Tick, Held
<1>2. ASSUME NEW p \in Procs, Acts(p) PROVE Held'
  <2>1. \A q \in Procs \ {p} : pc'[q] = pc[q]
    BY <1>2, OthersRest
  <2>2. ASSUME lock' = lock, Holds(pc[p]) <=> Holds(pc'[p]) PROVE Held'
    BY <2>1, <2>2 DEF Held
  <2>3. ASSUME lock' = lock \ {p}, ~Holds(pc'[p]) PROVE Held'
    BY <2>1, <2>3 DEF Held
  <2>4. ASSUME NEW place, Goto(p, place) PROVE pc'[p] = place
    BY <2>4 DEF Goto, Typed
  <2>5. CASE OpenDatabase(p)
    BY <2>1, <2>4, <2>5 DEF OpenDatabase, Held
  <2>6. CASE CloseDatabase(p) \/ MoveFails(p) \/ Crash(p)
    <3>1. lock' = lock \ {p}
      BY <2>6 DEF CloseDatabase, MoveFails, Crash, Held, Is
    <3>2. ~Holds(pc'[p])
      BY <2>4, <2>6 DEF CloseDatabase, MoveFails, Crash, Consolidated, Ends
    <3> QED BY <2>3, <3>1, <3>2
  <2>7. CASE MoveRun(p) \/ MoveMissing(p) \/ RemoveFile(p)
    BY <2>2, <2>4, <2>7 DEF MoveRun, MoveMissing, RemoveFile, Is
  <2>8. CASE \/ AppendProject(p) \/ SpoolProjectMetric(p) \/ ListSpool(p) \/ OpenFails(p)
             \/ PurgeBefore(p) \/ InspectStorage(p)
             \/ \E before \in 1..now : PurgeProjectBefore(p, before)
    <3>1. lock' = lock /\ ~Holds(pc[p]) /\ ~Holds(pc'[p])
      BY <2>4, <2>8 DEF AppendProject, SpoolProjectMetric, ListSpool, OpenFails, PurgeBefore,
        InspectStorage, Inspect, PurgeProjectBefore, Consolidated, Starts, Ends, Is
    <3> QED BY <2>2, <3>1
  <2> QED BY <1>2, <2>5, <2>6, <2>7, <2>8 DEF Acts
<1> QED BY <1>1, <1>2, StepsAreActs

LEMMA FilesAreFinite ==
  ASSUME Typed
  PROVE  /\ IsFiniteSet(Drawn) /\ IsFiniteSet(files) /\ Cardinality(files) \in Nat
<1>1. Drawn = 1..Len(stamps) /\ Len(stamps) \in Nat
  BY DEF Typed, Drawn
<1>2. IsFiniteSet(Drawn)
  BY <1>1, FS_Interval
<1>3. files \subseteq Drawn
  BY DEF Typed
<1> QED BY <1>2, <1>3, FS_Subset, FS_CardinalityType

(* As each run counts once, there are as many entries as runs counted.     *)
LEMMA EntriesAreRuns ==
  ASSUME Typed, Marked
  PROVE  IsFiniteSet(Counted) /\ Observed = Cardinality(Counted) /\ Observed \in Nat
<1>1. IsFiniteSet(RunIds) /\ Counted \subseteq RunIds
  BY SpoolAssumption, FS_Interval DEF RunIds, Counted
<1>2. IsFiniteSet(Counted) /\ Cardinality(Counted) \in Nat
  BY <1>1, FS_Subset, FS_CardinalityType
<1>3. Entries = Counted \X {1}
  <2>1. \A e \in RunIds : runs[e] \in Nat /\ runs[e] <= 1
    BY DEF Typed, Marked
  <2>2. 1..0 = {} /\ 1..1 = {1}
    OBVIOUS
  <2>3. \A e \in RunIds : 1..runs[e] = IF e \in Counted THEN {1} ELSE {}
    <3> SUFFICES ASSUME NEW e \in RunIds
                 PROVE  1..runs[e] = IF e \in Counted THEN {1} ELSE {}
      OBVIOUS
    <3>1. CASE runs[e] = 0
      BY <2>2, <3>1 DEF Counted
    <3>2. CASE runs[e] = 1
      <4>1. e \in Counted
        BY <3>2 DEF Counted
      <4> QED BY <2>2, <3>2, <4>1
    <3> QED BY <2>1, <3>1, <3>2
  <2>4. ASSUME NEW x \in Entries PROVE x \in Counted \X {1}
    <3>1. PICK e \in RunIds : x \in {e} \X (1..runs[e])
      BY <2>4 DEF Entries
    <3> QED BY <2>3, <3>1
  <2>5. ASSUME NEW e \in Counted PROVE <<e, 1>> \in Entries
    <3>1. e \in RunIds /\ <<e, 1>> \in {e} \X (1..runs[e])
      BY <2>3 DEF Counted
    <3>2. \E S \in {{d} \X (1..runs[d]) : d \in RunIds} : <<e, 1>> \in S
      BY <3>1
    <3> QED BY <3>2 DEF Entries
  <2> QED BY <2>4, <2>5
<1>4. IsFiniteSet({1}) /\ Cardinality({1}) = 1
  BY FS_Singleton
<1>5. Cardinality(Counted \X {1}) = Cardinality(Counted) * Cardinality({1})
  BY <1>2, <1>4, FS_Product
<1> QED BY <1>2, <1>3, <1>4, <1>5 DEF Observed

Summed == now <= MaxTime /\ sum \in [Procs -> Nat]

LEMMA SummedStep == Typed /\ Marked /\ Summed /\ [SpoolNext]_vars => Summed'
<1> SUFFICES ASSUME Typed, Marked, Summed, [SpoolNext]_vars PROVE Summed'
  OBVIOUS
<1>1. Cardinality(files) \in Nat /\ Observed \in Nat
  BY FilesAreFinite, EntriesAreRuns
<1>2. now' <= MaxTime
  <2>1. CASE Tick
    BY <2>1, SpoolAssumption DEF Tick, Typed
  <2>2. CASE UNCHANGED now
    BY <2>2 DEF Summed
  <2> QED BY <2>1, <2>2
    DEF SpoolNext, vars, AppendProject, SpoolProjectMetric, ListSpool, OpenDatabase, OpenFails,
        MoveRun, MoveMissing, MoveFails, RemoveFile, CloseDatabase, PurgeProjectBefore,
        PurgeBefore, InspectStorage, Inspect, Crash
<1>3. ASSUME NEW p \in Procs, Ends(p) PROVE sum' \in [Procs -> Nat]
  BY <1>3 DEF Summed, Ends
<1>4. ASSUME NEW p \in Procs, InspectStorage(p) PROVE sum' \in [Procs -> Nat]
  <2>1. CASE sum' = [sum EXCEPT ![p] = Cardinality(files)]
    BY <1>1, <2>1 DEF Summed
  <2>2. CASE sum' = [sum EXCEPT ![p] = @ + Observed]
    BY <1>1, <2>2 DEF Summed
  <2> QED BY <1>3, <1>4, <2>1, <2>2 DEF InspectStorage, Inspect
<1>5. sum' \in [Procs -> Nat]
  BY <1>3, <1>4 DEF Summed, SpoolNext, vars, job, Tick, AppendProject, SpoolProjectMetric,
     ListSpool, OpenDatabase, OpenFails, MoveRun, MoveMissing, MoveFails, RemoveFile, CloseDatabase,
     PurgeProjectBefore, PurgeBefore, Crash, Consolidated
<1> QED BY <1>2, <1>5 DEF Summed

-----------------------------------------------------------------------------
(* Pending was read before observed: what was neither counted nor          *)
(* forgotten then had a file, and a run never goes back to that.           *)
Waiting(p) == {e \in due[p] \ forgotten : runs[e] = 0}

Reported ==
  \A p \in Procs :
    /\ Is(p, "inspect") => Cardinality(Waiting(p)) <= sum[p]
    /\ Is(p, "reported") => Cardinality(due[p] \ forgotten) <= sum[p]

LEMMA DueIsFinite ==
  ASSUME Typed, NEW p \in Procs, NEW S \in SUBSET due[p]
  PROVE  IsFiniteSet(S) /\ Cardinality(S) \in Nat
BY FilesAreFinite, FS_Subset, FS_CardinalityType DEF Typed

LEMMA OthersSum ==
  ASSUME Summed, NEW p \in Procs, NEW q \in Procs, p # q, Acts(p)
  PROVE  sum'[q] = sum[q]
<1>1. ASSUME Ends(p) PROVE sum'[q] = sum[q]
  BY <1>1 DEF Ends, Summed
<1>2. CASE InspectStorage(p)
  BY <1>1, <1>2 DEF InspectStorage, Inspect, Summed
<1> QED BY <1>1, <1>2
  DEF Acts, AppendProject, SpoolProjectMetric, ListSpool, OpenDatabase, OpenFails, MoveRun,
      MoveMissing, MoveFails, RemoveFile, CloseDatabase, PurgeProjectBefore, PurgeBefore, Crash,
      Consolidated, job

LEMMA ReportedStep ==
  Typed /\ Marked /\ Kept /\ Summed /\ Reported /\ [SpoolNext]_vars => Reported'
<1> SUFFICES ASSUME Typed, Marked, Kept, Summed, Reported, [SpoolNext]_vars, NEW q \in Procs
             PROVE  /\ Is(q, "inspect")' => Cardinality(Waiting(q)') <= sum'[q]
                    /\ Is(q, "reported")' => Cardinality(due'[q] \ forgotten') <= sum'[q]
  BY DEF Reported, Is
<1>1. /\ Typed' /\ Summed' /\ Drawn \subseteq RunIds
      /\ due[q] \subseteq spooled /\ spooled \subseteq Drawn
      /\ sum[q] \in Nat /\ sum'[q] \in Nat
  BY TypedStep, SummedStep, RunsAreIds DEF Typed, Summed
<1>2. forgotten \subseteq forgotten'
  BY DatabaseSteps DEF MoveRun, CommitSpoolEvent, PurgeBefore
<1>3. \A e \in due[q] : runs[e] > 0 \/ e \in forgotten => runs'[e] > 0 \/ e \in forgotten'
  BY <1>1, SettledStays DEF Settled
<1>4. CASE pc'[q] = pc[q] /\ due'[q] = due[q] /\ sum'[q] = sum[q]
  <2>1. Waiting(q)' \subseteq Waiting(q) /\ due'[q] \ forgotten' \subseteq due[q] \ forgotten
    <3>1. \A e \in due[q] : runs[e] \in Nat
      BY <1>1 DEF Typed
    <3> QED BY <1>2, <1>3, <1>4, <3>1 DEF Waiting
  <2>2. /\ Cardinality(Waiting(q)') <= Cardinality(Waiting(q))
        /\ Cardinality(due'[q] \ forgotten') <= Cardinality(due[q] \ forgotten)
    <3>1. Waiting(q) \in SUBSET due[q] /\ due[q] \ forgotten \in SUBSET due[q]
      BY DEF Waiting
    <3>2. IsFiniteSet(Waiting(q)) /\ IsFiniteSet(due[q] \ forgotten)
      BY <3>1, DueIsFinite
    <3> QED BY <2>1, <3>2, FS_Subset
  <2>3. /\ Cardinality(Waiting(q)') \in Nat /\ Cardinality(Waiting(q)) \in Nat
        /\ Cardinality(due'[q] \ forgotten') \in Nat /\ Cardinality(due[q] \ forgotten) \in Nat
    <3>1. /\ Waiting(q)' \in SUBSET due[q] /\ Waiting(q) \in SUBSET due[q]
          /\ due'[q] \ forgotten' \in SUBSET due[q] /\ due[q] \ forgotten \in SUBSET due[q]
      BY <1>4 DEF Waiting
    <3> QED BY <3>1, DueIsFinite
  <2> QED BY <1>1, <1>4, <2>2, <2>3 DEF Reported, Is
<1>5. CASE InspectStorage(q)
  <2>0. UNCHANGED <<runs, forgotten, files, spooled>>
    BY <1>5 DEF InspectStorage, Inspect, db, history
  <2>1. CASE Starts(q, "inspect", {}, 0, spooled) /\ sum' = [sum EXCEPT ![q] = Cardinality(files)]
    <3>1. pc'[q] = "inspect" /\ due'[q] = spooled /\ sum'[q] = Cardinality(files)
      BY <2>1 DEF Starts, Goto, Typed, Summed
    <3>2. Waiting(q)' \in SUBSET files
      BY <2>0, <3>1 DEF Waiting, Kept, Settled
    <3>3. IsFiniteSet(files)
      BY FilesAreFinite
    <3>4. Cardinality(Waiting(q)') <= Cardinality(files)
      BY <3>2, <3>3, FS_Subset
    <3> QED BY <3>1, <3>4 DEF Is
  <2>2. CASE Is(q, "inspect") /\ Goto(q, "reported") /\ sum' = [sum EXCEPT ![q] = @ + Observed]
             /\ UNCHANGED due
    <3>1. pc'[q] = "reported" /\ due'[q] = due[q] /\ sum'[q] = sum[q] + Observed
      BY <2>2 DEF Goto, Typed, Summed
    <3>2. Cardinality(Waiting(q)) <= sum[q]
      BY <2>2 DEF Reported
    <3>3. due[q] \ forgotten \subseteq Waiting(q) \union Counted
      BY <1>1 DEF Waiting, Counted, Typed
    <3>4. IsFiniteSet(Waiting(q)) /\ Cardinality(Waiting(q)) \in Nat
      BY DueIsFinite DEF Waiting
    <3>5. IsFiniteSet(Counted) /\ Cardinality(Counted) \in Nat /\ Observed = Cardinality(Counted)
      BY EntriesAreRuns
    <3> DEFINE both == Waiting(q) \intersect Counted
    <3>6. IsFiniteSet(both) /\ Cardinality(both) \in Nat
      BY <3>4, FS_Subset, FS_CardinalityType
    <3>7. /\ IsFiniteSet(Waiting(q) \union Counted)
          /\ Cardinality(Waiting(q) \union Counted)
               = Cardinality(Waiting(q)) + Cardinality(Counted) - Cardinality(both)
      BY <3>4, <3>5, FS_Union
    <3>8. Cardinality(due[q] \ forgotten) <= Cardinality(Waiting(q) \union Counted)
      BY <3>3, <3>7, FS_Subset
    <3>9. Cardinality(due[q] \ forgotten) \in Nat
      BY DueIsFinite
    <3> HIDE DEF both
    <3>10. Cardinality(due[q] \ forgotten) <= sum[q] + Observed
      BY <1>1, <3>2, <3>4, <3>5, <3>6, <3>7, <3>8, <3>9
    <3> QED BY <2>0, <3>1, <3>10 DEF Is
  <2>3. CASE Ends(q)
    BY <2>3 DEF Ends, Goto, Is, Typed
  <2> QED BY <1>5, <2>1, <2>2, <2>3 DEF InspectStorage, Inspect
<1>6. CASE Acts(q) /\ ~InspectStorage(q)
  <2>1. ASSUME NEW place, place \notin {"inspect", "reported"}, Goto(q, place)
        PROVE  pc'[q] \notin {"inspect", "reported"}
    BY <2>1 DEF Goto, Typed
  <2>2. CASE MoveMissing(q)
    BY <2>2 DEF MoveMissing, Is
  <2>3. CASE \E place : place \notin {"inspect", "reported"} /\ Goto(q, place)
    BY <2>1, <2>3 DEF Is
  <2> QED BY <1>6, <2>2, <2>3
    DEF Acts, AppendProject, SpoolProjectMetric, ListSpool, OpenDatabase, OpenFails, MoveRun,
        MoveFails, RemoveFile, CloseDatabase, PurgeProjectBefore, PurgeBefore, Crash,
        Consolidated, Starts, Ends
<1>7. CASE UNCHANGED vars \/ Tick
  BY <1>4, <1>7 DEF vars, job, Tick
<1>8. ASSUME NEW p \in Procs, p # q, Acts(p)
      PROVE  pc'[q] = pc[q] /\ due'[q] = due[q] /\ sum'[q] = sum[q]
  BY <1>8, OthersRest, OthersSum
<1> QED BY <1>4, <1>5, <1>6, <1>7, <1>8, StepsAreActs

-----------------------------------------------------------------------------
(* Theorems *)

LEMMA InitialState ==
  SpoolInit => Typed /\ Marked /\ Kept /\ Fresh /\ Gone /\ Held /\ Summed /\ Reported /\ Ledger!LedgerInit
<1> SUFFICES ASSUME SpoolInit
             PROVE  /\ Typed /\ Marked /\ Kept /\ Fresh /\ Gone /\ Held /\ Summed /\ Reported
                    /\ Ledger!LedgerInit
  OBVIOUS
<1>1. now = 0 /\ purgedTo = 0 /\ stamps = <<>> /\ Drawn = {}
  BY DEF SpoolInit, Drawn
<1>2. /\ files = {} /\ spooled = {} /\ marks = {} /\ forgotten = {} /\ erased = {} /\ lock = {}
      /\ \A e \in RunIds : runs[e] = 0
  BY DEF SpoolInit
<1>3. \A p \in Procs : pc[p] = "idle"
  BY DEF SpoolInit
<1>4. Typed
  <2>1. stamps \in Seq(Nat) /\ Len(stamps) <= MaxRuns
    BY <1>1, SpoolAssumption
  <2>2. runs \in [RunIds -> Nat]
    BY DEF SpoolInit
  <2>3. /\ pc \in [Procs -> Places] /\ failed \in [Procs -> BOOLEAN]
        /\ todo \in [Procs -> SUBSET Drawn] /\ due \in [Procs -> SUBSET spooled]
        /\ cutoff \in [Procs -> Nat]
    <3>1. "idle" \in Places
      BY DEF Places
    <3> QED BY <3>1 DEF SpoolInit
  <2> QED BY <1>1, <1>2, <2>1, <2>2, <2>3 DEF Typed
<1>5. Marked /\ Kept
  BY <1>2, <1>3 DEF Marked, Kept, Is
<1>6. Fresh /\ Gone
  BY <1>2, <1>3 DEF Fresh, Gone, Reaches, Is
<1>7. Held
  BY <1>2, <1>3 DEF Held
<1>8. Summed
  BY <1>1, SpoolAssumption DEF Summed, SpoolInit
<1>9. Reported
  BY <1>3 DEF Reported, Is
<1>10. Ledger!LedgerInit
  BY <1>2 DEF Ledger!LedgerInit
<1> QED BY <1>4, <1>5, <1>6, <1>7, <1>8, <1>9, <1>10

(* However often a file is moved, and whoever crashes in between, the      *)
(* marker keeps a run from being counted twice (commitSpoolEvent).         *)
THEOREM EachRunCountsOnce == SpoolSpec => []CountedOnce
<1>1. SpoolInit => Typed /\ Marked
  BY InitialState
<1>2. Marked => CountedOnce
  BY DEF Marked, CountedOnce
<1> QED BY <1>1, <1>2, TypedStep, MarkedStep, PTL DEF SpoolSpec

(* A run whose file was written is pending or counted as long as it is     *)
(* neither past the retention nor purged (consolidateSpoolEvent).          *)
THEOREM NoRunIsForgotten == SpoolSpec => []NothingForgotten
<1>1. SpoolInit => Typed /\ Marked /\ Kept
  BY InitialState
<1>2. Kept => NothingForgotten
  BY DEF Kept, Settled, NothingForgotten
<1> QED BY <1>1, <1>2, TypedStep, MarkedStep, KeptStep, PTL DEF SpoolSpec

(* What a successful purge deleted never comes back: no file of it was     *)
(* left to be moved (PurgeProjectBefore).                                  *)
THEOREM ErasedIsErased == SpoolSpec => []ErasedStaysErased
<1>1. SpoolInit => Typed /\ Fresh /\ Gone
  BY InitialState
<1>2. Gone => ErasedStaysErased
  BY DEF Gone, ErasedStaysErased
<1> QED BY <1>1, <1>2, TypedStep, FreshStep, GoneStep, PTL DEF SpoolSpec

(* Files, transactions and crashes are a ledger: every step is recording   *)
(* a run, settling one, or nothing.                                        *)
THEOREM SpoolIsALedger == SpoolSpec => ImplementsLedger
<1>1. SpoolInit => Typed /\ Marked /\ Fresh /\ Ledger!LedgerInit
  BY InitialState
<1> QED BY <1>1, TypedStep, MarkedStep, FreshStep, LedgerStep, PTL
  DEF SpoolSpec, ImplementsLedger, Ledger!LedgerSpec

(* Every value has its type, and one process at most holds the database    *)
(* (openDBAt).                                                             *)
THEOREM SpoolTypeCorrect == SpoolSpec => []SpoolTypeOK
<1>1. SpoolInit => Typed /\ Marked /\ Fresh /\ Gone /\ Held /\ Summed
  BY InitialState
<1>2. Typed /\ Marked /\ Gone /\ Held /\ Summed => SpoolTypeOK
  <2> SUFFICES ASSUME Typed, Marked, Gone, Held, Summed PROVE SpoolTypeOK
    OBVIOUS
  <2>1. Cardinality(lock) <= 1
    <3>1. lock = {} \/ \E p \in lock : lock = {p}
      BY DEF Held
    <3>2. Cardinality({}) <= 1 /\ \A p : Cardinality({p}) <= 1
      BY FS_EmptySet, FS_Singleton
    <3> QED BY <3>1, <3>2
  <2>2. due \in [Procs -> SUBSET Drawn]
    BY DEF Typed
  <2> QED BY <2>1, <2>2, SpoolAssumption DEF Typed, Marked, Gone, Held, Summed, SpoolTypeOK
<1> QED BY <1>1, <1>2, TypedStep, MarkedStep, FreshStep, GoneStep, HeldStep, SummedStep, PTL
  DEF SpoolSpec

(* Pending and observed together account for every run that was durable    *)
(* when the report began (InspectStorage).                                 *)
THEOREM StatusIsComplete == SpoolSpec => []StatusCoversDurable
<1>1. SpoolInit => Typed /\ Marked /\ Kept /\ Summed /\ Reported
  BY InitialState
<1>2. Typed /\ Summed /\ Reported => StatusCoversDurable
  <2> SUFFICES ASSUME Typed, Summed, Reported, NEW p \in Procs, Is(p, "reported")
               PROVE  sum[p] >= Cardinality(due[p] \ forgotten)
    BY DEF StatusCoversDurable
  <2>1. Cardinality(due[p] \ forgotten) \in Nat /\ sum[p] \in Nat
    BY DueIsFinite DEF Summed
  <2> QED BY <2>1 DEF Reported
<1> QED BY <1>1, <1>2, TypedStep, MarkedStep, KeptStep, SummedStep, ReportedStep, PTL DEF SpoolSpec
=============================================================================
