-------------------------- MODULE WorkspacesProofs --------------------------
(***************************************************************************)
(* What Workspaces promises of an uninstall, a purge and a report, for any *)
(* projects, directories and runs.                                         *)
(***************************************************************************)
EXTENDS Workspaces, FiniteSetTheorems, TLAPS

-----------------------------------------------------------------------------
(* An uninstall finds all.  What is behind it has been removed from every  *)
(* directory it knows of, and only then it forgets them.                   *)

Elements(s) == {s[i] : i \in DOMAIN s}

Uninstalls ==
  [kind : {"uninstall"}, step : {"adapters", "state", "home", "executable"},
   scopes : SUBSET Dirs, left : Seq(Dirs)]

Forgettable(d) == artifacts[d] = {} /\ d \notin files \ late

Progress ==
  /\ op.step = "adapters" => \A d \in known : d \in Elements(op.left) \/ artifacts[d] = {}
  /\ op.step # "adapters" => artifacts[Home] = {} /\ \A d \in known : artifacts[d] = {}
  /\ op.step \in {"home", "executable"} => \A d \in known : Forgettable(d)

FindInv ==
  /\ known \subseteq Dirs
  /\ artifacts = [p \in Dirs \union {Home} |-> artifacts[p]]
  /\ registry = [d \in Dirs |-> registry[d]]
  /\ "kind" \in DOMAIN op
  /\ ~uninstalling => known = {} /\ op.kind \in {"idle", "report", "purge"}
  /\ uninstalling => given = "uninstall" /\ op.kind \in {"idle", "uninstall", "uninstalled"}
  /\ op.kind = "uninstall" => op \in Uninstalls /\ known \subseteq op.scopes /\ Progress
  /\ given = "uninstall" => op.kind \in {"idle", "uninstall", "uninstalled"}
  /\ \A d \in known : registry[d] # Unlisted \/ Forgettable(d)
  /\ op.kind = "uninstalled" => artifacts[Home] = {}

\* A set as a sequence has the elements of the set, each of them once.
LEMMA AllInSequence ==
  ASSUME NEW S, IsFiniteSet(S)
  PROVE  /\ SetToSeq(S) \in Seq(S) /\ Elements(SetToSeq(S)) = S
         /\ \A i, j \in DOMAIN SetToSeq(S) : SetToSeq(S)[i] = SetToSeq(S)[j] => i = j
<1> DEFINE n == Cardinality(S)
<1>1. n \in Nat BY FS_CardinalityType
<1>2. ExistsBijection(1..n, S) BY FS_CountingElements, FS_CardinalityType
<1>3. PICK g : g \in [1..n -> S] /\ IsInjective(g)
  BY <1>2 DEF ExistsBijection, Bijection, Injection
<1>4. SetToSeq(S) \in [1..n -> S] /\ IsInjective(SetToSeq(S))
  BY <1>3 DEF SetToSeq
<1> DEFINE f == SetToSeq(S)
<1> HIDE DEF f
<1>5. f \in Injection(1..n, S) BY <1>4 DEF Injection, f
<1>6. Cardinality(1..n) = n /\ IsFiniteSet(1..n) BY <1>1, FS_Interval
<1>7. f \in Surjection(1..n, S) BY <1>5, <1>6, FS_Injection
<1>8. Elements(f) = S BY <1>4, <1>7 DEF Elements, Surjection, f
<1>9. f \in Seq(S) BY <1>1, <1>4 DEF f
<1>10. \A i, j \in DOMAIN f : f[i] = f[j] => i = j BY <1>4 DEF IsInjective, f
<1> QED BY <1>8, <1>9, <1>10 DEF f

LEMMA ElementsAfterFirst ==
  ASSUME NEW S, NEW s \in Seq(S), s # <<>>
  PROVE  /\ Tail(s) \in Seq(S) /\ Head(s) \in S
         /\ Elements(s) = {Head(s)} \cup Elements(Tail(s))
<1>1. Tail(s) \in Seq(S) /\ Head(s) \in S /\ Len(s) \in Nat /\ Len(s) # 0 /\ Len(Tail(s)) = Len(s) - 1
  OBVIOUS
<1>2. \A i \in 1..(Len(s) - 1) : Tail(s)[i] = s[i + 1] OBVIOUS
<1>3. Head(s) = s[1] OBVIOUS
<1>4. DOMAIN s = 1..Len(s) /\ DOMAIN Tail(s) = 1..(Len(s) - 1) BY <1>1
<1>5. ASSUME NEW i \in DOMAIN s PROVE s[i] \in {Head(s)} \cup Elements(Tail(s))
  <2>1. CASE i = 1 BY <1>3, <2>1
  <2>2. CASE i # 1
    <3>1. i - 1 \in DOMAIN Tail(s) /\ s[i] = Tail(s)[i - 1] BY <1>1, <1>2, <1>4, <2>2
    <3> QED BY <3>1 DEF Elements
  <2> QED BY <2>1, <2>2
<1>6. ASSUME NEW i \in DOMAIN Tail(s) PROVE Tail(s)[i] \in Elements(s)
  <2>1. i + 1 \in DOMAIN s /\ Tail(s)[i] = s[i + 1] BY <1>1, <1>2, <1>4
  <2> QED BY <2>1 DEF Elements
<1>7. Head(s) \in Elements(s) BY <1>1, <1>3, <1>4 DEF Elements
<1> QED BY <1>1, <1>5, <1>6, <1>7 DEF Elements

LEMMA ElementsWithFirst ==
  ASSUME NEW S, NEW s \in Seq(S), NEW e \in S
  PROVE  <<e>> \o s \in Seq(S) /\ Elements(<<e>> \o s) = {e} \cup Elements(s)
<1>1. <<e>> \o s \in Seq(S) /\ <<e>> \o s # <<>> OBVIOUS
<1>2. Head(<<e>> \o s) = e /\ Tail(<<e>> \o s) = s OBVIOUS
<1> QED BY <1>1, <1>2, ElementsAfterFirst

LEMMA FindInitially == Init => FindInv
BY DEF Init, Idle, FindInv, Forgettable

\* What a run that ends does to an uninstall.
LEMMA FindEndRun ==
  ASSUME FindInv, NEW root \in Roots, EndRun(root)
  PROVE  FindInv'
<1> USE DEF FindInv
<1>1. UNCHANGED <<artifacts, op, setup, known>> /\ late' = IF uninstalling THEN late \union {root} ELSE late
  BY DEF EndRun
<1>2. files' \in {files, files \union {root}} /\ registry' \in {registry, Upserted(root, root)}
  BY DEF EndRun, Upsert
<1>3. root # Unlisted /\ root # NoMetrics /\ root \in Dirs BY WorkspacesAssumption DEF WorkspacesAssumption, Dirs
<1>4. registry' = [d \in Dirs |-> registry'[d]] /\ \A d \in Dirs : registry[d] # Unlisted => registry'[d] # Unlisted
  BY <1>2, <1>3 DEF Upserted
<1>5. \A d \in known : Forgettable(d) => Forgettable(d)' BY <1>1, <1>2 DEF Forgettable
<1>6. op.kind = "uninstall" => Progress' BY <1>1, <1>5 DEF Progress, Uninstalls
<1> QED BY <1>1, <1>4, <1>5, <1>6 DEF setup

LEMMA FindStart ==
  ASSUME FindInv, NEW c \in Calls, StartUninstall(c.cwd)
  PROVE  FindInv'
<1> USE DEF FindInv
<1> DEFINE cwd == c.cwd
<1>1. cwd \in Dirs /\ IsFiniteSet(Dirs) BY WorkspacesAssumption DEF WorkspacesAssumption
<1>2. given = "uninstall" /\ ~uninstalling /\ uninstalling' = TRUE
      /\ UNCHANGED <<now, runs, store, registry, artifacts, inits, given, promised, late>>
  BY DEF StartUninstall
<1>3. PICK entries \in {{}, Registered} :
        /\ op' = [kind |-> "uninstall", step |-> "adapters", scopes |-> {cwd} \union entries,
                  left |-> <<cwd>> \o SetToSeq(entries \ {cwd})]
        /\ known' = entries
  BY DEF StartUninstall
<1>4. entries \subseteq Dirs /\ \A d \in entries : registry[d] # Unlisted BY <1>3 DEF Registered
<1>5. IsFiniteSet(entries \ {cwd}) BY <1>1, <1>4, FS_Subset
<1> DEFINE rest == SetToSeq(entries \ {cwd})
<1>6. rest \in Seq(entries \ {cwd}) /\ Elements(rest) = entries \ {cwd} BY <1>5, AllInSequence
<1> HIDE DEF rest
<1>7. rest \in Seq(Dirs) BY <1>4, <1>6
<1>8. <<cwd>> \o rest \in Seq(Dirs) /\ Elements(<<cwd>> \o rest) = {cwd} \cup (entries \ {cwd})
  BY <1>1, <1>6, <1>7, ElementsWithFirst
<1> DEFINE todo == <<cwd>> \o rest
<1> HIDE DEF todo
<1>9. op' = [kind |-> "uninstall", step |-> "adapters", scopes |-> {cwd} \union entries, left |-> todo]
  BY <1>3 DEF rest, todo
<1>10. op' \in Uninstalls BY <1>1, <1>4, <1>8, <1>9 DEF Uninstalls, todo
<1>11. Progress'
  <2>1. op'.step = "adapters" /\ op'.left = todo BY <1>9
  <2>2. known' \subseteq Elements(todo) BY <1>3, <1>8 DEF todo
  <2> QED BY <2>1, <2>2 DEF Progress
<1>12. known' \subseteq op'.scopes /\ op'.kind = "uninstall" /\ "kind" \in DOMAIN op' BY <1>3, <1>9
<1> QED BY <1>2, <1>3, <1>4, <1>10, <1>11, <1>12

LEMMA FindAdapters ==
  ASSUME FindInv, RemoveIntegrations
  PROVE  FindInv'
<1> USE DEF FindInv
<1>1. op.kind = "uninstall" /\ op.step = "adapters" /\ op.left # <<>> /\ op \in Uninstalls /\ Progress
      /\ UNCHANGED <<now, runs, store, registry, setup, history>>
  BY DEF RemoveIntegrations, Is
<1> DEFINE h == Head(op.left)
<1>2. h \in Dirs /\ Tail(op.left) \in Seq(Dirs) /\ Elements(op.left) = {h} \cup Elements(Tail(op.left))
  <2>1. op.left \in Seq(Dirs) BY <1>1 DEF Uninstalls
  <2> QED BY <1>1, <2>1, ElementsAfterFirst
<1>3. Home \notin Dirs /\ h # Home BY <1>2, WorkspacesAssumption DEF WorkspacesAssumption
<1> HIDE DEF h
<1>4. PICK here \in Remains(h), home \in Remains(Home) :
        /\ artifacts' = [artifacts EXCEPT ![h] = here, ![Home] = home]
        /\ op' = IF here = {} /\ home = {}
                 THEN [op EXCEPT !.left = Tail(@), !.step = IF Tail(op.left) = <<>> THEN "state" ELSE @]
                 ELSE Idle
  BY DEF RemoveIntegrations, h
<1>5. artifacts'[Home] = home /\ artifacts'[h] = here /\ \A d \in Dirs \ {h} : artifacts'[d] = artifacts[d]
  BY <1>2, <1>3, <1>4
<1>6. artifacts' = [p \in Dirs \union {Home} |-> artifacts'[p]] BY <1>4
<1>7. \A d \in Dirs : artifacts[d] = {} => artifacts'[d] = {}
  BY <1>5 DEF Remains
<1>8. UNCHANGED <<files, late, known, registry, uninstalling, given>> BY <1>1 DEF store, setup, history
<1>9. \A d \in known : Forgettable(d) => Forgettable(d)' BY <1>7, <1>8 DEF Forgettable
<1>10. CASE op' = Idle
  BY <1>1, <1>6, <1>8, <1>9, <1>10 DEF Idle
<1>11. CASE here = {} /\ home = {}
  <2>1. op' = [op EXCEPT !.left = Tail(@), !.step = IF Tail(op.left) = <<>> THEN "state" ELSE @] BY <1>4, <1>11
  <2>2. /\ op'.kind = "uninstall" /\ op'.scopes = op.scopes /\ op'.left = Tail(op.left)
        /\ op'.step = IF Tail(op.left) = <<>> THEN "state" ELSE "adapters"
        /\ "kind" \in DOMAIN op'
    BY <1>1, <2>1 DEF Uninstalls
  <2>3. op' \in Uninstalls BY <1>1, <1>2, <2>1 DEF Uninstalls
  <2>4. \A d \in known : d \in Elements(Tail(op.left)) \/ artifacts'[d] = {}
    BY <1>1, <1>2, <1>5, <1>7, <1>11 DEF Progress
  <2>5. Tail(op.left) = <<>> => Elements(Tail(op.left)) = {} BY DEF Elements
  <2>6. Progress' BY <1>5, <1>8, <1>11, <2>2, <2>4, <2>5 DEF Progress
  <2> QED BY <1>1, <1>6, <1>8, <1>9, <2>2, <2>3, <2>6
<1> QED BY <1>4, <1>10, <1>11

LEMMA FindState ==
  ASSUME FindInv, RemoveWorkspaceState
  PROVE  FindInv'
<1> USE DEF FindInv
<1>1. op.kind = "uninstall" /\ op.step = "state" /\ op \in Uninstalls /\ Progress
      /\ UNCHANGED <<registry, artifacts, uninstalling, given, known, late>>
  BY DEF RemoveWorkspaceState, Is, setup, history
<1>2. PICK stuck \in SUBSET (op.scopes \intersect files) :
        /\ files' = files \ (op.scopes \ stuck)
        /\ op' = IF stuck = {} THEN [op EXCEPT !.step = "home"] ELSE Idle
  BY DEF RemoveWorkspaceState
<1>3. \A d \in known : Forgettable(d) => Forgettable(d)' BY <1>1, <1>2 DEF Forgettable
<1>4. CASE stuck = {}
  <2>1. op' = [op EXCEPT !.step = "home"] BY <1>2, <1>4
  <2>2. op'.kind = "uninstall" /\ op'.scopes = op.scopes /\ op'.step = "home" /\ "kind" \in DOMAIN op' /\ op' \in Uninstalls
    BY <1>1, <2>1 DEF Uninstalls
  <2>3. \A d \in known : Forgettable(d)' BY <1>1, <1>2, <1>4 DEF Forgettable, Progress
  <2>4. Progress' BY <1>1, <2>2, <2>3 DEF Progress
  <2> QED BY <1>1, <1>3, <2>2, <2>4
<1>5. CASE stuck # {}
  BY <1>1, <1>2, <1>3, <1>5 DEF Idle
<1> QED BY <1>4, <1>5

LEMMA FindHome ==
  ASSUME FindInv, RemoveGlobalState \/ RemoveExecutable
  PROVE  FindInv'
<1> USE DEF FindInv
<1>1. op.kind = "uninstall" /\ op.step \in {"home", "executable"} /\ op \in Uninstalls /\ Progress
      /\ UNCHANGED <<artifacts, files, uninstalling, given, known, late>>
  BY DEF RemoveGlobalState, RemoveExecutable, Is, setup, history, store
<1>2. registry' \in {registry, [d \in Dirs |-> Unlisted]}
  BY DEF RemoveGlobalState, RemoveExecutable
<1>3. op' \in {Idle, [kind |-> "uninstalled"], [op EXCEPT !.step = "executable"]}
  BY DEF RemoveGlobalState, RemoveExecutable
<1>4. artifacts[Home] = {} /\ \A d \in known : Forgettable(d)' BY <1>1 DEF Progress, Forgettable
<1>5. registry' = [d \in Dirs |-> registry'[d]] BY <1>2
<1>6. CASE op' \in {Idle, [kind |-> "uninstalled"]} BY <1>1, <1>4, <1>5, <1>6 DEF Idle
<1>7. CASE op' = [op EXCEPT !.step = "executable"]
  <2>1. op'.kind = "uninstall" /\ op'.scopes = op.scopes /\ op'.step = "executable" /\ "kind" \in DOMAIN op' /\ op' \in Uninstalls
    BY <1>1, <1>7 DEF Uninstalls
  <2>2. Progress' BY <1>1, <1>4, <2>1 DEF Progress
  <2> QED BY <1>1, <1>4, <1>5, <2>1, <2>2
<1> QED BY <1>3, <1>6, <1>7

\* Reports and purges are given where no uninstall is.
LEMMA FindOthers ==
  ASSUME FindInv,
         \/ \E r \in Requests : RunGain(r) \/ RunHistory(r) \/ RunFilterPerformance(r)
         \/ QuerySource \/ FinishDataset \/ NextDataset
         \/ \E c \in Calls, window \in Windows : StartPurge(c.cwd, c.global, window)
         \/ PurgeSource \/ FinishPurge
  PROVE  FindInv'
<1> USE DEF FindInv
<1>1. given # "uninstall" /\ ~uninstalling /\ known = {}
  BY DEF RunGain, RunHistory, RunFilterPerformance, StartReport, QuerySource, FinishDataset, NextDataset,
         StartPurge, PurgeSource, FinishPurge, Is
<1>2. UNCHANGED <<artifacts, uninstalling, given, known>>
  BY DEF RunGain, RunHistory, RunFilterPerformance, StartReport, QuerySource, FinishDataset, NextDataset,
         StartPurge, PurgeSource, FinishPurge, setup, history
<1>3. registry' = registry \/ \E d, root : registry' = Upserted(d, root)
  BY DEF RunGain, RunHistory, RunFilterPerformance, StartReport, QuerySource, FinishDataset, NextDataset,
         StartPurge, PurgeSource, FinishPurge, UpsertCurrent, Upsert
<1>4. registry' = [d \in Dirs |-> registry'[d]] BY <1>3 DEF Upserted
<1>5. op'.kind \in {"idle", "report", "purge"} /\ "kind" \in DOMAIN op'
  <2>1. CASE \E r \in Requests : RunGain(r) \/ RunHistory(r) \/ RunFilterPerformance(r)
    BY <2>1 DEF RunGain, RunHistory, RunFilterPerformance, StartReport
  <2>2. CASE QuerySource
    <3> DEFINE records == Wanted(stored[Head(op.left)[2]])
               rows == Joined(Dataset, op.rows, Query(Dataset, Period(Dataset), records))
    <3>1. \/ op' = Idle
          \/ op' = [op EXCEPT !.left = Tail(@), !.finished = "none"]
          \/ op' = [op EXCEPT !.left = Tail(@), !.finished = "none", !.warned = @ \union {Head(op.left)[2]}]
          \/ op' = [op EXCEPT !.left = Tail(@), !.finished = "none", !.rows = rows, !.read = Append(@, records)]
      BY <2>2, Zenon DEF QuerySource
    <3>2. op.kind = "report" BY <2>2 DEF QuerySource, Is
    <3> HIDE DEF records, rows
    <3>3. "kind" \in DOMAIN op OBVIOUS
    <3> HIDE DEF FindInv
    <3>4. CASE op' = Idle BY <3>4 DEF Idle
    <3>5. CASE op' = [op EXCEPT !.left = Tail(@), !.finished = "none"] BY <3>2, <3>3, <3>5
    <3>6. CASE op' = [op EXCEPT !.left = Tail(@), !.finished = "none", !.warned = @ \union {Head(op.left)[2]}]
      BY <3>2, <3>3, <3>6
    <3>7. CASE op' = [op EXCEPT !.left = Tail(@), !.finished = "none", !.rows = rows, !.read = Append(@, records)]
      BY <3>2, <3>3, <3>7
    <3> QED BY <3>1, <3>4, <3>5, <3>6, <3>7
  <2>3. CASE FinishDataset BY <2>3 DEF FinishDataset, Is
  <2>4. CASE NextDataset BY <2>4 DEF NextDataset, Is, Idle
  <2>5. CASE \E c \in Calls, window \in Windows : StartPurge(c.cwd, c.global, window)
    BY <2>5 DEF StartPurge
  <2>6. CASE PurgeSource
    <3>1. op' = Idle \/ op' = [op EXCEPT !.left = Tail(@)] BY <2>6 DEF PurgeSource
    <3>2. op.kind = "purge" /\ "kind" \in DOMAIN op BY <2>6 DEF PurgeSource, Is
    <3> HIDE DEF FindInv
    <3> QED BY <3>1, <3>2 DEF Idle
  <2>7. CASE FinishPurge BY <2>7 DEF FinishPurge, Idle
  <2> QED BY <2>1, <2>2, <2>3, <2>4, <2>5, <2>6, <2>7
<1> QED BY <1>1, <1>2, <1>4, <1>5

LEMMA FindStep == FindInv /\ [Next]_vars => FindInv'
<1> SUFFICES ASSUME FindInv, [Next]_vars PROVE FindInv' OBVIOUS
<1>1. CASE UNCHANGED vars \/ Tick \/ \E root \in Roots : Damage(root)
  <2>1. UNCHANGED <<files, registry, artifacts, op, setup, history>>
    BY <1>1 DEF vars, Tick, Damage, store
  <2>2. Progress' = Progress /\ \A d \in known : Forgettable(d)' = Forgettable(d)
    BY <2>1 DEF Progress, Forgettable, history
  <2> QED BY <2>1, <2>2 DEF FindInv, setup, history
<1>2. CASE Crash
  BY <1>2 DEF Crash, Idle, FindInv, Progress, Forgettable, setup, history, store
<1>3. ASSUME NEW root \in Roots, EndRun(root) PROVE FindInv' BY <1>3, FindEndRun
<1>4. ASSUME NEW d \in Dirs, NEW place \in {d, Home}, RunInit(d, place) PROVE FindInv'
  <2>1. ~uninstalling /\ known = {} /\ UNCHANGED <<op, given, uninstalling, known>> BY <1>4 DEF RunInit, FindInv, history
  <2>2. \E c : artifacts' = [artifacts EXCEPT ![place] = c] BY <1>4 DEF RunInit
  <2>3. registry' \in {registry, Upserted(d, NoMetrics)} BY <1>4 DEF RunInit, Upsert
  <2> QED BY <2>1, <2>2, <2>3 DEF FindInv, Upserted
<1>5. ASSUME NEW c \in Calls, StartUninstall(c.cwd) PROVE FindInv' BY <1>5, FindStart
<1> QED BY <1>1, <1>2, <1>3, <1>4, <1>5, FindAdapters, FindState, FindHome, FindOthers DEF Next

\* However an uninstall ends, the next one finds what is left
\* (internal/lifecycle, RunUninstall).
THEOREM NothingIsForgotten == Spec => []UninstallFindsAll
<1>1. FindInv => UninstallFindsAll
  BY DEF FindInv, Forgettable, UninstallFindsAll, Is
<1> QED BY <1>1, FindInitially, FindStep, PTL DEF Spec

-----------------------------------------------------------------------------
(* The records.  A run has one record, in the database or the spool of its *)
(* project, and a project without a database has none there.               *)

Collected(r) == stored[r] \union spooled[r]

RecordsInv ==
  /\ now \in Nat /\ runs \in Nat
  /\ stored = [r \in Roots |-> stored[r]] /\ spooled = [r \in Roots |-> spooled[r]]
  /\ files \subseteq Roots /\ \A r \in Roots \ files : stored[r] = {}
  /\ \A r \in Roots : \A x \in Collected(r) : x.run \in 1..runs /\ x.at \in Nat
  /\ \A q, r \in Roots : \A x \in Collected(q), y \in Collected(r) : x.run = y.run => q = r /\ x = y

LEMMA RecordsInitially == Init => RecordsInv
BY DEF Init, RecordsInv, Collected

(* What reports and purges work on: sources, each with its own database.   *)

Pairs == Dirs \X Roots
Distinct(s) == \A i, j \in DOMAIN s : s[i][2] = s[j][2] => i = j

ReportFields ==
  {"kind", "global", "opts", "plan", "sources", "left", "asked", "warned", "rows", "finished", "due", "read", "before"}

SourcesInv ==
  /\ op.kind \in {"purge", "report"} => op.left \in Seq(Pairs) /\ op.due \subseteq Pairs
  /\ op.kind = "purge" =>
       op = [kind |-> "purge", left |-> op.left, cutoff |-> op.cutoff,
             due |-> op.due, before |-> op.before, waiting |-> op.waiting]
  /\ op.kind = "report" =>
       /\ op = [f \in ReportFields |-> op[f]]
       /\ op.opts \in Options /\ op.asked \in Nat
       /\ op.sources \in Seq(Pairs) /\ Distinct(op.sources) /\ Distinct(op.left)
       /\ Elements(op.sources) = op.due

LEMMA DistinctAfterFirst ==
  ASSUME NEW S, NEW s \in Seq(S), s # <<>>, Distinct(s)
  PROVE  Distinct(Tail(s)) /\ \A e \in Elements(Tail(s)) : e[2] # Head(s)[2]
<1>1. Len(s) \in Nat \ {0} /\ DOMAIN s = 1..Len(s) /\ DOMAIN Tail(s) = 1..(Len(s) - 1) OBVIOUS
<1>2. Head(s) = s[1] /\ \A i \in 1..(Len(s) - 1) : Tail(s)[i] = s[i + 1] OBVIOUS
<1>3. \A i, j \in 1..Len(s) : s[i][2] = s[j][2] => i = j BY <1>1 DEF Distinct
<1> QED BY <1>1, <1>2, <1>3 DEF Distinct, Elements

\* The sources of a command are the projects that are due, each of them once.
LEMMA SourcesAreDue ==
  ASSUME files \subseteq Roots, NEW cwd \in Dirs, NEW global, NEW entries \in {{}, Registered}
  PROVE  /\ Sources(global, cwd, entries) \in Seq(Pairs) /\ Distinct(Sources(global, cwd, entries))
         /\ Elements(Sources(global, cwd, entries)) = Due(global, cwd, entries)
         /\ Due(global, cwd, entries) \subseteq Pairs
<1> DEFINE due == {<<NamedBy(r, entries, cwd), r>> : r \in Reached(entries, cwd)}
<1>1. Project(cwd) \in Roots /\ Roots \subseteq Dirs /\ IsFiniteSet(Dirs)
  BY WorkspacesAssumption DEF WorkspacesAssumption, Project, Dirs
<1>2. CASE ~global
  <2>1. Sources(global, cwd, entries) = <<<<cwd, Project(cwd)>>>> /\ Due(global, cwd, entries) = {<<cwd, Project(cwd)>>}
    BY <1>2 DEF Sources, Due
  <2> QED BY <1>1, <2>1 DEF Distinct, Elements, Pairs
<1>3. CASE global
  <2>1. Sources(global, cwd, entries) = SetToSeq(due) /\ Due(global, cwd, entries) = due
    BY <1>3 DEF Sources, Due, GlobalMetricsSources
  <2>2. entries \subseteq Dirs /\ Reached(entries, cwd) \subseteq Roots BY DEF Registered, Reached
  <2>3. \A r \in Roots : NamedBy(r, entries, cwd) \in Dirs BY <1>1, <2>2 DEF NamedBy, Naming
  <2>4. due \subseteq Pairs BY <2>2, <2>3 DEF Pairs
  <2>5. IsFiniteSet(due) BY <1>1, <2>4, FS_Subset, FS_Product DEF Pairs
  <2>6. \A s, t \in due : s[2] = t[2] => s = t OBVIOUS
  <2> HIDE DEF due
  <2>7. /\ SetToSeq(due) \in Seq(due) /\ Elements(SetToSeq(due)) = due
        /\ \A i, j \in DOMAIN SetToSeq(due) : SetToSeq(due)[i] = SetToSeq(due)[j] => i = j
    BY <2>5, AllInSequence
  <2> DEFINE all == SetToSeq(due)
  <2> HIDE DEF all
  <2>8. all \in Seq(Pairs) BY <2>4, <2>7 DEF all
  <2>9. Distinct(all) BY <2>6, <2>7 DEF Distinct, Elements, all
  <2> QED BY <2>1, <2>4, <2>7, <2>8, <2>9 DEF all
<1> QED BY <1>2, <1>3

\* A run that ends adds a record with a number of its own.
LEMMA EndRunAdds ==
  ASSUME RecordsInv, NEW root \in Roots, EndRun(root)
  PROVE  /\ runs' = runs + 1 /\ now' = now /\ files \subseteq files' /\ files' \subseteq Roots
         /\ stored' = [r \in Roots |-> stored'[r]] /\ spooled' = [r \in Roots |-> spooled'[r]]
         /\ \A r \in Roots : stored[r] \subseteq stored'[r]
         /\ \A r \in Roots : r \notin files' => stored'[r] = {}
         /\ \E x : /\ x.run = runs + 1 /\ x.at = now /\ x["raw"] \in Nat /\ x["kept"] \in Nat /\ x["duration"] \in Nat
                   /\ Collected(root)' = Collected(root) \union {x}
                   /\ \A r \in Roots \ {root} : Collected(r)' = Collected(r)
<1> USE DEF RecordsInv
<1> DEFINE x == Recorded(Shapes[runs + 1])
<1>1. x.run = runs + 1 /\ x.at = now /\ x["raw"] \in Nat /\ x["kept"] \in Nat /\ x["duration"] \in Nat
  <2>1. runs + 1 \in DOMAIN Shapes
    <3>1. runs < Len(Shapes) BY DEF EndRun
    <3> QED BY <3>1, WorkspacesAssumption DEF WorkspacesAssumption
  <2>2. PICK shape : shape = Shapes[runs + 1] OBVIOUS
  <2>3. \A f \in {"raw", "kept", "duration"} : f \in DOMAIN shape /\ shape[f] \in Nat
    BY <2>1, <2>2, WorkspacesAssumption DEF WorkspacesAssumption
  <2> QED BY <2>2, <2>3 DEF Recorded
<1>2. /\ runs' = runs + 1 /\ now' = now
      /\ \/ /\ stored' = [stored EXCEPT ![root] = @ \union spooled[root] \union {x}]
            /\ spooled' = [spooled EXCEPT ![root] = {}]
            /\ files' = files \union {root}
         \/ /\ spooled' = [spooled EXCEPT ![root] = @ \union {x}]
            /\ UNCHANGED <<stored, files>>
  BY DEF EndRun
<1> HIDE DEF x
<1>3. /\ stored' = [r \in Roots |-> stored'[r]] /\ spooled' = [r \in Roots |-> spooled'[r]]
      /\ \A r \in Roots : stored[r] \subseteq stored'[r]
      /\ files \subseteq files' /\ files' \subseteq Roots /\ \A r \in Roots \ files' : stored'[r] = {}
  BY <1>2
<1>4. Collected(root)' = Collected(root) \union {x} /\ \A r \in Roots \ {root} : Collected(r)' = Collected(r)
  BY <1>2 DEF Collected
<1> QED BY <1>1, <1>2, <1>3, <1>4

\* Nothing else adds one.
LEMMA OnlyRunsAdd ==
  ASSUME RecordsInv, SourcesInv, [Next]_vars, ~\E root \in Roots : EndRun(root)
  PROVE  /\ runs' = runs /\ now' \in {now, now + 1} /\ files' \subseteq Roots
         /\ stored' = [r \in Roots |-> stored'[r]] /\ spooled' = [r \in Roots |-> spooled'[r]]
         /\ \A r \in Roots : Collected(r)' \subseteq Collected(r)
         /\ \A r \in Roots \ files' : stored'[r] = {}
         /\ op.kind \notin {"purge", "uninstall"} => UNCHANGED store \/ UNCHANGED <<stored, spooled, files>>
<1> USE DEF RecordsInv
<1>1. CASE UNCHANGED <<stored, spooled, files>> /\ runs' = runs /\ now' \in {now, now + 1}
  BY <1>1 DEF Collected
<1>2. CASE PurgeSource
  <2> DEFINE root == Head(op.left)[2]
             contained == Head(op.left)[1] = root
             records == IF contained THEN stored[root] \union spooled[root] ELSE stored[root]
             younger == records \ Older(records, op.cutoff)
  <2>1. runs' = runs /\ now' = now /\ op.kind = "purge" BY <1>2 DEF PurgeSource, Is
  <2>2. \/ /\ stored' = [stored EXCEPT ![root] = younger]
           /\ spooled' = [spooled EXCEPT ![root] = IF contained THEN {} ELSE @]
           /\ files' = IF records # {} THEN files \union {root} ELSE files
        \/ UNCHANGED <<stored, spooled, files>>
    BY <1>2 DEF PurgeSource
  <2>3. younger \subseteq records /\ records \subseteq Collected(root) /\ root \in Roots
    <3>1. op.left \in Seq(Pairs) /\ op.left # <<>> BY <2>1, <1>2 DEF SourcesInv, PurgeSource
    <3>2. Head(op.left) \in Pairs BY <3>1
    <3> QED BY <3>2 DEF Collected, Pairs
  <2> HIDE DEF younger, records, contained, root
  <2>4. CASE UNCHANGED <<stored, spooled, files>> BY <1>1, <2>1, <2>4
  <2>5. CASE /\ stored' = [stored EXCEPT ![root] = younger]
             /\ spooled' = [spooled EXCEPT ![root] = IF contained THEN {} ELSE @]
             /\ files' = IF records # {} THEN files \union {root} ELSE files
    <3>1. \A r \in Roots : stored'[r] = IF r = root THEN younger ELSE stored[r] BY <2>5
    <3>2. \A r \in Roots : spooled'[r] \subseteq spooled[r] BY <2>5
    <3>3. \A r \in Roots : Collected(r)' \subseteq Collected(r) BY <2>3, <3>1, <3>2 DEF Collected
    <3>4. files' \subseteq Roots BY <2>3, <2>5
    <3> QED BY <2>1, <2>3, <2>5, <3>1, <3>3, <3>4
  <2> QED BY <2>2, <2>4, <2>5
<1>3. CASE RemoveWorkspaceState
  <2>1. runs' = runs /\ now' = now /\ spooled' = spooled /\ files' \subseteq files /\ op.kind = "uninstall"
        /\ stored' = [r \in Roots |-> IF r \in files' THEN stored[r] ELSE {}]
    BY <1>3 DEF RemoveWorkspaceState, Is
  <2> QED BY <2>1 DEF Collected
<1>4. CASE ~PurgeSource /\ ~RemoveWorkspaceState
  <2>1. CASE UNCHANGED vars \/ Tick \/ Crash \/ \E root \in Roots : Damage(root)
    BY <1>1, <2>1 DEF vars, Tick, Crash, Damage, store
  <2>2. CASE \/ \E d \in Dirs : \E place \in {d, Home} : RunInit(d, place)
             \/ \E r \in Requests : RunGain(r) \/ RunHistory(r) \/ RunFilterPerformance(r)
             \/ QuerySource \/ FinishDataset \/ NextDataset
    BY <1>1, <2>2 DEF RunInit, RunGain, RunHistory, RunFilterPerformance, StartReport, QuerySource, FinishDataset, NextDataset, store
  <2>3. CASE \/ \E c \in Calls, window \in Windows : StartPurge(c.cwd, c.global, window)
             \/ FinishPurge \/ \E c \in Calls : StartUninstall(c.cwd)
             \/ RemoveIntegrations \/ RemoveGlobalState \/ RemoveExecutable
    BY <1>1, <2>3 DEF StartPurge, FinishPurge, StartUninstall, RemoveIntegrations, RemoveGlobalState, RemoveExecutable, store
  <2> QED BY <1>4, <2>1, <2>2, <2>3 DEF Next
<1> QED BY <1>2, <1>3, <1>4

LEMMA RecordsStep == RecordsInv /\ SourcesInv /\ [Next]_vars => RecordsInv'
<1> SUFFICES ASSUME RecordsInv, SourcesInv, [Next]_vars PROVE RecordsInv' OBVIOUS
<1>1. ASSUME NEW root \in Roots, EndRun(root) PROVE RecordsInv'
  <2>1. PICK x : /\ x.run = runs + 1 /\ x.at = now
                 /\ Collected(root)' = Collected(root) \union {x}
                 /\ \A r \in Roots \ {root} : Collected(r)' = Collected(r)
    BY <1>1, EndRunAdds
  <2>2. \A r \in Roots : \A y \in Collected(r)' : y \in Collected(r) \/ (r = root /\ y = x) BY <2>1
  <2>3. \A r \in Roots : \A y \in Collected(r)' : y.run \in 1..runs' /\ y.at \in Nat
    BY <1>1, <2>1, <2>2, EndRunAdds DEF RecordsInv
  <2>4. \A q, r \in Roots : \A y \in Collected(q)', z \in Collected(r)' : y.run = z.run => q = r /\ y = z
    <3> SUFFICES ASSUME NEW q \in Roots, NEW r \in Roots, NEW y \in Collected(q)', NEW z \in Collected(r)', y.run = z.run
                 PROVE  q = r /\ y = z
      OBVIOUS
    <3>1. \A p \in Roots : \A w \in Collected(p) : w.run # runs + 1 BY DEF RecordsInv
    <3>2. CASE y \in Collected(q) /\ z \in Collected(r) BY <3>2 DEF RecordsInv
    <3>3. CASE y \notin Collected(q) /\ z \notin Collected(r) BY <2>2, <3>3
    <3>4. CASE y \in Collected(q) /\ z \notin Collected(r) BY <2>1, <2>2, <3>1, <3>4
    <3>5. CASE y \notin Collected(q) /\ z \in Collected(r) BY <2>1, <2>2, <3>1, <3>5
    <3> QED BY <3>2, <3>3, <3>4, <3>5
  <2>5. now' \in Nat /\ runs' \in Nat BY <1>1, EndRunAdds DEF RecordsInv
  <2> QED BY <1>1, <2>3, <2>4, <2>5, EndRunAdds DEF RecordsInv
<1>2. CASE ~\E root \in Roots : EndRun(root)
  <2>1. \A r \in Roots : Collected(r)' \subseteq Collected(r) BY <1>2, OnlyRunsAdd
  <2>2. \A r \in Roots : \A y \in Collected(r)' : y.run \in 1..runs' /\ y.at \in Nat
    BY <1>2, <2>1, OnlyRunsAdd DEF RecordsInv
  <2>3. \A q, r \in Roots : \A y \in Collected(q)', z \in Collected(r)' : y.run = z.run => q = r /\ y = z
    BY <2>1 DEF RecordsInv
  <2>4. now' \in Nat /\ runs' \in Nat BY <1>2, OnlyRunsAdd DEF RecordsInv
  <2> QED BY <1>2, <2>2, <2>3, <2>4, OnlyRunsAdd DEF RecordsInv
<1> QED BY <1>1, <1>2

LEMMA SourcesInitially == Init => SourcesInv
BY DEF Init, Idle, SourcesInv

LEMMA SourcesStart ==
  ASSUME RecordsInv, NEW r \in Requests, NEW plan, StartReport(r, plan)
  PROVE  SourcesInv'
<1>1. r.cwd \in Dirs /\ r.opts \in Options BY WorkspacesAssumption DEF WorkspacesAssumption
<1>2. PICK entries \in {{}, Registered} :
        op' = [kind |-> "report", global |-> r.global, opts |-> r.opts, plan |-> plan,
               sources |-> Sources(r.global, r.cwd, entries), left |-> Sources(r.global, r.cwd, entries),
               asked |-> now, warned |-> {}, rows |-> NoRows(Head(plan)), finished |-> "none",
               due |-> Due(r.global, r.cwd, entries), read |-> <<>>,
               before |-> Held(Due(r.global, r.cwd, entries))]
  BY DEF StartReport
<1> DEFINE sources == Sources(r.global, r.cwd, entries)
           due == Due(r.global, r.cwd, entries)
<1>3. sources \in Seq(Pairs) /\ Distinct(sources) /\ Elements(sources) = due /\ due \subseteq Pairs
  BY <1>1, SourcesAreDue DEF RecordsInv
<1>4. now \in Nat BY DEF RecordsInv
<1> HIDE DEF sources, due
<1>5. op' = [kind |-> "report", global |-> r.global, opts |-> r.opts, plan |-> plan,
             sources |-> sources, left |-> sources,
             asked |-> now, warned |-> {}, rows |-> NoRows(Head(plan)), finished |-> "none",
             due |-> due, read |-> <<>>, before |-> Held(due)]
  BY <1>2 DEF sources, due
<1> QED BY <1>1, <1>3, <1>4, <1>5 DEF SourcesInv, ReportFields

(* A report as it goes on.                                                 *)
Report(plan, left, asked, warned, rows, finished, read, before) ==
  [kind |-> "report", global |-> op.global, opts |-> op.opts, plan |-> plan,
   sources |-> op.sources, left |-> left, asked |-> asked, warned |-> warned,
   rows |-> rows, finished |-> finished, due |-> op.due, read |-> read, before |-> before]

LEMMA ReportHas ==
  ASSUME NEW plan, NEW left, NEW asked, NEW warned, NEW rows, NEW finished, NEW read, NEW before,
         op' = Report(plan, left, asked, warned, rows, finished, read, before)
  PROVE  /\ op'.kind = "report" /\ op' = [f \in ReportFields |-> op'[f]]
         /\ op'.opts = op.opts /\ op'.sources = op.sources /\ op'.due = op.due
         /\ op'.plan = plan /\ op'.left = left /\ op'.asked = asked /\ op'.warned = warned
         /\ op'.rows = rows /\ op'.finished = finished /\ op'.read = read /\ op'.before = before
BY DEF Report, ReportFields

\* What a report does with its first source.
LEMMA QueryIs ==
  ASSUME SourcesInv, QuerySource
  PROVE  LET root == Head(op.left)[2]
             records == Wanted(stored[root])
             On(warned, rows, read) ==
               Report(op.plan, Tail(op.left), op.asked, warned, rows, "none", read, op.before)
         IN  /\ op.kind = "report" /\ op.left # <<>>
             /\ \/ op' = On(op.warned, Joined(Dataset, op.rows, Query(Dataset, Period(Dataset), records)),
                            Append(op.read, records))
                \/ root \notin files /\ op' = On(op.warned, op.rows, op.read)
                \/ op' = On(op.warned \union {root}, op.rows, op.read)
                \/ op' = Idle
<1> DEFINE root == Head(op.left)[2]
           records == Wanted(stored[root])
           rows == Joined(Dataset, op.rows, Query(Dataset, Period(Dataset), records))
<1>1. \/ op' = [op EXCEPT !.left = Tail(@), !.finished = "none", !.rows = rows, !.read = Append(@, records)]
      \/ root \notin files /\ op' = [op EXCEPT !.left = Tail(@), !.finished = "none"]
      \/ op' = [op EXCEPT !.left = Tail(@), !.finished = "none", !.warned = @ \union {root}]
      \/ op' = Idle
  BY Zenon DEF QuerySource
<1>2. op.kind = "report" /\ op.left # <<>> BY DEF QuerySource, Is
<1>3. op = [f \in ReportFields |-> op[f]] BY <1>2 DEF SourcesInv
<1> HIDE DEF root, records, rows
<1>4. CASE op' = [op EXCEPT !.left = Tail(@), !.finished = "none", !.rows = rows, !.read = Append(@, records)]
  <2>1. op' = Report(op.plan, Tail(op.left), op.asked, op.warned, rows, "none", Append(op.read, records), op.before)
    BY <1>2, <1>3, <1>4 DEF Report, ReportFields
  <2> QED BY <1>2, <2>1 DEF root, records, rows
<1>5. CASE root \notin files /\ op' = [op EXCEPT !.left = Tail(@), !.finished = "none"]
  <2>1. op' = Report(op.plan, Tail(op.left), op.asked, op.warned, op.rows, "none", op.read, op.before)
    BY <1>2, <1>3, <1>5 DEF Report, ReportFields
  <2> QED BY <1>2, <1>5, <2>1 DEF root
<1>6. CASE op' = [op EXCEPT !.left = Tail(@), !.finished = "none", !.warned = @ \union {root}]
  <2>1. op' = Report(op.plan, Tail(op.left), op.asked, op.warned \union {root}, op.rows, "none", op.read, op.before)
    BY <1>2, <1>3, <1>6 DEF Report, ReportFields
  <2> QED BY <1>2, <2>1 DEF root
<1>7. CASE op' = Idle BY <1>2, <1>7
<1> QED BY <1>1, <1>4, <1>5, <1>6, <1>7

\* It ends a dataset, and starts over with all sources for the next.
LEMMA FinishIs ==
  ASSUME SourcesInv, FinishDataset
  PROVE  /\ op.kind = "report" /\ op.left = <<>> /\ op.finished = "none"
         /\ op' = Report(op.plan, op.left, op.asked, op.warned,
                         Finished(Dataset, Period(Dataset), op.asked, op.rows), Dataset, op.read, op.before)
<1> DEFINE finished == Dataset
           rows == Finished(Dataset, Period(Dataset), op.asked, op.rows)
<1>1. op.kind = "report" /\ op.left = <<>> /\ op.finished = "none" BY DEF FinishDataset, Is
<1>2. op' = [op EXCEPT !.finished = finished, !.rows = rows] BY DEF FinishDataset
<1> HIDE DEF finished, rows
<1>3. op = [f \in ReportFields |-> op[f]] BY <1>1 DEF SourcesInv
<1>4. op' = Report(op.plan, op.left, op.asked, op.warned, rows, finished, op.read, op.before)
  BY <1>1, <1>2, <1>3 DEF Report, ReportFields
<1> QED BY <1>1, <1>4 DEF finished, rows

LEMMA NextIs ==
  ASSUME SourcesInv, NextDataset
  PROVE  /\ op.kind = "report"
         /\ \/ op' = Idle
            \/ /\ Len(op.plan) # 1
               /\ op' = Report(Tail(op.plan), op.sources, now, op.warned, NoRows(Head(Tail(op.plan))), "none", <<>>, Held(op.due))
<1>1. op.kind = "report" BY DEF NextDataset, Is
<1>2. op = [f \in ReportFields |-> op[f]] BY <1>1 DEF SourcesInv
<1>3. \/ op' = Idle
      \/ /\ Len(op.plan) # 1
         /\ op' = [op EXCEPT !.plan = Tail(@), !.left = op.sources, !.asked = now,
                             !.rows = NoRows(Head(Tail(op.plan))), !.read = <<>>, !.finished = "none", !.before = Held(op.due)]
  BY DEF NextDataset
<1> QED BY <1>1, <1>2, <1>3 DEF Report, ReportFields

\* What a purge does with its first source.
LEMMA PurgeIs ==
  ASSUME SourcesInv, PurgeSource
  PROVE  /\ op.kind = "purge" /\ op.left # <<>>
         /\ \/ op' = Idle
            \/ op' = [kind |-> "purge", left |-> Tail(op.left), cutoff |-> op.cutoff,
                      due |-> op.due, before |-> op.before, waiting |-> op.waiting]
<1>1. op.kind = "purge" /\ op.left # <<>> BY DEF PurgeSource, Is
<1>2. op' = Idle \/ op' = [op EXCEPT !.left = Tail(@)] BY DEF PurgeSource
<1> QED BY <1>1, <1>2 DEF SourcesInv

LEMMA SourcesStep == FindInv /\ FindInv' /\ RecordsInv /\ SourcesInv /\ [Next]_vars => SourcesInv'
<1> SUFFICES ASSUME FindInv, FindInv', RecordsInv, SourcesInv, [Next]_vars PROVE SourcesInv' OBVIOUS
<1> USE DEF SourcesInv
<1>1. CASE UNCHANGED op BY <1>1
<1>2. CASE op'.kind \notin {"purge", "report"} BY <1>2
<1>3. CASE QuerySource
  <2>1. op.kind = "report" /\ op.left # <<>> BY <1>3, QueryIs
  <2>2. Tail(op.left) \in Seq(Pairs) /\ Distinct(Tail(op.left)) BY <2>1, DistinctAfterFirst
  <2>3. op' = Idle \/ \E warned, rows, read :
                        op' = Report(op.plan, Tail(op.left), op.asked, warned, rows, "none", read, op.before)
    BY <1>3, QueryIs
  <2>4. CASE op' = Idle BY <2>4 DEF Idle
  <2>5. ASSUME NEW warned, NEW rows, NEW read,
               op' = Report(op.plan, Tail(op.left), op.asked, warned, rows, "none", read, op.before)
        PROVE  SourcesInv'
    <3>1. /\ op'.kind = "report" /\ op' = [f \in ReportFields |-> op'[f]]
          /\ op'.opts = op.opts /\ op'.sources = op.sources /\ op'.due = op.due
          /\ op'.left = Tail(op.left) /\ op'.asked = op.asked
      BY <2>5, ReportHas
    <3> QED BY <2>1, <2>2, <3>1
  <2> QED BY <2>3, <2>4, <2>5
<1>4. CASE FinishDataset BY <1>4, FinishIs DEF Report, ReportFields
<1>5. CASE NextDataset BY <1>5, NextIs DEF Report, ReportFields, Idle, RecordsInv
<1>6. CASE PurgeSource
  <2>1. Tail(op.left) \in Seq(Pairs) BY <1>6, PurgeIs
  <2> QED BY <1>6, <2>1, PurgeIs DEF Idle
<1>7. ASSUME NEW r \in Requests, RunGain(r) \/ RunHistory(r) \/ RunFilterPerformance(r) PROVE SourcesInv'
  <2>1. \E plan : StartReport(r, plan) BY <1>7 DEF RunGain, RunHistory, RunFilterPerformance
  <2> QED BY <2>1, SourcesStart
<1>8. ASSUME NEW c \in Calls, NEW window \in Windows, StartPurge(c.cwd, c.global, window) PROVE SourcesInv'
  <2>1. c.cwd \in Dirs BY WorkspacesAssumption DEF WorkspacesAssumption
  <2>2. PICK entries \in {{}, Registered} :
          op' = [kind |-> "purge", left |-> Sources(c.global, c.cwd, entries), cutoff |-> now - window,
                 due |-> Due(c.global, c.cwd, entries), before |-> stored, waiting |-> spooled]
    BY <1>8 DEF StartPurge
  <2>3. Sources(c.global, c.cwd, entries) \in Seq(Pairs) /\ Due(c.global, c.cwd, entries) \subseteq Pairs
    BY <2>1, SourcesAreDue DEF RecordsInv
  <2> QED BY <2>2, <2>3
<1>9. CASE \/ FinishPurge \/ Crash
  BY <1>2, <1>9 DEF FinishPurge, Crash, Idle
<1>10. CASE \/ \E c \in Calls : StartUninstall(c.cwd)
            \/ RemoveIntegrations \/ RemoveWorkspaceState \/ RemoveGlobalState \/ RemoveExecutable
  <2>1. given' = "uninstall"
    BY <1>10 DEF StartUninstall, RemoveIntegrations, RemoveWorkspaceState, RemoveGlobalState, RemoveExecutable,
                 Is, FindInv, setup
  <2> QED BY <1>2, <2>1 DEF FindInv
<1>11. CASE \/ UNCHANGED vars \/ Tick
            \/ \E root \in Roots : EndRun(root) \/ Damage(root)
            \/ \E d \in Dirs : \E place \in {d, Home} : RunInit(d, place)
  BY <1>1, <1>11 DEF vars, Tick, EndRun, Damage, RunInit
<1> QED BY <1>3, <1>4, <1>5, <1>6, <1>7, <1>8, <1>9, <1>10, <1>11 DEF Next

-----------------------------------------------------------------------------
(* What is erased.  Of a project whose turn has come, named by its root,   *)
(* nothing older is left that was there when the purge began; a run that   *)
(* was there then is still the same run.                                   *)

(* The runs of a project that a purge is to erase.                         *)
Meant(r) == Older(op.before[r] \union op.waiting[r], op.cutoff)

ErasedInv ==
  /\ promised.root \subseteq 1..runs
  /\ \A r \in Roots : Runs(Collected(r)) \intersect promised.root = {}
  /\ op.kind = "purge" =>
       /\ \A q \in Roots : \A x \in Meant(q) : x.run \in 1..runs
       /\ \A q, r \in Roots : \A x \in Meant(q), y \in Collected(r) : x.run = y.run => q = r /\ x = y
       /\ \A s \in op.due : s[1] = s[2] => s \in Elements(op.left) \/ Meant(s[2]) \intersect Collected(s[2]) = {}

(* What is read.  A report has read no run twice and none that a source    *)
(* still holds for it, and what was there when it asked is in what it has  *)
(* read or will read.                                                      *)

ReadRuns == UNION {Runs(op.read[i]) : i \in DOMAIN op.read}

Wants(x) == MatchesOptions(x, op.opts, Threshold(Since, now))

ReportInv ==
  op.kind = "report" =>
    /\ op.read \in Seq(Elements(op.read))
    /\ op.finished # "none" => op.left = <<>>
    /\ ReadRuns \subseteq 1..runs
    /\ \A i, j \in DOMAIN op.read : \A x \in op.read[i], y \in op.read[j] : x.run = y.run => i = j /\ x = y
    /\ \A s \in Elements(op.left) : ReadRuns \intersect Runs(Collected(s[2])) = {}
    /\ \A s \in op.due : op.before[s[2]] \subseteq stored[s[2]]
    /\ \A s \in op.due : \/ s[2] \in op.warned
                         \/ s \in Elements(op.left)
                         \/ \A x \in op.before[s[2]] : Wants(x) => x.run \in ReadRuns

LEMMA ErasedInitially == Init => ErasedInv
BY DEF Init, Idle, ErasedInv, Runs

\* A purge is at work where it was started, and its promise comes at its end.
LEMMA OnlyPurges ==
  ASSUME FindInv, FindInv', SourcesInv, [Next]_vars,
         ~\E c \in Calls, window \in Windows : StartPurge(c.cwd, c.global, window),
         ~PurgeSource, ~FinishPurge
  PROVE  UNCHANGED promised /\ (UNCHANGED op \/ op'.kind # "purge")
<1>1. CASE \/ UNCHANGED vars \/ Tick \/ Crash
           \/ \E root \in Roots : EndRun(root) \/ Damage(root)
           \/ \E d \in Dirs : \E place \in {d, Home} : RunInit(d, place)
  BY <1>1 DEF vars, history, Tick, Crash, Idle, EndRun, Damage, RunInit
<1>2. CASE \/ \E c \in Calls : StartUninstall(c.cwd)
           \/ RemoveIntegrations \/ RemoveWorkspaceState \/ RemoveGlobalState \/ RemoveExecutable
  <2>1. given' = "uninstall" /\ promised' = promised
    BY <1>2 DEF StartUninstall, RemoveIntegrations, RemoveWorkspaceState, RemoveGlobalState, RemoveExecutable,
                Is, FindInv, setup, history
  <2> QED BY <2>1 DEF FindInv
<1>3. ASSUME NEW r \in Requests, RunGain(r) \/ RunHistory(r) \/ RunFilterPerformance(r)
      PROVE  promised' = promised /\ op'.kind # "purge"
  BY <1>3 DEF RunGain, RunHistory, RunFilterPerformance, StartReport, history
<1>4. CASE QuerySource \/ FinishDataset \/ NextDataset
  <2>1. promised' = promised BY <1>4 DEF QuerySource, FinishDataset, NextDataset, history
  <2>2. op' = Idle \/ \E plan, left, asked, warned, rows, finished, read, before :
                        op' = Report(plan, left, asked, warned, rows, finished, read, before)
    BY <1>4, QueryIs, FinishIs, NextIs
  <2>3. op'.kind \in {"idle", "report"} BY <2>2, ReportHas DEF Idle
  <2> QED BY <2>1, <2>3
<1> QED BY <1>1, <1>2, <1>3, <1>4 DEF Next

LEMMA ErasedStep == FindInv /\ FindInv' /\ RecordsInv /\ SourcesInv /\ ErasedInv /\ [Next]_vars => ErasedInv'
<1> SUFFICES ASSUME FindInv, FindInv', RecordsInv, SourcesInv, ErasedInv, [Next]_vars PROVE ErasedInv' OBVIOUS
<1>1. ASSUME NEW root \in Roots, EndRun(root) PROVE ErasedInv'
  <2>1. PICK x : /\ x.run = runs + 1 /\ x.at = now
                 /\ Collected(root)' = Collected(root) \union {x}
                 /\ \A r \in Roots \ {root} : Collected(r)' = Collected(r)
    BY <1>1, EndRunAdds
  <2>2. \A r \in Roots : \A y \in Collected(r)' : y \in Collected(r) \/ (r = root /\ y = x) BY <2>1
  <2>3. runs' = runs + 1 /\ runs \in Nat /\ op' = op /\ promised' = promised
    BY <1>1, EndRunAdds DEF EndRun, RecordsInv
  <2>4. promised'.root \subseteq 1..runs' BY <2>3 DEF ErasedInv
  <2>5. \A r \in Roots : Runs(Collected(r))' \intersect promised'.root = {}
    BY <2>1, <2>2, <2>3 DEF ErasedInv, Runs
  <2>6. ASSUME op'.kind = "purge"
        PROVE  /\ \A q \in Roots : \A y \in Meant(q)' : y.run \in 1..runs'
               /\ \A q, r \in Roots : \A y \in Meant(q)', z \in Collected(r)' : y.run = z.run => q = r /\ y = z
               /\ \A s \in op'.due : s[1] = s[2] =>
                    s \in Elements(op'.left) \/ Meant(s[2])' \intersect Collected(s[2])' = {}
    <3>1. \A q \in Roots : Meant(q)' = Meant(q) BY <2>3 DEF Meant, Older
    <3>2. \A q \in Roots : \A y \in Meant(q) : y.run \in 1..runs /\ y.run # x.run
      BY <2>1, <2>3, <2>6 DEF ErasedInv
    <3>3. \A s \in op.due : s[2] \in Roots BY <2>3, <2>6 DEF SourcesInv, Pairs
    <3>4. \A q \in Roots : \A y \in Meant(q)' : y.run \in 1..runs' BY <2>3, <3>1, <3>2
    <3>5. \A q, r \in Roots : \A y \in Meant(q)', z \in Collected(r)' : y.run = z.run => q = r /\ y = z
      BY <2>2, <2>3, <2>6, <3>1, <3>2 DEF ErasedInv
    <3>6. \A s \in op'.due : s[1] = s[2] =>
            s \in Elements(op'.left) \/ Meant(s[2])' \intersect Collected(s[2])' = {}
      BY <2>2, <2>3, <2>6, <3>1, <3>2, <3>3 DEF ErasedInv
    <3> QED BY <3>4, <3>5, <3>6
  <2> QED BY <2>4, <2>5, <2>6 DEF ErasedInv
<1> SUFFICES ASSUME ~\E root \in Roots : EndRun(root) PROVE ErasedInv' BY <1>1
<1>2. runs' = runs /\ \A r \in Roots : Collected(r)' \subseteq Collected(r) BY OnlyRunsAdd
<1>3. \A r \in Roots : Runs(Collected(r))' \subseteq Runs(Collected(r)) BY <1>2 DEF Runs
<1>4. promised' = promised =>
        promised'.root \subseteq 1..runs' /\ \A r \in Roots : Runs(Collected(r))' \intersect promised'.root = {}
  BY <1>2, <1>3 DEF ErasedInv
<1>5. ASSUME NEW c \in Calls, NEW window \in Windows, StartPurge(c.cwd, c.global, window) PROVE ErasedInv'
  <2>1. c.cwd \in Dirs BY WorkspacesAssumption DEF WorkspacesAssumption
  <2>2. PICK entries \in {{}, Registered} :
          op' = [kind |-> "purge", left |-> Sources(c.global, c.cwd, entries), cutoff |-> now - window,
                 due |-> Due(c.global, c.cwd, entries), before |-> stored, waiting |-> spooled]
    BY <1>5 DEF StartPurge
  <2>3. UNCHANGED <<promised, runs, stored, spooled>> BY <1>5 DEF StartPurge, store, history
  <2>4. \A q \in Roots : Meant(q)' \subseteq Collected(q) /\ Collected(q)' = Collected(q)
    BY <2>2, <2>3 DEF Meant, Older, Collected
  <2>5. Elements(op'.left) = op'.due BY <2>1, <2>2, SourcesAreDue DEF RecordsInv
  <2>6. \A q \in Roots : \A x \in Meant(q)' : x.run \in 1..runs' BY <1>2, <2>4 DEF RecordsInv
  <2>7. \A q, r \in Roots : \A x \in Meant(q)', y \in Collected(r)' : x.run = y.run => q = r /\ x = y
    BY <2>4 DEF RecordsInv
  <2> QED BY <1>4, <2>3, <2>5, <2>6, <2>7 DEF ErasedInv
<1>6. CASE PurgeSource
  <2>1. promised' = promised BY <1>6 DEF PurgeSource, history
  <2>2. CASE op' = Idle BY <1>4, <2>1, <2>2 DEF Idle, ErasedInv
  <2>3. CASE op' # Idle
    <3>0. PICK h : h = Head(op.left) OBVIOUS
    <3>1. /\ op.kind = "purge" /\ op.left # <<>> /\ op.left \in Seq(Pairs)
          /\ op' = [kind |-> "purge", left |-> Tail(op.left), cutoff |-> op.cutoff,
                    due |-> op.due, before |-> op.before, waiting |-> op.waiting]
      BY <1>6, <2>3, PurgeIs DEF SourcesInv
    <3>2. \A q \in Roots : Meant(q)' = Meant(q) BY <3>1 DEF Meant
    <3>3. Elements(op.left) = {h} \union Elements(Tail(op.left)) /\ h \in Pairs BY <3>0, <3>1, ElementsAfterFirst
    <3>4. \A s \in op.due : s[2] \in Roots BY <3>1 DEF SourcesInv, Pairs
    <3>5. h[1] = h[2] => Meant(h[2]) \intersect Collected(h[2])' = {}
      <4> SUFFICES ASSUME h[1] = h[2], NEW x \in Meant(h[2]), x \in Collected(h[2])' PROVE FALSE OBVIOUS
      <4>1. h[2] \in Roots BY <3>3 DEF Pairs
      <4>2. /\ stored' = [stored EXCEPT ![h[2]] = (stored[h[2]] \union spooled[h[2]]) \ Older(stored[h[2]] \union spooled[h[2]], op.cutoff)]
            /\ spooled' = [spooled EXCEPT ![h[2]] = {}]
        BY <1>6, <2>3, <3>0 DEF PurgeSource
      <4>3. x \notin Older(Collected(h[2]), op.cutoff) BY <4>1, <4>2 DEF RecordsInv, Collected
      <4>4. x \in Collected(h[2]) BY <1>2, <4>1
      <4> QED BY <4>3, <4>4 DEF Meant, Older
    <3>6. \A s \in op'.due : s[1] = s[2] =>
            s \in Elements(op'.left) \/ Meant(s[2])' \intersect Collected(s[2])' = {}
      <4> SUFFICES ASSUME NEW s \in op.due, s[1] = s[2], s \notin Elements(Tail(op.left))
                   PROVE  Meant(s[2]) \intersect Collected(s[2])' = {}
        BY <3>1, <3>2, <3>4
      <4>1. CASE s = h BY <3>5, <4>1
      <4>2. CASE s # h
        <5>1. Meant(s[2]) \intersect Collected(s[2]) = {} BY <3>1, <3>3, <4>2 DEF ErasedInv
        <5> QED BY <1>2, <3>4, <5>1
      <4> QED BY <4>1, <4>2
    <3>7. \A q \in Roots : \A x \in Meant(q)' : x.run \in 1..runs' BY <1>2, <3>1, <3>2 DEF ErasedInv
    <3>8. \A q, r \in Roots : \A x \in Meant(q)', y \in Collected(r)' : x.run = y.run => q = r /\ x = y
      BY <1>2, <3>1, <3>2 DEF ErasedInv
    <3> QED BY <1>4, <2>1, <3>6, <3>7, <3>8 DEF ErasedInv
  <2> QED BY <2>2, <2>3
<1>7. CASE FinishPurge
  <2> DEFINE roots == {s[2] : s \in {s \in op.due : s[1] = s[2]}}
             erased == UNION {Runs(Meant(r)) : r \in roots}
  <2>1. /\ op.kind = "purge" /\ op.left = <<>> /\ op' = Idle
        /\ promised'.root = promised.root \union erased
        /\ UNCHANGED <<stored, spooled>>
    BY <1>7 DEF FinishPurge, Is, store, Meant
  <2>2. roots \subseteq Roots BY <2>1 DEF SourcesInv, Pairs
  <2>3. erased \subseteq 1..runs BY <2>1, <2>2 DEF ErasedInv, Runs
  <2>4. \A r \in roots : Meant(r) \intersect Collected(r) = {} BY <2>1 DEF ErasedInv, Elements
  <2>5. \A q \in Roots : Runs(Collected(q)) \intersect erased = {}
    <3> SUFFICES ASSUME NEW q \in Roots, NEW y \in Collected(q), NEW r \in roots, NEW x \in Meant(r), x.run = y.run
                 PROVE  FALSE
      BY DEF Runs
    <3>1. q = r /\ x = y BY <2>1, <2>2 DEF ErasedInv
    <3> QED BY <2>4, <3>1
  <2> HIDE DEF erased
  <2>6. promised'.root \subseteq 1..runs' BY <1>2, <2>1, <2>3 DEF ErasedInv
  <2>7. \A q \in Roots : Runs(Collected(q))' \intersect promised'.root = {} BY <1>3, <2>1, <2>5 DEF ErasedInv
  <2>8. op'.kind # "purge" BY <2>1 DEF Idle
  <2> QED BY <2>6, <2>7, <2>8 DEF ErasedInv
<1>8. CASE /\ ~\E c \in Calls, window \in Windows : StartPurge(c.cwd, c.global, window)
           /\ ~PurgeSource /\ ~FinishPurge
  <2>1. promised' = promised /\ (op' = op \/ op'.kind # "purge") BY <1>8, OnlyPurges
  <2>2. CASE op'.kind # "purge" BY <1>4, <2>1, <2>2 DEF ErasedInv
  <2>3. CASE op' = op
    <3>1. \A q \in Roots : Meant(q)' = Meant(q) BY <2>3 DEF Meant
    <3>2. op.kind = "purge" => \A s \in op.due : s[2] \in Roots BY DEF SourcesInv, Pairs
    <3>3. ASSUME op.kind = "purge"
          PROVE  /\ \A q \in Roots : \A x \in Meant(q)' : x.run \in 1..runs'
                 /\ \A q, r \in Roots : \A x \in Meant(q)', y \in Collected(r)' : x.run = y.run => q = r /\ x = y
                 /\ \A s \in op'.due : s[1] = s[2] =>
                      s \in Elements(op'.left) \/ Meant(s[2])' \intersect Collected(s[2])' = {}
      BY <1>2, <2>3, <3>1, <3>2, <3>3 DEF ErasedInv
    <3> QED BY <1>4, <2>1, <2>3, <3>3 DEF ErasedInv
  <2> QED BY <2>1, <2>2, <2>3
<1> QED BY <1>5, <1>6, <1>7, <1>8

-----------------------------------------------------------------------------
(* A window moves on with the clock: what it leaves behind is not wanted   *)
(* any more.                                                               *)

LEMMA Products == \A a, b \in Int : a * b \in Int
OBVIOUS

LEMMA Quotients == \A a \in Int, b \in Nat \ {0} : a \div b \in Int
OBVIOUS

LEMMA ThresholdsGrow ==
  ASSUME NEW since \in Int, NEW n \in Int, NEW m \in Int, n =< m
  PROVE  /\ Threshold(since, n) \in Int /\ Threshold(since, m) \in Int
         /\ Threshold(since, n) > 0 => Threshold(since, m) >= Threshold(since, n)
BY DEF Threshold

LEMMA SinceIsATime == SourcesInv /\ op.kind = "report" => Since \in Int
<1> SUFFICES ASSUME SourcesInv, op.kind = "report" PROVE Since \in Int OBVIOUS
<1>1. op.opts.period \in {""} \union DOMAIN Calendar BY DEF SourcesInv, Options
<1>2. op.opts.since \in Int /\ op.asked \in Int
  <2>1. op.opts \in Options /\ op.asked \in Nat BY DEF SourcesInv
  <2>2. op.opts.since \in Int BY <2>1, Zenon DEF Options
  <2> QED BY <2>1, <2>2
<1>3. Day \in Nat \ {0} /\ "week" \in DOMAIN Calendar /\ \A p \in DOMAIN Calendar : Calendar[p] \in Nat \ {0}
  BY WorkspacesAssumption DEF WorkspacesAssumption
<1>4. EffectiveSince(op.opts) \in Int
  <2>1. \A p \in DOMAIN Calendar : Calendar[p] * Day \in Int BY <1>3, Products
  <2> QED BY <1>1, <1>2, <2>1 DEF EffectiveSince
<1>5. TrendSince(op.opts, op.asked) \in Int
  <2>1. TrendPeriod(op.opts) \in DOMAIN Calendar BY <1>1, <1>3 DEF TrendPeriod
  <2>2. PICK begins \in Int : begins = WindowBounds(op.asked, TrendPeriod(op.opts)).earliest * Day
    <3>1. op.asked \div Day \in Int BY <1>2, <1>3, Quotients
    <3>2. WindowBounds(op.asked, TrendPeriod(op.opts)).earliest \in Int BY <1>3, <2>1, <3>1 DEF WindowBounds
    <3>3. Day \in Int BY <1>3
    <3>4. WindowBounds(op.asked, TrendPeriod(op.opts)).earliest * Day \in Int BY <3>2, <3>3, Products
    <3> QED BY <3>4
  <2>3. PICK since \in Int : since = op.opts.since BY <1>2
  <2>4. PICK asked \in Int : asked = op.asked BY <1>2
  <2>5. (IF since > 0 /\ since < asked - begins THEN since ELSE asked - begins) \in Int OBVIOUS
  <2> QED BY <2>2, <2>3, <2>4, <2>5 DEF TrendSince
<1>6. Since \in {EffectiveSince(op.opts), TrendSince(op.opts, op.asked), op.opts.since}
  BY Zenon DEF Since
<1> QED BY <1>2, <1>4, <1>5, <1>6

LEMMA WantsLess ==
  ASSUME RecordsInv, SourcesInv, op.kind = "report", now' \in {now, now + 1},
         op'.plan = op.plan, op'.opts = op.opts, op'.asked = op.asked
  PROVE  \A x : x.at \in Nat /\ Wants(x)' => Wants(x)
<1>1. PICK since \in Int : since = Since /\ since = Since' BY SinceIsATime DEF Since, Dataset
<1> DEFINE early == Threshold(since, now)
           later == Threshold(since, now')
<1>2. PICK n \in Int, m \in Int : n = now /\ m = now' /\ n =< m BY DEF RecordsInv
<1>3. early \in Int /\ later \in Int /\ (early > 0 => later >= early) BY <1>1, <1>2, ThresholdsGrow
<1>4. ASSUME NEW x PROVE Wants(x) = MatchesOptions(x, op.opts, early) /\ Wants(x)' = MatchesOptions(x, op.opts, later)
  BY <1>1 DEF Wants
<1> HIDE DEF early, later
<1>5. ASSUME NEW x, x.at \in Nat, MatchesOptions(x, op.opts, later) PROVE MatchesOptions(x, op.opts, early)
  <2>1. PICK at \in Int : at = x.at BY <1>5
  <2>2. later > 0 => at >= later BY <1>5, <2>1 DEF MatchesOptions
  <2>3. PICK e \in Int, l \in Int : e = early /\ l = later BY <1>3
  <2>4. e > 0 => at >= e BY <1>3, <2>2, <2>3
  <2> QED BY <1>5, <2>1, <2>3, <2>4 DEF MatchesOptions
<1> QED BY <1>4, <1>5

LEMMA ElementsWithLast ==
  ASSUME NEW s, s \in Seq(Elements(s)), NEW e
  PROVE  /\ Append(s, e) \in Seq(Elements(Append(s, e)))
         /\ DOMAIN Append(s, e) = DOMAIN s \union {Len(s) + 1} /\ Len(s) + 1 \notin DOMAIN s
         /\ Append(s, e)[Len(s) + 1] = e /\ \A i \in DOMAIN s : Append(s, e)[i] = s[i]
<1>1. s \in Seq(Elements(s) \union {e}) /\ Len(s) \in Nat /\ DOMAIN s = 1..Len(s) OBVIOUS
<1>2. Append(s, e) \in Seq(Elements(s) \union {e}) BY <1>1
<1>3. /\ DOMAIN Append(s, e) = 1..(Len(s) + 1) /\ Append(s, e)[Len(s) + 1] = e
      /\ \A i \in 1..Len(s) : Append(s, e)[i] = s[i]
  BY <1>1
<1>4. Elements(Append(s, e)) = Elements(s) \union {e} BY <1>1, <1>3 DEF Elements
<1> QED BY <1>1, <1>2, <1>3, <1>4

LEMMA ReportInitially == Init => ReportInv
BY DEF Init, Idle, ReportInv

\* Reports are at work where nothing is removed.
LEMMA OnlyReports ==
  ASSUME FindInv, FindInv', SourcesInv, [Next]_vars,
         ~\E r \in Requests : RunGain(r) \/ RunHistory(r) \/ RunFilterPerformance(r),
         ~QuerySource, ~FinishDataset, ~NextDataset
  PROVE  UNCHANGED op \/ op'.kind # "report"
<1>1. CASE \/ UNCHANGED vars \/ Tick \/ Crash
           \/ \E root \in Roots : EndRun(root) \/ Damage(root)
           \/ \E d \in Dirs : \E place \in {d, Home} : RunInit(d, place)
  BY <1>1 DEF vars, Tick, Crash, Idle, EndRun, Damage, RunInit
<1>2. CASE \/ \E c \in Calls : StartUninstall(c.cwd)
           \/ RemoveIntegrations \/ RemoveWorkspaceState \/ RemoveGlobalState \/ RemoveExecutable
  <2>1. given' = "uninstall"
    BY <1>2 DEF StartUninstall, RemoveIntegrations, RemoveWorkspaceState, RemoveGlobalState, RemoveExecutable,
                Is, FindInv, setup
  <2> QED BY <2>1 DEF FindInv
<1>3. CASE \/ \E c \in Calls, window \in Windows : StartPurge(c.cwd, c.global, window)
           \/ FinishPurge
  BY <1>3 DEF StartPurge, FinishPurge, Idle
<1>4. CASE PurgeSource BY <1>4, PurgeIs DEF Idle
<1> QED BY <1>1, <1>2, <1>3, <1>4 DEF Next

(* The parts of ReportInv for a report with what it has read, what is left *)
(* to read, and what it may expect of each project.                        *)
LEMMA ReportStart ==
  ASSUME RecordsInv, op'.kind = "report", op'.read = <<>>, op'.finished = "none",
         UNCHANGED <<runs, stored, spooled>>,
         op'.due \subseteq Pairs, Elements(op'.left) = op'.due,
         op'.before = Held(op'.due)
  PROVE  ReportInv'
<1>1. DOMAIN op'.read = {} /\ Elements(op'.read) = {} /\ <<>> \in Seq({}) BY DEF Elements
<1>2. ReadRuns' = {} BY <1>1 DEF ReadRuns
<1>3. \A s \in op'.due : op'.before[s[2]] = stored[s[2]] BY DEF Held
<1> QED BY <1>1, <1>2, <1>3 DEF ReportInv

LEMMA ReportStep == FindInv /\ FindInv' /\ RecordsInv /\ SourcesInv /\ SourcesInv' /\ ReportInv /\ [Next]_vars => ReportInv'
<1> SUFFICES ASSUME FindInv, FindInv', RecordsInv, SourcesInv, SourcesInv', ReportInv, [Next]_vars
             PROVE  ReportInv'
  OBVIOUS
<1>1. CASE op'.kind # "report" BY <1>1 DEF ReportInv
<1>2. ASSUME NEW r \in Requests, RunGain(r) \/ RunHistory(r) \/ RunFilterPerformance(r) PROVE ReportInv'
  <2>1. PICK plan : StartReport(r, plan) BY <1>2 DEF RunGain, RunHistory, RunFilterPerformance
  <2>2. PICK due, left : /\ op'.kind = "report" /\ op'.read = <<>> /\ op'.finished = "none" /\ op'.left = op'.sources
                         /\ op'.before = Held(op'.due)
    BY <2>1 DEF StartReport, Held
  <2>3. UNCHANGED <<runs, stored, spooled>> BY <2>1 DEF StartReport, store
  <2> QED BY <2>2, <2>3, ReportStart DEF SourcesInv
<1>3. CASE NextDataset
  <2>1. CASE op' = Idle BY <1>1, <2>1 DEF Idle
  <2>2. CASE op' # Idle
    <3>1. op.kind = "report" /\ op' = Report(Tail(op.plan), op.sources, now, op.warned, NoRows(Head(Tail(op.plan))), "none", <<>>, Held(op.due))
      BY <1>3, <2>2, NextIs
    <3>2. /\ op'.kind = "report" /\ op'.read = <<>> /\ op'.finished = "none"
          /\ op'.left = op.sources /\ op'.due = op.due /\ op'.before = Held(op.due)
      BY <3>1 DEF Report
    <3>3. UNCHANGED <<runs, stored, spooled>> BY <1>3 DEF NextDataset, store
    <3>4. Held(op.due) = Held(op'.due) BY <3>2
    <3> QED BY <3>1, <3>2, <3>3, <3>4, ReportStart DEF SourcesInv
  <2> QED BY <2>1, <2>2
<1>4. CASE QuerySource
  <2>0. PICK h : h = Head(op.left) OBVIOUS
  <2>1. op.kind = "report" /\ op.left # <<>> /\ op.left \in Seq(Pairs) /\ op.due \subseteq Pairs /\ Distinct(op.left)
    BY <1>4, QueryIs DEF SourcesInv
  <2>2. /\ h \in Pairs /\ Elements(op.left) = {h} \union Elements(Tail(op.left))
        /\ Elements(Tail(op.left)) \subseteq Pairs /\ \A s \in Elements(Tail(op.left)) : s[2] # h[2]
    <3>1. Tail(op.left) \in Seq(Pairs) BY <2>1, ElementsAfterFirst
    <3>2. Elements(Tail(op.left)) \subseteq Pairs BY <3>1 DEF Elements
    <3>3. h \in Pairs /\ Elements(op.left) = {h} \union Elements(Tail(op.left)) BY <2>0, <2>1, ElementsAfterFirst
    <3>4. \A s \in Elements(Tail(op.left)) : s[2] # h[2] BY <2>0, <2>1, DistinctAfterFirst
    <3> QED BY <3>2, <3>3, <3>4
  <2>3. UNCHANGED <<now, runs, stored, spooled, files>> BY <1>4 DEF QuerySource, store
  <2>4. \A s \in Pairs : s[2] \in Roots /\ Collected(s[2])' = Collected(s[2]) BY <2>3 DEF Pairs, Collected
  <2>5. ASSUME NEW warned, NEW rows, NEW read,
               op' = Report(op.plan, Tail(op.left), op.asked, warned, rows, "none", read, op.before)
        PROVE  /\ op'.kind = "report" /\ op'.left = Tail(op.left) /\ op'.warned = warned /\ op'.finished = "none"
               /\ op'.due = op.due /\ op'.before = op.before /\ op'.read = read
               /\ \A s \in op.due : \A x \in op.before[s[2]] : Wants(x)' => Wants(x)
    <3>1. /\ op'.kind = "report" /\ op'.left = Tail(op.left) /\ op'.warned = warned /\ op'.finished = "none"
          /\ op'.due = op.due /\ op'.before = op.before /\ op'.read = read
          /\ op'.plan = op.plan /\ op'.opts = op.opts /\ op'.asked = op.asked
      BY <2>5 DEF Report
    <3>2. \A x : x.at \in Nat /\ Wants(x)' => Wants(x) BY <2>1, <2>3, <3>1, WantsLess
    <3>3. \A s \in op.due : \A x \in op.before[s[2]] : x.at \in Nat
      BY <2>1, <2>4 DEF ReportInv, RecordsInv, Collected
    <3> QED BY <3>1, <3>2, <3>3
  <2>6. ASSUME NEW warned, NEW rows, op' = Report(op.plan, Tail(op.left), op.asked, warned, rows, "none", op.read, op.before),
               warned = op.warned \union {h[2]} \/ (warned = op.warned /\ (h \in op.due => op.before[h[2]] = {}))
        PROVE  ReportInv'
    <3>1. /\ op'.kind = "report" /\ op'.left = Tail(op.left) /\ op'.warned = warned /\ op'.finished = "none"
          /\ op'.due = op.due /\ op'.before = op.before /\ op'.read = op.read
          /\ \A s \in op.due : \A x \in op.before[s[2]] : Wants(x)' => Wants(x)
      BY <2>5, <2>6
    <3>2. ReadRuns' = ReadRuns BY <3>1 DEF ReadRuns
    <3>3. \A s \in Elements(op'.left) : ReadRuns' \intersect Runs(Collected(s[2]))' = {}
      BY <2>1, <2>2, <2>4, <3>1, <3>2 DEF ReportInv, Runs
    <3>4. \A s \in op'.due : \/ s[2] \in op'.warned
                             \/ s \in Elements(op'.left)
                             \/ \A x \in op'.before[s[2]] : Wants(x)' => x.run \in ReadRuns'
      BY <2>1, <2>2, <2>6, <3>1, <3>2 DEF ReportInv
    <3> QED BY <2>1, <2>3, <3>1, <3>2, <3>3, <3>4 DEF ReportInv
  <2>7. ASSUME NEW rows, NEW S, S = Wanted(stored[h[2]]),
               op' = Report(op.plan, Tail(op.left), op.asked, op.warned, rows, "none", Append(op.read, S), op.before)
        PROVE  ReportInv'
    <3>1. /\ op'.kind = "report" /\ op'.left = Tail(op.left) /\ op'.warned = op.warned /\ op'.finished = "none"
          /\ op'.due = op.due /\ op'.before = op.before /\ op'.read = Append(op.read, S)
          /\ \A s \in op.due : \A x \in op.before[s[2]] : Wants(x)' => Wants(x)
      BY <2>5, <2>7
    <3>2. PICK n : n = Len(op.read) + 1 OBVIOUS
    <3>3. /\ op'.read \in Seq(Elements(op'.read))
          /\ DOMAIN op'.read = DOMAIN op.read \union {n} /\ n \notin DOMAIN op.read
          /\ op'.read[n] = S /\ \A i \in DOMAIN op.read : op'.read[i] = op.read[i]
      BY <2>1, <3>1, <3>2, ElementsWithLast DEF ReportInv
    <3>4. ReadRuns' = ReadRuns \union Runs(S) BY <3>3 DEF ReadRuns
    <3>5. S \subseteq Collected(h[2]) /\ \A x \in stored[h[2]] : Wants(x) => x \in S
      BY <2>7 DEF Wanted, Wants, Collected
    <3>6. ReadRuns' \subseteq 1..runs'
      BY <2>1, <2>2, <2>3, <2>4, <3>4, <3>5 DEF ReportInv, RecordsInv, Runs
    <3>7. ReadRuns \intersect Runs(Collected(h[2])) = {} BY <2>1, <2>2 DEF ReportInv
    <3>8. ASSUME NEW i \in DOMAIN op'.read, NEW j \in DOMAIN op'.read,
                 NEW x \in op'.read[i], NEW y \in op'.read[j], x.run = y.run
          PROVE  i = j /\ x = y
      <4>1. CASE i # n /\ j # n BY <2>1, <3>3, <3>8, <4>1 DEF ReportInv
      <4>2. CASE i = n /\ j = n BY <2>2, <2>4, <3>3, <3>5, <3>8, <4>2 DEF RecordsInv
      <4>3. \A k \in DOMAIN op.read : \A z \in op.read[k] : z.run \in ReadRuns BY DEF ReadRuns, Runs
      <4>4. \A z \in S : z.run \in Runs(Collected(h[2])) BY <3>5 DEF Runs
      <4>5. CASE i = n /\ j # n BY <3>3, <3>7, <3>8, <4>3, <4>4, <4>5
      <4>6. CASE i # n /\ j = n BY <3>3, <3>7, <3>8, <4>3, <4>4, <4>6
      <4> QED BY <4>1, <4>2, <4>5, <4>6
    <3>9. ASSUME NEW s \in Elements(op'.left) PROVE ReadRuns' \intersect Runs(Collected(s[2]))' = {}
      <4>1. s \in Elements(Tail(op.left)) /\ s \in Pairs /\ s[2] # h[2] BY <2>2, <3>1
      <4>2. Runs(S) \intersect Runs(Collected(s[2])) = {} BY <2>2, <2>4, <3>5, <4>1 DEF RecordsInv, Runs
      <4>3. ReadRuns \intersect Runs(Collected(s[2])) = {} BY <2>1, <2>2, <4>1 DEF ReportInv
      <4>4. Runs(Collected(s[2]))' = Runs(Collected(s[2])) BY <2>4, <4>1 DEF Runs
      <4> QED BY <3>4, <4>2, <4>3, <4>4
    <3>10. \A s \in op'.due : \/ s[2] \in op'.warned
                              \/ s \in Elements(op'.left)
                              \/ \A x \in op'.before[s[2]] : Wants(x)' => x.run \in ReadRuns'
      <4> SUFFICES ASSUME NEW s \in op.due, s[2] \notin op.warned, s \notin Elements(Tail(op.left)),
                          NEW x \in op.before[s[2]], Wants(x)'
                   PROVE  x.run \in ReadRuns \union Runs(S)
        BY <3>1, <3>4
      <4>1. Wants(x) BY <3>1
      <4>2. CASE s = h
        <5>1. x \in stored[h[2]] BY <2>1, <4>2 DEF ReportInv
        <5> QED BY <3>5, <4>1, <5>1 DEF Runs
      <4>3. CASE s # h BY <2>1, <2>2, <4>1, <4>3 DEF ReportInv
      <4> QED BY <4>2, <4>3
    <3> QED BY <2>1, <2>3, <3>1, <3>3, <3>6, <3>8, <3>9, <3>10 DEF ReportInv
  <2>8. h[2] \notin files /\ h \in op.due => op.before[h[2]] = {}
    BY <2>1, <2>2, <2>4 DEF ReportInv, RecordsInv
  <2>9. CASE op' = Idle BY <1>1, <2>9 DEF Idle
  <2>10. \/ \E rows : op' = Report(op.plan, Tail(op.left), op.asked, op.warned, rows, "none",
                                   Append(op.read, Wanted(stored[h[2]])), op.before)
         \/ /\ h[2] \notin files
            /\ op' = Report(op.plan, Tail(op.left), op.asked, op.warned, op.rows, "none", op.read, op.before)
         \/ op' = Report(op.plan, Tail(op.left), op.asked, op.warned \union {h[2]}, op.rows, "none", op.read, op.before)
         \/ op' = Idle
    BY <1>4, <2>0, QueryIs
  <2> QED BY <2>6, <2>7, <2>8, <2>9, <2>10
<1>5. CASE FinishDataset
  <2>1. PICK rows, finished : op' = Report(op.plan, op.left, op.asked, op.warned, rows, finished, op.read, op.before)
    BY <1>5, FinishIs
  <2>2. /\ op.kind = "report" /\ op'.left = op.left /\ op.left = <<>> /\ op'.warned = op.warned
        /\ op'.due = op.due /\ op'.before = op.before /\ op'.read = op.read
        /\ op'.plan = op.plan /\ op'.opts = op.opts /\ op'.asked = op.asked
    BY <1>5, <2>1, FinishIs DEF Report
  <2>3. UNCHANGED <<now, runs, stored, spooled>> BY <1>5 DEF FinishDataset, store
  <2>4. \A x : x.at \in Nat /\ Wants(x)' => Wants(x) BY <2>2, <2>3, WantsLess
  <2>5. \A s \in op.due : \A x \in op.before[s[2]] : x.at \in Nat
    BY <2>2 DEF SourcesInv, Pairs, ReportInv, RecordsInv, Collected
  <2>6. ReadRuns' = ReadRuns /\ Elements(op'.left) = {} BY <2>2 DEF ReadRuns, Elements
  <2>7. \A s \in op'.due : op'.before[s[2]] \subseteq stored'[s[2]] BY <2>2, <2>3 DEF ReportInv
  <2>8. \A s \in op'.due : s[2] \in op'.warned \/ \A x \in op'.before[s[2]] : Wants(x)' => x.run \in ReadRuns'
    <3>1. \A s \in op.due : s[2] \in op.warned \/ \A x \in op.before[s[2]] : Wants(x) => x.run \in ReadRuns
      BY <2>2 DEF ReportInv, Elements
    <3> QED BY <2>2, <2>4, <2>5, <2>6, <3>1
  <2>9. ReadRuns' \subseteq 1..runs' BY <2>2, <2>3, <2>6 DEF ReportInv
  <2> QED BY <2>2, <2>6, <2>7, <2>8, <2>9 DEF ReportInv
<1>6. CASE op' = op /\ op.kind = "report"
  <2>1. op.due \subseteq Pairs /\ Elements(op.left) \subseteq Pairs
    BY <1>6 DEF SourcesInv, Elements
  <2>2. \A s \in Pairs : s[2] \in Roots BY DEF Pairs
  <2>3. ReadRuns' = ReadRuns BY <1>6 DEF ReadRuns
  <2>4. \A s \in op.due : \A x \in op.before[s[2]] : x.at \in Nat
    BY <1>6, <2>1, <2>2 DEF ReportInv, RecordsInv, Collected
  <2>5. now' \in {now, now + 1} => \A x : x.at \in Nat /\ Wants(x)' => Wants(x) BY <1>6, WantsLess
  <2>6. ASSUME NEW root \in Roots, EndRun(root) PROVE ReportInv'
    <3>1. PICK x : /\ x.run = runs + 1
                   /\ Collected(root)' = Collected(root) \union {x}
                   /\ \A r \in Roots \ {root} : Collected(r)' = Collected(r)
      BY <2>6, EndRunAdds
    <3>2. runs' = runs + 1 /\ now' = now /\ runs \in Nat /\ \A r \in Roots : stored[r] \subseteq stored'[r]
      BY <2>6, EndRunAdds DEF RecordsInv
    <3>3. x.run \notin ReadRuns /\ ReadRuns' \subseteq 1..runs' BY <1>6, <2>3, <3>1, <3>2 DEF ReportInv
    <3>4. \A r \in Roots : \A y \in Collected(r)' : y \in Collected(r) \/ y = x BY <3>1
    <3>5. ASSUME NEW s \in Elements(op.left) PROVE ReadRuns \intersect Runs(Collected(s[2]))' = {}
      <4>1. s[2] \in Roots /\ ReadRuns \intersect Runs(Collected(s[2])) = {} BY <1>6, <2>1, <2>2 DEF ReportInv
      <4> QED BY <3>3, <3>4, <4>1 DEF Runs
    <3> QED BY <1>6, <2>1, <2>2, <2>3, <2>4, <2>5, <3>2, <3>3, <3>5 DEF ReportInv
  <2>7. CASE ~\E root \in Roots : EndRun(root)
    <3>1. runs' = runs /\ now' \in {now, now + 1} /\ UNCHANGED <<stored, spooled>>
      BY <1>6, <2>7, OnlyRunsAdd DEF store
    <3>2. \A s \in Pairs : Runs(Collected(s[2]))' = Runs(Collected(s[2])) BY <3>1 DEF Collected, Runs
    <3> QED BY <1>6, <2>1, <2>3, <2>4, <2>5, <3>1, <3>2 DEF ReportInv
  <2> QED BY <2>6, <2>7
<1>7. CASE /\ ~\E r \in Requests : RunGain(r) \/ RunHistory(r) \/ RunFilterPerformance(r)
           /\ ~QuerySource /\ ~FinishDataset /\ ~NextDataset
  <2>1. UNCHANGED op \/ op'.kind # "report" BY <1>7, OnlyReports
  <2> QED BY <1>1, <1>6, <2>1
<1> QED BY <1>2, <1>3, <1>4, <1>5, <1>7

-----------------------------------------------------------------------------
(* Sums.  What the records of two databases come to is what each comes to, *)
(* added up.                                                               *)

Weighed(records) ==
  IsFiniteSet(records) /\ \A r \in records : r["raw"] \in Nat /\ r["kept"] \in Nat /\ r["duration"] \in Nat

Fields == {"raw", "kept", "duration"}

LEMMA UnitsAreFinite ==
  ASSUME NEW S, Weighed(S), NEW field \in Fields
  PROVE  IsFiniteSet(Units(field, S)) /\ Total(field, S) \in Nat
<1> DEFINE parts == {{r} \X (1..r[field]) : r \in S}
           part  == [r \in S |-> {r} \X (1..r[field])]
<1>1. IsFiniteSet(parts)
  <2>1. part \in Surjection(S, parts) BY DEF Surjection
  <2> HIDE DEF part, parts
  <2> QED BY <2>1, FS_Surjection DEF Weighed
<1>2. \A T \in parts : IsFiniteSet(T)
  <2> SUFFICES ASSUME NEW r \in S PROVE IsFiniteSet({r} \X (1..r[field])) OBVIOUS
  <2>1. PICK n \in Nat : n = r[field] BY DEF Weighed, Fields
  <2>2. IsFiniteSet(1..n) BY FS_Interval
  <2> QED BY <2>1, <2>2, FS_Singleton, FS_Product
<1>3. Units(field, S) = UNION parts BY DEF Units
<1> HIDE DEF parts
<1>4. IsFiniteSet(Units(field, S)) BY <1>1, <1>2, <1>3, FS_UNION
<1> QED BY <1>4, FS_CardinalityType DEF Total

LEMMA CardinalitiesAdd ==
  ASSUME NEW S, NEW T, IsFiniteSet(S), IsFiniteSet(T), S \intersect T = {}
  PROVE  /\ Cardinality(S \union T) = Cardinality(S) + Cardinality(T)
         /\ Cardinality(S) \in Nat /\ Cardinality(T) \in Nat
<1>1. Cardinality(S \union T) = Cardinality(S) + Cardinality(T) - Cardinality(S \intersect T) BY FS_Union
<1>2. Cardinality(S \intersect T) = 0 BY FS_EmptySet
<1> QED BY <1>1, <1>2, FS_CardinalityType

LEMMA TotalsAdd ==
  ASSUME NEW S, NEW T, Weighed(S), Weighed(T), S \intersect T = {}, NEW field \in Fields
  PROVE  Total(field, S \union T) = Total(field, S) + Total(field, T)
<1>1. IsFiniteSet(Units(field, S)) /\ IsFiniteSet(Units(field, T)) BY UnitsAreFinite
<1>2. Units(field, S \union T) = Units(field, S) \union Units(field, T) BY DEF Units
<1>3. Units(field, S) \intersect Units(field, T) = {} BY DEF Units
<1> QED BY <1>1, <1>2, <1>3, CardinalitiesAdd DEF Total

LEMMA TalliesAdd ==
  ASSUME NEW S, NEW T, Weighed(S), Weighed(T), S \intersect T = {}
  PROVE  Tally(S \union T) = [f \in DOMAIN Tally(S) |-> Tally(S)[f] + Tally(T)[f]]
<1>1. Cardinality(S \union T) = Cardinality(S) + Cardinality(T) BY CardinalitiesAdd DEF Weighed
<1>2. \A field \in {"raw", "kept"} : Total(field, S \union T) = Total(field, S) + Total(field, T)
  BY TotalsAdd DEF Fields
<1> QED BY <1>1, <1>2 DEF Tally

LEMMA ActivitiesAdd ==
  ASSUME NEW S, NEW T, Weighed(S), Weighed(T), S \intersect T = {}
  PROVE  Activity(S \union T) = [f \in DOMAIN Activity(S) |-> Activity(S)[f] + Activity(T)[f]]
<1>1. Cardinality(S \union T) = Cardinality(S) + Cardinality(T) BY CardinalitiesAdd DEF Weighed
<1>2. \A field \in {"raw", "kept", "duration"} : Total(field, S \union T) = Total(field, S) + Total(field, T)
  BY TotalsAdd DEF Fields
<1>3. Cardinality({r \in S \union T : r.failed}) = Cardinality({r \in S : r.failed}) + Cardinality({r \in T : r.failed})
  <2>1. {r \in S \union T : r.failed} = {r \in S : r.failed} \union {r \in T : r.failed} OBVIOUS
  <2>2. IsFiniteSet({r \in S : r.failed}) /\ IsFiniteSet({r \in T : r.failed}) BY FS_Subset DEF Weighed
  <2> QED BY <2>1, <2>2, CardinalitiesAdd
<1>4. Cardinality({r \in S \union T : r.passthrough})
        = Cardinality({r \in S : r.passthrough}) + Cardinality({r \in T : r.passthrough})
  <2>1. {r \in S \union T : r.passthrough} = {r \in S : r.passthrough} \union {r \in T : r.passthrough} OBVIOUS
  <2>2. IsFiniteSet({r \in S : r.passthrough}) /\ IsFiniteSet({r \in T : r.passthrough}) BY FS_Subset DEF Weighed
  <2> QED BY <2>1, <2>2, CardinalitiesAdd
<1> DEFINE names == {"commands", "raw", "kept", "passthrough", "failed", "duration"}
<1>5. \A X : Activity(X) = [f \in names |-> Activity(X)[f]] BY DEF Activity
<1>6. ASSUME NEW f \in names PROVE Activity(S \union T)[f] = Activity(S)[f] + Activity(T)[f]
  <2>1. CASE f = "commands" BY <1>1, <2>1 DEF Activity
  <2>2. CASE f \in {"raw", "kept", "duration"} BY <1>2, <2>2 DEF Activity
  <2>3. CASE f = "failed" BY <1>3, <2>3 DEF Activity
  <2>4. CASE f = "passthrough" BY <1>4, <2>4 DEF Activity
  <2> QED BY <2>1, <2>2, <2>3, <2>4
<1>7. DOMAIN Activity(S) = names BY DEF Activity
<1> HIDE DEF names
<1>8. Activity(S \union T) = [f \in names |-> Activity(S \union T)[f]] BY <1>5
<1> QED BY <1>6, <1>7, <1>8

(* The records of each key, by a function, and what they come to.          *)
Of(key, k, S) == {r \in S : key[r] = k}
Sums(sum, key, S) == [k \in {key[r] : r \in S} |-> sum[Of(key, k, S)]]

Tallied(U) == [S \in SUBSET U |-> Tally(S)]
Active(U) == [S \in SUBSET U |-> Activity(S)]
Counted(U) == [S \in SUBSET U |-> [count |-> Cardinality(S)]]

Additive(sum, U) ==
  \A S, T \in SUBSET U : S \intersect T = {} => sum[S \union T] = [f \in DOMAIN sum[S] |-> sum[S][f] + sum[T][f]]

LEMMA AllAreAdditive ==
  ASSUME NEW U, Weighed(U)
  PROVE  Additive(Tallied(U), U) /\ Additive(Active(U), U) /\ Additive(Counted(U), U)
<1>1. \A S \in SUBSET U : Weighed(S) BY FS_Subset DEF Weighed
<1>2. ASSUME NEW S \in SUBSET U, NEW T \in SUBSET U, S \intersect T = {}
      PROVE  /\ Tallied(U)[S \union T] = [f \in DOMAIN Tallied(U)[S] |-> Tallied(U)[S][f] + Tallied(U)[T][f]]
             /\ Active(U)[S \union T] = [f \in DOMAIN Active(U)[S] |-> Active(U)[S][f] + Active(U)[T][f]]
             /\ Counted(U)[S \union T] = [f \in DOMAIN Counted(U)[S] |-> Counted(U)[S][f] + Counted(U)[T][f]]
  <2>1. Weighed(S) /\ Weighed(T) BY <1>1
  <2>2. Tally(S \union T) = [f \in DOMAIN Tally(S) |-> Tally(S)[f] + Tally(T)[f]] BY <1>2, <2>1, TalliesAdd
  <2>3. Activity(S \union T) = [f \in DOMAIN Activity(S) |-> Activity(S)[f] + Activity(T)[f]] BY <1>2, <2>1, ActivitiesAdd
  <2>4. Cardinality(S \union T) = Cardinality(S) + Cardinality(T) BY <1>2, <2>1, CardinalitiesAdd DEF Weighed
  <2>5. /\ Tallied(U)[S] = Tally(S) /\ Tallied(U)[T] = Tally(T) /\ Tallied(U)[S \union T] = Tally(S \union T)
        /\ Active(U)[S] = Activity(S) /\ Active(U)[T] = Activity(T) /\ Active(U)[S \union T] = Activity(S \union T)
    BY DEF Tallied, Active
  <2>6. PICK m, n : m = Cardinality(S) /\ n = Cardinality(T) OBVIOUS
  <2>7. Counted(U)[S] = [count |-> m] /\ Counted(U)[T] = [count |-> n] /\ Counted(U)[S \union T] = [count |-> m + n]
    BY <2>4, <2>6 DEF Counted
  <2>8. Counted(U)[S \union T] = [f \in DOMAIN Counted(U)[S] |-> Counted(U)[S][f] + Counted(U)[T][f]]
    BY <2>7
  <2> QED BY <2>2, <2>3, <2>5, <2>8
<1> QED BY <1>2 DEF Additive

LEMMA MergedOfBoth ==
  ASSUME NEW left, NEW right, NEW k \in DOMAIN left \intersect DOMAIN right,
         NEW a, NEW b, left[k] = a, right[k] = b
  PROVE  Merged(left, right)[k] = [f \in DOMAIN a |-> a[f] + b[f]]
BY DEF Merged

LEMMA SumsMerge ==
  ASSUME NEW U, NEW S \in SUBSET U, NEW T \in SUBSET U, S \intersect T = {}, NEW key, NEW sum, Additive(sum, U)
  PROVE  Merged(Sums(sum, key, S), Sums(sum, key, T)) = Sums(sum, key, S \union T)
<1> DEFINE left == Sums(sum, key, S)
           right == Sums(sum, key, T)
           both == Sums(sum, key, S \union T)
<1>1. /\ DOMAIN left = {key[r] : r \in S} /\ DOMAIN right = {key[r] : r \in T}
      /\ DOMAIN both = DOMAIN left \union DOMAIN right
      /\ both = [k \in DOMAIN both |-> both[k]]
  BY DEF Sums
<1>2. /\ \A k \in DOMAIN left : left[k] = sum[Of(key, k, S)]
      /\ \A k \in DOMAIN right : right[k] = sum[Of(key, k, T)]
      /\ \A k \in DOMAIN both : both[k] = sum[Of(key, k, S \union T)]
  BY DEF Sums
<1> HIDE DEF left, right, both
<1>3. /\ Merged(left, right) = [k \in DOMAIN left \union DOMAIN right |-> Merged(left, right)[k]]
      /\ \A k \in DOMAIN right : k \notin DOMAIN left => Merged(left, right)[k] = right[k]
      /\ \A k \in DOMAIN left : k \notin DOMAIN right => Merged(left, right)[k] = left[k]
  BY DEF Merged
<1>4. ASSUME NEW k \in DOMAIN both PROVE Merged(left, right)[k] = both[k]
  <2>0. /\ Of(key, k, S) \in SUBSET U /\ Of(key, k, T) \in SUBSET U /\ Of(key, k, S) \intersect Of(key, k, T) = {}
        /\ Of(key, k, S \union T) = Of(key, k, S) \union Of(key, k, T)
        /\ k \notin {key[r] : r \in S} => Of(key, k, S) = {}
        /\ k \notin {key[r] : r \in T} => Of(key, k, T) = {}
    BY DEF Of
  <2>1. CASE k \notin DOMAIN left
    <3>1. Of(key, k, S \union T) = Of(key, k, T) BY <1>1, <2>0, <2>1
    <3>2. k \in DOMAIN right BY <1>1, <2>1
    <3>3. Merged(left, right)[k] = right[k] BY <1>3, <2>1, <3>2
    <3>4. right[k] = sum[Of(key, k, T)] /\ both[k] = sum[Of(key, k, S \union T)] BY <1>2, <3>2
    <3> QED BY <3>1, <3>3, <3>4
  <2>2. CASE k \in DOMAIN left /\ k \notin DOMAIN right
    <3>1. Of(key, k, S \union T) = Of(key, k, S) BY <1>1, <2>0, <2>2
    <3>2. Merged(left, right)[k] = left[k] BY <1>3, <2>2
    <3>3. left[k] = sum[Of(key, k, S)] /\ both[k] = sum[Of(key, k, S \union T)] BY <1>2, <2>2
    <3> QED BY <3>1, <3>2, <3>3
  <2>3. CASE k \in DOMAIN left /\ k \in DOMAIN right
    <3>1. PICK a, b : a = sum[Of(key, k, S)] /\ b = sum[Of(key, k, T)] OBVIOUS
    <3>2. sum[Of(key, k, S) \union Of(key, k, T)] = [f \in DOMAIN a |-> a[f] + b[f]]
      BY <2>0, <3>1 DEF Additive
    <3>3. left[k] = a /\ right[k] = b BY <1>2, <2>3, <3>1
    <3>4. Merged(left, right)[k] = [f \in DOMAIN a |-> a[f] + b[f]]
      BY <2>3, <3>3, MergedOfBoth
    <3> QED BY <1>2, <2>0, <3>2, <3>4
  <2> QED BY <2>1, <2>2, <2>3
<1>5. Merged(left, right) = both BY <1>1, <1>3, <1>4
<1> QED BY <1>5 DEF left, right, both

(* What a database answers is such sums, or its records as they are.       *)
Datasets == {"total", "summary", "tools", "period", "trend", "performance", "missed", "builds", "history"}

Missed(S) == {r \in S : r.passthrough}
Overall(U) == [r \in U |-> "all"]
ByCommand(U) == [r \in U |-> r.command]
ByTool(U) == [r \in U |-> r.tool]
ByBucket(U, period) == [r \in U |-> BucketFor(r.at, period)]
ByFilter(U) == [r \in U |-> <<r.tool, r.filter>>]

LEMMA RowsAreSums ==
  ASSUME NEW U, NEW S \in SUBSET U, NEW period
  PROVE  /\ QuerySummary(S) = Sums(Tallied(U), Overall(U), S)
         /\ SummaryRows(S) = Sums(Tallied(U), ByCommand(U), S)
         /\ SummaryRowsByTool(S) = Sums(Tallied(U), ByTool(U), S)
         /\ PeriodRows(S, period) = Sums(Tallied(U), ByBucket(U, period), S)
         /\ PerformanceRows(S) = Sums(Active(U), ByFilter(U), S)
         /\ MissedRows(S) = Sums(Counted(U), ByCommand(U), Missed(S))
<1>1. QuerySummary(S) = Sums(Tallied(U), Overall(U), S)
  <2> DEFINE key == Overall(U)
  <2>1. {key[r] : r \in S} = {"all" : r \in S} /\ \A k : Of(key, k, S) = {r \in S : "all" = k}
    BY DEF Of, Overall
  <2> HIDE DEF key
  <2>2. QuerySummary(S) = [k \in {"all" : r \in S} |-> Tally({r \in S : "all" = k})]
    BY DEF QuerySummary, Grouped
  <2>3. ASSUME NEW k PROVE Tallied(U)[Of(key, k, S)] = Tally({r \in S : "all" = k})
    BY <2>1 DEF Tallied
  <2>4. Sums(Tallied(U), key, S) = [k \in {"all" : r \in S} |-> Tally({r \in S : "all" = k})]
    BY <2>1, <2>3 DEF Sums
  <2> QED BY <2>2, <2>4 DEF key
<1>2. SummaryRows(S) = Sums(Tallied(U), ByCommand(U), S)
  <2> DEFINE key == ByCommand(U)
  <2>1. {key[r] : r \in S} = {r.command : r \in S} /\ \A k : Of(key, k, S) = {r \in S : r.command = k}
    BY DEF Of, ByCommand
  <2> HIDE DEF key
  <2>2. SummaryRows(S) = [k \in {r.command : r \in S} |-> Tally({r \in S : r.command = k})]
    BY DEF SummaryRows, Grouped
  <2>3. ASSUME NEW k PROVE Tallied(U)[Of(key, k, S)] = Tally({r \in S : r.command = k})
    BY <2>1 DEF Tallied
  <2>4. Sums(Tallied(U), key, S) = [k \in {r.command : r \in S} |-> Tally({r \in S : r.command = k})]
    BY <2>1, <2>3 DEF Sums
  <2> QED BY <2>2, <2>4 DEF key
<1>3. SummaryRowsByTool(S) = Sums(Tallied(U), ByTool(U), S)
  <2> DEFINE key == ByTool(U)
  <2>1. {key[r] : r \in S} = {r.tool : r \in S} /\ \A k : Of(key, k, S) = {r \in S : r.tool = k}
    BY DEF Of, ByTool
  <2> HIDE DEF key
  <2>2. SummaryRowsByTool(S) = [k \in {r.tool : r \in S} |-> Tally({r \in S : r.tool = k})]
    BY DEF SummaryRowsByTool, Grouped
  <2>3. ASSUME NEW k PROVE Tallied(U)[Of(key, k, S)] = Tally({r \in S : r.tool = k})
    BY <2>1 DEF Tallied
  <2>4. Sums(Tallied(U), key, S) = [k \in {r.tool : r \in S} |-> Tally({r \in S : r.tool = k})]
    BY <2>1, <2>3 DEF Sums
  <2> QED BY <2>2, <2>4 DEF key
<1>4. PeriodRows(S, period) = Sums(Tallied(U), ByBucket(U, period), S)
  <2> DEFINE key == ByBucket(U, period)
  <2>1. {key[r] : r \in S} = {BucketFor(r.at, period) : r \in S} /\ \A k : Of(key, k, S) = {r \in S : BucketFor(r.at, period) = k}
    BY DEF Of, ByBucket
  <2> HIDE DEF key
  <2>2. PeriodRows(S, period) = [k \in {BucketFor(r.at, period) : r \in S} |-> Tally({r \in S : BucketFor(r.at, period) = k})]
    BY DEF PeriodRows, Grouped
  <2>3. ASSUME NEW k PROVE Tallied(U)[Of(key, k, S)] = Tally({r \in S : BucketFor(r.at, period) = k})
    BY <2>1 DEF Tallied
  <2>4. Sums(Tallied(U), key, S) = [k \in {BucketFor(r.at, period) : r \in S} |-> Tally({r \in S : BucketFor(r.at, period) = k})]
    BY <2>1, <2>3 DEF Sums
  <2> QED BY <2>2, <2>4 DEF key
<1>5. PerformanceRows(S) = Sums(Active(U), ByFilter(U), S)
  <2> DEFINE key == ByFilter(U)
  <2>1. {key[r] : r \in S} = {<<r.tool, r.filter>> : r \in S} /\ \A k : Of(key, k, S) = {r \in S : <<r.tool, r.filter>> = k}
    BY DEF Of, ByFilter
  <2> HIDE DEF key
  <2>2. PerformanceRows(S) = [k \in {<<r.tool, r.filter>> : r \in S} |-> Activity({r \in S : <<r.tool, r.filter>> = k})]
    BY DEF PerformanceRows, Grouped
  <2>3. ASSUME NEW k PROVE Active(U)[Of(key, k, S)] = Activity({r \in S : <<r.tool, r.filter>> = k})
    BY <2>1 DEF Active
  <2>4. Sums(Active(U), key, S) = [k \in {<<r.tool, r.filter>> : r \in S} |-> Activity({r \in S : <<r.tool, r.filter>> = k})]
    BY <2>1, <2>3 DEF Sums
  <2> QED BY <2>2, <2>4 DEF key
<1>6. MissedRows(S) = Sums(Counted(U), ByCommand(U), Missed(S))
  <2> DEFINE key == ByCommand(U)
  <2>1. {key[r] : r \in Missed(S)} = {r.command : r \in Missed(S)} /\ \A k : Of(key, k, Missed(S)) = {r \in Missed(S) : r.command = k}
    BY DEF Of, Missed, ByCommand
  <2> HIDE DEF key
  <2>2. MissedRows(S) = [k \in {r.command : r \in Missed(S)} |-> [count |-> Cardinality({r \in Missed(S) : r.command = k})]]
    BY DEF MissedRows, Grouped, Missed
  <2>3. ASSUME NEW k PROVE Counted(U)[Of(key, k, Missed(S))] = [count |-> Cardinality({r \in Missed(S) : r.command = k})]
    BY <2>1 DEF Counted, Missed
  <2>4. Sums(Counted(U), key, Missed(S)) = [k \in {r.command : r \in Missed(S)} |-> [count |-> Cardinality({r \in Missed(S) : r.command = k})]]
    BY <2>1, <2>3 DEF Sums
  <2> QED BY <2>2, <2>4 DEF key
<1> QED BY <1>1, <1>2, <1>3, <1>4, <1>5, <1>6

\* Two answers joined are the answer for the records of both.
LEMMA JoinedAsOne ==
  ASSUME NEW S, NEW T, Weighed(S), Weighed(T), S \intersect T = {}, NEW dataset \in Datasets, NEW period
  PROVE  Joined(dataset, Query(dataset, period, S), Query(dataset, period, T)) = Query(dataset, period, S \union T)
<1> DEFINE U == S \union T
<1>1. Weighed(U) BY FS_Union DEF Weighed
<1>2. S \in SUBSET U /\ T \in SUBSET U /\ U \in SUBSET U /\ S \union T = U OBVIOUS
<1> HIDE DEF U
<1>3. Additive(Tallied(U), U) /\ Additive(Active(U), U) /\ Additive(Counted(U), U) BY <1>1, AllAreAdditive
<1>4. \A key : Merged(Sums(Tallied(U), key, S), Sums(Tallied(U), key, T)) = Sums(Tallied(U), key, U)
  BY <1>2, <1>3, SumsMerge
<1>5. \A key : Merged(Sums(Active(U), key, S), Sums(Active(U), key, T)) = Sums(Active(U), key, U)
  BY <1>2, <1>3, SumsMerge
<1>6. \A key : Merged(Sums(Counted(U), key, Missed(S)), Sums(Counted(U), key, Missed(T))) = Sums(Counted(U), key, Missed(U))
  <2>1. Missed(S) \in SUBSET U /\ Missed(T) \in SUBSET U /\ Missed(S) \intersect Missed(T) = {}
        /\ Missed(S) \union Missed(T) = Missed(U)
    BY <1>2 DEF Missed
  <2> QED BY <1>3, <2>1, SumsMerge
<1>7. CASE dataset \in Listed
  BY <1>2, <1>7 DEF Listed, Joined, Query, RegistryBuildEvents
<1>8. /\ Merged(QuerySummary(S), QuerySummary(T)) = QuerySummary(U)
      /\ Merged(SummaryRows(S), SummaryRows(T)) = SummaryRows(U)
      /\ Merged(SummaryRowsByTool(S), SummaryRowsByTool(T)) = SummaryRowsByTool(U)
  BY <1>2, <1>4, RowsAreSums
<1>9. \A p : Merged(PeriodRows(S, p), PeriodRows(T, p)) = PeriodRows(U, p)
  BY <1>2, <1>4, RowsAreSums
<1>10. Merged(PerformanceRows(S), PerformanceRows(T)) = PerformanceRows(U)
  <2>1. \A X \in SUBSET U : PerformanceRows(X) = Sums(Active(U), ByFilter(U), X) BY RowsAreSums
  <2> QED BY <1>2, <1>5, <2>1
<1>11. Merged(MissedRows(S), MissedRows(T)) = MissedRows(U)
  <2>1. \A X \in SUBSET U : MissedRows(X) = Sums(Counted(U), ByCommand(U), Missed(X)) BY RowsAreSums
  <2> QED BY <1>2, <1>6, <2>1
<1>12. CASE dataset \notin Listed
  <2>1. Joined(dataset, Query(dataset, period, S), Query(dataset, period, T))
          = Merged(Query(dataset, period, S), Query(dataset, period, T))
    BY <1>12 DEF Joined
  <2> QED BY <1>2, <1>8, <1>9, <1>10, <1>11, <1>12, <2>1 DEF Query, Datasets, Listed
<1> QED BY <1>7, <1>12 DEF U

\* A report that has read nothing has no rows.
LEMMA NothingRead ==
  ASSUME NEW dataset \in Datasets, NEW period
  PROVE  NoRows(dataset) = Query(dataset, period, {})
<1>1. CASE dataset \in Listed BY <1>1 DEF NoRows, Listed, Query, RegistryBuildEvents
<1>2. CASE dataset \notin Listed
  <2>1. \A sum, key : Sums(sum, key, {}) = <<>> BY DEF Sums
  <2>2. Missed({}) = {} BY DEF Missed
  <2>3. \A p : /\ QuerySummary({}) = <<>> /\ SummaryRows({}) = <<>> /\ SummaryRowsByTool({}) = <<>>
               /\ PeriodRows({}, p) = <<>> /\ PerformanceRows({}) = <<>> /\ MissedRows({}) = <<>>
    BY <2>1, <2>2, RowsAreSums
  <2> QED BY <1>2, <2>3 DEF NoRows, Listed, Query, Datasets
<1> QED BY <1>1, <1>2

(* What is counted.  The rows of a report are the answer of one database   *)
(* with all the records that it has read, and what is printed of them once *)
(* the dataset is complete.                                                *)

AllRead == UNION Elements(op.read)
Answer(dataset, read) == Query(dataset, Period(dataset), read)

RowsInv ==
  /\ \A r \in Roots : Weighed(Collected(r))
  /\ op.kind = "report" =>
       /\ op.plan \in Seq(Datasets) /\ op.plan # <<>>
       /\ Weighed(AllRead)
       /\ op.finished = "none" => op.rows = Answer(Dataset, AllRead)
       /\ op.finished # "none" => op.rows = Finished(op.finished, Period(op.finished), op.asked, Answer(op.finished, AllRead))

LEMMA RowsInitially == Init => RowsInv
<1>1. Weighed({}) BY FS_EmptySet DEF Weighed
<1> QED BY <1>1 DEF Init, Idle, Collected, RowsInv

LEMMA WeighedUnions ==
  ASSUME NEW S, Weighed(S)
  PROVE  /\ \A T \in SUBSET S : Weighed(T)
         /\ \A T : Weighed(T) => Weighed(S \union T)
         /\ \A x : x["raw"] \in Nat /\ x["kept"] \in Nat /\ x["duration"] \in Nat => Weighed(S \union {x})
<1>1. \A T \in SUBSET S : Weighed(T) BY FS_Subset DEF Weighed
<1>2. \A T : Weighed(T) => Weighed(S \union T) BY FS_Union DEF Weighed
<1>3. \A x : IsFiniteSet({x}) BY FS_Singleton
<1> QED BY <1>1, <1>2, <1>3 DEF Weighed

\* A plan is of the datasets there are.
LEMMA PlansAreOfDatasets ==
  ASSUME NEW opts \in Options, NEW global
  PROVE  GainPlan(opts, global) \in Seq(Datasets) /\ GainPlan(opts, global) # <<>>
<1>1. opts.format \in {"text", "table", "data"} BY DEF Options
<1> DEFINE total == IF global THEN <<"summary">> ELSE <<"total">>
<1>2. GainPlan(opts, global) \in {<<"period">>, total, total \o <<"summary">>, total \o <<"tools">>, total \o <<"tools", "trend">>}
  <2>1. CASE opts.format = "text"
    <3>1. GainPlan(opts, global) = total \o <<"tools", "trend">> BY <2>1, Zenon DEF GainPlan
    <3> QED BY <3>1
  <2>2. CASE opts.period # "" /\ opts.format # "text"
    <3>1. GainPlan(opts, global) = <<"period">> BY <2>2, Zenon DEF GainPlan
    <3> QED BY <3>1
  <2>3. CASE opts.period = "" /\ opts.format = "data"
    <3>1. GainPlan(opts, global) = IF global THEN total ELSE total \o <<"summary">> BY <2>3, Zenon DEF GainPlan
    <3> QED BY <3>1
  <2>4. CASE opts.period = "" /\ opts.format = "table"
    <3>1. GainPlan(opts, global) = total \o <<"tools">> BY <2>4, Zenon DEF GainPlan
    <3> QED BY <3>1
  <2> QED BY <1>1, <2>1, <2>2, <2>3, <2>4, Zenon
<1>3. total \in Seq(Datasets) /\ total # <<>>
  <2>1. <<"summary">> \in Seq(Datasets) /\ <<"summary">> # <<>> BY DEF Datasets
  <2>2. <<"total">> \in Seq(Datasets) /\ <<"total">> # <<>> BY DEF Datasets
  <2> QED BY <2>1, <2>2
<1> HIDE DEF total
<1>4. ASSUME NEW s \in Seq(Datasets) PROVE total \o s \in Seq(Datasets) /\ total \o s # <<>> BY <1>3
<1>5. <<"period">> \in Seq(Datasets) /\ <<"summary">> \in Seq(Datasets) /\ <<"tools">> \in Seq(Datasets)
      /\ <<"tools", "trend">> \in Seq(Datasets) /\ <<"period">> # <<>>
  BY DEF Datasets
<1> QED BY <1>2, <1>3, <1>4, <1>5

\* The period of a dataset is the same throughout a report.
LEMMA PeriodsStay ==
  ASSUME op'.opts = op.opts
  PROVE  /\ \A dataset : Period(dataset)' = Period(dataset)
         /\ \A dataset, read : Answer(dataset, read)' = Answer(dataset, read)
BY DEF Period, Answer

LEMMA RowsStart ==
  ASSUME \A r \in Roots : Weighed(Collected(r))', op'.kind = "report", op'.plan \in Seq(Datasets), op'.plan # <<>>,
         op'.rows = NoRows(Head(op'.plan)), op'.read = <<>>, op'.finished = "none"
  PROVE  RowsInv'
<1>1. PICK d \in Datasets : d = Head(op'.plan) OBVIOUS
<1>2. AllRead' = {} /\ Dataset' = d BY <1>1 DEF AllRead, Elements, Dataset
<1>3. Weighed({}) BY FS_EmptySet DEF Weighed
<1>4. PICK p : p = Period(d)' OBVIOUS
<1>5. NoRows(d) = Query(d, p, {}) BY NothingRead
<1>6. Answer(Dataset, AllRead)' = Query(d, p, {}) BY <1>2, <1>4 DEF Answer, Period
<1> QED BY <1>1, <1>2, <1>3, <1>5, <1>6 DEF RowsInv

LEMMA RowsStep ==
  FindInv /\ FindInv' /\ RecordsInv /\ SourcesInv /\ ReportInv /\ RowsInv /\ [Next]_vars => RowsInv'
<1> SUFFICES ASSUME FindInv, FindInv', RecordsInv, SourcesInv, ReportInv, RowsInv, [Next]_vars
             PROVE  RowsInv'
  OBVIOUS
<1>1. \A r \in Roots : Weighed(Collected(r))'
  <2>1. ASSUME NEW root \in Roots, EndRun(root), NEW r \in Roots PROVE Weighed(Collected(r))'
    <3>1. PICK x : /\ x["raw"] \in Nat /\ x["kept"] \in Nat /\ x["duration"] \in Nat
                   /\ Collected(root)' = Collected(root) \union {x}
                   /\ \A q \in Roots \ {root} : Collected(q)' = Collected(q)
      BY <2>1, EndRunAdds
    <3>2. Weighed(Collected(root) \union {x}) BY <3>1, WeighedUnions DEF RowsInv
    <3>3. PICK S : S = Collected(r)' OBVIOUS
    <3>4. Weighed(S) BY <3>1, <3>2, <3>3 DEF RowsInv
    <3> QED BY <3>3, <3>4 DEF Weighed
  <2>2. ASSUME ~\E root \in Roots : EndRun(root), NEW r \in Roots PROVE Weighed(Collected(r))'
    <3>1. PICK S : S = Collected(r)' OBVIOUS
    <3>2. S \subseteq Collected(r) BY <2>2, <3>1, OnlyRunsAdd
    <3>3. Weighed(S) BY <3>2, WeighedUnions DEF RowsInv
    <3> QED BY <3>1, <3>3 DEF Weighed
  <2> QED BY <2>1, <2>2
<1>2. CASE op'.kind # "report" BY <1>1, <1>2 DEF RowsInv
<1>3. ASSUME NEW r \in Requests, RunGain(r) \/ RunHistory(r) \/ RunFilterPerformance(r) PROVE RowsInv'
  <2>1. r.opts \in Options BY WorkspacesAssumption DEF WorkspacesAssumption
  <2>2. PICK plan \in Seq(Datasets) : plan # <<>> /\ StartReport(r, plan)
    <3>1. CASE RunGain(r) BY <2>1, <3>1, PlansAreOfDatasets DEF RunGain
    <3>2. CASE RunHistory(r)
      <4>1. <<"history">> \in Seq(Datasets) /\ <<"history">> # <<>> BY DEF Datasets
      <4> QED BY <3>2, <4>1 DEF RunHistory
    <3>3. CASE RunFilterPerformance(r)
      <4>1. <<"performance", "missed", "builds">> \in Seq(Datasets) /\ <<"performance", "missed", "builds">> # <<>> BY DEF Datasets
      <4> QED BY <3>3, <4>1 DEF RunFilterPerformance
    <3> QED BY <1>3, <3>1, <3>2, <3>3
  <2>3. /\ op'.kind = "report" /\ op'.plan = plan /\ op'.rows = NoRows(Head(plan))
        /\ op'.read = <<>> /\ op'.finished = "none"
    BY <2>2 DEF StartReport
  <2> QED BY <1>1, <2>2, <2>3, RowsStart
<1>4. CASE NextDataset
  <2>1. CASE op' = Idle BY <1>2, <2>1 DEF Idle
  <2>2. CASE op' # Idle
    <3>1. /\ op.kind = "report" /\ Len(op.plan) # 1
          /\ op' = Report(Tail(op.plan), op.sources, now, op.warned, NoRows(Head(Tail(op.plan))), "none", <<>>, Held(op.due))
      BY <1>4, <2>2, NextIs
    <3>2. Tail(op.plan) \in Seq(Datasets) /\ Tail(op.plan) # <<>>
      <4>1. PICK plan \in Seq(Datasets) : plan = op.plan /\ plan # <<>> /\ Len(plan) # 1 BY <3>1 DEF RowsInv
      <4>2. Len(plan) \in Nat /\ Len(plan) # 0 /\ Len(Tail(plan)) = Len(plan) - 1 BY <4>1
      <4>3. Tail(plan) \in Seq(Datasets) /\ Len(Tail(plan)) # 0 BY <4>1, <4>2
      <4> QED BY <4>1, <4>3
    <3>3. /\ op'.kind = "report" /\ op'.plan = Tail(op.plan) /\ op'.rows = NoRows(Head(Tail(op.plan)))
          /\ op'.read = <<>> /\ op'.finished = "none"
      BY <3>1 DEF Report
    <3> QED BY <1>1, <3>2, <3>3, RowsStart
  <2> QED BY <2>1, <2>2
<1>5. CASE FinishDataset
  <2>0. op.kind = "report" /\ Dataset \in Datasets BY <1>5, FinishIs DEF RowsInv, Dataset
  <2>1. PICK d, read, rows :
          d = Dataset /\ d \in Datasets /\ read = AllRead /\ rows = Finished(d, Period(d), op.asked, op.rows)
    BY <2>0
  <2>2. /\ op.kind = "report" /\ op.finished = "none"
        /\ op' = Report(op.plan, op.left, op.asked, op.warned, rows, d, op.read, op.before)
    BY <1>5, <2>1, FinishIs
  <2>3. /\ op'.kind = "report" /\ op'.plan = op.plan /\ op'.rows = rows /\ op'.finished = d /\ op'.read = op.read
        /\ op'.asked = op.asked /\ op'.opts = op.opts
    BY <2>2 DEF Report
  <2>4. AllRead' = read BY <2>1, <2>3 DEF AllRead
  <2>5. op'.rows = Finished(d, Period(d), op.asked, Answer(d, read)) BY <2>1, <2>2, <2>3 DEF RowsInv
  <2>6. Period(d)' = Period(d) /\ Answer(d, read)' = Answer(d, read) BY <2>3, PeriodsStay
  <2>7. Answer(op.finished, AllRead)' = Answer(d, read) /\ Period(op.finished)' = Period(d)
    BY <2>3, <2>4, <2>6 DEF Answer, Period
  <2>8. Weighed(read) /\ (Weighed(AllRead)' <=> Weighed(read)) BY <2>1, <2>2, <2>4 DEF RowsInv, Weighed
  <2>9. d # "none" BY <2>1 DEF Datasets
  <2> QED BY <1>1, <2>2, <2>3, <2>5, <2>7, <2>8, <2>9 DEF RowsInv
<1>6. CASE QuerySource
  <2>0. op.kind = "report" /\ Dataset \in Datasets BY <1>6 DEF QuerySource, Is, RowsInv, Dataset
  <2>1. PICK h, d, p, read, records :
          /\ h = Head(op.left) /\ d = Dataset /\ p = Period(d) /\ read = AllRead /\ records = Wanted(stored[h[2]])
          /\ d \in Datasets
    BY <2>0
  <2>2. op.kind = "report" /\ op.left # <<>> /\ op.left \in Seq(Pairs) /\ op.finished = "none"
    BY <1>6, QueryIs DEF SourcesInv, ReportInv
  <2>3. h \in Pairs /\ h \in Elements(op.left) BY <2>1, <2>2, ElementsAfterFirst
  <2>4. Weighed(read) /\ op.rows = Query(d, p, read) BY <2>1, <2>2 DEF RowsInv, Answer
  <2>5. Weighed(records)
    <3>1. records \subseteq Collected(h[2]) /\ h[2] \in Roots BY <2>1, <2>3 DEF Wanted, Collected, Pairs
    <3> QED BY <3>1, WeighedUnions DEF RowsInv
  <2>6. read \intersect records = {}
    <3>1. \A x \in read : x.run \in ReadRuns BY <2>1 DEF AllRead, Elements, ReadRuns, Runs
    <3>2. \A x \in records : x.run \in Runs(Collected(h[2])) BY <2>1 DEF Wanted, Collected, Runs
    <3> QED BY <2>2, <2>3, <3>1, <3>2 DEF ReportInv
  <2>7. ASSUME NEW warned, NEW rows, NEW seq, NEW all, UNION Elements(seq) = all, Weighed(all), rows = Query(d, p, all),
               op' = Report(op.plan, Tail(op.left), op.asked, warned, rows, "none", seq, op.before)
        PROVE  RowsInv'
    <3>1. /\ op'.kind = "report" /\ op'.plan = op.plan /\ op'.rows = rows /\ op'.finished = "none" /\ op'.read = seq
          /\ op'.opts = op.opts
      BY <2>7 DEF Report
    <3>2. AllRead' = all /\ Dataset' = d BY <2>1, <2>7, <3>1 DEF AllRead, Dataset
    <3>3. Answer(d, all)' = Query(d, p, all) BY <2>1, <3>1, PeriodsStay DEF Answer
    <3>4. Answer(Dataset, AllRead)' = Query(d, p, all) BY <3>2, <3>3 DEF Answer, Period
    <3>5. Weighed(AllRead)' BY <2>7, <3>2 DEF Weighed
    <3> QED BY <1>1, <2>2, <2>7, <3>1, <3>4, <3>5 DEF RowsInv
  <2>8. CASE op' = Idle BY <1>2, <2>8 DEF Idle
  <2>9. CASE op' = Report(op.plan, Tail(op.left), op.asked, op.warned, op.rows, "none", op.read, op.before)
    BY <2>1, <2>4, <2>7, <2>9 DEF AllRead
  <2>10. CASE op' = Report(op.plan, Tail(op.left), op.asked, op.warned \union {h[2]}, op.rows, "none", op.read, op.before)
    BY <2>1, <2>4, <2>7, <2>10 DEF AllRead
  <2>11. CASE op' = Report(op.plan, Tail(op.left), op.asked, op.warned, Joined(d, op.rows, Query(d, p, records)), "none",
                           Append(op.read, records), op.before)
    <3>1. UNION Elements(Append(op.read, records)) = read \union records
      <4>1. PICK n, s : n = Len(op.read) + 1 /\ s = Append(op.read, records) OBVIOUS
      <4>2. DOMAIN s = DOMAIN op.read \union {n} /\ s[n] = records /\ n \notin DOMAIN op.read
            /\ \A i \in DOMAIN op.read : s[i] = op.read[i]
        BY <2>2, <4>1, ElementsWithLast DEF ReportInv
      <4>3. Elements(s) = Elements(op.read) \union {records} BY <4>2 DEF Elements
      <4> QED BY <2>1, <4>1, <4>3 DEF AllRead
    <3>2. Weighed(read \union records) BY <2>4, <2>5, WeighedUnions
    <3>3. Joined(d, Query(d, p, read), Query(d, p, records)) = Query(d, p, read \union records)
      BY <2>1, <2>4, <2>5, <2>6, JoinedAsOne
    <3> QED BY <2>4, <2>7, <2>11, <3>1, <3>2, <3>3
  <2> QED BY <1>6, <2>1, <2>8, <2>9, <2>10, <2>11, QueryIs
<1>7. CASE op' = op /\ op.kind = "report"
  <2>1. PICK d, read, f : d = Dataset /\ read = AllRead /\ f = op.finished OBVIOUS
  <2>2. Dataset' = d /\ AllRead' = read /\ op'.finished = f BY <1>7, <2>1 DEF Dataset, AllRead
  <2>3. Answer(d, read)' = Answer(d, read) /\ Answer(f, read)' = Answer(f, read) /\ Period(f)' = Period(f)
    BY <1>7, PeriodsStay
  <2>4. Answer(Dataset, AllRead)' = Answer(d, read) /\ Answer(op.finished, AllRead)' = Answer(f, read)
        /\ Period(op.finished)' = Period(f)
    BY <2>2, <2>3 DEF Answer, Period
  <2>5. Weighed(AllRead)' <=> Weighed(read) BY <2>2 DEF Weighed
  <2> QED BY <1>1, <1>7, <2>1, <2>2, <2>4, <2>5 DEF RowsInv
<1>8. CASE /\ ~\E r \in Requests : RunGain(r) \/ RunHistory(r) \/ RunFilterPerformance(r)
           /\ ~QuerySource /\ ~FinishDataset /\ ~NextDataset
  <2>1. UNCHANGED op \/ op'.kind # "report" BY <1>8, OnlyReports
  <2> QED BY <1>2, <1>7, <2>1
<1> QED BY <1>3, <1>4, <1>5, <1>6, <1>8

-----------------------------------------------------------------------------
(* Together.                                                               *)

WorkspacesInv == FindInv /\ RecordsInv /\ SourcesInv /\ ErasedInv /\ ReportInv /\ RowsInv

LEMMA WorkspacesStep == WorkspacesInv /\ [Next]_vars => WorkspacesInv'
BY FindStep, RecordsStep, SourcesStep, ErasedStep, ReportStep, RowsStep DEF WorkspacesInv

LEMMA WorkspacesHold == Spec => []WorkspacesInv
<1>1. Init => WorkspacesInv
  BY FindInitially, RecordsInitially, SourcesInitially, ErasedInitially, ReportInitially, RowsInitially DEF WorkspacesInv
<1> QED BY <1>1, WorkspacesStep, PTL DEF Spec

\* What a purge erased from a project that it knew by its root stays erased,
\* also what still was in the spool (internal/lifecycle, purgeHistorySource).
THEOREM ErasedForGood == Spec => []RegisteredAreErased
<1>1. WorkspacesInv => RegisteredAreErased
  BY DEF WorkspacesInv, ErasedInv, RegisteredAreErased, Collected, Runs
<1> QED BY <1>1, WorkspacesHold, PTL

\* A report over any number of projects has every run that had ended when it
\* asked, and none twice, however runs go on meanwhile (globalMetricsSources).
THEOREM EveryRunIsReported == Spec => []EachRunOnce
<1>1. ASSUME WorkspacesInv, op.kind = "report", op.finished # "none"
      PROVE  /\ \A i, j \in DOMAIN op.read : \A r \in op.read[i], s \in op.read[j] : r.run = s.run => i = j /\ r = s
             /\ \A s \in op.due : s[2] \notin op.warned => Runs(Wanted(op.before[s[2]])) \subseteq ReadRuns
  <2>1. op.left = <<>> /\ Elements(op.left) = {} BY <1>1 DEF WorkspacesInv, ReportInv, Elements
  <2> QED BY <1>1, <2>1 DEF WorkspacesInv, ReportInv, Wanted, Wants, Runs
<1>2. WorkspacesInv => EachRunOnce BY <1>1 DEF EachRunOnce, Is, ReadRuns
<1> QED BY <1>2, WorkspacesHold, PTL

\* What a report prints of the answers of its databases, joined one by one, is
\* what it would print of one database with all that they answered for
\* (aggregateGlobalRows, queryGlobalPerformanceRows and their kin).
THEOREM GlobalAddsUp == Spec => []GlobalIsOneHistory
<1>1. WorkspacesInv => GlobalIsOneHistory
  <2>1. UNION Elements(op.read) = UNION {op.read[i] : i \in DOMAIN op.read} BY DEF Elements
  <2> QED BY <2>1 DEF WorkspacesInv, RowsInv, GlobalIsOneHistory, Is, AllRead, Answer
<1> QED BY <1>1, WorkspacesHold, PTL
=============================================================================
