---------------------------- MODULE FilterProofs ----------------------------
(***************************************************************************)
(* Theorems about project filters and what is read from arguments, for any *)
(* projects, processes, edits and commands, any tools, files and cases.     *)
(***************************************************************************)
EXTENDS FilterUse, SequenceTheorems, FiniteSetTheorems, TLAPS

-----------------------------------------------------------------------------
(* A non-empty set of naturals has a least element.                        *)
LEMMA LeastNat ==
  ASSUME NEW T \in SUBSET Nat, T # {}
  PROVE  \E n \in T : \A m \in T : n <= m
<1> DEFINE R == OpToRel(<, Nat)
<1>1. ASSUME NEW m \in Nat, NEW n \in Nat, ~(<<m, n>> \in R) PROVE n <= m
  BY <1>1 DEF OpToRel
<1>2. IsWellFoundedOn(R, Nat)
  BY NatLessThanWellFounded
<1> HIDE DEF R
<1>3. PICK n \in T : \A m \in T : ~(<<m, n>> \in R)
  BY <1>2, WFMin
<1>4. \A m \in T : n <= m
  BY <1>1, <1>3
<1> QED
  BY <1>4

(* So has a non-empty set of naturals with a bound a greatest one: mirror  *)
(* it in the bound.                                                        *)
LEMMA GreatestNat ==
  ASSUME NEW bound \in Nat, NEW T \in SUBSET (0..bound), T # {}
  PROVE  \E n \in T : \A m \in T : n >= m
<1> DEFINE mirror == {bound - t : t \in T}
<1>1. mirror \in SUBSET Nat /\ mirror # {}
  <2>1. \A t \in T : bound - t \in Nat
    OBVIOUS
  <2> QED BY <2>1
<1>2. PICK n \in mirror : \A m \in mirror : n <= m
  <2> HIDE DEF mirror
  <2> QED BY <1>1, LeastNat
<1>3. PICK t \in T : n = bound - t
  BY <1>2
<1>4. ASSUME NEW u \in T PROVE t >= u
  <2>1. n <= bound - u
    BY <1>2
  <2> QED BY <2>1, <1>3
<1> QED BY <1>4

-----------------------------------------------------------------------------
(* Lookups *)

LEMMA GreatestIs ==
  ASSUME NEW S \in SUBSET Int, NEW x \in S, \A y \in S : x >= y
  PROVE  Max(S) = x
<1>1. Max(S) \in S /\ \A y \in S : Max(S) >= y
  <2>1. \E z \in S : \A y \in S : z >= y
    OBVIOUS
  <2> QED BY <2>1 DEF Max
<1>2. Max(S) \in Int /\ x \in Int /\ Max(S) >= x /\ x >= Max(S)
  BY <1>1
<1> QED BY <1>2

LEMMA LastIs ==
  ASSUME NEW files \in SUBSET Files, files # {}
  PROVE  LastFile(files) \in files /\ \A f \in files : LastFile(files) >= f
<1>1. \E x \in files : \A y \in files : x >= y
  <2>1. files \in SUBSET (0..FileCount) /\ FileCount \in Nat
    BY LookupAssumption DEF Files
  <2> QED BY <2>1, GreatestNat
<1> QED BY <1>1 DEF LastFile, Max

LEMMA LastType ==
  ASSUME NEW files \in SUBSET Files
  PROVE  LastFile(files) \in {Nothing} \union files
BY LastIs DEF LastFile

LEMMA FirstOfTwo ==
  ASSUME NEW S \in SUBSET {1, 2}, S # {}
  PROVE  Min(S) \in S /\ (1 \in S => Min(S) = 1)
<1>1. \E x \in S : \A y \in S : x =< y
  <2>1. CASE 1 \in S
    BY <2>1
  <2>2. CASE 1 \notin S
    <3>1. S = {2}
      BY <2>2
    <3> QED BY <3>1
  <2> QED BY <2>1, <2>2
<1>2. Min(S) \in S /\ \A y \in S : Min(S) =< y
  BY <1>1 DEF Min
<1>3. ASSUME 1 \in S PROVE Min(S) = 1
  <2>1. Min(S) \in {1, 2} /\ Min(S) =< 1
    BY <1>2, <1>3
  <2> QED BY <2>1
<1> QED BY <1>2, <1>3

LEMMA NamesAreFiles ==
  ASSUME NEW dir \in Directories
  PROVE  /\ Names(dir) \subseteq Files
         /\ dir.files \in [Names(dir) -> Contents]
         /\ dir.map \in [DOMAIN dir.map -> Tools] /\ DOMAIN dir.map \subseteq Tools
         /\ dir = [files |-> dir.files, map |-> dir.map]
BY DEF Directories, Partial, Names

(* What a lookup for some targets may answer. *)
Answers(dir, targets) == {Nothing, Failure} \union {f \in Names(dir) : Defines(dir, f, targets)}

LEMMA LastDefinitionType ==
  ASSUME NEW dir \in Directories, NEW files \in SUBSET Names(dir), NEW targets
  PROVE  LastDefinition(dir, files, targets) \in Answers(dir, targets)
<1> DEFINE defining == {f \in files : Defines(dir, f, targets)}
<1>1. defining \in SUBSET Files
  BY NamesAreFiles
<1>2. LastFile(defining) \in {Nothing} \union defining
  <2> HIDE DEF defining
  <2> QED BY <1>1, LastType
<1> QED BY <1>2 DEF LastDefinition, Answers

LEMMA ExactType ==
  ASSUME NEW dir \in Directories, NEW target \in Tools
  PROVE  LoadExactExecutionFilter(dir, target) \in Answers(dir, {target})
<1>1. LoadExactTargetDefinition(dir, target) \in Answers(dir, {target})
  <2>1. Exact[target] \intersect Names(dir) \in SUBSET Names(dir)
    OBVIOUS
  <2> QED BY <2>1, LastDefinitionType DEF LoadExactTargetDefinition
<1>2. ASSUME NEW after
      PROVE  LoadLegacyTargetDefinitionAfter(dir, {target}, after) \in Answers(dir, {target})
  <2>1. {f \in Names(dir) : f > after} \in SUBSET Names(dir)
    OBVIOUS
  <2> QED BY <2>1, LastDefinitionType DEF LoadLegacyTargetDefinitionAfter
<1> QED BY <1>1, <1>2 DEF LoadExactExecutionFilter

(* The targets of a tool. *)
TargetsOf(dir, tool) == {tool} \union {dir.map[t] : t \in {tool} \intersect DOMAIN dir.map}

LEMMA TargetsAre ==
  ASSUME NEW dir \in Directories, NEW tool \in Tools
  PROVE  LET targets == ExecutionFilterTargets(dir, tool) IN
         /\ DOMAIN targets \subseteq {1, 2} /\ 1 \in DOMAIN targets /\ targets[1] = tool
         /\ \A i \in DOMAIN targets : targets[i] \in TargetsOf(dir, tool) /\ targets[i] \in Tools
         /\ 2 \in DOMAIN targets <=> tool \in DOMAIN dir.map /\ dir.map[tool] # tool
         /\ 2 \in DOMAIN targets => targets[2] = dir.map[tool]
<1> DEFINE targets == ExecutionFilterTargets(dir, tool)
<1>1. CASE tool \in DOMAIN dir.map /\ dir.map[tool] # tool
  <2>1. targets = <<tool, dir.map[tool]>> /\ dir.map[tool] \in Tools
    BY <1>1, NamesAreFiles DEF ExecutionFilterTargets
  <2>2. DOMAIN targets = {1, 2} /\ targets[1] = tool /\ targets[2] = dir.map[tool]
    BY <2>1
  <2> QED BY <1>1, <2>1, <2>2 DEF TargetsOf
<1>2. CASE ~(tool \in DOMAIN dir.map /\ dir.map[tool] # tool)
  <2>1. targets = <<tool>>
    BY <1>2 DEF ExecutionFilterTargets
  <2>2. DOMAIN targets = {1} /\ targets[1] = tool
    BY <2>1
  <2> QED BY <1>2, <2>1, <2>2 DEF TargetsOf
<1> QED BY <1>1, <1>2

LEMMA DefinitionType ==
  ASSUME NEW dir \in Directories, NEW tool \in Tools
  PROVE  LoadExecutionDefinition(dir, tool) \in Answers(dir, TargetsOf(dir, tool))
<1> DEFINE targets == ExecutionFilterTargets(dir, tool)
           found   == {i \in DOMAIN targets : LoadExactExecutionFilter(dir, targets[i]) # Nothing}
           range   == {targets[i] : i \in DOMAIN targets}
<1>1. /\ DOMAIN targets \subseteq {1, 2}
      /\ \A i \in DOMAIN targets : targets[i] \in TargetsOf(dir, tool) /\ targets[i] \in Tools
  BY TargetsAre
<1> HIDE DEF targets
<1>2. CASE found # {}
  <2>1. Min(found) \in DOMAIN targets
    <3>1. found \in SUBSET {1, 2}
      BY <1>1
    <3>2. found \subseteq DOMAIN targets
      OBVIOUS
    <3> HIDE DEF found
    <3> QED BY <1>2, <3>1, <3>2, FirstOfTwo
  <2> DEFINE first == Min(found)
  <2> HIDE DEF first
  <2>2. LoadExactExecutionFilter(dir, targets[first]) \in Answers(dir, {targets[first]})
    BY <1>1, <2>1, ExactType DEF first
  <2>3. LoadExecutionDefinition(dir, tool) = LoadExactExecutionFilter(dir, targets[first])
    BY <1>2 DEF LoadExecutionDefinition, targets, first
  <2> QED BY <1>1, <2>1, <2>2, <2>3 DEF Answers, Defines, first
<1>3. CASE found = {}
  <2>1. LoadExecutionDefinition(dir, tool) = LoadLegacyTargetDefinitionAfter(dir, range, 0)
    BY <1>3 DEF LoadExecutionDefinition, targets
  <2>2. {f \in Names(dir) : f > 0} \in SUBSET Names(dir)
    OBVIOUS
  <2>3. LoadLegacyTargetDefinitionAfter(dir, range, 0) \in Answers(dir, range)
    BY <2>2, LastDefinitionType DEF LoadLegacyTargetDefinitionAfter
  <2>4. range \subseteq TargetsOf(dir, tool)
    BY <1>1
  <2> QED BY <2>1, <2>3, <2>4 DEF Answers, Defines
<1> QED BY <1>2, <1>3

(* What one source answers compiles and is for the tool or its alias. *)
LEMMA SourceAnswers ==
  ASSUME NEW dir \in Directories, NEW tool \in Tools,
         LoadExecutionFilterFromSource(dir, tool) \notin {Nothing, Failure}
  PROVE  LET f == LoadExecutionFilterFromSource(dir, tool) IN
         /\ f \in Names(dir) /\ f \in Files /\ dir.files[f] \in Parsed
         /\ \E target \in TargetsOf(dir, tool) : dir.files[f] = [kind |-> "ok", filter |-> target]
<1> DEFINE f == LoadExecutionDefinition(dir, tool)
<1>1. f \in Answers(dir, TargetsOf(dir, tool))
  BY DefinitionType
<1> HIDE DEF f
<1>2. LoadExecutionFilterFromSource(dir, tool) = f /\ f \in Names(dir) /\ dir.files[f].kind # "broken"
  BY <1>1 DEF LoadExecutionFilterFromSource, Answers, f
<1>3. f \in Files /\ Defines(dir, f, TargetsOf(dir, tool))
  <2>1. f \notin {Nothing, Failure}
    BY <1>2
  <2> QED BY <2>1, <1>1, <1>2, NamesAreFiles DEF Answers
<1>4. dir.files[f] \in Parsed /\ dir.files[f].filter \in TargetsOf(dir, tool)
  BY <1>3 DEF Defines
<1>5. dir.files[f] = [kind |-> "ok", filter |-> dir.files[f].filter]
  BY <1>2, <1>4 DEF Parsed
<1> QED BY <1>2, <1>3, <1>4, <1>5

(* So does what an execution gets from a project and home. *)
LEMMA ChoiceAnswers ==
  ASSUME NEW d1 \in Directories, NEW d2 \in Directories, NEW tool \in Tools,
         LoadExecutionFilter(<<d1, d2>>, tool) # Passthrough
  PROVE  LET choice == LoadExecutionFilter(<<d1, d2>>, tool)
             source == <<d1, d2>>[choice.source]
         IN  /\ choice.source \in {1, 2}
             /\ choice.file \in Names(source) /\ choice.file \in Files
             /\ source.files[choice.file] \in Parsed
             /\ \E target \in TargetsOf(source, tool) :
                  source.files[choice.file] = [kind |-> "ok", filter |-> target]
<1> DEFINE sources == <<d1, d2>>
           found == {i \in DOMAIN sources : LoadExecutionFilterFromSource(sources[i], tool) # Nothing}
           first == Min(found)
<1>1. DOMAIN sources = {1, 2} /\ sources[1] = d1 /\ sources[2] = d2
  OBVIOUS
<1> HIDE DEF sources
<1>2. found # {} /\ LoadExecutionFilterFromSource(sources[first], tool) # Failure
  BY DEF LoadExecutionFilter, sources
<1>3. first \in found
  <2>1. found \in SUBSET {1, 2}
    BY <1>1
  <2> HIDE DEF found
  <2> QED BY <1>2, <2>1, FirstOfTwo
<1>4. LoadExecutionFilter(sources, tool)
        = Choice(first, LoadExecutionFilterFromSource(sources[first], tool))
  BY <1>2 DEF LoadExecutionFilter
<1>5. first \in {1, 2} /\ sources[first] \in Directories
  BY <1>1, <1>3
<1>6. LoadExecutionFilterFromSource(sources[first], tool) \notin {Nothing, Failure}
  BY <1>2, <1>3
<1> HIDE DEF first
<1> DEFINE choice == LoadExecutionFilter(sources, tool)
<1>7. choice.source = first /\ choice.file = LoadExecutionFilterFromSource(sources[first], tool)
  BY <1>4 DEF Choice
<1>8. LET f == LoadExecutionFilterFromSource(sources[first], tool) IN
      /\ f \in Names(sources[first]) /\ f \in Files /\ sources[first].files[f] \in Parsed
      /\ \E target \in TargetsOf(sources[first], tool) :
           sources[first].files[f] = [kind |-> "ok", filter |-> target]
  BY <1>5, <1>6, SourceAnswers
<1> QED BY <1>5, <1>7, <1>8 DEF sources

-----------------------------------------------------------------------------
(* Tidy sources *)

(* The definitions of a target that compile. *)
DefinitionsOf(dir, target) ==
  {f \in Names(dir) : dir.files[f] = [kind |-> "ok", filter |-> target]}

LEMMA TidyDefines ==
  ASSUME NEW dir \in Directories, Tidy(dir), NEW f \in Names(dir), NEW targets \in SUBSET Tools
  PROVE  Defines(dir, f, targets) <=> \E t \in targets : f \in DefinitionsOf(dir, t)
<1>1. dir.files[f] \in Contents /\ dir.files[f].kind # "broken"
  BY NamesAreFiles DEF Tidy
<1>2. ASSUME NEW t \in targets, dir.files[f] = [kind |-> "ok", filter |-> t]
      PROVE  dir.files[f] \in Parsed /\ dir.files[f].filter = t
  BY <1>2 DEF Parsed
<1>3. ASSUME dir.files[f] \in Parsed
      PROVE  dir.files[f] = [kind |-> "ok", filter |-> dir.files[f].filter]
  BY <1>1, <1>3 DEF Parsed
<1> QED BY <1>2, <1>3 DEF Defines, DefinitionsOf

LEMMA TidyInspect ==
  ASSUME NEW dir \in Directories, Tidy(dir), NEW target \in Tools
  PROVE  /\ InspectFilterSource(dir, target) = LastFile(DefinitionsOf(dir, target))
         /\ InspectFilterSource(dir, target) = Nothing <=> DefinitionsOf(dir, target) = {}
<1>1. InspectFilterSource(dir, target) = LastFile(DefinitionsOf(dir, target))
  BY DEF InspectFilterSource, DefinitionsOf, Tidy
<1>2. DefinitionsOf(dir, target) \in SUBSET Files /\ Nothing \notin Files
  BY NamesAreFiles, LookupAssumption DEF DefinitionsOf, Files, Nothing
<1> QED BY <1>1, <1>2, LastIs DEF LastFile

(* The exact file and the last override are the last definition. *)
LEMMA TidyExact ==
  ASSUME NEW dir \in Directories, Tidy(dir), NEW target \in Tools
  PROVE  LoadExactExecutionFilter(dir, target) = InspectFilterSource(dir, target)
<1> DEFINE all   == DefinitionsOf(dir, target)
           named == {f \in Exact[target] \intersect Names(dir) : Defines(dir, f, {target})}
           exact == LoadExactTargetDefinition(dir, target)
           later == {f \in Names(dir) : f > exact /\ Defines(dir, f, {target})}
           over  == LoadLegacyTargetDefinitionAfter(dir, {target}, exact)
<1>1. /\ all \in SUBSET Files /\ named = all \intersect Exact[target]
      /\ later = {f \in all : f > exact}
  <2>1. \A f \in Names(dir) : Defines(dir, f, {target}) <=> f \in all
    BY TidyDefines
  <2>2. all \subseteq Names(dir) /\ Names(dir) \subseteq Files
    BY NamesAreFiles DEF DefinitionsOf
  <2> QED BY <2>1, <2>2
<1>2. exact = LastFile(named)
  BY DEF LoadExactTargetDefinition, LastDefinition, Tidy
<1>3. over = LastFile(later)
  <2>1. {f \in {g \in Names(dir) : g > exact} : Defines(dir, f, {target})} = later
    OBVIOUS
  <2> QED BY <2>1 DEF LoadLegacyTargetDefinitionAfter, LastDefinition, Tidy
<1>4. \A f \in Files : f \in Int /\ f # Nothing /\ f # Failure
  BY LookupAssumption DEF Files, Nothing, Failure
<1>5. all # {} => named # {}
  <2> SUFFICES ASSUME NEW f \in all PROVE named # {}
    OBVIOUS
  <2>1. f \in Names(dir) /\ dir.files[f] = [kind |-> "ok", filter |-> target]
    BY DEF DefinitionsOf
  <2>2. PICK e \in Exact[target] \intersect Names(dir) : dir.files[e] = dir.files[f]
    BY <2>1 DEF Tidy
  <2>3. e \in all
    BY <2>1, <2>2 DEF DefinitionsOf
  <2> QED BY <2>2, <2>3, <1>1
<1> HIDE DEF all, named, exact, later, over
<1>6. LoadExactExecutionFilter(dir, target)
        = IF exact \in {Nothing, Failure} \/ over = Nothing THEN exact ELSE over
  BY DEF LoadExactExecutionFilter, exact, over
<1>7. InspectFilterSource(dir, target) = LastFile(all)
  BY TidyInspect DEF all
<1>8. CASE all = {}
  <2>1. named = {}
    BY <1>1, <1>8
  <2> QED BY <1>2, <1>6, <1>7, <1>8, <2>1 DEF LastFile
<1>9. CASE all # {}
  <2>1. exact \in named /\ named \in SUBSET Files
    BY <1>1, <1>2, <1>5, <1>9, LastIs
  <2>2. exact \in all /\ exact \notin {Nothing, Failure}
    BY <1>1, <1>4, <2>1
  <2>3. LastFile(all) \in all /\ \A f \in all : LastFile(all) >= f
    BY <1>1, <1>9, LastIs
  <2>4. \A f \in all : f \in Int
    BY <1>1, <1>4
  <2>5. CASE later = {}
    <3>1. ~(LastFile(all) > exact) /\ LastFile(all) >= exact
      BY <1>1, <2>2, <2>3, <2>5
    <3>2. LastFile(all) = exact
      BY <2>2, <2>3, <2>4, <3>1
    <3>3. over = Nothing
      BY <1>3, <2>5 DEF LastFile
    <3> QED BY <1>6, <1>7, <3>2, <3>3
  <2>6. CASE later # {}
    <3>1. later \in SUBSET Files
      BY <1>1
    <3>2. over \in later /\ \A f \in later : over >= f
      BY <1>3, <2>6, <3>1, LastIs
    <3>3. over \in all /\ over > exact /\ over # Nothing
      BY <1>1, <1>4, <3>1, <3>2
    <3>4. LastFile(all) >= over
      BY <2>3, <3>3
    <3>5. LastFile(all) > exact
      BY <2>2, <2>3, <2>4, <3>3, <3>4
    <3>6. over >= LastFile(all)
      BY <1>1, <2>3, <3>2, <3>5
    <3>7. over = LastFile(all)
      BY <2>3, <2>4, <3>3, <3>4, <3>6
    <3> QED BY <1>6, <1>7, <2>2, <3>3, <3>7
  <2> QED BY <2>5, <2>6
<1> QED BY <1>8, <1>9

(* The tool, then its alias: both searches of one source agree. *)
LEMMA TidySource ==
  ASSUME NEW dir \in Directories, Tidy(dir), NEW tool \in Tools
  PROVE  /\ LoadExecutionFilterFromSource(dir, tool) = RegisteredBySource(dir, tool)
         /\ LoadExecutionFilterFromSource(dir, tool) # Failure
<1> DEFINE targets == ExecutionFilterTargets(dir, tool)
           found   == {i \in DOMAIN targets : LoadExactExecutionFilter(dir, targets[i]) # Nothing}
           range   == {targets[i] : i \in DOMAIN targets}
           aliased == tool \in DOMAIN dir.map /\ dir.map[tool] # tool
           own     == InspectFilterSource(dir, tool)
           target  == dir.map[tool]
<1>1. /\ DOMAIN targets \subseteq {1, 2} /\ 1 \in DOMAIN targets /\ targets[1] = tool
      /\ \A i \in DOMAIN targets : targets[i] \in Tools
      /\ 2 \in DOMAIN targets <=> aliased
      /\ 2 \in DOMAIN targets => targets[2] = target
  BY TargetsAre
<1> HIDE DEF targets
<1>2. \A i \in DOMAIN targets :
        LoadExactExecutionFilter(dir, targets[i]) = InspectFilterSource(dir, targets[i])
  BY <1>1, TidyExact
<1>3. found \in SUBSET {1, 2} /\ found = {i \in DOMAIN targets : InspectFilterSource(dir, targets[i]) # Nothing}
  BY <1>1, <1>2
<1> HIDE DEF found, range, own
<1>4. found # {} => LoadExecutionDefinition(dir, tool) = InspectFilterSource(dir, targets[Min(found)])
  <2> SUFFICES ASSUME found # {}
               PROVE  LoadExecutionDefinition(dir, tool) = InspectFilterSource(dir, targets[Min(found)])
    OBVIOUS
  <2>1. Min(found) \in DOMAIN targets
    BY <1>3, FirstOfTwo
  <2>2. LoadExecutionDefinition(dir, tool) = LoadExactExecutionFilter(dir, targets[Min(found)])
    BY DEF LoadExecutionDefinition, found, targets
  <2> QED BY <1>2, <2>1, <2>2
<1>5. found = {} => LoadExecutionDefinition(dir, tool) = Nothing
  <2> SUFFICES ASSUME found = {} PROVE LoadExecutionDefinition(dir, tool) = Nothing
    OBVIOUS
  <2>1. LoadExecutionDefinition(dir, tool) = LoadLegacyTargetDefinitionAfter(dir, range, 0)
    BY DEF LoadExecutionDefinition, found, targets, range
  <2>2. \A i \in DOMAIN targets : DefinitionsOf(dir, targets[i]) = {}
    BY <1>1, <1>3, TidyInspect
  <2>3. range \in SUBSET Tools
    BY <1>1 DEF range
  <2>4. \A f \in Names(dir) : ~Defines(dir, f, range)
    BY <2>2, <2>3, TidyDefines DEF range
  <2> DEFINE defining == {f \in {g \in Names(dir) : g > 0} : Defines(dir, f, range)}
  <2>5. defining = {}
    BY <2>4
  <2>6. LoadLegacyTargetDefinitionAfter(dir, range, 0) = LastFile(defining)
    BY DEF LoadLegacyTargetDefinitionAfter, LastDefinition, Tidy
  <2> QED BY <2>1, <2>5, <2>6 DEF LastFile
<1>6. LoadExecutionDefinition(dir, tool) = RegisteredBySource(dir, tool)
  <2>1. RegisteredBySource(dir, tool)
          = IF own = Nothing /\ tool \in DOMAIN dir.map THEN InspectFilterSource(dir, target) ELSE own
    BY DEF RegisteredBySource, own
  <2>2. CASE own # Nothing
    <3>1. 1 \in found
      BY <1>1, <1>3, <2>2 DEF own
    <3>2. Min(found) = 1
      BY <1>3, <3>1, FirstOfTwo
    <3> QED BY <1>1, <1>4, <2>1, <2>2, <3>1, <3>2 DEF own
  <2>3. CASE own = Nothing /\ found = {}
    <3>1. CASE tool \in DOMAIN dir.map
      <4>1. InspectFilterSource(dir, target) = Nothing
        <5>1. CASE target = tool
          BY <5>1, <2>3 DEF own
        <5>2. CASE target # tool
          BY <1>1, <1>3, <2>3, <3>1, <5>2
        <5> QED BY <5>1, <5>2
      <4> QED BY <1>5, <2>1, <2>3, <3>1, <4>1
    <3>2. CASE tool \notin DOMAIN dir.map
      BY <1>5, <2>1, <2>3, <3>2
    <3> QED BY <3>1, <3>2
  <2>4. CASE own = Nothing /\ found # {}
    <3>1. Min(found) \in found
      BY <1>3, <2>4, FirstOfTwo
    <3>2. 1 \notin found
      BY <1>1, <1>3, <2>4 DEF own
    <3>3. Min(found) = 2 /\ 2 \in DOMAIN targets
      BY <1>3, <3>1, <3>2
    <3> QED BY <1>1, <1>4, <2>1, <2>4, <3>3
  <2> QED BY <2>2, <2>3, <2>4
<1>7. \A t \in Tools : InspectFilterSource(dir, t) \in {Nothing} \union Names(dir)
  <2> TAKE t \in Tools
  <2>1. DefinitionsOf(dir, t) \in SUBSET Files /\ DefinitionsOf(dir, t) \subseteq Names(dir)
    BY NamesAreFiles DEF DefinitionsOf
  <2> QED BY <2>1, TidyInspect, LastType
<1>8. RegisteredBySource(dir, tool) \in {Nothing} \union Names(dir)
  BY <1>7, NamesAreFiles DEF RegisteredBySource
<1>9. \A f \in Names(dir) : f # Failure /\ dir.files[f].kind # "broken"
  BY NamesAreFiles, LookupAssumption DEF Tidy, Files, Failure
<1> QED BY <1>6, <1>8, <1>9 DEF LoadExecutionFilterFromSource, Nothing, Failure

LEMMA TidyLookupsAgree ==
  ASSUME NEW d1 \in Directories, NEW d2 \in Directories, NEW tool \in Tools, Tidy(d1), Tidy(d2)
  PROVE  LoadExecutionFilter(<<d1, d2>>, tool) = LoadRegistryStatus(<<d1, d2>>, tool)
<1> DEFINE sources == <<d1, d2>>
           found == {i \in DOMAIN sources : LoadExecutionFilterFromSource(sources[i], tool) # Nothing}
           shown == {i \in DOMAIN sources : RegisteredBySource(sources[i], tool) # Nothing}
<1>1. DOMAIN sources = {1, 2} /\ sources[1] = d1 /\ sources[2] = d2
  OBVIOUS
<1> HIDE DEF sources
<1>2. \A i \in DOMAIN sources :
        /\ LoadExecutionFilterFromSource(sources[i], tool) = RegisteredBySource(sources[i], tool)
        /\ LoadExecutionFilterFromSource(sources[i], tool) # Failure
  BY <1>1, TidySource
<1>3. found = shown /\ found \in SUBSET {1, 2} /\ found \subseteq DOMAIN sources
  BY <1>1, <1>2
<1>4. CASE found = {}
  BY <1>3, <1>4 DEF LoadExecutionFilter, LoadRegistryStatus, sources
<1>5. CASE found # {}
  <2>1. Min(found) \in DOMAIN sources
    <3> HIDE DEF found
    <3> QED BY <1>3, <1>5, FirstOfTwo
  <2>2. LoadExecutionFilter(sources, tool)
          = Choice(Min(found), LoadExecutionFilterFromSource(sources[Min(found)], tool))
    BY <1>2, <1>5, <2>1 DEF LoadExecutionFilter
  <2>3. LoadRegistryStatus(sources, tool)
          = Choice(Min(shown), RegisteredBySource(sources[Min(shown)], tool))
    BY <1>3, <1>5 DEF LoadRegistryStatus
  <2> HIDE DEF found, shown
  <2> QED BY <1>2, <1>3, <2>1, <2>2, <2>3 DEF sources
<1> QED BY <1>4, <1>5

-----------------------------------------------------------------------------
(* Edited directories *)

LEMMA WithType ==
  ASSUME NEW dir \in Directories, NEW f \in Files, NEW new \in Contents
  PROVE  With(dir, f, new) \in Directories /\ Without(dir, f) \in Directories
<1> DEFINE more  == [g \in Names(dir) \union {f} |-> IF g = f THEN new ELSE dir.files[g]]
           fewer == [g \in Names(dir) \ {f} |-> dir.files[g]]
<1>1. more \in [Names(dir) \union {f} -> Contents] /\ Names(dir) \union {f} \in SUBSET Files
  BY NamesAreFiles
<1>2. fewer \in [Names(dir) \ {f} -> Contents] /\ Names(dir) \ {f} \in SUBSET Files
  BY NamesAreFiles
<1>3. more \in Partial(Files, Contents) /\ fewer \in Partial(Files, Contents)
  BY <1>1, <1>2 DEF Partial
<1>4. dir.map \in Partial(Tools, Tools)
  BY DEF Directories
<1>5. With(dir, f, new) = [files |-> more, map |-> dir.map]
  BY DEF With, Directories
<1>6. Without(dir, f) = [files |-> fewer, map |-> dir.map]
  BY DEF Without, Directories
<1> QED BY <1>3, <1>4, <1>5, <1>6 DEF Directories

LEMMA MappedType ==
  ASSUME NEW dir \in Directories, NEW map \in Partial(Tools, Tools)
  PROVE  [dir EXCEPT !.map = map] \in Directories
BY DEF Directories

LEMMA EmptyType == Empty \in Directories /\ Names(Empty) = {}
<1>1. <<>> \in [{} -> Contents] /\ <<>> \in [{} -> Tools]
  OBVIOUS
<1>2. {} \in SUBSET Files /\ {} \in SUBSET Tools
  OBVIOUS
<1> QED BY <1>1, <1>2 DEF Empty, Directories, Partial, Names

-----------------------------------------------------------------------------
(* The invariant *)

Digests == {Digest(r, dir) : r \in Projects, dir \in Directories}

AtMostOne(S) == S = {} \/ \E d \in S : S = {d}

Typed ==
  /\ dirs \in [Projects -> Directories]
  /\ granted \in [Projects -> SUBSET Digests]
  /\ decided \in [Projects -> SUBSET UNION {granted[r] : r \in Projects}]
  /\ store \in [Projects -> SUBSET Digests]
  /\ steps \in 0..MaxSteps
  /\ pc \in [Procs -> Places] /\ command \in [Procs -> Commands] /\ root \in [Procs -> Projects]
  /\ rounds \in [Procs -> 0..2]
  /\ todo \in [Procs -> SUBSET (Files \union {MappingFile})]
  /\ seen \in [Procs -> Directories]
  /\ copy \in [Procs -> [Projects -> SUBSET Digests]]
  /\ ran \in [Procs -> SUBSET [file : Files, definition : Parsed]]

(* What is approved, or in a copy of the store, was granted to its project.*)
Granted ==
  \A r \in Projects :
    /\ \A d \in granted[r] : d.root = r
    /\ store[r] \subseteq granted[r] /\ AtMostOne(store[r])
    /\ \A p \in Procs : copy[p][r] \subseteq granted[r] /\ AtMostOne(copy[p][r])

(* An execution keeps what it has read only when all of it is approved.    *)
Checked ==
  \A p \in Procs :
    /\ pc[p] \in {"list", "read", "load"} /\ command[p] = "execute" => rounds[p] # 0
    /\ pc[p] = "select" /\ seen[p] # Empty => Digest(root[p], seen[p]) \in granted[root[p]]
    /\ pc[p] # "done" => ran[p] = {}
    /\ \A used \in ran[p] : \E d \in granted[root[p]] :
         used.file \in DOMAIN d.files /\ d.files[used.file] = used.definition

FilterInv == Typed /\ Granted /\ Checked

LEMMA DigestType ==
  ASSUME NEW r \in Projects, NEW dir \in Directories
  PROVE  /\ Digest(r, dir) \in Digests /\ Digest(r, dir).root = r
         /\ Digest(r, dir).files = dir.files /\ Digest(r, dir).map = dir.map
BY DEF Digest, Digests

LEMMA DigestsAre ==
  ASSUME NEW d \in Digests
  PROVE  [files |-> d.files, map |-> d.map] \in Directories
<1>1. PICK r \in Projects, dir \in Directories : d = Digest(r, dir)
  BY DEF Digests
<1>2. d.files = dir.files /\ d.map = dir.map
  BY <1>1 DEF Digest
<1> QED BY <1>2, NamesAreFiles

LEMMA InitHolds == TrustInit => FilterInv
<1> SUFFICES ASSUME TrustInit PROVE FilterInv
  OBVIOUS
<1>1. dirs \in [Projects -> Directories]
  BY TrustAssumption DEF TrustInit
<1>2. PICK approved \in SUBSET {r \in Projects : Listing(dirs[r]) # {}} :
        store = [r \in Projects |-> IF r \in approved THEN {Digest(r, dirs[r])} ELSE {}]
  BY DEF TrustInit
<1>3. \A r \in Projects :
        /\ store[r] \in SUBSET Digests /\ AtMostOne(store[r])
        /\ \A d \in store[r] : d.root = r
  BY <1>1, <1>2, DigestType DEF AtMostOne
<1>4. store \in [Projects -> SUBSET Digests]
  BY <1>2, <1>3
<1>5. decided \in [Projects -> SUBSET UNION {granted[r] : r \in Projects}]
  BY <1>4 DEF TrustInit
<1> DEFINE someRoot == CHOOSE r \in Projects : TRUE
<1>0. someRoot \in Projects /\ root = [p \in Procs |-> someRoot]
  BY TrustAssumption DEF TrustInit
<1> HIDE DEF someRoot
<1>6. \A p \in Procs : /\ pc[p] = "idle" /\ command[p] = "execute" /\ root[p] \in Projects
                       /\ rounds[p] = 0 /\ todo[p] = {} /\ seen[p] = Empty /\ ran[p] = {}
                       /\ copy[p] = Undecided
  BY <1>0 DEF TrustInit
<1>7. Typed
  <2>1. steps \in 0..MaxSteps
    BY TrustAssumption DEF TrustInit
  <2>2. /\ pc \in [Procs -> Places] /\ command \in [Procs -> Commands] /\ root \in [Procs -> Projects]
        /\ rounds \in [Procs -> 0..2]
    BY <1>0 DEF TrustInit, Places, Commands
  <2>3. todo \in [Procs -> SUBSET (Files \union {MappingFile})] /\ seen \in [Procs -> Directories]
    BY EmptyType DEF TrustInit
  <2>4. copy \in [Procs -> [Projects -> SUBSET Digests]]
    BY DEF TrustInit, Undecided
  <2>5. ran \in [Procs -> SUBSET [file : Files, definition : Parsed]]
    BY DEF TrustInit
  <2>6. granted \in [Projects -> SUBSET Digests]
    BY <1>4 DEF TrustInit
  <2> QED BY <1>1, <1>4, <1>5, <2>1, <2>2, <2>3, <2>4, <2>5, <2>6 DEF Typed
<1>8. Granted
  BY <1>3, <1>6 DEF Granted, TrustInit, Undecided, AtMostOne
<1>9. Checked
  BY <1>6 DEF Checked
<1> QED BY <1>7, <1>8, <1>9 DEF FilterInv

-----------------------------------------------------------------------------
(* Steps *)

LEMMA EndsHolds ==
  ASSUME FilterInv, NEW p \in Procs, Ends(p)
  PROVE  /\ pc' \in [Procs -> Places] /\ todo' \in [Procs -> SUBSET (Files \union {MappingFile})]
         /\ seen' \in [Procs -> Directories]
         /\ copy' \in [Procs -> [Projects -> SUBSET Digests]]
         /\ ran' \in [Procs -> SUBSET [file : Files, definition : Parsed]]
         /\ \A q \in Procs, r \in Projects : copy'[q][r] = IF q = p THEN {} ELSE copy[q][r]
         /\ pc'[p] = "idle" /\ ran'[p] = {}
         /\ \A q \in Procs \ {p} : pc'[q] = pc[q] /\ seen'[q] = seen[q] /\ ran'[q] = ran[q]
<1>1. "idle" \in Places /\ Empty \in Directories /\ Undecided \in [Projects -> SUBSET Digests]
  BY EmptyType DEF Places, Undecided
<1>2. \A r \in Projects : Undecided[r] = {}
  BY DEF Undecided
<1> QED BY <1>1, <1>2 DEF FilterInv, Typed, Ends, Goto

LEMMA EditHolds ==
  ASSUME FilterInv, NEW r \in Edited, Edit(r)
  PROVE  FilterInv'
<1>1. r \in Projects /\ steps' \in 0..MaxSteps
  BY TrustAssumption DEF Edit, Counted, FilterInv, Typed
<1>2. dirs[r] \in Directories
  BY <1>1 DEF FilterInv, Typed
<1>3. \E dir \in Directories : dirs' = [dirs EXCEPT ![r] = dir]
  <2>1. CASE \E f \in Files, new \in Contents : dirs' = [dirs EXCEPT ![r] = With(@, f, new)]
    BY <1>2, <2>1, WithType
  <2>2. CASE \E f \in Names(dirs[r]) : dirs' = [dirs EXCEPT ![r] = Without(@, f)]
    <3>1. PICK f \in Names(dirs[r]) : dirs' = [dirs EXCEPT ![r] = Without(@, f)]
      BY <2>2
    <3>2. f \in Files
      BY <1>2, NamesAreFiles
    <3>3. PICK new : new \in Contents
      BY <1>2, NamesAreFiles
    <3>4. Without(dirs[r], f) \in Directories
      BY <1>2, <3>2, <3>3, WithType
    <3> QED BY <3>1, <3>4
  <2>3. CASE \E map \in Partial(Tools, Tools) : dirs' = [dirs EXCEPT ![r].map = map]
    BY <1>2, <2>3, MappedType
  <2> QED BY <2>1, <2>2, <2>3 DEF Edit
<1>4. Typed'
  BY <1>1, <1>3 DEF FilterInv, Typed, Edit, job
<1>5. Granted' /\ Checked'
  BY DEF FilterInv, Granted, Checked, Edit, job
<1> QED BY <1>4, <1>5 DEF FilterInv

LEMMA BeginHolds ==
  ASSUME FilterInv, NEW p \in Procs, NEW c \in Commands, NEW r \in Projects, Begin(p, c, r)
  PROVE  FilterInv'
<1>1. steps' \in 0..MaxSteps
  BY TrustAssumption DEF Begin, Counted, FilterInv, Typed
<1>2. /\ pc' \in [Procs -> Places] /\ command' \in [Procs -> Commands]
      /\ root' \in [Procs -> Projects] /\ rounds' \in [Procs -> 0..2]
  BY DEF Begin, Goto, FilterInv, Typed, Places
<1>3. Typed'
  BY <1>1, <1>2 DEF FilterInv, Typed, Begin
<1>4. Granted'
  BY DEF FilterInv, Granted, Begin
<1>5. Checked'
  <2> SUFFICES ASSUME NEW q \in Procs
               PROVE  /\ pc'[q] \in {"list", "read", "load"} /\ command'[q] = "execute" => rounds'[q] # 0
                      /\ pc'[q] = "select" /\ seen[q] # Empty => Digest(root'[q], seen[q]) \in granted[root'[q]]
                      /\ pc'[q] # "done" => ran[q] = {}
                      /\ \A used \in ran[q] : \E d \in granted[root'[q]] :
                           used.file \in DOMAIN d.files /\ d.files[used.file] = used.definition
    BY DEF Checked, Begin
  <2>1. CASE q = p
    BY <2>1 DEF FilterInv, Typed, Checked, Begin, Goto, Is
  <2>2. CASE q # p
    BY <2>2 DEF FilterInv, Typed, Checked, Begin, Goto
  <2> QED BY <2>1, <2>2
<1> QED BY <1>3, <1>4, <1>5 DEF FilterInv

(* Steps that leave the projects and the store alone preserve the          *)
(* invariant when they do so for the process that takes them.              *)
LEMMA OwnStep ==
  ASSUME FilterInv, NEW p \in Procs,
         UNCHANGED <<dirs, store, steps, command, root, granted, decided>>,
         /\ pc' \in [Procs -> Places] /\ rounds' \in [Procs -> 0..2]
         /\ todo' \in [Procs -> SUBSET (Files \union {MappingFile})]
         /\ seen' \in [Procs -> Directories]
         /\ copy' \in [Procs -> [Projects -> SUBSET Digests]]
         /\ ran' \in [Procs -> SUBSET [file : Files, definition : Parsed]],
         \A q \in Procs \ {p} : /\ pc'[q] = pc[q] /\ rounds'[q] = rounds[q] /\ seen'[q] = seen[q]
                              /\ ran'[q] = ran[q],
         \A q \in Procs, r \in Projects : copy'[q][r] \in {{}, store[r], copy[q][r]},
         /\ pc'[p] \in {"list", "read", "load"} /\ command[p] = "execute" => rounds'[p] # 0
         /\ pc'[p] = "select" /\ seen'[p] # Empty => Digest(root[p], seen'[p]) \in granted[root[p]]
         /\ pc'[p] # "done" => ran'[p] = {}
         /\ \A used \in ran'[p] : \E d \in granted[root[p]] :
              used.file \in DOMAIN d.files /\ d.files[used.file] = used.definition
  PROVE  FilterInv'
<1>1. Typed'
  BY DEF FilterInv, Typed
<1>2. Granted'
  <2>1. \A q \in Procs, r \in Projects : copy'[q][r] \subseteq granted[r] /\ AtMostOne(copy'[q][r])
    <3> TAKE q \in Procs, r \in Projects
    <3>1. CASE copy'[q][r] = {}
      BY <3>1 DEF AtMostOne
    <3>2. CASE copy'[q][r] \in {store[r], copy[q][r]}
      BY <3>2 DEF FilterInv, Granted
    <3> QED BY <3>1, <3>2
  <2>2. \A r \in Projects : /\ \A d \in granted[r] : d.root = r
                            /\ store[r] \subseteq granted[r] /\ AtMostOne(store[r])
    BY DEF FilterInv, Granted
  <2>3. granted' = granted /\ store' = store
    OBVIOUS
  <2> QED BY <2>1, <2>2, <2>3 DEF Granted
<1>3. Checked'
  <2> SUFFICES ASSUME NEW q \in Procs
               PROVE  /\ pc'[q] \in {"list", "read", "load"} /\ command[q] = "execute" => rounds'[q] # 0
                      /\ pc'[q] = "select" /\ seen'[q] # Empty => Digest(root[q], seen'[q]) \in granted[root[q]]
                      /\ pc'[q] # "done" => ran'[q] = {}
                      /\ \A used \in ran'[q] : \E d \in granted[root[q]] :
                           used.file \in DOMAIN d.files /\ d.files[used.file] = used.definition
    BY DEF Checked
  <2>1. CASE q = p
    BY <2>1
  <2>2. CASE q # p
    BY SMTT(30), <2>2 DEF FilterInv, Checked
  <2> QED BY <2>1, <2>2
<1> QED BY <1>1, <1>2, <1>3 DEF FilterInv

LEMMA EndsAlone ==
  ASSUME FilterInv, NEW p \in Procs, Ends(p), UNCHANGED rounds,
         UNCHANGED <<dirs, store, steps, command, root, granted, decided>>
  PROVE  FilterInv'
<1>1. rounds' \in [Procs -> 0..2] /\ rounds' = rounds
  BY DEF FilterInv, Typed
<1>2. /\ pc' \in [Procs -> Places] /\ todo' \in [Procs -> SUBSET (Files \union {MappingFile})]
      /\ seen' \in [Procs -> Directories]
      /\ copy' \in [Procs -> [Projects -> SUBSET Digests]]
      /\ ran' \in [Procs -> SUBSET [file : Files, definition : Parsed]]
      /\ pc'[p] = "idle" /\ ran'[p] = {}
      /\ \A q \in Procs \ {p} : pc'[q] = pc[q] /\ seen'[q] = seen[q] /\ ran'[q] = ran[q]
  BY EndsHolds
<1>3. \A q \in Procs, r \in Projects : copy'[q][r] \in {{}, store[r], copy[q][r]}
  <2> TAKE q \in Procs, r \in Projects
  <2>1. copy'[q][r] = IF q = p THEN {} ELSE copy[q][r]
    BY EndsHolds
  <2> QED BY <2>1
<1> QED BY <1>1, <1>2, <1>3, OwnStep

LEMMA UnusableHolds ==
  ASSUME FilterInv, NEW p \in Procs, pc[p] # "done", Unusable(p), UNCHANGED rounds,
         UNCHANGED <<dirs, store, steps, command, root, granted, decided>>
  PROVE  FilterInv'
<1>1. CASE command[p] = "execute"
  <2>1. /\ Goto(p, "select") /\ UNCHANGED <<copy, ran>>
        /\ todo' = [todo EXCEPT ![p] = {}] /\ seen' = [seen EXCEPT ![p] = Empty]
    BY <1>1 DEF Unusable
  <2>2. /\ pc' \in [Procs -> Places] /\ rounds' \in [Procs -> 0..2]
        /\ todo' \in [Procs -> SUBSET (Files \union {MappingFile})]
        /\ seen' \in [Procs -> Directories]
        /\ copy' \in [Procs -> [Projects -> SUBSET Digests]]
        /\ ran' \in [Procs -> SUBSET [file : Files, definition : Parsed]]
    BY <2>1, EmptyType DEF Goto, FilterInv, Typed, Places
  <2>3. pc'[p] = "select" /\ seen'[p] = Empty /\ ran'[p] = ran[p]
    BY <2>1 DEF Goto, FilterInv, Typed
  <2>4. \A q \in Procs \ {p} : pc'[q] = pc[q] /\ seen'[q] = seen[q] /\ ran'[q] = ran[q]
    BY <2>1 DEF Goto, FilterInv, Typed
  <2>5. ran'[p] = {}
    BY <2>3 DEF FilterInv, Checked
  <2>6. \A q \in Procs, r \in Projects : copy'[q][r] = copy[q][r]
    BY <2>1
  <2> QED BY <2>2, <2>3, <2>4, <2>5, <2>6, OwnStep
<1>2. CASE command[p] # "execute"
  <2>1. Ends(p)
    BY <1>2 DEF Unusable
  <2> QED BY <2>1, EndsAlone
<1> QED BY <1>1, <1>2

LEMMA ListHolds ==
  ASSUME FilterInv, NEW p \in Procs, List(p)
  PROVE  FilterInv'
<1> DEFINE listed == Listing(dirs[root[p]])
<1>1. pc[p] = "list" /\ UNCHANGED <<dirs, store, steps, command, root, rounds, granted, decided>>
  BY DEF List, Is, job
<1>2. CASE listed = {}
  BY <1>1, <1>2, UnusableHolds DEF List
<1>3. CASE listed # {}
  <2>1. /\ Goto(p, "read") /\ UNCHANGED <<copy, ran>>
        /\ todo' = [todo EXCEPT ![p] = listed] /\ seen' = [seen EXCEPT ![p] = Empty]
    BY <1>3 DEF List
  <2>2. listed \in SUBSET (Files \union {MappingFile})
    BY NamesAreFiles DEF Listing, FilterInv, Typed
  <2>3. /\ pc' \in [Procs -> Places] /\ rounds' \in [Procs -> 0..2]
        /\ todo' \in [Procs -> SUBSET (Files \union {MappingFile})]
        /\ seen' \in [Procs -> Directories]
        /\ copy' \in [Procs -> [Projects -> SUBSET Digests]]
        /\ ran' \in [Procs -> SUBSET [file : Files, definition : Parsed]]
    BY <1>1, <2>1, <2>2, EmptyType DEF Goto, FilterInv, Typed, Places
  <2>4. pc'[p] = "read" /\ ran' = ran /\ rounds' = rounds
    BY <1>1, <2>1 DEF Goto, FilterInv, Typed
  <2>5. \A q \in Procs \ {p} : pc'[q] = pc[q] /\ seen'[q] = seen[q]
    BY <2>1 DEF Goto, FilterInv, Typed
  <2>6. ran[p] = {} /\ (command[p] = "execute" => rounds[p] # 0)
    BY <1>1 DEF FilterInv, Checked
  <2>7. \A q \in Procs, r \in Projects : copy'[q][r] = copy[q][r]
    BY <2>1
  <2> QED BY <1>1, <2>3, <2>4, <2>5, <2>6, <2>7, OwnStep
<1> QED BY <1>2, <1>3

LEMMA ReadFileHolds ==
  ASSUME FilterInv, NEW p \in Procs, ReadFile(p)
  PROVE  FilterInv'
<1> DEFINE name == Min(todo[p])
           dir  == dirs[root[p]]
           gone == name \notin Listing(dir) \/ (name # MappingFile /\ dir.files[name].kind = "unreadable")
           read == IF name = MappingFile THEN [seen[p] EXCEPT !.map = dir.map]
                   ELSE With(seen[p], name, dir.files[name])
<1>1. pc[p] = "read" /\ UNCHANGED <<dirs, store, steps, command, root, rounds, granted, decided>>
  BY DEF ReadFile, Is, job
<1>2. CASE gone
  BY <1>1, <1>2, UnusableHolds DEF ReadFile
<1>3. CASE ~gone
  <2>1. /\ seen' = [seen EXCEPT ![p] = read] /\ todo' = [todo EXCEPT ![p] = @ \ {name}]
        /\ Goto(p, IF todo[p] = {name} THEN "load" ELSE "read") /\ UNCHANGED <<copy, ran>>
    <3>1. seen' = [seen EXCEPT ![p] = IF name = MappingFile THEN [@ EXCEPT !.map = dir.map]
                                      ELSE With(@, name, dir.files[name])]
      BY <1>3 DEF ReadFile
    <3>2. seen' = [seen EXCEPT ![p] = read]
      BY <3>1
    <3> QED BY <1>3, <3>2 DEF ReadFile
  <2>2. read \in Directories
    <3>1. dir \in Directories /\ seen[p] \in Directories
      BY DEF FilterInv, Typed
    <3>2. name # MappingFile => name \in Names(dir)
      BY <1>3 DEF Listing
    <3>3. name # MappingFile => name \in Files /\ dir.files[name] \in Contents
      BY <3>1, <3>2, NamesAreFiles
    <3>4. dir.map \in Partial(Tools, Tools)
      BY <3>1 DEF Directories
    <3> HIDE DEF name, dir
    <3> QED BY <3>1, <3>3, <3>4, WithType, MappedType
  <2> HIDE DEF read, gone, dir, name
  <2>3. /\ pc' \in [Procs -> Places] /\ rounds' \in [Procs -> 0..2]
        /\ todo' \in [Procs -> SUBSET (Files \union {MappingFile})]
        /\ seen' \in [Procs -> Directories]
        /\ copy' \in [Procs -> [Projects -> SUBSET Digests]]
        /\ ran' \in [Procs -> SUBSET [file : Files, definition : Parsed]]
    <3>1. pc' \in [Procs -> Places] /\ rounds' \in [Procs -> 0..2]
      BY <1>1, <2>1 DEF Goto, FilterInv, Typed, Places
    <3>2. todo' \in [Procs -> SUBSET (Files \union {MappingFile})]
      BY <2>1 DEF FilterInv, Typed
    <3> QED BY <2>1, <2>2, <3>1, <3>2 DEF FilterInv, Typed
  <2>4. pc'[p] \in {"read", "load"} /\ ran' = ran /\ rounds' = rounds
    BY <1>1, <2>1 DEF Goto, FilterInv, Typed
  <2>5. \A q \in Procs \ {p} : pc'[q] = pc[q] /\ seen'[q] = seen[q]
    BY <2>1 DEF Goto, FilterInv, Typed
  <2>6. ran[p] = {} /\ (command[p] = "execute" => rounds[p] # 0)
    BY <1>1 DEF FilterInv, Checked
  <2>7. \A q \in Procs, r \in Projects : copy'[q][r] = copy[q][r]
    BY <2>1
  <2> QED BY <1>1, <2>3, <2>4, <2>5, <2>6, <2>7, OwnStep
<1> QED BY <1>2, <1>3

LEMMA EvaluateHolds ==
  ASSUME FilterInv, NEW p \in Procs, Evaluate(p)
  PROVE  FilterInv'
<1>1. /\ pc[p] = "load" /\ command[p] = "execute"
      /\ UNCHANGED <<dirs, store, steps, command, root, granted, decided>>
  BY DEF Evaluate, Is
<1>2. CASE Unusable(p) /\ UNCHANGED rounds
  BY <1>1, <1>2, UnusableHolds
<1>3. CASE /\ Approved(p) /\ rounds' = [rounds EXCEPT ![p] = @ - 1]
           /\ Goto(p, IF rounds[p] = 1 THEN "select" ELSE "list")
           /\ UNCHANGED <<todo, seen, copy, ran>>
  <2>1. rounds[p] \in 1..2 /\ ran[p] = {}
    <3>1. rounds[p] \in 0..2
      BY DEF FilterInv, Typed
    <3>2. rounds[p] # 0 /\ ran[p] = {}
      BY <1>1 DEF FilterInv, Checked
    <3> QED BY <3>1, <3>2
  <2>2. Digest(root[p], seen[p]) \in granted[root[p]]
    BY <1>3 DEF Approved, FilterInv, Typed, Granted
  <2>3. /\ pc' \in [Procs -> Places] /\ rounds' \in [Procs -> 0..2]
        /\ pc'[p] = (IF rounds[p] = 1 THEN "select" ELSE "list") /\ rounds'[p] = rounds[p] - 1
    <3>1. rounds[p] - 1 \in 0..2
      BY <2>1
    <3> QED BY <1>3, <3>1 DEF Goto, FilterInv, Typed, Places
  <2>4. \A q \in Procs \ {p} : pc'[q] = pc[q] /\ rounds'[q] = rounds[q]
    BY <1>3 DEF Goto, FilterInv, Typed
  <2>5. /\ todo' \in [Procs -> SUBSET (Files \union {MappingFile})]
        /\ seen' \in [Procs -> Directories]
        /\ copy' \in [Procs -> [Projects -> SUBSET Digests]]
        /\ ran' \in [Procs -> SUBSET [file : Files, definition : Parsed]]
        /\ seen' = seen /\ ran' = ran /\ copy' = copy
    BY <1>3 DEF FilterInv, Typed
  <2>6. pc'[p] = "list" => rounds'[p] # 0
    BY <2>1, <2>3
  <2>7. pc'[p] \in {"list", "select"}
    BY <2>3
  <2> QED BY <1>1, <2>1, <2>2, <2>3, <2>4, <2>5, <2>6, <2>7, OwnStep
<1> QED BY <1>2, <1>3 DEF Evaluate

LEMMA LoadDefaultStoreHolds ==
  ASSUME FilterInv, NEW p \in Procs, LoadDefaultStore(p)
  PROVE  FilterInv'
<1>1. /\ pc[p] = "load" /\ command[p] # "execute" /\ UNCHANGED <<todo, seen, ran, rounds>>
      /\ UNCHANGED <<dirs, store, steps, command, root, granted, decided>>
      /\ copy' = [copy EXCEPT ![p] = store] /\ Goto(p, "write")
  BY DEF LoadDefaultStore, Is, job
<1>2. /\ pc' \in [Procs -> Places] /\ rounds' \in [Procs -> 0..2]
      /\ todo' \in [Procs -> SUBSET (Files \union {MappingFile})]
      /\ seen' \in [Procs -> Directories]
      /\ copy' \in [Procs -> [Projects -> SUBSET Digests]]
      /\ ran' \in [Procs -> SUBSET [file : Files, definition : Parsed]]
  BY <1>1 DEF Goto, FilterInv, Typed, Places
<1>3. /\ pc'[p] = "write" /\ \A q \in Procs \ {p} : pc'[q] = pc[q]
      /\ \A q \in Procs : copy'[q] \in {store, copy[q]}
  BY <1>1 DEF Goto, FilterInv, Typed
<1>4. ran[p] = {}
  BY <1>1 DEF FilterInv, Checked
<1>5. \A q \in Procs, r \in Projects : copy'[q][r] \in {{}, store[r], copy[q][r]}
  BY <1>3
<1> QED BY <1>1, <1>2, <1>3, <1>4, <1>5, OwnStep

LEMMA StopHolds ==
  ASSUME FilterInv, NEW p \in Procs, Stop(p)
  PROVE  FilterInv'
<1>1. /\ Ends(p) /\ UNCHANGED rounds
      /\ UNCHANGED <<dirs, store, steps, command, root, granted, decided>>
  BY DEF Stop, job
<1> QED BY <1>1, EndsAlone

(* What the lookup takes from the project is in what was approved.         *)
LEMMA SelectHolds ==
  ASSUME FilterInv, NEW p \in Procs, Select(p)
  PROVE  FilterInv'
<1> DEFINE chosen(tool) == LoadExecutionFilter(<<seen[p], Home>>, tool)
           used(tool) == [file |-> chosen(tool).file, definition |-> seen[p].files[chosen(tool).file]]
<1>1. /\ pc[p] = "select" /\ Goto(p, "done") /\ UNCHANGED <<todo, seen, copy, rounds>>
      /\ UNCHANGED <<dirs, store, steps, command, root, granted, decided>>
  BY DEF Select, Is, job
<1>2. PICK tool \in Tools :
        ran' = [ran EXCEPT ![p] = IF chosen(tool).source = 1 THEN {used(tool)} ELSE {}]
  BY DEF Select
<1>3. seen[p] \in Directories /\ Home \in Directories
  BY TrustAssumption DEF FilterInv, Typed
<1>4. ASSUME chosen(tool).source = 1
      PROVE  /\ used(tool) \in [file : Files, definition : Parsed]
             /\ used(tool).file \in Names(seen[p]) /\ seen[p] # Empty
             /\ used(tool).definition = seen[p].files[used(tool).file]
  <2>1. chosen(tool) # Passthrough
    BY <1>4 DEF Passthrough, Choice
  <2>2. LET source == <<seen[p], Home>>[chosen(tool).source] IN
        /\ chosen(tool).file \in Names(source) /\ chosen(tool).file \in Files
        /\ source.files[chosen(tool).file] \in Parsed
    BY <1>3, <2>1, ChoiceAnswers
  <2>3. <<seen[p], Home>>[chosen(tool).source] = seen[p]
    BY <1>4
  <2> HIDE DEF chosen
  <2>4. /\ chosen(tool).file \in Names(seen[p]) /\ chosen(tool).file \in Files
        /\ seen[p].files[chosen(tool).file] \in Parsed
    BY <2>2, <2>3
  <2> QED BY <2>4, EmptyType
<1> HIDE DEF chosen, used
<1>5. /\ pc' \in [Procs -> Places] /\ rounds' \in [Procs -> 0..2]
      /\ todo' \in [Procs -> SUBSET (Files \union {MappingFile})]
      /\ seen' \in [Procs -> Directories]
      /\ copy' \in [Procs -> [Projects -> SUBSET Digests]]
      /\ ran' \in [Procs -> SUBSET [file : Files, definition : Parsed]]
  BY <1>1, <1>2, <1>4 DEF Goto, FilterInv, Typed, Places
<1>6. /\ pc'[p] = "done" /\ seen' = seen /\ copy' = copy /\ rounds' = rounds
      /\ ran'[p] = IF chosen(tool).source = 1 THEN {used(tool)} ELSE {}
      /\ \A q \in Procs \ {p} : pc'[q] = pc[q] /\ ran'[q] = ran[q]
  BY <1>1, <1>2 DEF Goto, FilterInv, Typed
<1>7. ASSUME NEW u \in ran'[p]
      PROVE  \E d \in granted[root[p]] : u.file \in DOMAIN d.files /\ d.files[u.file] = u.definition
  <2>1. chosen(tool).source = 1 /\ u = used(tool)
    BY <1>6
  <2>2. Digest(root[p], seen[p]) \in granted[root[p]]
    BY <1>1, <1>4, <2>1 DEF FilterInv, Checked
  <2>3. Digest(root[p], seen[p]).files = seen[p].files
    BY DEF Digest
  <2> QED BY <1>4, <2>1, <2>2, <2>3 DEF Names
<1> QED BY <1>1, <1>5, <1>6, <1>7, OwnStep

LEMMA WriteDefaultStoreHolds ==
  ASSUME FilterInv, NEW p \in Procs, WriteDefaultStore(p)
  PROVE  FilterInv'
<1> DEFINE r   == root[p]
           new == IF command[p] = "trust" THEN {Digest(r, seen[p])} ELSE {}
<1>1. /\ Ends(p) /\ UNCHANGED <<dirs, steps, command, root, rounds>>
      /\ store' = [copy[p] EXCEPT ![r] = new]
      /\ granted' = [granted EXCEPT ![r] = @ \union new]
      /\ decided' = [decided EXCEPT ![r] = new]
  BY DEF WriteDefaultStore, job
<1>2. r \in Projects /\ seen[p] \in Directories
  BY DEF FilterInv, Typed
<1>3. new \in SUBSET Digests /\ AtMostOne(new) /\ \A d \in new : d.root = r
  BY <1>2, DigestType DEF AtMostOne
<1> HIDE DEF r, new
<1>4. \A s \in Projects : /\ granted'[s] = IF s = r THEN granted[s] \union new ELSE granted[s]
                          /\ store'[s] = IF s = r THEN new ELSE copy[p][s]
  BY <1>1, <1>2 DEF FilterInv, Typed
<1>5. Typed'
  <2>1. granted' \in [Projects -> SUBSET Digests] /\ store' \in [Projects -> SUBSET Digests]
    BY <1>1, <1>2, <1>3 DEF FilterInv, Typed
  <2>2. decided' \in [Projects -> SUBSET UNION {granted'[s] : s \in Projects}]
    <3>1. \A s \in Projects : decided[s] \subseteq UNION {granted[t] : t \in Projects}
      BY DEF FilterInv, Typed
    <3>2. UNION {granted[t] : t \in Projects} \subseteq UNION {granted'[t] : t \in Projects}
      BY <1>4
    <3>3. new \subseteq UNION {granted'[t] : t \in Projects}
      BY <1>2, <1>4
    <3> DEFINE all == UNION {granted'[t] : t \in Projects}
    <3>4. \A s \in Projects : decided[s] \subseteq all
      BY <3>1, <3>2
    <3>5. new \subseteq all
      BY <3>3
    <3> HIDE DEF all
    <3>6. decided' \in [Projects -> SUBSET all]
      BY <1>1, <3>4, <3>5 DEF FilterInv, Typed
    <3> QED BY <3>6 DEF all
  <2> QED BY <1>1, <2>1, <2>2, EndsHolds DEF FilterInv, Typed
<1>6. Granted'
  <2> SUFFICES ASSUME NEW s \in Projects
               PROVE  /\ \A d \in granted'[s] : d.root = s
                      /\ store'[s] \subseteq granted'[s] /\ AtMostOne(store'[s])
                      /\ \A q \in Procs : copy'[q][s] \subseteq granted'[s] /\ AtMostOne(copy'[q][s])
    BY DEF Granted, AtMostOne
  <2>1. granted[s] \subseteq granted'[s]
    BY <1>4
  <2>2. \A d \in granted'[s] : d.root = s
    BY <1>3, <1>4 DEF FilterInv, Granted
  <2>3. store'[s] \subseteq granted'[s] /\ AtMostOne(store'[s])
    BY <1>3, <1>4 DEF FilterInv, Granted
  <2>4. \A q \in Procs : copy'[q][s] \subseteq granted'[s] /\ AtMostOne(copy'[q][s])
    <3> TAKE q \in Procs
    <3>1. copy'[q][s] = IF q = p THEN {} ELSE copy[q][s]
      BY <1>1, EndsHolds
    <3>2. copy[q][s] \subseteq granted[s] /\ AtMostOne(copy[q][s])
      BY DEF FilterInv, Granted
    <3>3. AtMostOne({})
      BY DEF AtMostOne
    <3> QED BY <2>1, <3>1, <3>2, <3>3
  <2> QED BY <2>2, <2>3, <2>4
<1>7. Checked'
  <2> SUFFICES ASSUME NEW q \in Procs
               PROVE  /\ pc'[q] \in {"list", "read", "load"} /\ command'[q] = "execute" => rounds'[q] # 0
                      /\ pc'[q] = "select" /\ seen'[q] # Empty => Digest(root'[q], seen'[q]) \in granted'[root'[q]]
                      /\ pc'[q] # "done" => ran'[q] = {}
                      /\ \A u \in ran'[q] : \E d \in granted'[root'[q]] :
                           u.file \in DOMAIN d.files /\ d.files[u.file] = u.definition
    BY DEF Checked
  <2>1. CASE q = p
    BY <1>1, <2>1, EndsHolds
  <2>2. CASE q # p
    <3>1. pc'[q] = pc[q] /\ seen'[q] = seen[q] /\ ran'[q] = ran[q]
      BY <1>1, <2>2, EndsHolds
    <3>2. root[q] \in Projects
      BY DEF FilterInv, Typed
    <3>3. granted[root[q]] \subseteq granted'[root[q]]
      BY <1>4, <3>2
    <3> QED BY <1>1, <3>1, <3>3 DEF FilterInv, Checked
  <2> QED BY <2>1, <2>2
<1> QED BY <1>5, <1>6, <1>7 DEF FilterInv

LEMMA StepHolds == FilterInv /\ [TrustNext]_vars => FilterInv'
<1> SUFFICES ASSUME FilterInv, [TrustNext]_vars PROVE FilterInv'
  OBVIOUS
<1>1. CASE UNCHANGED vars
  BY <1>1 DEF vars, job, FilterInv, Typed, Granted, Checked
<1>2. CASE \E r \in Edited : Edit(r)
  BY <1>2, EditHolds
<1>3. ASSUME NEW p \in Procs, \E c \in Commands, r \in Projects : Begin(p, c, r) PROVE FilterInv'
  BY <1>3, BeginHolds
<1>4. ASSUME NEW p \in Procs,
             \/ List(p) \/ ReadFile(p) \/ Evaluate(p) \/ Select(p)
             \/ LoadDefaultStore(p) \/ WriteDefaultStore(p) \/ Stop(p)
      PROVE  FilterInv'
  BY <1>4, ListHolds, ReadFileHolds, EvaluateHolds, SelectHolds,
     LoadDefaultStoreHolds, WriteDefaultStoreHolds, StopHolds
<1> QED BY <1>1, <1>2, <1>3, <1>4 DEF TrustNext

LEMMA Invariant == TrustSpec => []FilterInv
BY InitHolds, StepHolds, PTL DEF TrustSpec

-----------------------------------------------------------------------------
(* Theorems *)

(* The type of the state; of the store: at most one digest for a project,  *)
(* one of its own that a user has granted (trust.go, Store).               *)
THEOREM TrustTypeCorrect == TrustSpec => []TrustTypeOK
<1>1. FilterInv => TrustTypeOK
  <2> SUFFICES ASSUME FilterInv PROVE TrustTypeOK
    OBVIOUS
  <2>1. ASSUME NEW r \in Projects
        PROVE  /\ store[r] \subseteq granted[r] /\ Cardinality(store[r]) <= 1
               /\ \A d \in granted[r] : d.root = r /\ [files |-> d.files, map |-> d.map] \in Directories
    <3>1. store[r] \subseteq granted[r] /\ AtMostOne(store[r]) /\ \A d \in granted[r] : d.root = r
      BY DEF FilterInv, Granted
    <3>2. Cardinality(store[r]) <= 1
      <4>1. CASE store[r] = {}
        BY <4>1, FS_EmptySet
      <4>2. CASE \E d \in store[r] : store[r] = {d}
        <5>1. PICK d \in store[r] : store[r] = {d}
          BY <4>2
        <5>2. Cardinality({d}) = 1
          BY FS_Singleton
        <5> QED BY <5>1, <5>2
      <4> QED BY <3>1, <4>1, <4>2 DEF AtMostOne
    <3>3. \A d \in granted[r] : [files |-> d.files, map |-> d.map] \in Directories
      BY DigestsAre DEF FilterInv, Typed
    <3> QED BY <3>1, <3>2, <3>3
  <2>2. ASSUME NEW p \in Procs
        PROVE  /\ todo[p] \subseteq Files \union {MappingFile} /\ seen[p] \in Directories
               /\ \A r \in Projects : copy[p][r] \subseteq granted[r]
               /\ ran[p] \subseteq [file : Files, definition : Parsed]
    BY DEF FilterInv, Typed, Granted
  <2> QED BY <2>1, <2>2 DEF FilterInv, Typed, TrustTypeOK
<1> QED BY <1>1, Invariant, PTL

(* An execution uses only project filters that were approved, byte for     *)
(* byte, whatever else happens in the directory meanwhile (EvaluateSource).*)
THEOREM ApprovedFiltersOnly == TrustSpec => []OnlyApprovedRuns
<1>1. FilterInv => OnlyApprovedRuns
  BY DEF FilterInv, Checked, OnlyApprovedRuns
<1> QED BY <1>1, Invariant, PTL

(* For tidy sources, `filter status` shows the filter that an execution    *)
(* selects (LoadExecutionFilterFromSourcesWithTiming, LoadRegistryStatus). *)
THEOREM TidySources == TrustSpec => []TidySourcesAgree
<1>1. FilterInv => TidySourcesAgree
  <2> SUFFICES ASSUME FilterInv, NEW r \in Projects, NEW tool \in Tools, Tidy(dirs[r]), Tidy(Home)
               PROVE  LoadExecutionFilter(<<dirs[r], Home>>, tool) = LoadRegistryStatus(<<dirs[r], Home>>, tool)
    BY DEF TidySourcesAgree
  <2>1. dirs[r] \in Directories /\ Home \in Directories
    BY TrustAssumption DEF FilterInv, Typed
  <2> QED BY <2>1, TidyLookupsAgree
<1> QED BY <1>1, Invariant, PTL

(* A tool gets a filter of its own or of its alias in the same source, and *)
(* one that compiles (executionFilterTargets).                             *)
THEOREM AliasesBind == TrustSpec => []AliasBindsInItsSource
<1>1. FilterInv => AliasBindsInItsSource
  <2> SUFFICES ASSUME FilterInv, NEW r \in Projects, NEW tool \in Tools,
                      LoadExecutionFilter(<<dirs[r], Home>>, tool) # Passthrough
               PROVE  LET choice == LoadExecutionFilter(<<dirs[r], Home>>, tool)
                          source == <<dirs[r], Home>>[choice.source]
                      IN  \E target \in TargetsOf(source, tool) :
                            source.files[choice.file] = [kind |-> "ok", filter |-> target]
    BY DEF AliasBindsInItsSource, TargetsOf
  <2>1. dirs[r] \in Directories /\ Home \in Directories
    BY TrustAssumption DEF FilterInv, Typed
  <2> QED BY <2>1, ChoiceAnswers
<1> QED BY <1>1, Invariant, PTL

-----------------------------------------------------------------------------
(* The folds of the library, and what holds of every sequence they fold:   *)
(* induction is over the set of those for which the claim holds.           *)

(* Induction up to a number, over the set of the numbers for which the     *)
(* claim holds.                                                            *)
LEMMA UpTo ==
  ASSUME NEW n \in Nat, NEW good, 0 \in good, \A m \in 0..(n - 1) : m \in good => m + 1 \in good
  PROVE  \A m \in 0..n : m \in good
<1> DEFINE bad == (0..n) \ good
<1>1. SUFFICES ASSUME bad # {} PROVE FALSE
  OBVIOUS
<1>2. PICK m \in bad : \A k \in bad : m <= k
  <2>1. bad \in SUBSET Nat
    OBVIOUS
  <2> HIDE DEF bad
  <2> QED BY <1>1, <2>1, LeastNat
<1>3. m # 0 /\ m \in 1..n
  BY <1>2
<1>4. m - 1 \in 0..(n - 1) /\ m - 1 \notin bad
  BY <1>2, <1>3
<1>5. m - 1 \in good /\ (m - 1) + 1 = m
  BY <1>3, <1>4
<1> QED BY <1>2, <1>4, <1>5

(* Induction over sequences, likewise.                                     *)
LEMMA AllSequences ==
  ASSUME NEW A, NEW good, <<>> \in good,
         \A s \in Seq(A) : \A x \in A : s \in good => Append(s, x) \in good
  PROVE  Seq(A) \subseteq good
<1>1. SUFFICES ASSUME NEW s \in Seq(A) PROVE s \in good
  OBVIOUS
<1> DEFINE prefixes == {n \in 0..Len(s) : SubSeq(s, 1, n) \in good}
<1>2. 0 \in prefixes
  <2>1. SubSeq(s, 1, 0) = <<>>
    BY SubSeqEmpty
  <2>2. 0 \in 0..Len(s)
    BY LenProperties
  <2> QED BY <2>1, <2>2, Zenon
<1>3. ASSUME NEW n \in 0..(Len(s) - 1), n \in prefixes PROVE n + 1 \in prefixes
  <2>0. Len(s) \in Nat /\ n \in Nat /\ n + 1 \in 1..Len(s) /\ SubSeq(s, 1, n) \in good
    BY <1>3, LenProperties
  <2>1. SubSeq(s, 1, n + 1) = Append(SubSeq(s, 1, n), s[n + 1])
    BY <2>0
  <2>2. SubSeq(s, 1, n) \in Seq(A) /\ s[n + 1] \in A
    BY <2>0, ElementOfSeq
  <2>3. SubSeq(s, 1, n + 1) \in good
    BY <2>0, <2>1, <2>2, Zenon
  <2>4. n + 1 \in 0..Len(s)
    BY <2>0
  <2> QED BY <2>3, <2>4, Zenon
<1>4. Len(s) \in prefixes
  <2>1. Len(s) \in Nat /\ Len(s) \in 0..Len(s)
    BY LenProperties
  <2> HIDE DEF prefixes
  <2> QED BY <1>2, <1>3, <2>1, UpTo
<1>5. SubSeq(s, 1, Len(s)) = s
  BY SubSeqFull
<1> QED BY <1>4, <1>5

(* The greatest of some numbers up to n + 1 that include it. *)
LEMMA MaxIs ==
  ASSUME NEW n \in Nat, NEW s \in SUBSET (1..(n + 1)), n + 1 \in s
  PROVE  Max(s) = n + 1
<1>1. \A y \in s : n + 1 >= y
  OBVIOUS
<1>2. Max(s) \in s /\ \A y \in s : Max(s) >= y
  <2>1. \E x \in s : \A y \in s : x >= y
    BY <1>1
  <2> QED BY <2>1, Zenon DEF Max
<1>3. Max(s) \in 1..(n + 1) /\ Max(s) >= n + 1
  BY <1>2, Zenon
<1> QED BY <1>3

LEMMA MaxIn ==
  ASSUME NEW n \in Nat, NEW s \in SUBSET (1..n), s # {}
  PROVE  Max(s) \in s /\ \A y \in s : Max(s) >= y
<1> DEFINE mirror == {n - x : x \in s}
<1>1. mirror \in SUBSET Nat /\ mirror # {}
  <2>1. \A x \in s : n - x \in Nat
    OBVIOUS
  <2> QED BY <2>1
<1>2. PICK m \in mirror : \A k \in mirror : m <= k
  <2> HIDE DEF mirror
  <2> QED BY <1>1, LeastNat
<1>3. PICK x \in s : m = n - x
  BY <1>2
<1>4. ASSUME NEW y \in s PROVE x >= y
  <2>1. m <= n - y
    BY <1>2
  <2> QED BY <2>1, <1>3
<1>5. \E z \in s : \A y \in s : z >= y
  BY <1>4
<1> QED BY <1>5, Zenon DEF Max

Folds(h, Step, base, seq, n) ==
  /\ h[{}] = base
  /\ \A s \in SUBSET (1..n) : s # {} => h[s] = Step[<<h[s \ {Max(s)}], seq[Max(s)]>>]

(* What is defined by taking the greatest number from a set, until there   *)
(* is none, is defined.                                                    *)
LEMMA FoldExists ==
  ASSUME NEW S, NEW A, NEW base \in S, NEW Step \in [S \X A -> S], NEW n \in Nat, NEW seq \in [1..n -> A]
  PROVE  \E h \in [SUBSET (1..n) -> S] : Folds(h, Step, base, seq, n)
<1> DEFINE Solves(h, m) == Folds(h, Step, base, seq, m)
           good == {m \in 0..n : \E h \in [SUBSET (1..m) -> S] : Solves(h, m)}
<1>1. 0 \in good
  <2> DEFINE h == [s \in SUBSET (1..0) |-> base]
  <2>1. SUBSET (1..0) = {{}}
    OBVIOUS
  <2>2. h \in [SUBSET (1..0) -> S] /\ Solves(h, 0)
    BY <2>1 DEF Folds
  <2>3. 0 \in 0..n
    OBVIOUS
  <2> HIDE DEF h, Solves
  <2> QED BY <2>2, <2>3
<1>2. ASSUME NEW m \in 0..(n - 1), m \in good PROVE m + 1 \in good
  <2>1. PICK g \in [SUBSET (1..m) -> S] : Solves(g, m)
    BY <1>2
  <2> DEFINE h == [s \in SUBSET (1..(m + 1)) |->
                     IF m + 1 \in s THEN Step[<<g[s \ {m + 1}], seq[m + 1]>>] ELSE g[s]]
  <2>2. ASSUME NEW s \in SUBSET (1..(m + 1)), m + 1 \notin s
        PROVE  s \in SUBSET (1..m)
    BY <2>2
  <2>3. ASSUME NEW s \in SUBSET (1..(m + 1)), m + 1 \in s
        PROVE  s \ {m + 1} \in SUBSET (1..m) /\ m + 1 \notin s \ {m + 1} /\ Max(s) = m + 1
    BY <2>3, MaxIs
  <2>4. h \in [SUBSET (1..(m + 1)) -> S]
    BY <2>2, <2>3
  <2>5. ASSUME NEW s \in SUBSET (1..(m + 1))
        PROVE  /\ s = {} => h[s] = base
               /\ s # {} => h[s] = Step[<<h[s \ {Max(s)}], seq[Max(s)]>>]
    <3>1. CASE m + 1 \in s
      <4>1. h[s \ {m + 1}] = g[s \ {m + 1}]
        BY <3>1, <2>3
      <4>2. h[s] = Step[<<g[s \ {m + 1}], seq[m + 1]>>]
        BY <3>1
      <4> QED BY <3>1, <4>1, <4>2, <2>3
    <3>2. CASE m + 1 \notin s
      <4>1. s \in SUBSET (1..m) /\ h[s] = g[s]
        BY <3>2, <2>2
      <4>2. CASE s # {}
        <5>1. s \ {Max(s)} \in SUBSET (1..m) /\ m + 1 \notin s \ {Max(s)}
          BY <4>1, <3>2
        <5>0. s \ {Max(s)} \in SUBSET (1..(m + 1))
          BY <5>1
        <5>2. h[s \ {Max(s)}] = g[s \ {Max(s)}]
          BY <5>0, <5>1
        <5>3. g[s] = Step[<<g[s \ {Max(s)}], seq[Max(s)]>>]
          BY <2>1, <4>1, <4>2 DEF Folds
        <5> QED BY <4>1, <4>2, <5>2, <5>3
      <4>3. CASE s = {}
        BY <2>1, <4>1, <4>3 DEF Folds
      <4> QED BY <4>2, <4>3
    <3> QED BY <3>1, <3>2
  <2>6. Solves(h, m + 1)
    BY <2>4, <2>5 DEF Folds
  <2>7. m + 1 \in 0..n
    OBVIOUS
  <2> HIDE DEF Solves, h
  <2> QED BY <2>4, <2>6, <2>7
<1>3. n \in good
  <2>1. n \in 0..n
    OBVIOUS
  <2> HIDE DEF good
  <2> QED BY <1>1, <1>2, <2>1, UpTo
<1> QED BY <1>3

(* What a step makes of a sequence, element by element.                    *)
Follows(w, Step, base, seq) ==
  w[0] = base /\ \A m \in 1..Len(seq) : w[m] = Step[<<w[m - 1], seq[m]>>]
Folded(Step, base, seq) == (CHOOSE w : Follows(w, Step, base, seq))[Len(seq)]

Computes(S, A, Step, base) == base \in S /\ Step \in [S \X A -> S]

LEMMA FollowersAgree ==
  ASSUME NEW S, NEW A, NEW base, NEW Step, Computes(S, A, Step, base), NEW seq \in Seq(A),
         NEW v, NEW w, Follows(v, Step, base, seq), Follows(w, Step, base, seq),
         NEW n \in 0..Len(seq)
  PROVE  v[n] = w[n] /\ v[n] \in S
<1> DEFINE good == {m \in 0..Len(seq) : v[m] = w[m] /\ v[m] \in S}
<1>1. 0 \in good
  <2>1. Len(seq) \in Nat /\ 0 \in 0..Len(seq)
    BY LenProperties
  <2> QED BY <2>1 DEF Follows, Computes
<1>2. ASSUME NEW m \in 0..(Len(seq) - 1), m \in good PROVE m + 1 \in good
  <2>1. Len(seq) \in Nat /\ m + 1 \in 1..Len(seq) /\ m + 1 \in 0..Len(seq) /\ (m + 1) - 1 = m
    BY LenProperties
  <2>2. seq[m + 1] \in A
    BY <2>1, ElementOfSeq
  <2>3. v[m + 1] = Step[<<v[m], seq[m + 1]>>] /\ w[m + 1] = Step[<<w[m], seq[m + 1]>>]
    BY <2>1 DEF Follows
  <2>4. v[m] = w[m] /\ v[m] \in S
    BY <1>2
  <2> QED BY <2>1, <2>2, <2>3, <2>4 DEF Computes
<1>3. \A m \in 0..Len(seq) : m \in good
  <2>1. Len(seq) \in Nat
    BY LenProperties
  <2> HIDE DEF good
  <2> QED BY <1>1, <1>2, <2>1, UpTo
<1> QED BY <1>3

(* The initial segments of a fold of the library. *)
LEMMA Segment ==
  ASSUME NEW n \in Nat, NEW m \in 1..n
  PROVE  /\ m \in 0..n /\ m - 1 \in 0..n /\ 1..m \in SUBSET (1..n) /\ 1..m # {}
         /\ (1..m) \ {m} = 1..(m - 1) /\ Max(1..m) = m
<1>1. m - 1 \in Nat /\ (m - 1) + 1 = m /\ m \in 1..m
  OBVIOUS
<1>2. Max(1..((m - 1) + 1)) = (m - 1) + 1
  BY <1>1, MaxIs
<1>3. (1..m) \ {m} = 1..(m - 1)
  OBVIOUS
<1> QED BY <1>1, <1>2, <1>3

LEMMA FollowerExists ==
  ASSUME NEW S, NEW A, NEW base, NEW Step, Computes(S, A, Step, base), NEW seq \in Seq(A)
  PROVE  \E w : Follows(w, Step, base, seq)
<1>1. Len(seq) \in Nat /\ seq \in [1..Len(seq) -> A]
  BY LenProperties
<1>2. PICK h \in [SUBSET (1..Len(seq)) -> S] : Folds(h, Step, base, seq, Len(seq))
  BY <1>1, FoldExists DEF Computes
<1> DEFINE w == [m \in 0..Len(seq) |-> h[1..m]]
<1>3. w[0] = base
  <2>1. 0 \in 0..Len(seq) /\ 1..0 = {}
    BY <1>1
  <2> QED BY <2>1, <1>2 DEF Folds
<1>4. ASSUME NEW m \in 1..Len(seq) PROVE w[m] = Step[<<w[m - 1], seq[m]>>]
  <2>1. m \in 0..Len(seq) /\ m - 1 \in 0..Len(seq) /\ 1..m \in SUBSET (1..Len(seq)) /\ 1..m # {}
    BY <1>1, Segment
  <2>2. (1..m) \ {m} = 1..(m - 1) /\ Max(1..m) = m
    BY <1>1, Segment
  <2>3. h[1..m] = Step[<<h[(1..m) \ {Max(1..m)}], seq[Max(1..m)]>>]
    BY <2>1, <1>2 DEF Folds
  <2> QED BY <2>1, <2>2, <2>3
<1>5. Follows(w, Step, base, seq)
  BY <1>3, <1>4 DEF Follows
<1> QED BY <1>5

LEMMA FoldedIs ==
  ASSUME NEW S, NEW A, NEW base, NEW Step, Computes(S, A, Step, base), NEW seq \in Seq(A),
         NEW v, Follows(v, Step, base, seq)
  PROVE  v[Len(seq)] = Folded(Step, base, seq) /\ Folded(Step, base, seq) \in S
<1> DEFINE w == CHOOSE w : Follows(w, Step, base, seq)
<1>1. Follows(w, Step, base, seq)
  OBVIOUS
<1>2. Len(seq) \in 0..Len(seq)
  BY LenProperties
<1>3. Folded(Step, base, seq) = w[Len(seq)]
  BY DEF Folded
<1> HIDE DEF w
<1>4. v[Len(seq)] = w[Len(seq)] /\ v[Len(seq)] \in S
  BY <1>1, <1>2, FollowersAgree
<1> QED BY <1>3, <1>4

LEMMA FoldedNothing ==
  ASSUME NEW S, NEW A, NEW base, NEW Step, Computes(S, A, Step, base)
  PROVE  Folded(Step, base, <<>>) = base
<1> DEFINE none == <<>>
<1>0. Len(none) = 0
  OBVIOUS
<1>1. none \in Seq(A)
  OBVIOUS
<1> HIDE DEF none
<1>2. PICK w : Follows(w, Step, base, none)
  BY <1>1, FollowerExists
<1>3. w[0] = base
  BY <1>2 DEF Follows
<1>4. w[Len(none)] = Folded(Step, base, none)
  BY <1>1, <1>2, FoldedIs
<1> QED BY <1>0, <1>3, <1>4 DEF none

LEMMA FoldedAppend ==
  ASSUME NEW S, NEW A, NEW base, NEW Step, Computes(S, A, Step, base), NEW seq \in Seq(A), NEW x \in A
  PROVE  Folded(Step, base, Append(seq, x)) = Step[<<Folded(Step, base, seq), x>>]
<1> DEFINE longer == Append(seq, x)
<1>1. /\ Len(seq) \in Nat /\ longer \in Seq(A) /\ Len(longer) = Len(seq) + 1
      /\ longer[Len(seq) + 1] = x
      /\ \A m \in 1..Len(seq) : longer[m] = seq[m]
  BY AppendProperties, LenProperties
<1> HIDE DEF longer
<1>2. PICK w : Follows(w, Step, base, longer)
  BY <1>1, FollowerExists
<1>3. Follows(w, Step, base, seq)
  BY <1>1, <1>2 DEF Follows
<1>4. w[Len(seq)] = Folded(Step, base, seq)
  BY <1>3, FoldedIs
<1>8. w[Len(longer)] = Folded(Step, base, longer)
  BY <1>1, <1>2, FoldedIs
<1>5. w[Len(seq) + 1] = Step[<<w[(Len(seq) + 1) - 1], longer[Len(seq) + 1]>>]
  <2>1. Len(seq) + 1 \in 1..Len(longer)
    BY <1>1
  <2> QED BY <2>1, <1>2 DEF Follows
<1>6. (Len(seq) + 1) - 1 = Len(seq)
  BY <1>1
<1>7. Folded(Step, base, longer) = Step[<<Folded(Step, base, seq), x>>]
  BY <1>1, <1>4, <1>5, <1>6, <1>8
<1> QED BY <1>7 DEF longer

LEMMA FoldedType ==
  ASSUME NEW S, NEW A, NEW base, NEW Step, Computes(S, A, Step, base), NEW seq \in Seq(A)
  PROVE  Folded(Step, base, seq) \in S
<1>1. PICK w : Follows(w, Step, base, seq)
  BY FollowerExists
<1> QED BY <1>1, FoldedIs

(* What solves the equation of the library's fold, as long as its values   *)
(* are of the type, is this one.                                           *)
Unfolds(h, S, Step, base, seq) ==
  /\ h[{}] = base
  /\ \A s \in SUBSET (1..Len(seq)) :
       s # {} /\ h[s \ {Max(s)}] \in S => h[s] = Step[<<h[s \ {Max(s)}], seq[Max(s)]>>]

LEMMA UnfoldedIs ==
  ASSUME NEW S, NEW A, NEW base, NEW Step, Computes(S, A, Step, base), NEW seq \in Seq(A),
         NEW h, Unfolds(h, S, Step, base, seq)
  PROVE  h[1..Len(seq)] = Folded(Step, base, seq)
<1> DEFINE w == [m \in 0..Len(seq) |-> h[1..m]]
           good == {m \in 0..Len(seq) : w[m] \in S}
<1>1. Len(seq) \in Nat /\ seq \in [1..Len(seq) -> A] /\ 0 \in 0..Len(seq) /\ 1..0 = {} /\ Len(seq) \in 0..Len(seq)
  BY LenProperties
<1>2. w[0] = base /\ base \in S
  BY <1>1 DEF Unfolds, Computes
<1>3. ASSUME NEW m \in 1..Len(seq), w[m - 1] \in S
      PROVE  w[m] = Step[<<w[m - 1], seq[m]>>] /\ w[m] \in S
  <2>1. m \in 0..Len(seq) /\ m - 1 \in 0..Len(seq) /\ 1..m \in SUBSET (1..Len(seq)) /\ 1..m # {}
    BY <1>1, Segment
  <2>2. (1..m) \ {m} = 1..(m - 1) /\ Max(1..m) = m
    BY <1>1, Segment
  <2>3. h[(1..m) \ {Max(1..m)}] \in S
    BY <1>3, <2>1, <2>2
  <2>4. h[1..m] = Step[<<h[(1..m) \ {Max(1..m)}], seq[Max(1..m)]>>]
    BY <2>1, <2>3 DEF Unfolds
  <2>5. w[m] = Step[<<w[m - 1], seq[m]>>]
    BY <2>1, <2>2, <2>4
  <2>6. seq[m] \in A
    BY <1>1
  <2> HIDE DEF w
  <2> QED BY <1>3, <2>5, <2>6 DEF Computes
<1> HIDE DEF w
<1>4. \A m \in 0..Len(seq) : m \in good
  <2>1. 0 \in good
    BY <1>1, <1>2
  <2>2. ASSUME NEW m \in 0..(Len(seq) - 1), m \in good PROVE m + 1 \in good
    <3>1. m + 1 \in 1..Len(seq) /\ m + 1 \in 0..Len(seq) /\ (m + 1) - 1 = m
      BY <1>1
    <3> QED BY <2>2, <3>1, <1>3
  <2> HIDE DEF good
  <2> QED BY <1>1, <2>1, <2>2, UpTo
<1>5. Follows(w, Step, base, seq)
  <2>1. ASSUME NEW m \in 1..Len(seq) PROVE w[m] = Step[<<w[m - 1], seq[m]>>]
    <3>1. m - 1 \in 0..Len(seq)
      BY <1>1
    <3> QED BY <1>3, <1>4, <3>1
  <2> QED BY <2>1, <1>2 DEF Follows
<1>6. w[Len(seq)] = Folded(Step, base, seq)
  BY <1>5, FoldedIs
<1> QED BY <1>1, <1>6 DEF w

LEMMA Elements ==
  ASSUME NEW A, NEW seq \in Seq(A)
  PROVE  /\ DOMAIN seq = 1..Len(seq) /\ Len(seq) \in Nat /\ seq \in [1..Len(seq) -> A]
         /\ \A s \in SUBSET (1..Len(seq)) : s # {} => seq[Max(s)] \in A
<1>1. DOMAIN seq = 1..Len(seq) /\ Len(seq) \in Nat /\ seq \in [1..Len(seq) -> A]
  BY LenProperties
<1>2. ASSUME NEW s \in SUBSET (1..Len(seq)), s # {} PROVE seq[Max(s)] \in A
  <2>1. Max(s) \in 1..Len(seq)
    BY <1>1, <1>2, MaxIn
  <2> QED BY <1>1, <2>1
<1> QED BY <1>1, <1>2

-----------------------------------------------------------------------------
(* ParseArguments is such a fold.                                          *)

Parser(args) ==
  CHOOSE h : h = [s \in SUBSET DOMAIN args |->
                    IF s = {} THEN Unread ELSE ParseArgument(h[s \ {Max(s)}], args[Max(s)])]

LEMMA ParserIs == ASSUME NEW args PROVE ParseArguments(args) = Parser(args)[DOMAIN args]
BY Zenon DEF ParseArguments, FoldLeft, MapThenFoldSet, Parser

LEMMA ParseFolds ==
  ASSUME NEW A, NEW V, Unread \in V, \A v \in V, a \in A : ParseArgument(v, a) \in V, NEW args \in Seq(A)
  PROVE  ParseArguments(args) = Folded([p \in V \X A |-> ParseArgument(p[1], p[2])], Unread, args)
<1> DEFINE Step == [p \in V \X A |-> ParseArgument(p[1], p[2])]
           Solves(h) == h = [s \in SUBSET DOMAIN args |->
              IF s = {} THEN Unread ELSE ParseArgument(h[s \ {Max(s)}], args[Max(s)])]
<1>1. Step \in [V \X A -> V] /\ Computes(V, A, Step, Unread)
  BY DEF Computes
<1>2. /\ DOMAIN args = 1..Len(args) /\ Len(args) \in Nat /\ args \in [1..Len(args) -> A]
      /\ \A s \in SUBSET (1..Len(args)) : s # {} => args[Max(s)] \in A
  <2>1. DOMAIN args = 1..Len(args) /\ Len(args) \in Nat /\ args \in [1..Len(args) -> A]
    BY LenProperties
  <2>2. ASSUME NEW s \in SUBSET (1..Len(args)), s # {} PROVE args[Max(s)] \in A
    <3>1. Max(s) \in 1..Len(args)
      BY <2>1, <2>2, MaxIn
    <3> QED BY <2>1, <3>1
  <2> QED BY <2>1, <2>2
<1>3. PICK h \in [SUBSET (1..Len(args)) -> V] : Folds(h, Step, Unread, args, Len(args))
  <2> HIDE DEF Step
  <2> QED BY <1>1, <1>2, FoldExists
<1>4. Solves(h)
  BY <1>2, <1>3 DEF Folds
<1>5. Parser(args) = CHOOSE g : Solves(g)
  BY Zenon DEF Parser
<1>6. Solves(Parser(args))
  <2> HIDE DEF Solves
  <2> QED BY <1>4, <1>5
<1>7. Unfolds(Parser(args), V, Step, Unread, args)
  BY <1>2, <1>6 DEF Unfolds
<1>8. Parser(args)[1..Len(args)] = Folded(Step, Unread, args)
  <2> HIDE DEF Step
  <2> QED BY <1>1, <1>7, UnfoldedIs
<1> QED BY <1>2, <1>8, ParserIs

LEMMA ParseIs ==
  ASSUME NEW A, NEW V, Unread \in V, \A v \in V, a \in A : ParseArgument(v, a) \in V
  PROVE  /\ ParseArguments(<<>>) = Unread
         /\ \A args \in Seq(A) : ParseArguments(args) \in V
         /\ \A args \in Seq(A), a \in A : ParseArguments(Append(args, a)) = ParseArgument(ParseArguments(args), a)
<1> DEFINE Step == [p \in V \X A |-> ParseArgument(p[1], p[2])]
<1>1. Computes(V, A, Step, Unread)
  BY DEF Computes
<1>2. \A args \in Seq(A) : ParseArguments(args) = Folded(Step, Unread, args)
  BY ParseFolds
<1>3. <<>> \in Seq(A)
  OBVIOUS
<1>4. \A v \in V, a \in A : Step[<<v, a>>] = ParseArgument(v, a)
  OBVIOUS
<1> HIDE DEF Step
<1>5. ASSUME NEW args \in Seq(A) PROVE Folded(Step, Unread, args) \in V
  BY <1>1, FoldedType
<1>6. ParseArguments(<<>>) = Unread
  BY <1>1, <1>2, <1>3, FoldedNothing
<1>7. ASSUME NEW args \in Seq(A), NEW a \in A
      PROVE  ParseArguments(Append(args, a)) = ParseArgument(ParseArguments(args), a)
  <2>1. Append(args, a) \in Seq(A)
    BY AppendProperties
  <2>2. Folded(Step, Unread, Append(args, a)) = Step[<<Folded(Step, Unread, args), a>>]
    BY <1>1, FoldedAppend
  <2> QED BY <1>2, <1>4, <1>5, <2>1, <2>2
<1> QED BY <1>2, <1>5, <1>6, <1>7

(* What ParseArguments builds of tokens. *)
LongOptions == [name : Options, value : {<<>>} \union {<<t>> : t \in Tokens}]
ArgumentViews ==
  [after : BOOLEAN, pending : {"none", "long", "short"},
   raw : Seq(Tokens), before : Seq(Tokens), normalized : Seq(Tokens), normalizedPre : Seq(Tokens),
   positionals : Seq(Tokens), options : Seq(LongOptions)]
Views == {v \in ArgumentViews : v.pending = "long" => v.options # <<>>}

LEMMA TokenIs ==
  ASSUME NEW a \in Tokens
  PROVE  /\ a.kind \in {"long", "attached", "short", "word", "separator"}
         /\ a.kind = "long" <=> \E n \in Options : a = Long(n)
         /\ a.kind = "attached" <=> \E n \in Options, v \in Values : a = Attached(n, v)
         /\ a.kind = "short" <=> \E l \in Letters : a = Short({l})
         /\ a.kind = "word" <=> \E v \in Values : a = Word(v)
         /\ a.kind = "separator" <=> a = Separator
<1>1. /\ \A n : Long(n).kind = "long"
      /\ \A n, v : Attached(n, v).kind = "attached"
      /\ \A l : Short(l).kind = "short"
      /\ \A v : Word(v).kind = "word"
      /\ Separator.kind = "separator"
  BY DEF Long, Attached, Short, Word, Separator
<1>2. \/ \E n \in Options : a = Long(n)
      \/ \E n \in Options, v \in Values : a = Attached(n, v)
      \/ \E l \in Letters : a = Short({l})
      \/ \E v \in Values : a = Word(v)
      \/ a = Separator
  BY DEF Tokens
<1> QED BY <1>1, <1>2

LEMMA UnreadIsView == Unread \in Views
<1>1. <<>> \in Seq(Tokens) /\ <<>> \in Seq(LongOptions)
  OBVIOUS
<1> QED BY <1>1 DEF Unread, Views, ArgumentViews

LEMMA NormalizingIs ==
  ASSUME NEW v \in ArgumentViews, NEW args \in Seq(Tokens)
  PROVE  LET n == Normalizing(v, args) IN
         /\ n \in ArgumentViews
         /\ n.normalized = v.normalized \o args /\ n.normalizedPre = v.normalizedPre \o args
         /\ n.after = v.after /\ n.pending = v.pending /\ n.raw = v.raw /\ n.before = v.before
         /\ n.positionals = v.positionals /\ n.options = v.options
<1>1. v.normalized \o args \in Seq(Tokens) /\ v.normalizedPre \o args \in Seq(Tokens)
  BY DEF ArgumentViews
<1> QED BY <1>1 DEF Normalizing, ArgumentViews

LEMMA ViewsAreKept ==
  ASSUME NEW v \in Views, NEW a \in Tokens
  PROVE  ParseArgument(v, a) \in Views
<1> DEFINE next == [v EXCEPT !.raw = Append(@, a)]
           read == [next EXCEPT !.before = Append(@, a)]
<1>0. /\ v \in ArgumentViews /\ Append(v.raw, a) \in Seq(Tokens) /\ Append(v.before, a) \in Seq(Tokens)
      /\ Append(v.normalized, a) \in Seq(Tokens) /\ Append(v.positionals, a) \in Seq(Tokens)
      /\ v.normalized \o <<a>> \in Seq(Tokens) /\ v.normalizedPre \o <<a>> \in Seq(Tokens)
      /\ v.pending = "long" => v.options # <<>>
  BY DEF Views, ArgumentViews
<1>1. /\ next \in ArgumentViews /\ next.pending = v.pending /\ next.options = v.options /\ next.after = v.after
      /\ next.before = v.before /\ next.normalized = v.normalized /\ next.normalizedPre = v.normalizedPre
      /\ next.positionals = v.positionals /\ next.raw = Append(v.raw, a)
  BY <1>0 DEF ArgumentViews
<1>2. /\ read \in ArgumentViews /\ read.pending = v.pending /\ read.options = v.options /\ read.after = v.after
      /\ read.before = Append(v.before, a) /\ read.normalized = v.normalized
      /\ read.normalizedPre = v.normalizedPre /\ read.positionals = v.positionals
  BY <1>0, <1>1 DEF ArgumentViews
<1> HIDE DEF next, read
<1>7. <<a>> \in Seq(Tokens) /\ next \in ArgumentViews /\ read \in ArgumentViews
  BY <1>1, <1>2
<1>8. LET n == Normalizing(next, <<a>>) IN
      n \in ArgumentViews /\ n.before = v.before /\ n.options = v.options /\ n.after = v.after /\ n.pending = v.pending
  BY <1>1, <1>7, NormalizingIs
<1>9. LET n == Normalizing(read, <<a>>) IN
      /\ n \in ArgumentViews /\ n.options = v.options /\ n.after = v.after /\ n.pending = v.pending
      /\ n.positionals = v.positionals
  BY <1>2, <1>7, NormalizingIs
<1>3. CASE v.after
  <2>1. ParseArgument(v, a) = [next EXCEPT !.normalized = Append(@, a), !.positionals = Append(@, a)]
    BY <1>0, <1>3 DEF ParseArgument, next, ArgumentViews
  <2>2. [next EXCEPT !.normalized = Append(@, a), !.positionals = Append(@, a)] \in Views
    BY <1>0, <1>1 DEF Views, ArgumentViews
  <2> QED BY <2>1, <2>2
<1>4. CASE ~v.after /\ v.pending # "none"
  <2>1. ParseArgument(v, a) = AppendValue(next, a)
    BY <1>4, <1>0 DEF ParseArgument, next
  <2>2. CASE v.pending = "long"
    <3> DEFINE options == Append(Front(next.options), [Last(next.options) EXCEPT !.value = <<a>>])
    <3>1. Front(next.options) \in Seq(LongOptions) /\ Last(next.options) \in LongOptions
      BY <2>2, <1>0, <1>1 DEF ArgumentViews, Front, Last
    <3>2. [Last(next.options) EXCEPT !.value = <<a>>] \in LongOptions
      BY <3>1 DEF LongOptions
    <3>3. options \in Seq(LongOptions)
      BY <3>1, <3>2
    <3> HIDE DEF options
    <3>4. AppendValue(next, a) =
            [Normalizing(next, <<a>>) EXCEPT !.pending = "none", !.before = Append(@, a), !.options = options]
      BY <2>2, <1>1, <1>8 DEF AppendValue, options, ArgumentViews
    <3>5. AppendValue(next, a) \in Views
      <4> DEFINE n == Normalizing(next, <<a>>)
                 longer == Append(n.before, a)
                 after == [n EXCEPT !.pending = "none", !.before = longer, !.options = options]
      <4>1. n \in ArgumentViews /\ longer \in Seq(Tokens)
        BY <1>0, <1>8
      <4>2. AppendValue(next, a) = after
        BY <3>4
      <4> HIDE DEF n, longer
      <4>3. after \in ArgumentViews /\ after.pending = "none"
        BY <3>3, <4>1 DEF ArgumentViews
      <4> HIDE DEF after
      <4> QED BY <4>2, <4>3 DEF Views
    <3> QED BY <2>1, <3>5
  <2>3. CASE v.pending # "long"
    <3>1. AppendValue(next, a) =
            [Normalizing(next, <<a>>) EXCEPT !.pending = "none", !.before = Append(@, a),
                                             !.options = next.options]
      BY <2>3, <1>1, <1>8 DEF AppendValue, ArgumentViews
    <3>2. AppendValue(next, a) \in Views
      <4> DEFINE n == Normalizing(next, <<a>>)
                 longer == Append(n.before, a)
                 after == [n EXCEPT !.pending = "none", !.before = longer, !.options = next.options]
      <4>1. n \in ArgumentViews /\ longer \in Seq(Tokens) /\ next.options \in Seq(LongOptions)
        BY <1>0, <1>1, <1>8 DEF ArgumentViews
      <4>2. AppendValue(next, a) = after
        BY <3>1
      <4> HIDE DEF n, longer
      <4>3. after \in ArgumentViews /\ after.pending = "none"
        BY <4>1 DEF ArgumentViews
      <4> HIDE DEF after
      <4> QED BY <4>2, <4>3 DEF Views
    <3> QED BY <2>1, <3>2
  <2> QED BY <2>2, <2>3
<1>5. CASE ~v.after /\ v.pending = "none" /\ a = Separator
  <2>1. ParseArgument(v, a) = [next EXCEPT !.after = TRUE, !.normalized = Append(@, a)]
    BY <1>5 DEF ParseArgument, next
  <2>2. [next EXCEPT !.after = TRUE, !.normalized = Append(@, a)] \in Views
    BY <1>0, <1>1, <1>5 DEF Views, ArgumentViews
  <2> QED BY <2>1, <2>2
<1>6. CASE ~v.after /\ v.pending = "none" /\ a # Separator
  <2>1. ParseArgument(v, a) = AppendBeforeSeparator(read, a)
    BY <1>6 DEF ParseArgument, next, read
  <2>2. a \in ValueFlags => a.kind \in {"long", "short"}
    BY ArgumentsAssumption, TokenIs DEF Long, Short
  <2>3. CASE a.kind = "attached"
    <3>1. PICK n \in Options, w \in Values : a = Attached(n, w)
      BY <2>3, TokenIs
    <3>2. Long(n) \in Tokens /\ Word(w) \in Tokens /\ a.name = n /\ a.value = w
      BY <3>1 DEF Tokens, Attached
    <3> DEFINE option == [name |-> n, value |-> <<Word(w)>>]
               both == <<Long(n), Word(w)>>
    <3>3. option \in LongOptions /\ Append(read.options, option) \in Seq(LongOptions)
      <4>1. option \in LongOptions
        BY <3>2 DEF LongOptions
      <4> QED BY <4>1, <1>2 DEF ArgumentViews
    <3>4. both \in Seq(Tokens)
      BY <3>2
    <3>5. AppendBeforeSeparator(read, a) =
            [Normalizing(read, both) EXCEPT !.options = Append(@, option)]
      BY <2>3, <3>2 DEF AppendBeforeSeparator
    <3> HIDE DEF option, both
    <3>6. LET read2 == Normalizing(read, both) IN
          read2 \in ArgumentViews /\ read2.options = read.options /\ read2.pending = v.pending
      BY <3>4, <1>2, NormalizingIs
    <3>7. AppendBeforeSeparator(read, a) \in Views
      BY ZenonT(60), <3>3, <3>5, <3>6, <1>6 DEF Views, ArgumentViews
    <3> QED BY <2>1, <3>7
  <2>4. CASE a.kind = "long"
    <3>1. PICK n \in Options : a = Long(n)
      BY <2>4, TokenIs
    <3>2. a.name = n
      BY <3>1 DEF Long
    <3> DEFINE option == [name |-> n, value |-> <<>>]
               pending == IF a \in ValueFlags THEN "long" ELSE "none"
    <3>3. option \in LongOptions /\ Append(read.options, option) \in Seq(LongOptions)
          /\ Append(read.options, option) # <<>>
      <4>1. option \in LongOptions
        BY <3>2 DEF LongOptions
      <4>2. read.options \in Seq(LongOptions)
        BY <1>2 DEF ArgumentViews
      <4> HIDE DEF option
      <4> QED BY <4>1, <4>2, AppendProperties
    <3>4. AppendBeforeSeparator(read, a) =
            [Normalizing(read, <<a>>) EXCEPT !.options = Append(@, option), !.pending = pending]
      BY <2>4, <3>2 DEF AppendBeforeSeparator
    <3>6. pending \in {"none", "long", "short"} /\ read.options = v.options
      BY <1>2
    <3> HIDE DEF option, pending
    <3>5. AppendBeforeSeparator(read, a) \in Views
      <4>1. AppendBeforeSeparator(read, a) =
              [Normalizing(read, <<a>>) EXCEPT !.options = Append(v.options, option), !.pending = pending]
        BY <3>4, <3>6, <1>9
      <4>2. AppendBeforeSeparator(read, a) \in ArgumentViews
        BY ZenonT(60), <3>3, <3>6, <4>1, <1>9 DEF ArgumentViews
      <4>3. AppendBeforeSeparator(read, a).options = Append(v.options, option)
        BY <4>1, <1>9 DEF ArgumentViews
      <4> QED BY <4>2, <4>3, <3>3, <3>6 DEF Views
    <3> QED BY <2>1, <3>5
  <2>5. CASE a.kind \notin {"attached", "long"}
    <3> DEFINE pending == IF a \in ValueFlags THEN a.kind ELSE "none"
               positionals == IF a.kind = "word" /\ pending = "none"
                              THEN Append(read.positionals, a) ELSE read.positionals
    <3>1. pending \in {"none", "short"} /\ positionals \in Seq(Tokens)
      BY <2>2, <2>5, <1>2 DEF ArgumentViews
    <3>2. AppendBeforeSeparator(read, a) =
            [Normalizing(read, <<a>>) EXCEPT !.pending = pending, !.positionals = positionals]
      BY <2>5, <1>2, <1>9 DEF AppendBeforeSeparator, ArgumentViews
    <3> HIDE DEF pending, positionals
    <3>3. AppendBeforeSeparator(read, a) \in Views
      BY <3>1, <3>2, <1>9 DEF Views, ArgumentViews
    <3> QED BY <2>1, <3>3
  <2> QED BY <2>3, <2>4, <2>5
<1> QED BY <1>0, <1>3, <1>4, <1>5, <1>6 DEF ArgumentViews

LEMMA ArgumentsAreParsed ==
  /\ ParseArguments(<<>>) = Unread
  /\ \A args \in Seq(Tokens) : ParseArguments(args) \in Views
  /\ \A args \in Seq(Tokens), a \in Tokens :
       ParseArguments(Append(args, a)) = ParseArgument(ParseArguments(args), a)
BY UnreadIsView, ViewsAreKept, ParseIs

(* What a token does to the fields of a view. *)
LEMMA ReadAfter ==
  ASSUME NEW v \in Views, NEW a \in Tokens, v.after
  PROVE  LET r == ParseArgument(v, a) IN
         /\ r.after = v.after /\ r.pending = v.pending /\ r.raw = Append(v.raw, a) /\ r.before = v.before
         /\ r.normalized = Append(v.normalized, a) /\ r.normalizedPre = v.normalizedPre
         /\ r.positionals = Append(v.positionals, a) /\ r.options = v.options
<1>1. v \in ArgumentViews
  BY DEF Views
<1> QED BY <1>1 DEF ParseArgument, ArgumentViews

LEMMA ReadValue ==
  ASSUME NEW v \in Views, NEW a \in Tokens, ~v.after, v.pending # "none"
  PROVE  LET r == ParseArgument(v, a) IN
         /\ r.after = v.after /\ r.pending = "none" /\ r.raw = Append(v.raw, a) /\ r.before = Append(v.before, a)
         /\ r.normalized = v.normalized \o <<a>> /\ r.normalizedPre = v.normalizedPre \o <<a>>
         /\ r.positionals = v.positionals
         /\ r.options = IF v.pending = "long"
                        THEN Append(Front(v.options), [Last(v.options) EXCEPT !.value = <<a>>]) ELSE v.options
<1> DEFINE next == [v EXCEPT !.raw = Append(@, a)]
<1>1. v \in ArgumentViews /\ Append(v.raw, a) \in Seq(Tokens) /\ <<a>> \in Seq(Tokens)
  BY DEF Views, ArgumentViews
<1>2. /\ next \in ArgumentViews /\ next.pending = v.pending /\ next.options = v.options /\ next.after = v.after
      /\ next.before = v.before /\ next.normalized = v.normalized /\ next.normalizedPre = v.normalizedPre
      /\ next.positionals = v.positionals /\ next.raw = Append(v.raw, a)
  BY <1>1 DEF ArgumentViews
<1>3. ParseArgument(v, a) = AppendValue(next, a)
  BY <1>1 DEF ParseArgument
<1> HIDE DEF next
<1>4. LET n == Normalizing(next, <<a>>) IN
         /\ n \in ArgumentViews
         /\ n.normalized = v.normalized \o <<a>> /\ n.normalizedPre = v.normalizedPre \o <<a>>
         /\ n.after = v.after /\ n.raw = Append(v.raw, a) /\ n.before = v.before
         /\ n.positionals = v.positionals /\ n.options = v.options
  <2>1. <<a>> \in Seq(Tokens) /\ next \in ArgumentViews
    BY <1>1, <1>2
  <2> DEFINE n == Normalizing(next, <<a>>)
  <2>2. /\ n \in ArgumentViews
        /\ n.normalized = next.normalized \o <<a>> /\ n.normalizedPre = next.normalizedPre \o <<a>>
        /\ n.after = next.after /\ n.raw = next.raw /\ n.before = next.before
        /\ n.positionals = next.positionals /\ n.options = next.options
    BY <2>1, NormalizingIs
  <2> HIDE DEF n
  <2>3. /\ n \in ArgumentViews
        /\ n.normalized = v.normalized \o <<a>> /\ n.normalizedPre = v.normalizedPre \o <<a>>
        /\ n.after = v.after /\ n.raw = Append(v.raw, a) /\ n.before = v.before
        /\ n.positionals = v.positionals /\ n.options = v.options
    BY <1>2, <2>2
  <2> QED BY <2>3 DEF n
<1> DEFINE options == IF v.pending = "long"
                      THEN Append(Front(v.options), [Last(v.options) EXCEPT !.value = <<a>>]) ELSE v.options
<1>5. AppendValue(next, a) =
        [Normalizing(next, <<a>>) EXCEPT !.pending = "none", !.before = Append(@, a), !.options = options]
  <2>1. CASE v.pending = "long"
    <3>1. options = Append(Front(v.options), [Last(v.options) EXCEPT !.value = <<a>>])
      BY <2>1
    <3> HIDE DEF options
    <3> QED BY <2>1, <3>1, <1>2, <1>4 DEF AppendValue, ArgumentViews
  <2>2. CASE v.pending # "long"
    <3>1. options = v.options
      BY <2>2
    <3> HIDE DEF options
    <3> QED BY <2>2, <3>1, <1>2, <1>4 DEF AppendValue, ArgumentViews
  <2> QED BY <2>1, <2>2
<1> HIDE DEF options
<1> DEFINE n == Normalizing(next, <<a>>)
           r == [n EXCEPT !.pending = "none", !.before = Append(@, a), !.options = options]
<1>6. ParseArgument(v, a) = r
  BY <1>3, <1>5
<1>7. /\ n \in ArgumentViews
      /\ n.normalized = v.normalized \o <<a>> /\ n.normalizedPre = v.normalizedPre \o <<a>>
      /\ n.after = v.after /\ n.raw = Append(v.raw, a) /\ n.before = v.before
      /\ n.positionals = v.positionals
  BY <1>4
<1> HIDE DEF n
<1>8. /\ r.after = n.after /\ r.pending = "none" /\ r.raw = n.raw /\ r.before = Append(n.before, a)
      /\ r.normalized = n.normalized /\ r.normalizedPre = n.normalizedPre
      /\ r.positionals = n.positionals /\ r.options = options
  BY <1>7 DEF ArgumentViews
<1> HIDE DEF r
<1> QED BY <1>6, <1>7, <1>8 DEF options

LEMMA ReadSeparator ==
  ASSUME NEW v \in Views, ~v.after, v.pending = "none"
  PROVE  LET r == ParseArgument(v, Separator) IN
         /\ r.after = TRUE /\ r.pending = "none" /\ r.raw = Append(v.raw, Separator) /\ r.before = v.before
         /\ r.normalized = Append(v.normalized, Separator) /\ r.normalizedPre = v.normalizedPre
         /\ r.positionals = v.positionals /\ r.options = v.options
<1>1. v \in ArgumentViews
  BY DEF Views
<1> DEFINE next == [v EXCEPT !.raw = Append(@, Separator)]
<1>2. ParseArgument(v, Separator) = [next EXCEPT !.after = TRUE, !.normalized = Append(@, Separator)]
  BY DEF ParseArgument
<1> QED BY <1>1, <1>2 DEF ArgumentViews

Option(a) == [name |-> a.name, value |-> IF a.kind = "attached" THEN <<Word(a.value)>> ELSE <<>>]
Parts(a) == IF a.kind = "attached" THEN <<Long(a.name), Word(a.value)>> ELSE <<a>>
Awaits(a) == IF a \in ValueFlags THEN a.kind ELSE "none"

LEMMA ReadToken ==
  ASSUME NEW v \in Views, NEW a \in Tokens, ~v.after, v.pending = "none", a # Separator
  PROVE  LET r == ParseArgument(v, a) IN
         /\ r.after = v.after /\ r.pending = Awaits(a)
         /\ r.raw = Append(v.raw, a) /\ r.before = Append(v.before, a)
         /\ r.normalized = v.normalized \o Parts(a) /\ r.normalizedPre = v.normalizedPre \o Parts(a)
         /\ r.positionals = IF a.kind = "word" /\ Awaits(a) = "none" THEN Append(v.positionals, a) ELSE v.positionals
         /\ r.options = IF a.kind \in {"long", "attached"} THEN Append(v.options, Option(a)) ELSE v.options
<1> DEFINE read == [[v EXCEPT !.raw = Append(@, a)] EXCEPT !.before = Append(@, a)]
           positionals == IF a.kind = "word" /\ Awaits(a) = "none" THEN Append(v.positionals, a) ELSE v.positionals
           options == IF a.kind \in {"long", "attached"} THEN Append(v.options, Option(a)) ELSE v.options
<1>1. v \in ArgumentViews /\ Append(v.raw, a) \in Seq(Tokens) /\ Append(v.before, a) \in Seq(Tokens)
  BY DEF Views, ArgumentViews
<1>2. /\ read \in ArgumentViews /\ read.pending = v.pending /\ read.options = v.options /\ read.after = v.after
      /\ read.before = Append(v.before, a) /\ read.normalized = v.normalized
      /\ read.normalizedPre = v.normalizedPre
      /\ read.positionals = v.positionals /\ read.raw = Append(v.raw, a)
  BY <1>1 DEF ArgumentViews
<1>3. ParseArgument(v, a) = AppendBeforeSeparator(read, a)
  BY DEF ParseArgument
<1> HIDE DEF read
<1> HIDE DEF options, positionals
<1>4. Parts(a) \in Seq(Tokens)
  <2>1. CASE a.kind = "attached"
    <3>1. PICK n \in Options, w \in Values : a = Attached(n, w)
      BY <2>1, TokenIs
    <3>2. Long(n) \in Tokens /\ Word(w) \in Tokens /\ a.name = n /\ a.value = w
      BY <3>1 DEF Tokens, Attached
    <3> QED BY <2>1, <3>2 DEF Parts
  <2>2. CASE a.kind # "attached"
    BY <2>2 DEF Parts
  <2> QED BY <2>1, <2>2
<1>5. LET n == Normalizing(read, Parts(a)) IN
         /\ n \in ArgumentViews
         /\ n.normalized = v.normalized \o Parts(a) /\ n.normalizedPre = v.normalizedPre \o Parts(a)
         /\ n.after = v.after /\ n.pending = v.pending /\ n.raw = Append(v.raw, a) /\ n.before = Append(v.before, a)
         /\ n.positionals = v.positionals /\ n.options = v.options
  <2> DEFINE n == Normalizing(read, Parts(a))
  <2>1. /\ n \in ArgumentViews
        /\ n.normalized = read.normalized \o Parts(a) /\ n.normalizedPre = read.normalizedPre \o Parts(a)
        /\ n.after = read.after /\ n.pending = read.pending /\ n.raw = read.raw /\ n.before = read.before
        /\ n.positionals = read.positionals /\ n.options = read.options
    <3>1. read \in ArgumentViews
      BY <1>2
    <3> QED BY <3>1, <1>4, NormalizingIs
  <2> HIDE DEF n
  <2>3. /\ n \in ArgumentViews
        /\ n.normalized = v.normalized \o Parts(a) /\ n.normalizedPre = v.normalizedPre \o Parts(a)
        /\ n.after = v.after /\ n.pending = v.pending /\ n.raw = Append(v.raw, a) /\ n.before = Append(v.before, a)
        /\ n.positionals = v.positionals /\ n.options = v.options
    BY <1>2, <2>1
  <2> QED BY <2>3 DEF n
<1>6. a \in ValueFlags => a.kind \in {"long", "short"}
  BY ArgumentsAssumption, TokenIs DEF Long, Short
<1>7. AppendBeforeSeparator(read, a) =
        [Normalizing(read, Parts(a)) EXCEPT !.pending = Awaits(a), !.positionals = positionals, !.options = options]
  <2>1. CASE a.kind = "attached"
    <3>1. AppendBeforeSeparator(read, a) =
            [Normalizing(read, Parts(a)) EXCEPT !.options = Append(@, Option(a))]
      BY <2>1 DEF AppendBeforeSeparator, Parts, Option
    <3>2. options = Append(v.options, Option(a)) /\ positionals = v.positionals /\ Awaits(a) = v.pending
      BY <2>1, <1>6 DEF Awaits, options, positionals
    <3> QED BY <3>1, <3>2, <1>5 DEF ArgumentViews
  <2>2. CASE a.kind = "long"
    <3>1. AppendBeforeSeparator(read, a) =
            [Normalizing(read, Parts(a)) EXCEPT !.options = Append(@, Option(a)), !.pending = Awaits(a)]
      BY <2>2 DEF AppendBeforeSeparator, Parts, Option, Awaits
    <3>2. options = Append(v.options, Option(a)) /\ positionals = v.positionals
      BY <2>2 DEF options, positionals
    <3> QED BY <3>1, <3>2, <1>5 DEF ArgumentViews
  <2>3. CASE a.kind \notin {"long", "attached"}
    <3>1. AppendBeforeSeparator(read, a) =
            [Normalizing(read, Parts(a)) EXCEPT
               !.pending = Awaits(a),
               !.positionals = IF a.kind = "word" /\ Awaits(a) = "none" THEN Append(@, a) ELSE @]
      BY <2>3 DEF AppendBeforeSeparator, Parts, Awaits
    <3>2. options = v.options
      BY <2>3 DEF options
    <3> QED BY <3>1, <3>2, <1>5 DEF ArgumentViews, positionals
  <2> QED BY <2>1, <2>2, <2>3
<1>8. LET r == ParseArgument(v, a) IN
         /\ r.after = v.after /\ r.pending = Awaits(a)
         /\ r.raw = Append(v.raw, a) /\ r.before = Append(v.before, a)
         /\ r.normalized = v.normalized \o Parts(a) /\ r.normalizedPre = v.normalizedPre \o Parts(a)
         /\ r.positionals = positionals /\ r.options = options
  BY SMTT(30), <1>3, <1>5, <1>7 DEF ArgumentViews
<1> QED BY <1>8 DEF options, positionals

-----------------------------------------------------------------------------
(* The two forms of an option: what is read after them is similar, that    *)
(* is, the same but for the tokens the option was given in.                *)

(* Of the arguments, the flags and words that are not the value in         *)
(* question.                                                               *)
Plain(value) == {t \in Tokens : t.kind \in {"short", "word"} /\ t # Word(value)}
Seen(args, value) == ToSet(args) \intersect Plain(value)

Similar(x, y, value) ==
  /\ x.after = y.after /\ x.pending = y.pending /\ x.normalized = y.normalized
  /\ x.normalizedPre = y.normalizedPre /\ x.positionals = y.positionals /\ x.options = y.options
  /\ Seen(x.raw, value) = Seen(y.raw, value) /\ Seen(x.before, value) = Seen(y.before, value)

LEMMA AppendedSet ==
  ASSUME NEW args \in Seq(Tokens), NEW a \in Tokens
  PROVE  ToSet(Append(args, a)) = ToSet(args) \union {a}
<1>1. /\ Len(args) \in Nat /\ DOMAIN args = 1..Len(args)
      /\ DOMAIN Append(args, a) = 1..(Len(args) + 1)
      /\ \A i \in 1..Len(args) : Append(args, a)[i] = args[i]
      /\ Append(args, a)[Len(args) + 1] = a
  BY AppendProperties, LenProperties
<1> QED BY <1>1 DEF ToSet

LEMMA SeenAppended ==
  ASSUME NEW s \in Seq(Tokens), NEW t \in Seq(Tokens), NEW a \in Tokens, NEW value,
         Seen(s, value) = Seen(t, value)
  PROVE  Seen(Append(s, a), value) = Seen(Append(t, a), value)
<1>1. ToSet(Append(s, a)) = ToSet(s) \union {a} /\ ToSet(Append(t, a)) = ToSet(t) \union {a}
  BY AppendedSet
<1> QED BY <1>1 DEF Seen

LEMMA StaysSimilar ==
  ASSUME NEW x \in Views, NEW y \in Views, NEW value, Similar(x, y, value), NEW a \in Tokens
  PROVE  Similar(ParseArgument(x, a), ParseArgument(y, a), value)
<1>1. /\ x.raw \in Seq(Tokens) /\ x.before \in Seq(Tokens)
      /\ y.raw \in Seq(Tokens) /\ y.before \in Seq(Tokens)
  BY DEF Views, ArgumentViews
<1>2. /\ Seen(Append(x.raw, a), value) = Seen(Append(y.raw, a), value)
      /\ Seen(Append(x.before, a), value) = Seen(Append(y.before, a), value)
      /\ Seen(x.before, value) = Seen(y.before, value)
  BY <1>1, SeenAppended DEF Similar
<1>3. /\ x.after = y.after /\ x.pending = y.pending /\ x.normalized = y.normalized
      /\ x.normalizedPre = y.normalizedPre /\ x.positionals = y.positionals /\ x.options = y.options
  BY DEF Similar
<1> DEFINE p == ParseArgument(x, a)
           q == ParseArgument(y, a)
<1>4. CASE x.after
  <2>1. /\ p.after = x.after /\ p.pending = x.pending /\ p.raw = Append(x.raw, a) /\ p.before = x.before
        /\ p.normalized = Append(x.normalized, a) /\ p.normalizedPre = x.normalizedPre
        /\ p.positionals = Append(x.positionals, a) /\ p.options = x.options
    BY <1>4, ReadAfter
  <2>2. /\ q.after = y.after /\ q.pending = y.pending /\ q.raw = Append(y.raw, a) /\ q.before = y.before
        /\ q.normalized = Append(y.normalized, a) /\ q.normalizedPre = y.normalizedPre
        /\ q.positionals = Append(y.positionals, a) /\ q.options = y.options
    BY <1>3, <1>4, ReadAfter
  <2> HIDE DEF p, q
  <2>3. Similar(p, q, value)
    BY <1>2, <1>3, <2>1, <2>2 DEF Similar
  <2> QED BY <2>3 DEF p, q
<1>5. CASE ~x.after /\ x.pending # "none"
  <2> DEFINE Given(o, pending) ==
        IF pending = "long" THEN Append(Front(o), [Last(o) EXCEPT !.value = <<a>>]) ELSE o
  <2>1. /\ p.after = x.after /\ p.pending = "none" /\ p.raw = Append(x.raw, a) /\ p.before = Append(x.before, a)
        /\ p.normalized = x.normalized \o <<a>> /\ p.normalizedPre = x.normalizedPre \o <<a>>
        /\ p.positionals = x.positionals
        /\ p.options = Given(x.options, x.pending)
    BY <1>5, ReadValue
  <2>2. /\ q.after = y.after /\ q.pending = "none" /\ q.raw = Append(y.raw, a) /\ q.before = Append(y.before, a)
        /\ q.normalized = y.normalized \o <<a>> /\ q.normalizedPre = y.normalizedPre \o <<a>>
        /\ q.positionals = y.positionals
        /\ q.options = Given(y.options, y.pending)
    BY <1>3, <1>5, ReadValue
  <2> HIDE DEF p, q, Given
  <2>3. Similar(p, q, value)
    BY <1>2, <1>3, <2>1, <2>2 DEF Similar
  <2> QED BY <2>3 DEF p, q
<1>6. CASE ~x.after /\ x.pending = "none" /\ a = Separator
  <2>1. /\ p.after = TRUE /\ p.pending = "none" /\ p.raw = Append(x.raw, a) /\ p.before = x.before
        /\ p.normalized = Append(x.normalized, a) /\ p.normalizedPre = x.normalizedPre
        /\ p.positionals = x.positionals /\ p.options = x.options
    BY <1>6, ReadSeparator
  <2>2. /\ q.after = TRUE /\ q.pending = "none" /\ q.raw = Append(y.raw, a) /\ q.before = y.before
        /\ q.normalized = Append(y.normalized, a) /\ q.normalizedPre = y.normalizedPre
        /\ q.positionals = y.positionals /\ q.options = y.options
    BY <1>3, <1>6, ReadSeparator
  <2> HIDE DEF p, q
  <2>3. Similar(p, q, value)
    BY <1>2, <1>3, <2>1, <2>2 DEF Similar
  <2> QED BY <2>3 DEF p, q
<1>7. CASE ~x.after /\ x.pending = "none" /\ a # Separator
  <2> DEFINE Positionals(o) == IF a.kind = "word" /\ Awaits(a) = "none" THEN Append(o, a) ELSE o
             WithOption(o) == IF a.kind \in {"long", "attached"} THEN Append(o, Option(a)) ELSE o
  <2>1. /\ p.after = x.after /\ p.pending = Awaits(a)
        /\ p.raw = Append(x.raw, a) /\ p.before = Append(x.before, a)
        /\ p.normalized = x.normalized \o Parts(a) /\ p.normalizedPre = x.normalizedPre \o Parts(a)
        /\ p.positionals = Positionals(x.positionals) /\ p.options = WithOption(x.options)
    BY <1>7, ReadToken
  <2>2. /\ q.after = y.after /\ q.pending = Awaits(a)
        /\ q.raw = Append(y.raw, a) /\ q.before = Append(y.before, a)
        /\ q.normalized = y.normalized \o Parts(a) /\ q.normalizedPre = y.normalizedPre \o Parts(a)
        /\ q.positionals = Positionals(y.positionals) /\ q.options = WithOption(y.options)
    BY <1>3, <1>7, ReadToken
  <2> HIDE DEF p, q, Positionals, WithOption
  <2>3. Similar(p, q, value)
    BY <1>2, <1>3, <2>1, <2>2 DEF Similar
  <2> QED BY <2>3 DEF p, q
<1>8. x.after \in BOOLEAN /\ x.pending \in {"none", "long", "short"}
  BY DEF Views, ArgumentViews
<1> QED BY <1>4, <1>5, <1>6, <1>7, <1>8

(* The two forms of an option, each after the same arguments. *)
LEMMA FormsStartSimilar ==
  ASSUME NEW view \in Views, ~view.after, view.pending = "none",
         NEW name \in Options, Long(name) \in ValueFlags, NEW value \in Values
  PROVE  Similar(ParseArgument(view, Attached(name, value)),
                 ParseArgument(ParseArgument(view, Long(name)), Word(value)), value)
<1> DEFINE a == Attached(name, value)
           flag == Long(name)
           word == Word(value)
           x == ParseArgument(view, a)
           s == ParseArgument(view, flag)
           y == ParseArgument(s, word)
           option == [name |-> name, value |-> <<word>>]
           bare == [name |-> name, value |-> <<>>]
<1>1. /\ a \in Tokens /\ flag \in Tokens /\ word \in Tokens
      /\ a.kind = "attached" /\ a.name = name /\ a.value = value
      /\ flag.kind = "long" /\ flag.name = name /\ word.kind = "word"
      /\ a # Separator /\ flag # Separator
  BY DEF Tokens, Long, Attached, Word, Separator
<1>2. a \notin ValueFlags
  BY ArgumentsAssumption, <1>1 DEF Long, Short
<1>3. /\ view.raw \in Seq(Tokens) /\ view.before \in Seq(Tokens)
      /\ view.normalized \in Seq(Tokens) /\ view.normalizedPre \in Seq(Tokens)
      /\ view.options \in Seq(LongOptions)
  BY DEF Views, ArgumentViews
<1>4. /\ Parts(a) = <<flag, word>> /\ Option(a) = option /\ Awaits(a) = "none"
      /\ Parts(flag) = <<flag>> /\ Option(flag) = bare /\ Awaits(flag) = "long"
  BY <1>1, <1>2 DEF Parts, Option, Awaits
<1>5. [bare EXCEPT !.value = <<word>>] = option
  OBVIOUS
<1>6. bare \in LongOptions
  BY DEF LongOptions
<1>x. /\ x.after = view.after /\ x.pending = "none"
      /\ x.raw = Append(view.raw, a) /\ x.before = Append(view.before, a)
      /\ x.normalized = view.normalized \o <<flag, word>> /\ x.normalizedPre = view.normalizedPre \o <<flag, word>>
      /\ x.positionals = view.positionals /\ x.options = Append(view.options, option)
  <2> HIDE DEF a, flag, word, option, bare
  <2> QED BY <1>1, <1>4, ReadToken
<1>s. /\ s.after = view.after /\ s.pending = "long"
      /\ s.raw = Append(view.raw, flag) /\ s.before = Append(view.before, flag)
      /\ s.normalized = view.normalized \o <<flag>> /\ s.normalizedPre = view.normalizedPre \o <<flag>>
      /\ s.positionals = view.positionals /\ s.options = Append(view.options, bare)
  <2> HIDE DEF a, flag, word, option, bare
  <2> QED BY <1>1, <1>4, ReadToken
<1>t. s \in Views
  BY <1>1, ViewsAreKept
<1>y. /\ y.after = s.after /\ y.pending = "none"
      /\ y.raw = Append(s.raw, word) /\ y.before = Append(s.before, word)
      /\ y.normalized = s.normalized \o <<word>> /\ y.normalizedPre = s.normalizedPre \o <<word>>
      /\ y.positionals = s.positionals
      /\ y.options = Append(Front(s.options), [Last(s.options) EXCEPT !.value = <<word>>])
  <2> HIDE DEF s, word
  <2> QED BY <1>1, <1>s, <1>t, ReadValue
<1>7. y.options = Append(view.options, option)
  <2>1. Front(Append(view.options, bare)) = view.options /\ Last(Append(view.options, bare)) = bare
    <3> DEFINE longer == Append(view.options, bare)
    <3> HIDE DEF bare
    <3>1. /\ longer \in Seq(LongOptions) /\ Len(longer) = Len(view.options) + 1 /\ Len(view.options) \in Nat
          /\ longer[Len(view.options) + 1] = bare
          /\ \A i \in 1..Len(view.options) : longer[i] = view.options[i]
      BY <1>3, <1>6, AppendProperties, LenProperties
    <3> HIDE DEF longer
    <3>2. Last(longer) = bare
      BY <3>1 DEF Last
    <3>3. Front(longer) = view.options
      <4>1. Len(longer) - 1 = Len(view.options)
        BY <3>1
      <4>2. SubSeq(longer, 1, Len(view.options)) = view.options
        BY <1>3, <3>1
      <4> QED BY <4>1, <4>2 DEF Front
    <3> QED BY <3>2, <3>3 DEF longer
  <2> HIDE DEF y, s, bare, option, word
  <2>2. Front(s.options) = view.options /\ Last(s.options) = bare
    BY <1>s, <2>1
  <2>3. [Last(s.options) EXCEPT !.value = <<word>>] = option
    BY <1>5, <2>2
  <2>4. y.options = Append(Front(s.options), [Last(s.options) EXCEPT !.value = <<word>>])
    BY <1>y
  <2> QED BY <2>2, <2>3, <2>4
<1>8. ASSUME NEW t \in Seq(Tokens) PROVE (t \o <<flag>>) \o <<word>> = t \o <<flag, word>>
  <2> HIDE DEF flag, word
  <2>1. <<flag>> \in Seq(Tokens) /\ <<word>> \in Seq(Tokens)
    BY <1>1
  <2>2. <<flag>> \o <<word>> = <<flag, word>>
    <3> DEFINE both == <<flag>> \o <<word>>
    <3>1. both \in Seq(Tokens) /\ Len(both) = 2 /\ both[1] = flag /\ both[2] = word
      BY <2>1
    <3>2. <<flag, word>> \in Seq(Tokens) /\ Len(<<flag, word>>) = 2
      BY <1>1
    <3> HIDE DEF both
    <3>3. both = <<flag, word>>
      BY <3>1, <3>2, SeqEqual
    <3> QED BY <3>3 DEF both
  <2>3. (t \o <<flag>>) \o <<word>> = t \o (<<flag>> \o <<word>>)
    BY <2>1, ConcatAssociative
  <2> QED BY <2>2, <2>3
<1>9. ASSUME NEW t \in Seq(Tokens)
      PROVE  Seen(Append(t, a), value) = Seen(Append(Append(t, flag), word), value)
  <2>0. Append(t, flag) \in Seq(Tokens)
    BY <1>1
  <2>1. /\ ToSet(Append(t, a)) = ToSet(t) \union {a}
        /\ ToSet(Append(Append(t, flag), word)) = (ToSet(t) \union {flag}) \union {word}
    <3> HIDE DEF a, flag, word
    <3> QED BY <1>1, <2>0, AppendedSet
  <2>2. a \notin Plain(value) /\ flag \notin Plain(value) /\ word \notin Plain(value)
    BY <1>1 DEF Plain
  <2> HIDE DEF a, flag, word
  <2> QED BY <2>1, <2>2 DEF Seen
<1> HIDE DEF x, y, s, a, flag, word, option, bare
<1>10. /\ y.normalized = view.normalized \o <<flag, word>> /\ y.normalizedPre = view.normalizedPre \o <<flag, word>>
       /\ Seen(x.raw, value) = Seen(y.raw, value) /\ Seen(x.before, value) = Seen(y.before, value)
  BY <1>3, <1>8, <1>9, <1>x, <1>s, <1>y
<1>11. Similar(x, y, value)
  BY <1>7, <1>10, <1>x, <1>s, <1>y DEF Similar
<1> QED BY <1>11 DEF x, y, s, a, flag, word

LEMMA FormsAreSimilar ==
  ASSUME NEW before \in Seq(Tokens), ~ParseArguments(before).after, ParseArguments(before).pending = "none",
         NEW name \in Options, Long(name) \in ValueFlags, NEW value \in Values, NEW rest \in Seq(Tokens)
  PROVE  Similar(ParseArguments((before \o <<Attached(name, value)>>) \o rest),
                 ParseArguments((before \o <<Long(name), Word(value)>>) \o rest), value)
<1> DEFINE a == Attached(name, value)
           flag == Long(name)
           word == Word(value)
           p == before \o <<a>>
           q == before \o <<flag, word>>
           good == {r \in Seq(Tokens) : Similar(ParseArguments(p \o r), ParseArguments(q \o r), value)}
<1>1. a \in Tokens /\ flag \in Tokens /\ word \in Tokens
  BY DEF Tokens
<1>2. p = Append(before, a) /\ q = Append(Append(before, flag), word) /\ p \in Seq(Tokens) /\ q \in Seq(Tokens)
      /\ Append(before, flag) \in Seq(Tokens)
  <2> HIDE DEF a, flag, word
  <2> QED BY <1>1
<1>3. ParseArguments(before) \in Views
  BY ArgumentsAreParsed
<1>4. /\ ParseArguments(p) = ParseArgument(ParseArguments(before), a)
      /\ ParseArguments(q) = ParseArgument(ParseArgument(ParseArguments(before), flag), word)
  <2> HIDE DEF a, flag, word
  <2> QED BY <1>1, <1>2, ArgumentsAreParsed
<1>5. Similar(ParseArguments(p), ParseArguments(q), value)
  BY <1>3, <1>4, FormsStartSimilar
<1>6. <<>> \in good
  <2>1. p \o <<>> = p /\ q \o <<>> = q /\ <<>> \in Seq(Tokens)
    <3> HIDE DEF p, q
    <3> QED BY <1>2
  <2> HIDE DEF p, q
  <2> QED BY <1>5, <2>1
<1>7. ASSUME NEW r \in Seq(Tokens), NEW t \in Tokens, r \in good PROVE Append(r, t) \in good
  <2> HIDE DEF p, q
  <2>1. /\ p \o Append(r, t) = Append(p \o r, t) /\ q \o Append(r, t) = Append(q \o r, t)
        /\ p \o r \in Seq(Tokens) /\ q \o r \in Seq(Tokens) /\ Append(r, t) \in Seq(Tokens)
    BY SMTT(30), <1>2
  <2>2. ParseArguments(p \o r) \in Views /\ ParseArguments(q \o r) \in Views
    BY <2>1, ArgumentsAreParsed
  <2>3. /\ ParseArguments(Append(p \o r, t)) = ParseArgument(ParseArguments(p \o r), t)
        /\ ParseArguments(Append(q \o r, t)) = ParseArgument(ParseArguments(q \o r), t)
    BY <2>1, ArgumentsAreParsed
  <2>4. Similar(ParseArgument(ParseArguments(p \o r), t), ParseArgument(ParseArguments(q \o r), t), value)
    BY <1>7, <2>2, StaysSimilar
  <2> QED BY <2>1, <2>3, <2>4
<1>8. Seq(Tokens) \subseteq good
  <2> HIDE DEF good
  <2> QED BY <1>6, <1>7, AllSequences
<1> QED BY <1>8

LEMMA PlainIs ==
  ASSUME NEW a \in Tokens, NEW value
  PROVE  /\ a.kind = "short" => a \in Plain(value)
         /\ a.kind \notin {"attached", "long"} /\ a # Separator /\ a # Word(value) => a \in Plain(value)
<1>1. Word(value).kind = "word"
  BY DEF Word
<1>2. a.kind = "separator" => a = Separator
  BY TokenIs
<1>3. a.kind \in {"long", "attached", "short", "word", "separator"}
  BY TokenIs
<1> QED BY <1>1, <1>2, <1>3 DEF Plain

LEMMA WantSimilar ==
  ASSUME NEW x, NEW y, NEW value, Similar(x, y, value), NEW want \in Tokens, want # Word(value)
  PROVE  MatchesWanted(x, want) <=> MatchesWanted(y, want)
<1>1. x.options = y.options /\ Seen(x.raw, value) = Seen(y.raw, value)
  BY DEF Similar
<1>2. CASE want.kind = "attached"
  BY <1>1, <1>2 DEF MatchesWanted, HasLongOptionValue
<1>3. CASE want.kind = "long"
  BY <1>1, <1>3 DEF MatchesWanted, HasLongOption
<1>4. CASE want = Separator
  BY <1>4, TokenIs DEF MatchesWanted, Separator
<1>5. CASE want.kind \notin {"attached", "long"} /\ want # Separator
  <2>1. want \in Plain(value)
    BY <1>5, PlainIs
  <2>2. want \in ToSet(x.raw) <=> want \in ToSet(y.raw)
    BY <1>1, <2>1 DEF Seen
  <2> QED BY <1>5, <2>2 DEF MatchesWanted
<1> QED BY <1>2, <1>3, <1>4, <1>5

LEMMA ShortSimilar ==
  ASSUME NEW x \in Views, NEW y \in Views, NEW value, Similar(x, y, value), NEW letter
  PROVE  HasShortFlag(x, letter) <=> HasShortFlag(y, letter)
<1>1. Seen(x.before, value) = Seen(y.before, value)
  BY DEF Similar
<1>2. x.before \in Seq(Tokens) /\ y.before \in Seq(Tokens)
  BY DEF Views, ArgumentViews
<1>3. ASSUME NEW s \in Seq(Tokens) PROVE ToSet(s) \subseteq Tokens
  BY LenProperties DEF ToSet
<1>4. ASSUME NEW s \in Seq(Tokens), NEW a \in ToSet(s), a.kind = "short" PROVE a \in Seen(s, value)
  BY <1>3, <1>4, PlainIs DEF Seen
<1>5. ASSUME NEW s, NEW a \in Seen(s, value) PROVE a \in ToSet(s)
  BY DEF Seen
<1> QED BY <1>1, <1>2, <1>4, <1>5 DEF HasShortFlag

LEMMA MatchesSimilar ==
  ASSUME NEW value, NEW when, when.haveAny \union when.lackAny \subseteq Tokens,
         Word(value) \notin when.haveAny \union when.lackAny,
         NEW s \in Seq(Tokens), NEW t \in Seq(Tokens), s # <<>>, t # <<>>,
         s[1] \in when.first <=> t[1] \in when.first,
         Similar(ParseArguments(s), ParseArguments(t), value)
  PROVE  MatchesWhenArguments(when, s) <=> MatchesWhenArguments(when, t)
<1> DEFINE x == ParseArguments(s)
           y == ParseArguments(t)
<1>1. x \in Views /\ y \in Views
  BY ArgumentsAreParsed
<1>2. \A want \in when.haveAny \union when.lackAny : MatchesWanted(x, want) <=> MatchesWanted(y, want)
  BY WantSimilar
<1>3. \A l : HasShortFlag(x, l) <=> HasShortFlag(y, l)
  BY <1>1, ShortSimilar
<1>4. /\ x.normalized = y.normalized /\ x.normalizedPre = y.normalizedPre /\ x.positionals = y.positionals
  BY DEF Similar
<1>5. MatchesHaveSequence(x, when.sequence) <=> MatchesHaveSequence(y, when.sequence)
  BY <1>4 DEF MatchesHaveSequence
<1> HIDE DEF x, y
<1>6. (ToSet(x.positionals) \intersect when.positionalsLack = {}
         <=> ToSet(y.positionals) \intersect when.positionalsLack = {})
      /\ \A n : Len(x.positionals) <= n <=> Len(y.positionals) <= n
  BY <1>4
<1>7. ASSUME NEW args, NEW view, view = ParseArguments(args), args # <<>>
      PROVE  MatchesWhenArguments(when, args) <=>
               /\ when.first # {} => args[1] \in when.first
               /\ when.haveAny # {} => \E want \in when.haveAny : MatchesWanted(view, want)
               /\ \A want \in when.lackAny : ~MatchesWanted(view, want)
               /\ MatchesHaveSequence(view, when.sequence)
               /\ when.haveShort # {} => \E l \in when.haveShort : HasShortFlag(view, l)
               /\ \A l \in when.lackShort : ~HasShortFlag(view, l)
               /\ \A l \in when.allShort : HasShortFlag(view, l)
               /\ when.notAllShort # {} => \E l \in when.notAllShort : ~HasShortFlag(view, l)
               /\ ToSet(view.positionals) \intersect when.positionalsLack = {}
               /\ when.noPositionals => Len(view.positionals) <= IF when.first # {} THEN 1 ELSE 0
  BY <1>7 DEF MatchesWhenArguments
<1>8. /\ (\E want \in when.haveAny : MatchesWanted(x, want)) <=> (\E want \in when.haveAny : MatchesWanted(y, want))
      /\ (\A want \in when.lackAny : ~MatchesWanted(x, want)) <=> (\A want \in when.lackAny : ~MatchesWanted(y, want))
      /\ (\E l \in when.haveShort : HasShortFlag(x, l)) <=> (\E l \in when.haveShort : HasShortFlag(y, l))
      /\ (\A l \in when.lackShort : ~HasShortFlag(x, l)) <=> (\A l \in when.lackShort : ~HasShortFlag(y, l))
      /\ (\A l \in when.allShort : HasShortFlag(x, l)) <=> (\A l \in when.allShort : HasShortFlag(y, l))
      /\ (\E l \in when.notAllShort : ~HasShortFlag(x, l)) <=> (\E l \in when.notAllShort : ~HasShortFlag(y, l))
  BY <1>2, <1>3
<1>9. x = ParseArguments(s) /\ y = ParseArguments(t)
  BY DEF x, y
<1> QED BY <1>5, <1>6, <1>7, <1>8, <1>9

(* Dropping the first word of the arguments leaves open whether a value or *)
(* the separator was read last.                                            *)
LEMMA TailReads ==
  ASSUME NEW word \in Tokens, word.kind = "word", NEW rest \in Seq(Tokens)
  PROVE  /\ ParseArguments(<<word>> \o rest).after = ParseArguments(rest).after
         /\ ParseArguments(<<word>> \o rest).pending = ParseArguments(rest).pending
<1> DEFINE x(r) == ParseArguments(<<word>> \o r)
           y(r) == ParseArguments(r)
           good == {r \in Seq(Tokens) : x(r).after = y(r).after /\ x(r).pending = y(r).pending}
<1>1. <<>> \in good
  <2>0. <<>> \in Seq(Tokens) /\ <<word>> \o <<>> = <<word>> /\ Append(<<>>, word) = <<word>>
    OBVIOUS
  <2>1. ParseArguments(<<word>>) = ParseArgument(Unread, word) /\ ParseArguments(<<>>) = Unread
    BY <2>0, ArgumentsAreParsed
  <2>2. word # Separator /\ word \notin ValueFlags
    BY ArgumentsAssumption DEF Separator, Long, Short
  <2>3. ~Unread.after /\ Unread.pending = "none"
    BY DEF Unread
  <2>4. ParseArgument(Unread, word).after = Unread.after /\ ParseArgument(Unread, word).pending = "none"
    BY <2>2, <2>3, UnreadIsView, ReadToken DEF Awaits
  <2> QED BY <2>0, <2>1, <2>3, <2>4
<1>2. ASSUME NEW r \in Seq(Tokens), NEW a \in Tokens, r \in good PROVE Append(r, a) \in good
  <2>1. /\ <<word>> \o Append(r, a) = Append(<<word>> \o r, a) /\ <<word>> \o r \in Seq(Tokens)
        /\ Append(r, a) \in Seq(Tokens)
    OBVIOUS
  <2>2. x(r) \in Views /\ y(r) \in Views
    BY <2>1, ArgumentsAreParsed
  <2>3. x(Append(r, a)) = ParseArgument(x(r), a) /\ y(Append(r, a)) = ParseArgument(y(r), a)
    BY <2>1, ArgumentsAreParsed
  <2>4. x(r).after = y(r).after /\ x(r).pending = y(r).pending
    BY <1>2
  <2>5. ASSUME NEW p \in Views, NEW q \in Views, p.after = q.after, p.pending = q.pending
        PROVE  /\ ParseArgument(p, a).after = ParseArgument(q, a).after
               /\ ParseArgument(p, a).pending = ParseArgument(q, a).pending
    <3>0. p.after \in BOOLEAN /\ p.pending \in {"none", "long", "short"}
      BY DEF Views, ArgumentViews
    <3>1. CASE p.after
      BY <2>5, <3>1, ReadAfter
    <3>2. CASE ~p.after /\ p.pending # "none"
      BY <2>5, <3>2, ReadValue
    <3>3. CASE ~p.after /\ p.pending = "none" /\ a = Separator
      BY <2>5, <3>3, ReadSeparator
    <3>4. CASE ~p.after /\ p.pending = "none" /\ a # Separator
      BY <2>5, <3>4, ReadToken
    <3> QED BY <3>1, <3>2, <3>3, <3>4
  <2> HIDE DEF x, y
  <2>6. /\ ParseArgument(x(r), a).after = ParseArgument(y(r), a).after
        /\ ParseArgument(x(r), a).pending = ParseArgument(y(r), a).pending
    BY <2>2, <2>4, <2>5
  <2> QED BY <2>1, <2>3, <2>6
<1>3. Seq(Tokens) \subseteq good
  <2> HIDE DEF good
  <2> QED BY <1>1, <1>2, AllSequences
<1> QED BY <1>3

LEMMA CaseIs ==
  ASSUME NEW args
  PROVE  /\ CaseForArgs(args) \in {0} \union DOMAIN Whens
         /\ CaseForArgs(args) # 0 => MatchesWhenArguments(Whens[CaseForArgs(args)], args)
<1> DEFINE I == {i \in 1..Len(Whens) : MatchesWhenArguments(Whens[i], args)}
<1>1. DOMAIN Whens = 1..Len(Whens) /\ Len(Whens) \in Nat
  BY ArgumentsAssumption, LenProperties
<1>2. CASE I # {}
  <2>1. CaseForArgs(args) = Min(I)
    BY <1>1, <1>2 DEF CaseForArgs, SelectInSeq
  <2>2. \E i \in I : \A j \in I : i <= j
    <3>1. I \in SUBSET Nat
      BY <1>1
    <3> HIDE DEF I
    <3> QED BY <1>2, <3>1, LeastNat
  <2> HIDE DEF I
  <2>3. Min(I) \in I
    BY <2>2 DEF Min
  <2> QED BY <1>1, <2>1, <2>3 DEF I
<1>3. CASE I = {}
  BY <1>1, <1>3 DEF CaseForArgs
<1> QED BY <1>2, <1>3

LEMMA CasesAgree ==
  ASSUME NEW s, NEW t, \A i \in DOMAIN Whens : MatchesWhenArguments(Whens[i], s) <=> MatchesWhenArguments(Whens[i], t)
  PROVE  CaseForArgs(s) = CaseForArgs(t)
<1> DEFINE I(args) == {i \in 1..Len(Whens) : MatchesWhenArguments(Whens[i], args)}
<1>1. DOMAIN Whens = 1..Len(Whens)
  BY ArgumentsAssumption, LenProperties
<1>2. I(s) = I(t)
  BY <1>1
<1>3. \A args : CaseForArgs(args) = IF I(args) # {} THEN Min(I(args)) ELSE 0
  BY <1>1 DEF CaseForArgs, SelectInSeq
<1> HIDE DEF I
<1> QED BY <1>2, <1>3

-----------------------------------------------------------------------------
(* The additions are folds, too. *)
ShortAdder == [p \in Seq(Tokens) \X Letters |-> AddShortFlagIfMissing(p[1], p[2])]
MissingAdder == [p \in Seq(Tokens) \X Tokens |-> AppendIfMissing(p[1], p[2])]

LEMMA ShortIsToken == ASSUME NEW l \in Letters PROVE Short({l}) \in Tokens
<1> DEFINE Shorts == {Short({k}) : k \in Letters}
<1>1. Short({l}) \in Shorts
  OBVIOUS
<1>2. Shorts \subseteq Tokens
  <2> HIDE DEF Shorts
  <2> QED BY DEF Tokens, Shorts
<1> QED BY <1>1, <1>2

LEMMA AddersCompute ==
  ASSUME NEW args \in Seq(Tokens)
  PROVE  Computes(Seq(Tokens), Letters, ShortAdder, args) /\ Computes(Seq(Tokens), Tokens, MissingAdder, args)
<1>1. \A s \in Seq(Tokens), l \in Letters : AddShortFlagIfMissing(s, l) \in Seq(Tokens)
  <2>1. \A l \in Letters : Short({l}) \in Tokens
    BY ShortIsToken
  <2>2. ASSUME NEW s \in Seq(Tokens), NEW l \in Letters PROVE AddShortFlagIfMissing(s, l) \in Seq(Tokens)
    <3>1. Append(s, Short({l})) \in Seq(Tokens)
      BY <2>1, AppendProperties
    <3> QED BY <3>1, Zenon DEF AddShortFlagIfMissing
  <2> QED BY <2>2
<1>2. \A s \in Seq(Tokens), a \in Tokens : AppendIfMissing(s, a) \in Seq(Tokens)
  BY DEF AppendIfMissing
<1> QED BY <1>1, <1>2 DEF Computes, ShortAdder, MissingAdder

AdderOfShort(args, seq) ==
  CHOOSE h : h = [s \in SUBSET DOMAIN seq |->
                    IF s = {} THEN args ELSE AddShortFlagIfMissing(h[s \ {Max(s)}], seq[Max(s)])]
AdderOfMissing(args, seq) ==
  CHOOSE h : h = [s \in SUBSET DOMAIN seq |->
                    IF s = {} THEN args ELSE AppendIfMissing(h[s \ {Max(s)}], seq[Max(s)])]

LEMMA AddersAre ==
  ASSUME NEW args, NEW seq
  PROVE  /\ FoldLeft(AddShortFlagIfMissing, args, seq) = AdderOfShort(args, seq)[DOMAIN seq]
         /\ FoldLeft(AppendIfMissing, args, seq) = AdderOfMissing(args, seq)[DOMAIN seq]
BY Zenon DEF FoldLeft, MapThenFoldSet, AdderOfShort, AdderOfMissing

LEMMA ShortFolds ==
  ASSUME NEW args \in Seq(Tokens), NEW seq \in Seq(Letters)
  PROVE  FoldLeft(AddShortFlagIfMissing, args, seq) = Folded(ShortAdder, args, seq)
<1> DEFINE Solves(h) == h = [s \in SUBSET DOMAIN seq |->
              IF s = {} THEN args ELSE AddShortFlagIfMissing(h[s \ {Max(s)}], seq[Max(s)])]
<1>1. Computes(Seq(Tokens), Letters, ShortAdder, args)
  BY AddersCompute
<1>2. /\ DOMAIN seq = 1..Len(seq) /\ Len(seq) \in Nat /\ seq \in [1..Len(seq) -> Letters]
      /\ \A s \in SUBSET (1..Len(seq)) : s # {} => seq[Max(s)] \in Letters
  BY Elements
<1>3. PICK h \in [SUBSET (1..Len(seq)) -> Seq(Tokens)] : Folds(h, ShortAdder, args, seq, Len(seq))
  BY <1>1, <1>2, FoldExists DEF Computes
<1>s. ShortAdder = [p \in Seq(Tokens) \X Letters |-> AddShortFlagIfMissing(p[1], p[2])]
  BY DEF ShortAdder
<1>4. Solves(h)
  BY <1>2, <1>3, <1>s DEF Folds
<1>5. AdderOfShort(args, seq) = CHOOSE g : Solves(g)
  BY Zenon DEF AdderOfShort
<1>6. Solves(AdderOfShort(args, seq))
  <2> HIDE DEF Solves
  <2> QED BY <1>4, <1>5
<1>7. Unfolds(AdderOfShort(args, seq), Seq(Tokens), ShortAdder, args, seq)
  BY <1>2, <1>6, <1>s DEF Unfolds
<1>8. AdderOfShort(args, seq)[1..Len(seq)] = Folded(ShortAdder, args, seq)
  BY <1>1, <1>7, UnfoldedIs
<1> QED BY <1>2, <1>8, AddersAre

LEMMA MissingFolds ==
  ASSUME NEW args \in Seq(Tokens), NEW seq \in Seq(Tokens)
  PROVE  FoldLeft(AppendIfMissing, args, seq) = Folded(MissingAdder, args, seq)
<1> DEFINE Solves(h) == h = [s \in SUBSET DOMAIN seq |->
              IF s = {} THEN args ELSE AppendIfMissing(h[s \ {Max(s)}], seq[Max(s)])]
<1>1. Computes(Seq(Tokens), Tokens, MissingAdder, args)
  BY AddersCompute
<1>2. /\ DOMAIN seq = 1..Len(seq) /\ Len(seq) \in Nat /\ seq \in [1..Len(seq) -> Tokens]
      /\ \A s \in SUBSET (1..Len(seq)) : s # {} => seq[Max(s)] \in Tokens
  BY Elements
<1>3. PICK h \in [SUBSET (1..Len(seq)) -> Seq(Tokens)] : Folds(h, MissingAdder, args, seq, Len(seq))
  BY <1>1, <1>2, FoldExists DEF Computes
<1>s. MissingAdder = [p \in Seq(Tokens) \X Tokens |-> AppendIfMissing(p[1], p[2])]
  BY DEF MissingAdder
<1>4. Solves(h)
  BY <1>2, <1>3, <1>s DEF Folds
<1>5. AdderOfMissing(args, seq) = CHOOSE g : Solves(g)
  BY Zenon DEF AdderOfMissing
<1>6. Solves(AdderOfMissing(args, seq))
  <2> HIDE DEF Solves
  <2> QED BY <1>4, <1>5
<1>7. Unfolds(AdderOfMissing(args, seq), Seq(Tokens), MissingAdder, args, seq)
  BY <1>2, <1>6, <1>s DEF Unfolds
<1>8. AdderOfMissing(args, seq)[1..Len(seq)] = Folded(MissingAdder, args, seq)
  BY <1>1, <1>7, UnfoldedIs
<1> QED BY <1>2, <1>8, AddersAre
-----------------------------------------------------------------------------
LEMMA Appended ==
  ASSUME NEW s \in Seq(Tokens), NEW e \in Seq(Tokens), NEW a \in Tokens
  PROVE  Append(s \o e, a) = s \o Append(e, a) /\ Append(e, a) \in Seq(Tokens) /\ s \o e \in Seq(Tokens)
OBVIOUS

SameExtra(p, q, x, y) == \E e \in Seq(Tokens) : x = p \o e /\ y = q \o e

ShortIn(args, letter) == \E i \in DOMAIN args : args[i].kind = "short" /\ letter \in args[i].letters

LEMMA SameShorts ==
  ASSUME NEW p \in Seq(Tokens), NEW q \in Seq(Tokens),
         \A e \in Seq(Tokens) : \A l \in Letters : ShortIn(p \o e, l) <=> ShortIn(q \o e, l),
         NEW letters \in Seq(Letters)
  PROVE  SameExtra(p, q, FoldLeft(AddShortFlagIfMissing, p, letters), FoldLeft(AddShortFlagIfMissing, q, letters))
<1> DEFINE x(s) == Folded(ShortAdder, p, s)
           y(s) == Folded(ShortAdder, q, s)
           good == {s \in Seq(Letters) : SameExtra(p, q, x(s), y(s))}
<1>1. Computes(Seq(Tokens), Letters, ShortAdder, p) /\ Computes(Seq(Tokens), Letters, ShortAdder, q)
  BY AddersCompute
<1>2. <<>> \in good
  <2>1. x(<<>>) = p /\ y(<<>>) = q
    BY <1>1, FoldedNothing
  <2>2. p \o <<>> = p /\ q \o <<>> = q /\ <<>> \in Seq(Tokens) /\ <<>> \in Seq(Letters)
    OBVIOUS
  <2> HIDE DEF x, y
  <2>3. SameExtra(p, q, x(<<>>), y(<<>>))
    BY <2>1, <2>2 DEF SameExtra
  <2> QED BY <2>2, <2>3
<1>3. ASSUME NEW s \in Seq(Letters), NEW l \in Letters, s \in good PROVE Append(s, l) \in good
  <2>1. PICK e \in Seq(Tokens) : x(s) = p \o e /\ y(s) = q \o e
    <3> HIDE DEF x, y
    <3> QED BY <1>3 DEF SameExtra
  <2>2. Append(s, l) \in Seq(Letters) /\ x(s) \in Seq(Tokens) /\ y(s) \in Seq(Tokens)
    BY <2>1
  <2>3. x(Append(s, l)) = ShortAdder[<<x(s), l>>] /\ y(Append(s, l)) = ShortAdder[<<y(s), l>>]
    BY <1>1, FoldedAppend
  <2> HIDE DEF x, y
  <2>4. x(Append(s, l)) = AddShortFlagIfMissing(p \o e, l) /\ y(Append(s, l)) = AddShortFlagIfMissing(q \o e, l)
    BY <2>1, <2>2, <2>3 DEF ShortAdder
  <2>5. Short({l}) \in Tokens
    BY ShortIsToken
  <2>6. /\ Append(p \o e, Short({l})) = p \o Append(e, Short({l}))
        /\ Append(q \o e, Short({l})) = q \o Append(e, Short({l}))
        /\ Append(e, Short({l})) \in Seq(Tokens)
    BY <2>5, Appended
  <2>7. ShortIn(p \o e, l) <=> ShortIn(q \o e, l)
    OBVIOUS
  <2>8. SameExtra(p, q, x(Append(s, l)), y(Append(s, l)))
    BY <2>4, <2>6, <2>7 DEF SameExtra, AddShortFlagIfMissing, ShortIn
  <2> QED BY <2>2, <2>8
<1>4. Seq(Letters) \subseteq good
  <2> HIDE DEF good
  <2> QED BY <1>2, <1>3, AllSequences
<1> QED BY <1>4, ShortFolds

LEMMA SameMissing ==
  ASSUME NEW p \in Seq(Tokens), NEW q \in Seq(Tokens), NEW value,
         \A e \in Seq(Tokens) : Similar(ParseArguments(p \o e), ParseArguments(q \o e), value),
         NEW missing \in Seq(Tokens), Word(value) \notin ToSet(missing)
  PROVE  SameExtra(p, q, FoldLeft(AppendIfMissing, p, missing), FoldLeft(AppendIfMissing, q, missing))
<1> DEFINE x(s) == Folded(MissingAdder, p, s)
           y(s) == Folded(MissingAdder, q, s)
           Wanted == Tokens \ {Word(value)}
           good == {s \in Seq(Wanted) : SameExtra(p, q, x(s), y(s))}
<1>1. Computes(Seq(Tokens), Tokens, MissingAdder, p) /\ Computes(Seq(Tokens), Tokens, MissingAdder, q)
  BY AddersCompute
<1>2. <<>> \in good
  <2>1. x(<<>>) = p /\ y(<<>>) = q
    BY <1>1, FoldedNothing
  <2>2. p \o <<>> = p /\ q \o <<>> = q /\ <<>> \in Seq(Tokens) /\ <<>> \in Seq(Wanted)
    OBVIOUS
  <2> HIDE DEF x, y
  <2>3. SameExtra(p, q, x(<<>>), y(<<>>))
    BY <2>1, <2>2 DEF SameExtra
  <2> QED BY <2>2, <2>3
<1>3. ASSUME NEW s \in Seq(Wanted), NEW a \in Wanted, s \in good PROVE Append(s, a) \in good
  <2>1. PICK e \in Seq(Tokens) : x(s) = p \o e /\ y(s) = q \o e
    <3> HIDE DEF x, y
    <3> QED BY <1>3 DEF SameExtra
  <2>2. /\ Append(s, a) \in Seq(Wanted) /\ x(s) \in Seq(Tokens) /\ y(s) \in Seq(Tokens)
        /\ s \in Seq(Tokens) /\ a \in Tokens /\ a # Word(value)
    BY <2>1
  <2>3. x(Append(s, a)) = MissingAdder[<<x(s), a>>] /\ y(Append(s, a)) = MissingAdder[<<y(s), a>>]
    BY <1>1, <2>2, FoldedAppend
  <2> HIDE DEF x, y, Wanted
  <2>4. x(Append(s, a)) = AppendIfMissing(p \o e, a) /\ y(Append(s, a)) = AppendIfMissing(q \o e, a)
    BY <2>1, <2>2, <2>3 DEF MissingAdder
  <2>6. /\ Append(p \o e, a) = p \o Append(e, a)
        /\ Append(q \o e, a) = q \o Append(e, a)
        /\ Append(e, a) \in Seq(Tokens)
    <3>1. a \in Tokens
      BY <2>2
    <3>2. Append(p \o e, a) = p \o Append(e, a) /\ Append(e, a) \in Seq(Tokens)
      BY ONLY ZenonT(60), <3>1, p \in Seq(Tokens), e \in Seq(Tokens), Appended
    <3>3. Append(q \o e, a) = q \o Append(e, a)
      BY ONLY <3>1, q \in Seq(Tokens), e \in Seq(Tokens), Appended
    <3> QED BY <3>2, <3>3
  <2>7. ArgumentPresent(p \o e, a) <=> ArgumentPresent(q \o e, a)
    BY <2>2, WantSimilar DEF ArgumentPresent
  <2>8. SameExtra(p, q, x(Append(s, a)), y(Append(s, a)))
    BY <2>4, <2>6, <2>7 DEF SameExtra, AppendIfMissing
  <2> QED BY <2>2, <2>8
<1>4. Seq(Wanted) \subseteq good
  <2> HIDE DEF good, Wanted
  <2> QED BY <1>2, <1>3, AllSequences
<1>5. missing \in Seq(Wanted)
  <2>1. missing \in [1..Len(missing) -> Tokens] /\ Len(missing) \in Nat
    BY LenProperties
  <2>2. \A i \in 1..Len(missing) : missing[i] # Word(value)
    BY <2>1 DEF ToSet
  <2>3. missing \in [1..Len(missing) -> Wanted]
    BY <2>1, <2>2
  <2> QED BY <2>1, <2>3, SeqDef
<1> QED BY <1>4, <1>5, MissingFolds

LEMMA Joined ==
  ASSUME NEW s \in Seq(Tokens), NEW t \in Seq(Tokens), NEW u \in Seq(Tokens)
  PROVE  /\ (s \o t) \o u = s \o (t \o u)
         /\ s \o t \in Seq(Tokens) /\ t \o u \in Seq(Tokens)
<1>1. s \o t \in Seq(Tokens) /\ t \o u \in Seq(Tokens)
  BY ConcatProperties
<1>2. (s \o t) \o u = s \o (t \o u)
  BY ConcatAssociative
<1> QED BY <1>1, <1>2

LEMMA JoinedFrom ==
  ASSUME NEW s \in Seq(Tokens), NEW t \in Seq(Tokens), s # <<>>
  PROVE  s \o t # <<>> /\ (s \o t)[1] = s[1] /\ Tail(s \o t) = Tail(s) \o t
<1> DEFINE both == s \o t
<1>1. /\ both \in Seq(Tokens) /\ Len(both) = Len(s) + Len(t) /\ Len(s) \in Nat \ {0} /\ Len(t) \in Nat
      /\ \A i \in 1..Len(s) + Len(t) : both[i] = IF i <= Len(s) THEN s[i] ELSE t[i - Len(s)]
  BY ConcatProperties, EmptySeq, LenProperties
<1> HIDE DEF both
<1>2. both # <<>> /\ both[1] = s[1]
  BY <1>1
<1>3. /\ Tail(both) \in Seq(Tokens) /\ Len(Tail(both)) = Len(both) - 1
      /\ \A i \in 1..Len(Tail(both)) : Tail(both)[i] = both[i + 1]
  BY <1>1, <1>2, HeadTailProperties
<1>4. /\ Tail(s) \in Seq(Tokens) /\ Len(Tail(s)) = Len(s) - 1
      /\ \A i \in 1..Len(Tail(s)) : Tail(s)[i] = s[i + 1]
  BY HeadTailProperties
<1> DEFINE rest == Tail(s) \o t
<1>5. /\ rest \in Seq(Tokens) /\ Len(rest) = Len(Tail(s)) + Len(t)
      /\ \A i \in 1..Len(Tail(s)) + Len(t) :
           rest[i] = IF i <= Len(Tail(s)) THEN Tail(s)[i] ELSE t[i - Len(Tail(s))]
  BY <1>4, ConcatProperties
<1> HIDE DEF rest
<1>6. Len(rest) = Len(Tail(both))
  BY <1>1, <1>3, <1>4, <1>5
<1>7. ASSUME NEW i \in 1..Len(rest) PROVE Tail(both)[i] = rest[i]
  <2>1. i \in 1..Len(Tail(s)) + Len(t) /\ i \in Nat /\ i + 1 \in 1..Len(s) + Len(t)
        /\ (i <= Len(Tail(s)) <=> i + 1 <= Len(s)) /\ i - Len(Tail(s)) = (i + 1) - Len(s)
    BY <1>1, <1>4, <1>5
  <2>2. Tail(both)[i] = both[i + 1]
    BY <1>3, <1>6
  <2>3. both[i + 1] = IF i + 1 <= Len(s) THEN s[i + 1] ELSE t[(i + 1) - Len(s)]
    BY <1>1, <2>1
  <2>4. rest[i] = IF i <= Len(Tail(s)) THEN Tail(s)[i] ELSE t[i - Len(Tail(s))]
    BY <1>5, <2>1
  <2>5. i <= Len(Tail(s)) => Tail(s)[i] = s[i + 1]
    BY <1>1, <1>4, <2>1
  <2> QED BY <2>1, <2>2, <2>3, <2>4, <2>5
<1>8. Tail(both) = rest
  BY <1>3, <1>5, <1>6, <1>7, SeqEqual
<1> QED BY <1>2, <1>8 DEF both, rest

LEMMA ShortInJoined ==
  ASSUME NEW s \in Seq(Tokens), NEW t \in Seq(Tokens), NEW letter
  PROVE  ShortIn(s \o t, letter) <=> ShortIn(s, letter) \/ ShortIn(t, letter)
<1> DEFINE both == s \o t
<1>1. /\ both \in Seq(Tokens) /\ Len(both) = Len(s) + Len(t) /\ Len(s) \in Nat /\ Len(t) \in Nat
      /\ \A i \in 1..Len(s) + Len(t) : both[i] = IF i <= Len(s) THEN s[i] ELSE t[i - Len(s)]
      /\ DOMAIN both = 1..Len(both) /\ DOMAIN s = 1..Len(s) /\ DOMAIN t = 1..Len(t)
  BY ConcatProperties, LenProperties
<1> HIDE DEF both
<1>2. ASSUME NEW i \in DOMAIN s PROVE i \in DOMAIN both /\ both[i] = s[i]
  BY <1>1
<1>3. ASSUME NEW i \in DOMAIN t PROVE Len(s) + i \in DOMAIN both /\ both[Len(s) + i] = t[i]
  BY <1>1
<1>4. ASSUME NEW i \in DOMAIN both
      PROVE  \/ i \in DOMAIN s /\ both[i] = s[i]
             \/ i - Len(s) \in DOMAIN t /\ both[i] = t[i - Len(s)]
  BY <1>1
<1>5. ShortIn(both, letter) <=> ShortIn(s, letter) \/ ShortIn(t, letter)
  BY <1>2, <1>3, <1>4 DEF ShortIn
<1> QED BY <1>5 DEF both

LEMMA SameMutations ==
  ASSUME NEW p \in Seq(Tokens), NEW q \in Seq(Tokens), NEW value, NEW when, NEW adds,
         adds.shortFlags \in Seq(Letters), adds.ifMissing \in Seq(Tokens),
         adds.ifNoPositionals \in Seq(Tokens), Word(value) \notin ToSet(adds.ifMissing),
         \A e \in Seq(Tokens) : \A l \in Letters : ShortIn(p \o e, l) <=> ShortIn(q \o e, l),
         \A e \in Seq(Tokens) : Similar(ParseArguments(p \o e), ParseArguments(q \o e), value),
         \A e \in Seq(Tokens) : HasExplicitPositionals(when, p \o e) <=> HasExplicitPositionals(when, q \o e)
  PROVE  SameExtra(p, q, ApplyCommandMutations(p, when, adds), ApplyCommandMutations(q, when, adds))
<1> DEFINE s == FoldLeft(AddShortFlagIfMissing, p, adds.shortFlags)
           t == FoldLeft(AddShortFlagIfMissing, q, adds.shortFlags)
           x == FoldLeft(AppendIfMissing, s, adds.ifMissing)
           y == FoldLeft(AppendIfMissing, t, adds.ifMissing)
<1>1. PICK d \in Seq(Tokens) : s = p \o d /\ t = q \o d
  <2>1. SameExtra(p, q, s, t)
    BY SameShorts
  <2> HIDE DEF s, t
  <2> QED BY <2>1 DEF SameExtra
<1>2. s \in Seq(Tokens) /\ t \in Seq(Tokens)
  <2> HIDE DEF s, t
  <2> QED BY <1>1
<1>3. \A e \in Seq(Tokens) : Similar(ParseArguments(s \o e), ParseArguments(t \o e), value)
  <2> HIDE DEF s, t
  <2>1. ASSUME NEW e \in Seq(Tokens) PROVE Similar(ParseArguments(s \o e), ParseArguments(t \o e), value)
    <3>1. s \o e = p \o (d \o e) /\ t \o e = q \o (d \o e) /\ d \o e \in Seq(Tokens)
      <4>1. (p \o d) \o e = p \o (d \o e) /\ d \o e \in Seq(Tokens)
        BY ONLY p \in Seq(Tokens), d \in Seq(Tokens), e \in Seq(Tokens), Joined
      <4>2. (q \o d) \o e = q \o (d \o e)
        BY ONLY q \in Seq(Tokens), d \in Seq(Tokens), e \in Seq(Tokens), Joined
      <4> QED BY <1>1, <4>1, <4>2
    <3> QED BY <3>1
  <2> QED BY <2>1
<1>4. PICK e \in Seq(Tokens) : x = s \o e /\ y = t \o e
  <2>1. SameExtra(s, t, x, y)
    <3> HIDE DEF s, t
    <3> QED BY <1>2, <1>3, SameMissing
  <2> HIDE DEF s, t, x, y
  <2> QED BY <2>1 DEF SameExtra
<1>5. /\ ApplyCommandMutations(p, when, adds) =
           IF HasExplicitPositionals(when, x) THEN x ELSE x \o adds.ifNoPositionals
      /\ ApplyCommandMutations(q, when, adds) =
           IF HasExplicitPositionals(when, y) THEN y ELSE y \o adds.ifNoPositionals
  BY Zenon DEF ApplyCommandMutations
<1> HIDE DEF s, t, x, y
<1> DEFINE f == d \o e
<1>6. x = p \o f /\ y = q \o f /\ f \in Seq(Tokens)
  <2>1. (p \o d) \o e = p \o (d \o e) /\ d \o e \in Seq(Tokens)
    BY ONLY p \in Seq(Tokens), d \in Seq(Tokens), e \in Seq(Tokens), Joined
  <2>2. (q \o d) \o e = q \o (d \o e)
    BY ONLY q \in Seq(Tokens), d \in Seq(Tokens), e \in Seq(Tokens), Joined
  <2> QED BY <1>1, <1>4, <2>1, <2>2
<1> HIDE DEF f
<1>7. HasExplicitPositionals(when, x) <=> HasExplicitPositionals(when, y)
  BY <1>6
<1>8. /\ x \o adds.ifNoPositionals = p \o (f \o adds.ifNoPositionals)
      /\ y \o adds.ifNoPositionals = q \o (f \o adds.ifNoPositionals)
      /\ f \o adds.ifNoPositionals \in Seq(Tokens)
  <2> DEFINE more == adds.ifNoPositionals
  <2>0. more \in Seq(Tokens)
    OBVIOUS
  <2>f. f \in Seq(Tokens)
    BY <1>6
  <2> HIDE DEF more
  <2>1. (p \o f) \o more = p \o (f \o more) /\ f \o more \in Seq(Tokens)
    BY ONLY SMTT(30), p \in Seq(Tokens), <2>0, <2>f, Joined
  <2>2. (q \o f) \o more = q \o (f \o more)
    BY ONLY SMTT(30), q \in Seq(Tokens), <2>0, <2>f, Joined
  <2>3. x \o more = p \o (f \o more) /\ y \o more = q \o (f \o more) /\ f \o more \in Seq(Tokens)
    BY <1>6, <2>1, <2>2
  <2> QED BY <2>3 DEF more
<1> QED BY <1>5, <1>6, <1>7, <1>8 DEF SameExtra

LEMMA AddedIs ==
  ASSUME NEW p \in Seq(Tokens), NEW e \in Seq(Tokens), PrepareCommand(p).args = p \o e
  PROVE  Added(p) = e
<1>1. Added(p) = SubSeq(p \o e, Len(p) + 1, Len(p \o e))
  BY DEF Added
<1>2. Len(p) \in Nat /\ Len(e) \in Nat /\ Len(p \o e) = Len(p) + Len(e)
  BY ConcatProperties, LenProperties
<1>3. CASE e = <<>>
  <2>1. Len(e) = 0
    BY <1>3
  <2>2. Len(p \o e) < Len(p) + 1
    BY <1>2, <2>1
  <2>3. SubSeq(p \o e, Len(p) + 1, Len(p \o e)) = <<>>
    BY <1>2, <2>2, SubSeqEmpty
  <2> QED BY <1>1, <1>3, <2>3
<1>4. CASE e # <<>>
  <2>1. Len(e) # 0
    BY <1>4
  <2>2. /\ Len(p) + 1 \in Len(p) + 1..Len(p) + Len(e) /\ Len(p) + Len(e) \in Len(p) + 1..Len(p) + Len(e)
        /\ (Len(p) + 1) - Len(p) = 1 /\ (Len(p) + Len(e)) - Len(p) = Len(e)
    BY <1>2, <2>1
  <2>3. SubSeq(p \o e, Len(p) + 1, Len(p) + Len(e)) = SubSeq(e, 1, Len(e))
    BY <2>2, SubSeqOfConcat2
  <2>4. SubSeq(e, 1, Len(e)) = e
    BY SubSeqFull
  <2> QED BY <1>1, <1>2, <2>3, <2>4
<1> QED BY <1>3, <1>4

(* The forms of an option, between what is before and what follows it. *)
LEMMA TwoForms ==
  ASSUME NEW before \in Seq(Tokens), ~ParseArguments(before).after, ParseArguments(before).pending = "none",
         NEW name \in Options, Long(name) \in ValueFlags, NEW value \in Values, NEW rest \in Seq(Tokens),
         NamesOptions(value)
  PROVE  LET p == (before \o <<Attached(name, value)>>) \o rest
             q == (before \o <<Long(name), Word(value)>>) \o rest
         IN  CaseForArgs(p) = CaseForArgs(q) /\ Added(p) = Added(q)
<1> DEFINE one == <<Attached(name, value)>>
           two == <<Long(name), Word(value)>>
           p == (before \o one) \o rest
           q == (before \o two) \o rest
<1>0. SUFFICES CaseForArgs(p) = CaseForArgs(q) /\ Added(p) = Added(q)
  OBVIOUS
<1>1. one \in Seq(Tokens) /\ two \in Seq(Tokens) /\ Len(one) = 1 /\ Len(two) = 2
      /\ one[1].kind = "attached" /\ two[1].kind = "long" /\ two[2].kind = "word"
  <2>1. Attached(name, value) \in Tokens /\ Long(name) \in Tokens /\ Word(value) \in Tokens
    BY DEF Tokens
  <2> QED BY <2>1 DEF Attached, Long, Word
<1>2. ASSUME NEW b \in Seq(Tokens), ~ParseArguments(b).after, ParseArguments(b).pending = "none", NEW e \in Seq(Tokens)
      PROVE  Similar(ParseArguments((b \o one) \o e), ParseArguments((b \o two) \o e), value)
  BY <1>2, FormsAreSimilar
<1> HIDE DEF one, two
<1>3. ASSUME NEW b \in Seq(Tokens), NEW e \in Seq(Tokens)
      PROVE  (((b \o one) \o rest) \o e = (b \o one) \o (rest \o e)) /\ (((b \o two) \o rest) \o e = (b \o two) \o (rest \o e))
             /\ rest \o e \in Seq(Tokens)
  <2>1. b \o one \in Seq(Tokens)
    BY <1>1, ConcatProperties
  <2>4. b \o two \in Seq(Tokens)
    BY <1>1, ConcatProperties
  <2>2. ((b \o one) \o rest) \o e = (b \o one) \o (rest \o e) /\ rest \o e \in Seq(Tokens)
    BY ONLY SMTT(30), rest \in Seq(Tokens), e \in Seq(Tokens), <2>1, Joined
  <2>3. ((b \o two) \o rest) \o e = (b \o two) \o (rest \o e)
    BY ONLY SMTT(30), rest \in Seq(Tokens), e \in Seq(Tokens), <2>4, Joined
  <2> QED BY <2>2, <2>3
<1>4. /\ p = before \o (one \o rest) /\ q = before \o (two \o rest)
      /\ one \o rest \in Seq(Tokens) /\ two \o rest \in Seq(Tokens)
      /\ p \in Seq(Tokens) /\ q \in Seq(Tokens)
  <2>1. p = before \o (one \o rest) /\ q = before \o (two \o rest)
        /\ one \o rest \in Seq(Tokens) /\ two \o rest \in Seq(Tokens)
    BY <1>1, Joined
  <2>2. before \o (one \o rest) \in Seq(Tokens) /\ before \o (two \o rest) \in Seq(Tokens)
    BY <2>1, ConcatProperties
  <2> HIDE DEF p, q
  <2> QED BY <2>1, <2>2
<1>5. /\ before # <<>> => p[1] = before[1] /\ q[1] = before[1] /\ p # <<>> /\ q # <<>>
      /\ before = <<>> => p[1] = one[1] /\ q[1] = two[1] /\ p # <<>> /\ q # <<>>
  <2> HIDE DEF p, q
  <2>1. CASE before # <<>>
    BY <1>4, <2>1, JoinedFrom
  <2>2. CASE before = <<>>
    <3>1. p = one \o rest /\ q = two \o rest
      BY <1>4, <2>2, ConcatEmptySeq
    <3>2. one # <<>> /\ two # <<>>
      <4>1. Len(<<>>) = 0
        OBVIOUS
      <4> QED BY ONLY <1>1, <4>1
    <3> QED BY <1>1, <2>2, <3>1, <3>2, JoinedFrom
  <2> QED BY <2>1, <2>2
<1>6. ASSUME NEW e \in Seq(Tokens) PROVE Similar(ParseArguments(p \o e), ParseArguments(q \o e), value)
  BY <1>2, <1>3
<1>7. Similar(ParseArguments(p), ParseArguments(q), value)
  BY <1>2
<1>8. ASSUME NEW i \in DOMAIN Whens
      PROVE  /\ Whens[i].haveAny \union Whens[i].lackAny \subseteq Tokens
             /\ Word(value) \notin Whens[i].haveAny \union Whens[i].lackAny
             /\ Word(value) \notin ToSet(Additions[i].ifMissing)
             /\ \A first \in Whens[i].first : first \in Tokens /\ first.kind = "word"
             /\ Additions[i].shortFlags \in Seq(Letters)
             /\ Additions[i].ifMissing \in Seq(Tokens) /\ Additions[i].ifNoPositionals \in Seq(Tokens)
  <2>1. /\ Whens[i].haveAny \union Whens[i].lackAny \subseteq Tokens
        /\ Additions[i].shortFlags \in Seq(Letters)
        /\ Additions[i].ifMissing \in Seq(Tokens) /\ Additions[i].ifNoPositionals \in Seq(Tokens)
    BY ArgumentsAssumption
  <2>2. /\ Whens[i].first \subseteq {Word(w) : w \in Values}
        /\ Word(value) \notin Whens[i].haveAny \union Whens[i].lackAny \union ToSet(Additions[i].ifMissing)
    BY DEF NamesOptions
  <2>3. ASSUME NEW w \in Values PROVE Word(w) \in Tokens /\ Word(w).kind = "word"
    <3>1. Word(w) \in Tokens
      BY DEF Tokens
    <3> QED BY <3>1 DEF Word
  <2> QED BY <2>1, <2>2, <2>3
<1>9. ASSUME NEW i \in DOMAIN Whens PROVE p[1] \in Whens[i].first <=> q[1] \in Whens[i].first
  BY <1>1, <1>5, <1>8
<1>10. ASSUME NEW i \in DOMAIN Whens
       PROVE  MatchesWhenArguments(Whens[i], p) <=> MatchesWhenArguments(Whens[i], q)
  <2> HIDE DEF p, q
  <2>1. p # <<>> /\ q # <<>>
    BY <1>5
  <2> QED BY <1>4, <1>7, <1>8, <1>9, <2>1, MatchesSimilar
<1>11. CaseForArgs(p) = CaseForArgs(q)
  <2> HIDE DEF p, q
  <2> QED BY <1>10, CasesAgree
<1> DEFINE i == CaseForArgs(p)
<1>12. CASE i = 0
  <2>1. PrepareCommand(p).args = p /\ PrepareCommand(q).args = q
    <3> HIDE DEF p, q
    <3> QED BY <1>11, <1>12 DEF PrepareCommand
  <2>2. p \o <<>> = p /\ q \o <<>> = q /\ <<>> \in Seq(Tokens)
    <3> HIDE DEF p, q
    <3> QED BY <1>4
  <2>3. Added(p) = <<>> /\ Added(q) = <<>>
    <3> HIDE DEF p, q
    <3>1. PrepareCommand(p).args = p \o <<>> /\ PrepareCommand(q).args = q \o <<>>
      BY <2>1, <2>2
    <3>2. Added(p) = <<>>
      BY <1>4, <2>2, <3>1, AddedIs
    <3>3. Added(q) = <<>>
      BY <1>4, <2>2, <3>1, AddedIs
    <3> QED BY <3>2, <3>3
  <2> HIDE DEF p, q
  <2> QED BY <1>11, <2>3
<1>13. CASE i # 0
  <2>1. i \in DOMAIN Whens /\ MatchesWhenArguments(Whens[i], p)
    BY <1>13, CaseIs
  <2> DEFINE when == Whens[i]
             adds == Additions[i]
  <2>2. /\ PrepareCommand(p).args = ApplyCommandMutations(p, when, adds)
        /\ PrepareCommand(q).args = ApplyCommandMutations(q, when, adds)
    <3> HIDE DEF p, q
    <3> QED BY <1>11, <1>13 DEF PrepareCommand
  <2>3. ASSUME NEW e \in Seq(Tokens), NEW l \in Letters PROVE ShortIn(p \o e, l) <=> ShortIn(q \o e, l)
    <3>1. ~ShortIn(one, l) /\ ~ShortIn(two, l)
      <4>1. DOMAIN one = {1} /\ DOMAIN two = {1, 2}
        BY <1>1, LenProperties
      <4> QED BY <1>1, <4>1 DEF ShortIn
    <3>2. rest \o e \in Seq(Tokens) /\ before \o one \in Seq(Tokens) /\ before \o two \in Seq(Tokens)
          /\ p \o e = (before \o one) \o (rest \o e) /\ q \o e = (before \o two) \o (rest \o e)
      BY <1>1, <1>3, Joined
    <3> HIDE DEF p, q
    <3>3. /\ ShortIn(p \o e, l) <=> ShortIn(before \o one, l) \/ ShortIn(rest \o e, l)
          /\ ShortIn(q \o e, l) <=> ShortIn(before \o two, l) \/ ShortIn(rest \o e, l)
      <4>1. ShortIn((before \o one) \o (rest \o e), l) <=> ShortIn(before \o one, l) \/ ShortIn(rest \o e, l)
        BY ZenonT(60), <3>2, ShortInJoined
      <4>2. ShortIn((before \o two) \o (rest \o e), l) <=> ShortIn(before \o two, l) \/ ShortIn(rest \o e, l)
        BY ZenonT(60), <3>2, ShortInJoined
      <4> QED BY <3>2, <4>1, <4>2
    <3>4. /\ ShortIn(before \o one, l) <=> ShortIn(before, l) \/ ShortIn(one, l)
          /\ ShortIn(before \o two, l) <=> ShortIn(before, l) \/ ShortIn(two, l)
      BY <1>1, ShortInJoined
    <3> QED BY <3>1, <3>3, <3>4
  <2>4. ASSUME NEW e \in Seq(Tokens)
        PROVE  HasExplicitPositionals(when, p \o e) <=> HasExplicitPositionals(when, q \o e)
    <3>1. CASE when.first = {}
      <4>1. ParseArguments(p \o e).positionals = ParseArguments(q \o e).positionals
        BY <1>6 DEF Similar
      <4> HIDE DEF p, q, i, when
      <4> QED BY <3>1, <4>1 DEF HasExplicitPositionals
    <3>2. CASE when.first # {}
      <4>1. p[1] \in when.first
        <5> HIDE DEF p, q, i
        <5> QED BY <2>1, <3>2 DEF MatchesWhenArguments
      <4>2. before # <<>> /\ before[1].kind = "word" /\ before[1] \in Tokens
        <5> HIDE DEF p, q, i
        <5> QED BY <1>1, <1>5, <1>8, <2>1, <4>1
      <4> DEFINE b == Tail(before)
      <4>3. b \in Seq(Tokens) /\ before = <<before[1]>> \o b
        BY <4>2
      <4>4. ~ParseArguments(b).after /\ ParseArguments(b).pending = "none"
        <5> HIDE DEF b
        <5>1. /\ ParseArguments(before).after = ParseArguments(b).after
              /\ ParseArguments(before).pending = ParseArguments(b).pending
          BY <4>2, <4>3, TailReads
        <5> QED BY <5>1
      <4> DEFINE r == rest \o e
      <4>5. r \in Seq(Tokens) /\ p \o e = (before \o one) \o r /\ q \o e = (before \o two) \o r
        BY <1>3
      <4> HIDE DEF b, r, p, q, i, when
      <4>6. ASSUME NEW form \in Seq(Tokens)
            PROVE  Tail((before \o form) \o r) = (Tail(before) \o form) \o r
        <5>r. r \in Seq(Tokens)
          BY <4>5
        <5> DEFINE tail == Tail(before)
        <5>0. tail \in Seq(Tokens)
          BY <4>3 DEF b
        <5>1. (before \o form) \o r = before \o (form \o r) /\ form \o r \in Seq(Tokens)
          BY ONLY SMTT(30), before \in Seq(Tokens), form \in Seq(Tokens), <5>r, Joined
        <5>2. Tail(before \o (form \o r)) = tail \o (form \o r)
          BY ONLY before \in Seq(Tokens), <4>2, <5>1, JoinedFrom
        <5> HIDE DEF tail
        <5>3. (tail \o form) \o r = tail \o (form \o r)
          BY ONLY SMTT(30), form \in Seq(Tokens), <5>0, <5>r, Joined
        <5> USE DEF tail
        <5> QED BY <5>1, <5>2, <5>3
      <4>7. Tail(p \o e) = (b \o one) \o r /\ Tail(q \o e) = (b \o two) \o r
        BY <1>1, <4>5, <4>6 DEF b
      <4>8. ParseArguments((b \o one) \o r).positionals = ParseArguments((b \o two) \o r).positionals
        BY <1>2, <4>3, <4>4, <4>5 DEF Similar
      <4>9. ParseArguments(Tail(p \o e)).positionals = ParseArguments(Tail(q \o e)).positionals
        BY <4>7, <4>8
      <4> HIDE DEF p, q, i, when
      <4> QED BY <3>2, <4>9 DEF HasExplicitPositionals
    <3> QED BY <3>1, <3>2
  <2>5. SameExtra(p, q, ApplyCommandMutations(p, when, adds), ApplyCommandMutations(q, when, adds))
    <3> HIDE DEF p, q, i
    <3> QED BY <1>4, <1>6, <1>8, <2>1, <2>3, <2>4, SameMutations
  <2> HIDE DEF p, q, i
  <2>6. PICK e \in Seq(Tokens) : PrepareCommand(p).args = p \o e /\ PrepareCommand(q).args = q \o e
    BY <2>2, <2>5 DEF SameExtra
  <2>7. Added(p) = e /\ Added(q) = e
    BY <1>4, <2>6, AddedIs
  <2> QED BY <1>11, <2>7
<1> HIDE DEF i, p, q
<1> QED BY <1>12, <1>13

(* FormsAreAlike for any arguments, options and cases. *)
LEMMA FormsAreRead == FormsAreAlike
<1> SUFFICES ASSUME NEW before \in BoundedSeq(Tokens, MaxArgs), NEW after \in BoundedSeq(Tokens, MaxArgs),
                    ~ParseArguments(before).after, ParseArguments(before).pending = "none",
                    NEW flag \in ValueFlags, flag.kind = "long", NEW v \in Values, NamesOptions(v)
             PROVE  LET attached == (before \o <<Attached(flag.name, v)>>) \o after
                        split == (before \o <<flag, Word(v)>>) \o after
                    IN  CaseForArgs(attached) = CaseForArgs(split) /\ Added(attached) = Added(split)
  BY Zenon DEF FormsAreAlike
<1>1. BoundedSeq(Tokens, MaxArgs) \subseteq Seq(Tokens)
  <2>1. 0..MaxArgs \subseteq Nat
    BY ArgumentsAssumption
  <2> QED BY <2>1, SeqDef DEF BoundedSeq, SeqOf
<1>2. PICK name \in Options : flag = Long(name)
  BY ArgumentsAssumption DEF Short
<1>3. flag.name = name
  BY <1>2 DEF Long
<1> QED BY <1>1, <1>2, <1>3, TwoForms

(* The attached and the split form of an option that takes a value select  *)
(* the same case and get the same additions (flags_consuming_next_arg,     *)
(* PrepareCommand), whatever stands before and after it.                   *)
THEOREM FormsAgreeAlways == TrustSpec => []FormsAgree
<1>1. FormsAgree
  BY FormsAreRead DEF FormsAgree
<1> QED BY <1>1, PTL

-----------------------------------------------------------------------------
(* A command is recorded in one line, which is read again: the pieces are  *)
(* joined by another fold of the library.                                  *)

(* A fold over two sequences, one after the other. *)
LEMMA FoldedOver ==
  ASSUME NEW S, NEW A, NEW base, NEW Step, Computes(S, A, Step, base), NEW s \in Seq(A), NEW t \in Seq(A)
  PROVE  /\ Computes(S, A, Step, Folded(Step, base, s))
         /\ Folded(Step, base, s \o t) = Folded(Step, Folded(Step, base, s), t)
<1> DEFINE half == Folded(Step, base, s)
           good == {u \in Seq(A) : Folded(Step, base, s \o u) = Folded(Step, half, u)}
<1>1. Computes(S, A, Step, half)
  BY FoldedType DEF Computes
<1> HIDE DEF half
<1>2. <<>> \in good
  <2>1. s \o <<>> = s /\ <<>> \in Seq(A)
    OBVIOUS
  <2>2. Folded(Step, half, <<>>) = half
    BY <1>1, FoldedNothing
  <2> QED BY <2>1, <2>2 DEF half
<1>3. ASSUME NEW u \in Seq(A), NEW x \in A, u \in good PROVE Append(u, x) \in good
  <2>1. s \o Append(u, x) = Append(s \o u, x) /\ s \o u \in Seq(A) /\ Append(u, x) \in Seq(A)
    OBVIOUS
  <2>0. s \o u \in Seq(A)
    BY <2>1
  <2>2. Folded(Step, base, Append(s \o u, x)) = Step[<<Folded(Step, base, s \o u), x>>]
    <3> DEFINE su == s \o u
    <3>1. su \in Seq(A)
      BY <2>0
    <3> HIDE DEF su
    <3>2. Folded(Step, base, Append(su, x)) = Step[<<Folded(Step, base, su), x>>]
      BY <3>1, FoldedAppend
    <3> QED BY <3>2 DEF su
  <2>3. Folded(Step, half, Append(u, x)) = Step[<<Folded(Step, half, u), x>>]
    BY <1>1, FoldedAppend
  <2> QED BY <1>3, <2>1, <2>2, <2>3
<1>4. Seq(A) \subseteq good
  <2> HIDE DEF good
  <2> QED BY <1>2, <1>3, AllSequences
<1> QED BY <1>1, <1>4 DEF half

(* FlattenSeq joins sequences one after the other.                         *)
Joiner(A) == [p \in Seq(A) \X Seq(A) |-> p[1] \o p[2]]
Flattener(seqs) ==
  CHOOSE f : f = [i \in 1..Len(seqs) |-> IF i = 1 THEN seqs[i] ELSE f[i - 1] \o seqs[i]]

LEMMA FlattenerIs ==
  ASSUME NEW seqs
  PROVE  FlattenSeq(seqs) = IF Len(seqs) = 0 THEN seqs ELSE Flattener(seqs)[Len(seqs)]
BY Zenon DEF FlattenSeq, Flattener

LEMMA JoinerComputes == ASSUME NEW A PROVE Computes(Seq(A), Seq(A), Joiner(A), <<>>)
<1>1. <<>> \in Seq(A) /\ \A s \in Seq(A), t \in Seq(A) : s \o t \in Seq(A)
  OBVIOUS
<1> QED BY <1>1 DEF Computes, Joiner

LEMMA FlattenFolds ==
  ASSUME NEW A, NEW seqs \in Seq(Seq(A))
  PROVE  FlattenSeq(seqs) = Folded(Joiner(A), <<>>, seqs)
<1>1. /\ Len(seqs) \in Nat /\ seqs \in [1..Len(seqs) -> Seq(A)]
      /\ Computes(Seq(A), Seq(A), Joiner(A), <<>>)
  BY LenProperties, JoinerComputes
<1> DEFINE none == <<>>
<1>0. none \in Seq(A) /\ \A s \in Seq(A) : none \o s = s
  OBVIOUS
<1> HIDE DEF none
<1>2. CASE Len(seqs) = 0
  <2>1. seqs = <<>>
    BY <1>2
  <2>2. Folded(Joiner(A), none, <<>>) = none
    BY <1>1, FoldedNothing DEF none
  <2> QED BY <1>2, <2>1, <2>2, FlattenerIs DEF none
<1>3. CASE Len(seqs) # 0
  <2>1. PICK w : Follows(w, Joiner(A), none, seqs)
    BY <1>1, FollowerExists DEF none
  <2>2. ASSUME NEW i \in 0..Len(seqs) PROVE w[i] \in Seq(A)
    BY <1>1, <2>1, FollowersAgree DEF none
  <2>3. ASSUME NEW i \in 1..Len(seqs) PROVE w[i] = w[i - 1] \o seqs[i]
    <3>1. i - 1 \in 0..Len(seqs) /\ seqs[i] \in Seq(A)
      BY <1>1
    <3>2. w[i] = Joiner(A)[<<w[i - 1], seqs[i]>>]
      BY <2>1 DEF Follows
    <3> QED BY <2>2, <3>1, <3>2 DEF Joiner
  <2>4. w[0] = none
    BY <2>1 DEF Follows
  <2> DEFINE f == [i \in 1..Len(seqs) |-> w[i]]
             Solves(g) == g = [i \in 1..Len(seqs) |-> IF i = 1 THEN seqs[i] ELSE g[i - 1] \o seqs[i]]
  <2>5. Solves(f)
    <3>1. ASSUME NEW i \in 1..Len(seqs) PROVE f[i] = IF i = 1 THEN seqs[i] ELSE f[i - 1] \o seqs[i]
      <4>1. CASE i = 1
        <5>1. w[1] = w[1 - 1] \o seqs[1] /\ seqs[1] \in Seq(A) /\ 1 - 1 = 0
          BY <1>1, <2>3, <4>1
        <5> QED BY <1>0, <2>4, <4>1, <5>1
      <4>2. CASE i # 1
        <5>1. i - 1 \in 1..Len(seqs)
          BY <1>1, <4>2
        <5> QED BY <2>3, <4>2, <5>1
      <4> QED BY <4>1, <4>2
    <3> QED BY <3>1
  <2>6. Flattener(seqs) = CHOOSE g : Solves(g)
    BY Zenon DEF Flattener
  <2>7. Solves(Flattener(seqs))
    <3> HIDE DEF Solves
    <3> QED BY <2>5, <2>6
  <2> DEFINE g == Flattener(seqs)
             joined == {i \in 0..Len(seqs) : i # 0 => g[i] = w[i]}
  <2>8. \A i \in 0..Len(seqs) : i \in joined
    <3> HIDE DEF g
    <3>0. \A i \in 1..Len(seqs) : g[i] = IF i = 1 THEN seqs[i] ELSE g[i - 1] \o seqs[i]
      BY <2>7 DEF g
    <3>1. 0 \in joined
      BY <1>1
    <3>2. ASSUME NEW i \in 0..(Len(seqs) - 1), i \in joined PROVE i + 1 \in joined
      <4>1. i + 1 \in 1..Len(seqs) /\ i + 1 \in 0..Len(seqs) /\ (i + 1) - 1 = i
        BY <1>1
      <4>2. w[i + 1] = w[i] \o seqs[i + 1]
        BY <2>3, <4>1
      <4>3. CASE i = 0
        <5>1. 1 \in 1..Len(seqs) /\ i + 1 = 1
          BY <4>1, <4>3
        <5>2. g[1] = seqs[1] /\ seqs[1] \in Seq(A)
          BY <1>1, <3>0, <5>1
        <5>3. w[1] = w[0] \o seqs[1]
          BY <4>2, <4>3, <5>1
        <5> QED BY <1>0, <2>4, <4>1, <5>1, <5>2, <5>3
      <4>4. CASE i # 0
        <5>1. g[i] = w[i] /\ i + 1 # 1
          BY <1>1, <3>2, <4>4
        <5>2. g[i + 1] = g[(i + 1) - 1] \o seqs[i + 1]
          BY <3>0, <4>1, <5>1
        <5> QED BY <4>1, <4>2, <5>1, <5>2
      <4> QED BY <4>3, <4>4
    <3>3. Len(seqs) \in Nat
      BY <1>1
    <3> HIDE DEF joined
    <3> QED BY <3>1, <3>2, <3>3, UpTo
  <2>9. Flattener(seqs)[Len(seqs)] = w[Len(seqs)]
    <3>1. Len(seqs) \in joined
      BY <1>1, <2>8
    <3> QED BY <1>3, <3>1
  <2>10. w[Len(seqs)] = Folded(Joiner(A), none, seqs)
    BY <1>1, <2>1, FoldedIs DEF none
  <2> QED BY <1>3, <2>9, <2>10, FlattenerIs DEF none
<1> QED BY <1>2, <1>3

LEMMA FlattenIs ==
  ASSUME NEW A
  PROVE  /\ FlattenSeq(<<>>) = <<>>
         /\ \A seqs \in Seq(Seq(A)) : FlattenSeq(seqs) \in Seq(A)
         /\ \A seqs \in Seq(Seq(A)), s \in Seq(A) : FlattenSeq(Append(seqs, s)) = FlattenSeq(seqs) \o s
<1>1. Computes(Seq(A), Seq(A), Joiner(A), <<>>)
  BY JoinerComputes
<1>2. \A seqs \in Seq(Seq(A)) : FlattenSeq(seqs) = Folded(Joiner(A), <<>>, seqs)
  BY FlattenFolds
<1>3. FlattenSeq(<<>>) = <<>>
  BY Zenon, FlattenerIs, EmptySeq
<1>4. ASSUME NEW seqs \in Seq(Seq(A)) PROVE FlattenSeq(seqs) \in Seq(A)
  BY <1>1, <1>2, FoldedType
<1>5. ASSUME NEW seqs \in Seq(Seq(A)), NEW s \in Seq(A)
      PROVE  FlattenSeq(Append(seqs, s)) = FlattenSeq(seqs) \o s
  <2>1. Append(seqs, s) \in Seq(Seq(A))
    BY AppendProperties
  <2>2. Folded(Joiner(A), <<>>, Append(seqs, s)) = Joiner(A)[<<Folded(Joiner(A), <<>>, seqs), s>>]
    BY <1>1, FoldedAppend
  <2>3. FlattenSeq(Append(seqs, s)) = Joiner(A)[<<FlattenSeq(seqs), s>>]
    BY <1>2, <2>1, <2>2
  <2>4. FlattenSeq(seqs) \in Seq(A)
    BY <1>4
  <2> QED BY <2>3, <2>4 DEF Joiner
<1> QED BY <1>3, <1>4, <1>5

(* The states of the reader, and what is read from one of them on.         *)
SplitStates ==
  [args : Seq(Seq(Chars)), current : Seq(Chars), quote : {"none", "single", "double"},
   escaping : BOOLEAN, started : BOOLEAN]
At(args, current, quote, started) ==
  [args |-> args, current |-> current, quote |-> quote, escaping |-> FALSE, started |-> started]

LEMMA Written ==
  ASSUME NEW s \in SplitStates, NEW r \in Chars
  PROVE  WriteRune(s, r) \in SplitStates
<1>1. Append(s.current, r) \in Seq(Chars)
  BY DEF SplitStates
<1> QED BY <1>1 DEF WriteRune, SplitStates

LEMMA Flushed ==
  ASSUME NEW s \in SplitStates
  PROVE  FlushToken(s) \in SplitStates
<1>1. Append(s.args, s.current) \in Seq(Seq(Chars)) /\ <<>> \in Seq(Chars)
  BY DEF SplitStates
<1> QED BY <1>1 DEF FlushToken, SplitStates

LEMMA StatesAreKept ==
  ASSUME NEW s \in SplitStates, NEW r \in Chars
  PROVE  Consume(s, r) \in SplitStates
<1>1. WriteRune(s, r) \in SplitStates /\ FlushToken(s) \in SplitStates
  BY Written, Flushed
<1>2. CASE s.escaping
  <2>1. "backslash" \in Chars
    BY DEF Chars
  <2>2. WriteRune(WriteRune(s, "backslash"), r) \in SplitStates
    BY <2>1, Written
  <2>3. ConsumeEscaped(s, r) \in SplitStates
    BY <1>1, <2>2 DEF ConsumeEscaped
  <2>4. Consume(s, r) = [ConsumeEscaped(s, r) EXCEPT !.escaping = FALSE]
    BY <1>2 DEF Consume
  <2> QED BY <2>3, <2>4 DEF SplitStates
<1>3. CASE ~s.escaping /\ s.quote = "single"
  <2>1. Consume(s, r) \in {[s EXCEPT !.quote = "none"], WriteRune(s, r)}
    BY <1>3 DEF Consume
  <2>2. [s EXCEPT !.quote = "none"] \in SplitStates
    BY DEF SplitStates
  <2> QED BY <1>1, <2>1, <2>2
<1>4. CASE ~s.escaping /\ s.quote = "double"
  <2>1. Consume(s, r) \in {[s EXCEPT !.quote = "none"], [s EXCEPT !.escaping = TRUE], WriteRune(s, r)}
    BY <1>4 DEF Consume
  <2>2. [s EXCEPT !.quote = "none"] \in SplitStates /\ [s EXCEPT !.escaping = TRUE] \in SplitStates
    BY DEF SplitStates
  <2> QED BY <1>1, <2>1, <2>2
<1>5. CASE ~s.escaping /\ s.quote = "none"
  <2>1. Consume(s, r) \in
          {FlushToken(s), [s EXCEPT !.quote = "single", !.started = TRUE],
           [s EXCEPT !.quote = "double", !.started = TRUE], [s EXCEPT !.escaping = TRUE, !.started = TRUE],
           WriteRune(s, r)}
    BY <1>5 DEF Consume
  <2>2. /\ [s EXCEPT !.quote = "single", !.started = TRUE] \in SplitStates
        /\ [s EXCEPT !.quote = "double", !.started = TRUE] \in SplitStates
        /\ [s EXCEPT !.escaping = TRUE, !.started = TRUE] \in SplitStates
    BY DEF SplitStates
  <2> QED BY <1>1, <2>1, <2>2
<1>6. s.escaping \in BOOLEAN /\ s.quote \in {"none", "single", "double"}
  BY DEF SplitStates
<1> QED BY <1>2, <1>3, <1>4, <1>5, <1>6

LineReader == [p \in SplitStates \X Chars |-> Consume(p[1], p[2])]
Reads(s, line) == Folded(LineReader, s, line)

Splitter(line) ==
  CHOOSE h : h = [s \in SUBSET DOMAIN line |->
                    IF s = {} THEN SplitState ELSE Consume(h[s \ {Max(s)}], line[Max(s)])]

LEMMA SplitterIs ==
  ASSUME NEW line
  PROVE  FoldLeft(Consume, SplitState, line) = Splitter(line)[DOMAIN line]
BY Zenon DEF FoldLeft, MapThenFoldSet, Splitter

LEMMA ReaderComputes == ASSUME NEW s \in SplitStates PROVE Computes(SplitStates, Chars, LineReader, s)
<1>1. \A u \in SplitStates, r \in Chars : Consume(u, r) \in SplitStates
  BY StatesAreKept
<1> QED BY <1>1 DEF Computes, LineReader

LEMMA StartIs == SplitState \in SplitStates /\ SplitState = At(<<>>, <<>>, "none", FALSE)
<1>1. <<>> \in Seq(Chars) /\ <<>> \in Seq(Seq(Chars))
  OBVIOUS
<1> QED BY <1>1 DEF SplitState, SplitStates, At

LEMMA SplitFolds ==
  ASSUME NEW line \in Seq(Chars)
  PROVE  FoldLeft(Consume, SplitState, line) = Reads(SplitState, line)
<1> DEFINE Solves(h) == h = [s \in SUBSET DOMAIN line |->
              IF s = {} THEN SplitState ELSE Consume(h[s \ {Max(s)}], line[Max(s)])]
<1>1. Computes(SplitStates, Chars, LineReader, SplitState)
  BY ReaderComputes, StartIs
<1>2. /\ DOMAIN line = 1..Len(line) /\ Len(line) \in Nat /\ line \in [1..Len(line) -> Chars]
      /\ \A s \in SUBSET (1..Len(line)) : s # {} => line[Max(s)] \in Chars
  BY Elements
<1>3. PICK h \in [SUBSET (1..Len(line)) -> SplitStates] : Folds(h, LineReader, SplitState, line, Len(line))
  BY <1>1, <1>2, FoldExists DEF Computes
<1>4. LineReader = [p \in SplitStates \X Chars |-> Consume(p[1], p[2])]
  BY DEF LineReader
<1>5. Solves(h)
  BY <1>2, <1>3, <1>4 DEF Folds
<1>6. Splitter(line) = CHOOSE g : Solves(g)
  BY Zenon DEF Splitter
<1>7. Solves(Splitter(line))
  <2> HIDE DEF Solves
  <2> QED BY <1>5, <1>6
<1>8. Unfolds(Splitter(line), SplitStates, LineReader, SplitState, line)
  BY <1>2, <1>7, <1>4 DEF Unfolds
<1>9. Splitter(line)[1..Len(line)] = Folded(LineReader, SplitState, line)
  BY <1>1, <1>8, UnfoldedIs
<1> QED BY <1>2, <1>9, SplitterIs DEF Reads

LEMMA ReadsOn ==
  ASSUME NEW s \in SplitStates, NEW line \in Seq(Chars)
  PROVE  /\ Reads(s, <<>>) = s /\ Reads(s, line) \in SplitStates
         /\ \A r \in Chars : /\ Reads(s, Append(line, r)) = Consume(Reads(s, line), r)
                             /\ Reads(s, <<r>>) = Consume(s, r)
         /\ \A more \in Seq(Chars) : Reads(s, line \o more) = Reads(Reads(s, line), more)
<1>1. Computes(SplitStates, Chars, LineReader, s)
  BY ReaderComputes
<1>2. Reads(s, <<>>) = s
  BY <1>1, FoldedNothing DEF Reads
<1>3. Reads(s, line) \in SplitStates
  BY <1>1, FoldedType DEF Reads
<1>4. ASSUME NEW l \in Seq(Chars), NEW r \in Chars, Reads(s, l) \in SplitStates
      PROVE  Reads(s, Append(l, r)) = Consume(Reads(s, l), r)
  <2>1. Reads(s, Append(l, r)) = LineReader[<<Reads(s, l), r>>]
    BY <1>1, FoldedAppend DEF Reads
  <2> QED BY <1>4, <2>1 DEF LineReader
<1>5. ASSUME NEW r \in Chars PROVE Reads(s, <<r>>) = Consume(s, r)
  <2>1. <<>> \in Seq(Chars) /\ Append(<<>>, r) = <<r>>
    OBVIOUS
  <2> QED BY <1>2, <1>4, <2>1
<1>6. ASSUME NEW more \in Seq(Chars) PROVE Reads(s, line \o more) = Reads(Reads(s, line), more)
  BY <1>1, FoldedOver DEF Reads
<1> QED BY <1>2, <1>3, <1>4, <1>5, <1>6

LEMMA ReadsMore ==
  ASSUME NEW s \in SplitStates, NEW line \in Seq(Chars), NEW r \in Chars
  PROVE  Reads(s, Append(line, r)) = Consume(Reads(s, line), r)
BY ReadsOn

LEMMA ReadsOne ==
  ASSUME NEW s \in SplitStates, NEW r \in Chars
  PROVE  Reads(s, <<r>>) = Consume(s, r)
<1>1. <<>> \in Seq(Chars)
  OBVIOUS
<1> QED BY <1>1, ReadsOn

LEMMA ReadsBoth ==
  ASSUME NEW s \in SplitStates, NEW line \in Seq(Chars), NEW more \in Seq(Chars)
  PROVE  Reads(s, line \o more) = Reads(Reads(s, line), more)
BY ReadsOn

(* What a character does outside, between single and between double        *)
(* quotes.                                                                 *)
LEMMA AtIs ==
  ASSUME NEW args \in Seq(Seq(Chars)), NEW current \in Seq(Chars),
         NEW quote \in {"none", "single", "double"}, NEW started \in BOOLEAN
  PROVE  At(args, current, quote, started) \in SplitStates
BY DEF At, SplitStates

LEMMA LongerIs ==
  ASSUME NEW s \in SplitStates, NEW longer \in Seq(Chars)
  PROVE  [s EXCEPT !.current = longer, !.started = TRUE]
           = [args |-> s.args, current |-> longer, quote |-> s.quote, escaping |-> s.escaping, started |-> TRUE]
<1> DEFINE once == [s EXCEPT !.current = longer]
           twice == [once EXCEPT !.started = TRUE]
<1>1. once \in SplitStates /\ once.args = s.args /\ once.current = longer /\ once.quote = s.quote /\ once.escaping = s.escaping
  BY DEF SplitStates
<1> HIDE DEF once
<1>2. /\ twice \in SplitStates /\ twice.args = once.args /\ twice.current = once.current
      /\ twice.quote = once.quote /\ twice.escaping = once.escaping /\ twice.started = TRUE
  BY <1>1 DEF SplitStates
<1> HIDE DEF twice
<1>3. twice = [args |-> twice.args, current |-> twice.current, quote |-> twice.quote,
               escaping |-> twice.escaping, started |-> twice.started]
  BY <1>2 DEF SplitStates
<1>4. [s EXCEPT !.current = longer, !.started = TRUE] = twice
  BY DEF twice, once
<1> QED BY <1>1, <1>2, <1>3, <1>4

LEMMA Consumed ==
  ASSUME NEW args \in Seq(Seq(Chars)), NEW current \in Seq(Chars), NEW started \in BOOLEAN
  PROVE  /\ Consume(At(args, current, "none", started), "plain") = At(args, Append(current, "plain"), "none", TRUE)
         /\ Consume(At(args, current, "none", started), "apostrophe") = At(args, current, "single", TRUE)
         /\ Consume(At(args, current, "none", started), "quotes") = At(args, current, "double", TRUE)
         /\ \A r \in Chars : r # "apostrophe" =>
              Consume(At(args, current, "single", started), r) = At(args, Append(current, r), "single", TRUE)
         /\ Consume(At(args, current, "single", started), "apostrophe") = At(args, current, "none", started)
         /\ Consume(At(args, current, "double", started), "apostrophe")
              = At(args, Append(current, "apostrophe"), "double", TRUE)
         /\ Consume(At(args, current, "double", started), "quotes") = At(args, current, "none", started)
<1>1. ASSUME NEW quote \in {"none", "single", "double"}, NEW r \in Chars
      PROVE  LET s == At(args, current, quote, started) IN
             /\ s.quote = quote /\ ~s.escaping
             /\ WriteRune(s, r) = At(args, Append(current, r), quote, TRUE)
  <2> DEFINE s == At(args, current, quote, started)
             longer == Append(current, r)
  <2>1. s.quote = quote /\ ~s.escaping /\ s.current = current
    BY DEF At
  <2>2. [s EXCEPT !.current = longer, !.started = TRUE] = At(args, longer, quote, TRUE)
    <3>1. s \in SplitStates /\ longer \in Seq(Chars)
      BY AtIs
    <3>2. s.args = args /\ s.quote = quote /\ s.escaping = FALSE
      BY DEF At
    <3> HIDE DEF longer, s
    <3> QED BY <3>1, <3>2, LongerIs DEF At
  <2>3. WriteRune(s, r) = [s EXCEPT !.current = longer, !.started = TRUE]
    <3> HIDE DEF s
    <3> QED BY <2>1 DEF WriteRune
  <2> QED BY <2>1, <2>2, <2>3
<1>0. "plain" \in Chars /\ "apostrophe" \in Chars
  BY DEF Chars
<1>2. Consume(At(args, current, "none", started), "plain") = At(args, Append(current, "plain"), "none", TRUE)
  BY <1>0, <1>1 DEF Consume
<1>3. Consume(At(args, current, "none", started), "apostrophe") = At(args, current, "single", TRUE)
  BY DEF Consume, At
<1>4. Consume(At(args, current, "none", started), "quotes") = At(args, current, "double", TRUE)
  BY DEF Consume, At
<1>5. ASSUME NEW r \in Chars, r # "apostrophe"
      PROVE  Consume(At(args, current, "single", started), r) = At(args, Append(current, r), "single", TRUE)
  BY <1>1, <1>5 DEF Consume
<1>6. Consume(At(args, current, "single", started), "apostrophe") = At(args, current, "none", started)
  BY DEF Consume, At
<1>7. Consume(At(args, current, "double", started), "apostrophe") = At(args, Append(current, "apostrophe"), "double", TRUE)
  BY <1>0, <1>1 DEF Consume
<1>8. Consume(At(args, current, "double", started), "quotes") = At(args, current, "none", started)
  BY DEF Consume, At
<1> QED BY <1>2, <1>3, <1>4, <1>5, <1>6, <1>7, <1>8

Escaped(r) == IF r = "apostrophe" THEN <<"apostrophe", "quotes", "apostrophe", "quotes", "apostrophe">> ELSE <<r>>
Quoted(arg) == [i \in DOMAIN arg |-> Escaped(arg[i])]

LEMMA EscapedIsRead ==
  ASSUME NEW args \in Seq(Seq(Chars)), NEW current \in Seq(Chars), NEW r \in Chars
  PROVE  Reads(At(args, current, "single", TRUE), Escaped(r)) = At(args, Append(current, r), "single", TRUE)
<1> DEFINE s == At(args, current, "single", TRUE)
<1>1. s \in SplitStates
  BY AtIs
<1>2. CASE r # "apostrophe"
  <2>1. Reads(s, <<r>>) = Consume(s, r)
    <3> HIDE DEF s
    <3> QED BY <1>1, ReadsOne
  <2>2. Consume(s, r) = At(args, Append(current, r), "single", TRUE)
    BY <1>2, Consumed
  <2> QED BY <1>2, <2>1, <2>2 DEF Escaped
<1>3. CASE r = "apostrophe"
  <2> DEFINE a == <<"apostrophe">>
             b == Append(a, "quotes")
             c == Append(b, "apostrophe")
             d == Append(c, "quotes")
             e == Append(d, "apostrophe")
             longer == Append(current, "apostrophe")
  <2>1. /\ "apostrophe" \in Chars /\ "quotes" \in Chars
        /\ a \in Seq(Chars) /\ b \in Seq(Chars) /\ c \in Seq(Chars) /\ d \in Seq(Chars)
        /\ longer \in Seq(Chars)
    BY DEF Chars
  <2>2. e = Escaped(r)
    <3>0. ASSUME NEW x \in Seq(Chars), NEW r0 \in Chars
          PROVE  /\ Append(x, r0) \in Seq(Chars) /\ Len(Append(x, r0)) = Len(x) + 1
                 /\ \A i \in 1..Len(x) : Append(x, r0)[i] = x[i]
                 /\ Append(x, r0)[Len(x) + 1] = r0
      BY AppendProperties
    <3>1. Len(a) = 1 /\ a[1] = "apostrophe"
      OBVIOUS
    <3>2. Len(b) = 2 /\ b[1] = "apostrophe" /\ b[2] = "quotes"
      <4>1. /\ Len(b) = Len(a) + 1
            /\ \A i \in 1..Len(a) : b[i] = a[i]
            /\ b[Len(a) + 1] = "quotes"
        BY <2>1, <3>0
      <4> HIDE DEF a, b
      <4>2. 1 \in 1..Len(a)
        BY <3>1
      <4> QED BY <3>1, <4>1, <4>2
    <3>3. Len(c) = 3 /\ c[1] = "apostrophe" /\ c[2] = "quotes" /\ c[3] = "apostrophe"
      <4>1. /\ Len(c) = Len(b) + 1
            /\ \A i \in 1..Len(b) : c[i] = b[i]
            /\ c[Len(b) + 1] = "apostrophe"
        BY <2>1, <3>0
      <4> HIDE DEF b, c
      <4>2. 1 \in 1..Len(b) /\ 2 \in 1..Len(b)
        BY <3>2
      <4> QED BY <3>2, <4>1, <4>2
    <3>4. Len(d) = 4 /\ d[1] = "apostrophe" /\ d[2] = "quotes" /\ d[3] = "apostrophe" /\ d[4] = "quotes"
      <4>1. /\ Len(d) = Len(c) + 1
            /\ \A i \in 1..Len(c) : d[i] = c[i]
            /\ d[Len(c) + 1] = "quotes"
        BY <2>1, <3>0
      <4> HIDE DEF c, d
      <4>2. 1 \in 1..Len(c) /\ 2 \in 1..Len(c) /\ 3 \in 1..Len(c)
        BY <3>3
      <4> QED BY <3>3, <4>1, <4>2
    <3>5. Len(e) = 5 /\ e[1] = "apostrophe" /\ e[2] = "quotes" /\ e[3] = "apostrophe" /\ e[4] = "quotes" /\ e[5] = "apostrophe"
      <4>1. /\ Len(e) = Len(d) + 1
            /\ \A i \in 1..Len(d) : e[i] = d[i]
            /\ e[Len(d) + 1] = "apostrophe"
        BY <2>1, <3>0
      <4> HIDE DEF d, e
      <4>2. 1 \in 1..Len(d) /\ 2 \in 1..Len(d) /\ 3 \in 1..Len(d) /\ 4 \in 1..Len(d)
        BY <3>4
      <4> QED BY <3>4, <4>1, <4>2
    <3>8. e \in Seq(Chars)
      <4> HIDE DEF d
      <4> QED BY <2>1, AppendProperties
    <3> DEFINE f == <<"apostrophe", "quotes", "apostrophe", "quotes", "apostrophe">>
    <3>6. /\ f \in Seq(Chars) /\ Len(f) = 5
          /\ f[1] = "apostrophe" /\ f[2] = "quotes" /\ f[3] = "apostrophe" /\ f[4] = "quotes" /\ f[5] = "apostrophe"
      BY <2>1
    <3> HIDE DEF e, f
    <3>7. e = f
      <4>1. \A i \in 1..5 : e[i] = f[i]
        BY <3>5, <3>6
      <4> QED BY <3>5, <3>6, <3>8, <4>1, SeqEqual
    <3> QED BY <1>3, <3>7 DEF Escaped, f
  <2> HIDE DEF a, b, c, d, e, longer
  <2>3. Reads(s, a) = At(args, current, "none", TRUE)
    <3>1. Reads(s, <<"apostrophe">>) = Consume(s, "apostrophe")
      <4> HIDE DEF s
      <4> QED BY <1>1, <2>1, ReadsOne
    <3>2. Consume(s, "apostrophe") = At(args, current, "none", TRUE)
      BY Consumed
    <3> QED BY <3>1, <3>2 DEF a
  <2>4. Reads(s, b) = At(args, current, "double", TRUE)
    <3>1. Reads(s, Append(a, "quotes")) = Consume(Reads(s, a), "quotes")
      <4> HIDE DEF s
      <4> QED BY <1>1, <2>1, ReadsMore
    <3>2. Consume(At(args, current, "none", TRUE), "quotes") = At(args, current, "double", TRUE)
      BY Consumed
    <3> QED BY <2>3, <3>1, <3>2 DEF b
  <2>5. Reads(s, c) = At(args, longer, "double", TRUE)
    <3>1. Reads(s, Append(b, "apostrophe")) = Consume(Reads(s, b), "apostrophe")
      <4> HIDE DEF s
      <4> QED BY <1>1, <2>1, ReadsMore
    <3>2. Consume(At(args, current, "double", TRUE), "apostrophe") = At(args, longer, "double", TRUE)
      BY Consumed DEF longer
    <3> QED BY <2>4, <3>1, <3>2 DEF c
  <2>6. Reads(s, d) = At(args, longer, "none", TRUE)
    <3>1. Reads(s, Append(c, "quotes")) = Consume(Reads(s, c), "quotes")
      <4> HIDE DEF s
      <4> QED BY <1>1, <2>1, ReadsMore
    <3>2. Consume(At(args, longer, "double", TRUE), "quotes") = At(args, longer, "none", TRUE)
      BY <2>1, Consumed
    <3> QED BY <2>5, <3>1, <3>2 DEF d
  <2>7. Reads(s, e) = At(args, longer, "single", TRUE)
    <3>1. Reads(s, Append(d, "apostrophe")) = Consume(Reads(s, d), "apostrophe")
      <4> HIDE DEF s
      <4> QED BY <1>1, <2>1, ReadsMore
    <3>2. Consume(At(args, longer, "none", TRUE), "apostrophe") = At(args, longer, "single", TRUE)
      BY <2>1, Consumed
    <3> QED BY <2>6, <3>1, <3>2 DEF e
  <2> QED BY <1>3, <2>2, <2>7 DEF longer
<1> QED BY <1>2, <1>3

LEMMA QuotedGrows ==
  /\ \A r \in Chars : Escaped(r) \in Seq(Chars)
  /\ \A arg \in Seq(Chars) : Quoted(arg) \in Seq(Seq(Chars))
  /\ Quoted(<<>>) = <<>>
  /\ \A arg \in Seq(Chars), r \in Chars : Quoted(Append(arg, r)) = Append(Quoted(arg), Escaped(r))
<1>1. ASSUME NEW r \in Chars PROVE Escaped(r) \in Seq(Chars)
  <2>1. "apostrophe" \in Chars /\ "quotes" \in Chars
    BY DEF Chars
  <2>2. <<"apostrophe", "quotes", "apostrophe", "quotes", "apostrophe">> \in Seq(Chars) /\ <<r>> \in Seq(Chars)
    BY <2>1
  <2> QED BY <2>2 DEF Escaped
<1>2. ASSUME NEW arg \in Seq(Chars)
      PROVE  Quoted(arg) \in Seq(Seq(Chars)) /\ Len(Quoted(arg)) = Len(arg)
             /\ \A i \in 1..Len(arg) : Quoted(arg)[i] = Escaped(arg[i])
  <2>1. DOMAIN arg = 1..Len(arg) /\ Len(arg) \in Nat /\ arg \in [1..Len(arg) -> Chars]
    BY LenProperties
  <2>2. Quoted(arg) \in [1..Len(arg) -> Seq(Chars)]
    BY <1>1, <2>1 DEF Quoted
  <2>3. Quoted(arg) \in Seq(Seq(Chars)) /\ Len(Quoted(arg)) = Len(arg)
    BY <2>1, <2>2
  <2> QED BY <2>1, <2>3 DEF Quoted
<1>3. Quoted(<<>>) = <<>>
  <2>1. <<>> \in Seq(Chars) /\ Len(<<>>) = 0
    OBVIOUS
  <2> DEFINE q == Quoted(<<>>)
  <2>2. q \in Seq(Seq(Chars)) /\ Len(q) = 0
    BY <1>2, <2>1
  <2> HIDE DEF q
  <2>3. q = <<>>
    BY <2>2, EmptySeq
  <2> QED BY <2>3 DEF q
<1>4. ASSUME NEW arg \in Seq(Chars), NEW r \in Chars PROVE Quoted(Append(arg, r)) = Append(Quoted(arg), Escaped(r))
  <2> DEFINE longer == Append(arg, r)
             q == Quoted(longer)
             t == Append(Quoted(arg), Escaped(r))
  <2>1. /\ longer \in Seq(Chars) /\ Len(longer) = Len(arg) + 1 /\ Len(arg) \in Nat
        /\ \A i \in 1..Len(arg) : longer[i] = arg[i]
        /\ longer[Len(arg) + 1] = r
    BY AppendProperties, LenProperties
  <2>2. /\ t \in Seq(Seq(Chars)) /\ Len(t) = Len(Quoted(arg)) + 1
        /\ \A i \in 1..Len(Quoted(arg)) : t[i] = Quoted(arg)[i]
        /\ t[Len(Quoted(arg)) + 1] = Escaped(r)
    BY <1>1, <1>2, AppendProperties
  <2> HIDE DEF longer, t
  <2>3. q \in Seq(Seq(Chars)) /\ Len(q) = Len(longer) /\ \A i \in 1..Len(longer) : q[i] = Escaped(longer[i])
    BY <1>2, <2>1
  <2> HIDE DEF q
  <2>4. Len(Quoted(arg)) = Len(arg) /\ \A i \in 1..Len(arg) : Quoted(arg)[i] = Escaped(arg[i])
    BY <1>2
  <2>5. Len(q) = Len(t)
    BY <2>1, <2>2, <2>3, <2>4
  <2>6. ASSUME NEW i \in 1..Len(q) PROVE q[i] = t[i]
    <3>1. CASE i = Len(arg) + 1
      BY <2>1, <2>2, <2>3, <2>4, <3>1
    <3>2. CASE i # Len(arg) + 1
      <4>1. i \in 1..Len(arg) /\ i \in 1..Len(longer)
        BY <2>1, <2>3, <3>2
      <4> QED BY <2>1, <2>2, <2>3, <2>4, <4>1
    <3> QED BY <3>1, <3>2
  <2>7. q = t
    BY <2>2, <2>3, <2>5, <2>6, SeqEqual
  <2> QED BY <2>7 DEF q, t, longer
<1> QED BY <1>1, <1>2, <1>3, <1>4

LEMMA QuotedIsRead ==
  ASSUME NEW args \in Seq(Seq(Chars)), NEW current \in Seq(Chars), NEW arg \in Seq(Chars)
  PROVE  /\ FlattenSeq(Quoted(arg)) \in Seq(Chars)
         /\ Reads(At(args, current, "single", TRUE), FlattenSeq(Quoted(arg))) = At(args, current \o arg, "single", TRUE)
<1> DEFINE s == At(args, current, "single", TRUE)
           text(t) == FlattenSeq(Quoted(t))
           good == {t \in Seq(Chars) : Reads(s, text(t)) = At(args, current \o t, "single", TRUE)}
<1>0. s \in SplitStates
  BY AtIs
<1>1. \A t \in Seq(Chars) : text(t) \in Seq(Chars)
  BY QuotedGrows, FlattenIs
<1>2. <<>> \in good
  <2>1. <<>> \in Seq(Chars) /\ current \o <<>> = current
    OBVIOUS
  <2>2. text(<<>>) = <<>>
    BY QuotedGrows, FlattenIs
  <2>3. Reads(s, <<>>) = s
    BY <1>0, <2>1, ReadsOn
  <2> HIDE DEF text
  <2> QED BY <2>1, <2>2, <2>3
<1>3. ASSUME NEW t \in Seq(Chars), NEW r \in Chars, t \in good PROVE Append(t, r) \in good
  <2>1. text(Append(t, r)) = text(t) \o Escaped(r)
    BY QuotedGrows, FlattenIs
  <2>2. text(t) \in Seq(Chars) /\ Escaped(r) \in Seq(Chars)
    BY <1>1, QuotedGrows
  <2> HIDE DEF text
  <2>3. Reads(s, text(t) \o Escaped(r)) = Reads(Reads(s, text(t)), Escaped(r))
    <3> HIDE DEF s
    <3> QED BY <1>0, <2>2, ReadsBoth
  <2>4. current \o t \in Seq(Chars) /\ current \o Append(t, r) = Append(current \o t, r) /\ Append(t, r) \in Seq(Chars)
    OBVIOUS
  <2>5. Reads(At(args, current \o t, "single", TRUE), Escaped(r)) = At(args, Append(current \o t, r), "single", TRUE)
    BY <2>4, EscapedIsRead
  <2> QED BY <1>3, <2>1, <2>3, <2>4, <2>5
<1>4. Seq(Chars) \subseteq good
  <2> HIDE DEF good
  <2> QED BY <1>2, <1>3, AllSequences
<1> QED BY <1>1, <1>4

LEMMA RenderedIsRead ==
  ASSUME NEW args \in Seq(Seq(Chars)), NEW arg \in Seq(Chars)
  PROVE  /\ RenderCommandArg(arg) \in Seq(Chars)
         /\ Reads(At(args, <<>>, "none", FALSE), RenderCommandArg(arg)) = At(args, arg, "none", TRUE)
<1> DEFINE none == <<>>
           s == At(args, none, "none", FALSE)
<1>0. none \in Seq(Chars) /\ s \in SplitStates /\ "apostrophe" \in Chars /\ "plain" \in Chars
  <2>1. none \in Seq(Chars)
    OBVIOUS
  <2> HIDE DEF none
  <2>2. s \in SplitStates
    BY <2>1, AtIs
  <2>3. "apostrophe" \in Chars /\ "plain" \in Chars
    BY DEF Chars
  <2> QED BY <2>1, <2>2, <2>3
<1>1. CASE arg # <<>> /\ ToSet(arg) \subseteq {"plain"}
  <2> DEFINE good == {t \in Seq({"plain"}) : Reads(s, t) = At(args, t, "none", t # none)}
  <2>1. \A t \in Seq({"plain"}) : t \in Seq(Chars)
    BY <1>0
  <2>2. none \in good
    <3>1. Reads(s, none) = s
      <4> HIDE DEF s
      <4> QED BY <1>0, ReadsOn
    <3>2. none \in Seq({"plain"})
      OBVIOUS
    <3>3. (none # none) = FALSE
      OBVIOUS
    <3> HIDE DEF none
    <3> QED BY <3>1, <3>2, <3>3
  <2>3. ASSUME NEW t \in Seq({"plain"}), NEW r \in {"plain"}, t \in good PROVE Append(t, r) \in good
    <3>1. Append(t, r) \in Seq({"plain"}) /\ Append(t, r) # none
      OBVIOUS
    <3>2. Reads(s, Append(t, r)) = Consume(Reads(s, t), r)
      <4> HIDE DEF s
      <4> QED BY <1>0, <2>1, ReadsMore
    <3>3. Consume(At(args, t, "none", t # none), "plain") = At(args, Append(t, "plain"), "none", TRUE)
      BY <2>1, Consumed
    <3>4. (Append(t, r) # none) = TRUE
      BY <3>1
    <3> HIDE DEF none
    <3> QED BY <2>3, <3>1, <3>2, <3>3, <3>4
  <2>4. Seq({"plain"}) \subseteq good
    <3> HIDE DEF good, none
    <3>1. <<>> \in good
      BY <2>2 DEF none
    <3> QED BY <2>3, <3>1, AllSequences
  <2>5. arg \in Seq({"plain"})
    <3>0. DOMAIN arg = 1..Len(arg) /\ arg \in [1..Len(arg) -> Chars] /\ Len(arg) \in Nat
      BY LenProperties
    <3>1. ASSUME NEW i \in 1..Len(arg) PROVE arg[i] \in {"plain"}
      <4>1. arg[i] \in ToSet(arg)
        BY <3>0 DEF ToSet
      <4> QED BY <1>1, <4>1
    <3>2. arg \in [1..Len(arg) -> {"plain"}]
      BY <3>0, <3>1
    <3> QED BY <3>0, <3>2
  <2>6. Reads(s, arg) = At(args, arg, "none", arg # none) /\ (arg # none) = TRUE
    BY <1>1, <2>4, <2>5
  <2> HIDE DEF s
  <2> QED BY <1>1, <2>6 DEF RenderCommandArg, s
<1>2. CASE ~(arg # <<>> /\ ToSet(arg) \subseteq {"plain"})
  <2> DEFINE quote == <<"apostrophe">>
             text == FlattenSeq(Quoted(arg))
             opened == quote \o text
  <2>1. QuoteShellArg(arg) = opened \o quote
    BY Zenon DEF QuoteShellArg, Quoted, Escaped
  <2>2. text \in Seq(Chars) /\ quote \in Seq(Chars)
    <3>1. text \in Seq(Chars)
      BY <1>0, QuotedIsRead
    <3>2. quote \in Seq(Chars)
      BY <1>0
    <3> QED BY <3>1, <3>2
  <2>3. Reads(s, quote) = At(args, none, "single", TRUE)
    <3>1. Reads(s, <<"apostrophe">>) = Consume(s, "apostrophe")
      <4> HIDE DEF s
      <4> QED BY <1>0, ReadsOne
    <3>2. Consume(s, "apostrophe") = At(args, none, "single", TRUE)
      BY <1>0, Consumed
    <3> QED BY <3>1, <3>2
  <2>4. Reads(At(args, none, "single", TRUE), text) = At(args, none \o arg, "single", TRUE) /\ none \o arg = arg
    <3>1. none \o arg = arg
      OBVIOUS
    <3> HIDE DEF none
    <3> QED BY <1>0, <3>1, QuotedIsRead
  <2>5. Reads(At(args, arg, "single", TRUE), quote) = At(args, arg, "none", TRUE)
    <3> DEFINE inside == At(args, arg, "single", TRUE)
    <3>1. inside \in SplitStates
      BY AtIs
    <3>2. Reads(inside, <<"apostrophe">>) = Consume(inside, "apostrophe")
      <4> HIDE DEF inside
      <4> QED BY <1>0, <3>1, ReadsOne
    <3>3. Consume(inside, "apostrophe") = At(args, arg, "none", TRUE)
      BY Consumed
    <3> QED BY <3>2, <3>3
  <2> HIDE DEF text, quote, s, none
  <2>6. opened \in Seq(Chars) /\ opened \o quote \in Seq(Chars)
    BY <2>2
  <2>7. Reads(s, opened) = Reads(Reads(s, quote), text)
    BY <1>0, <2>2, ReadsBoth
  <2> HIDE DEF opened
  <2>8. Reads(s, opened \o quote) = Reads(Reads(s, opened), quote)
    BY <1>0, <2>2, <2>6, ReadsBoth
  <2>9. Reads(s, QuoteShellArg(arg)) = At(args, arg, "none", TRUE)
    BY <2>1, <2>3, <2>4, <2>5, <2>7, <2>8
  <2>10. RenderCommandArg(arg) = QuoteShellArg(arg)
    BY <1>2 DEF RenderCommandArg
  <2> QED BY <2>1, <2>6, <2>9, <2>10 DEF s, none
<1> QED BY <1>1, <1>2

(* What each argument adds to the line.                                    *)
Piece(args, i) == (IF i = 1 THEN <<>> ELSE <<"space">>) \o RenderCommandArg(args[i])
Pieces(args) == [i \in DOMAIN args |-> Piece(args, i)]

LEMMA PiecesGrow ==
  /\ \A args \in Seq(Seq(Chars)) : Pieces(args) \in Seq(Seq(Chars))
  /\ Pieces(<<>>) = <<>>
  /\ \A args \in Seq(Seq(Chars)), arg \in Seq(Chars) :
       Pieces(Append(args, arg)) = Append(Pieces(args), Piece(Append(args, arg), Len(args) + 1))
<1>1. ASSUME NEW args \in Seq(Seq(Chars)), NEW i \in 1..Len(args) PROVE Piece(args, i) \in Seq(Chars)
  <2>1. args[i] \in Seq(Chars)
    OBVIOUS
  <2>2. RenderCommandArg(args[i]) \in Seq(Chars)
    BY <2>1, RenderedIsRead
  <2>3. <<>> \in Seq(Chars) /\ <<"space">> \in Seq(Chars)
    BY DEF Chars
  <2> QED BY <2>2, <2>3 DEF Piece
<1>2. ASSUME NEW args \in Seq(Seq(Chars))
      PROVE  Pieces(args) \in Seq(Seq(Chars)) /\ Len(Pieces(args)) = Len(args)
             /\ \A i \in 1..Len(args) : Pieces(args)[i] = Piece(args, i)
  <2>1. DOMAIN args = 1..Len(args) /\ Len(args) \in Nat
    BY LenProperties
  <2>2. Pieces(args) \in [1..Len(args) -> Seq(Chars)]
    BY <1>1, <2>1 DEF Pieces
  <2>3. Pieces(args) \in Seq(Seq(Chars)) /\ Len(Pieces(args)) = Len(args)
    BY <2>1, <2>2
  <2> QED BY <2>1, <2>3 DEF Pieces
<1>3. Pieces(<<>>) = <<>>
  <2>1. <<>> \in Seq(Seq(Chars)) /\ Len(<<>>) = 0
    OBVIOUS
  <2> DEFINE q == Pieces(<<>>)
  <2>2. q \in Seq(Seq(Chars)) /\ Len(q) = 0
    BY <1>2, <2>1
  <2> HIDE DEF q
  <2>3. q = <<>>
    BY <2>2, EmptySeq
  <2> QED BY <2>3 DEF q
<1>4. ASSUME NEW args \in Seq(Seq(Chars)), NEW arg \in Seq(Chars)
      PROVE  Pieces(Append(args, arg)) = Append(Pieces(args), Piece(Append(args, arg), Len(args) + 1))
  <2> DEFINE longer == Append(args, arg)
             q == Pieces(longer)
             last == Piece(longer, Len(args) + 1)
             p == Pieces(args)
             t == Append(p, last)
  <2>1. /\ longer \in Seq(Seq(Chars)) /\ Len(longer) = Len(args) + 1 /\ Len(args) \in Nat
        /\ \A i \in 1..Len(args) : longer[i] = args[i]
    BY AppendProperties, LenProperties
  <2>2. last \in Seq(Chars)
    <3>1. Len(args) + 1 \in 1..Len(longer)
      BY <2>1
    <3> HIDE DEF longer
    <3> QED BY <1>1, <2>1, <3>1
  <2>3. p \in Seq(Seq(Chars)) /\ Len(p) = Len(args) /\ \A i \in 1..Len(args) : p[i] = Piece(args, i)
    BY <1>2
  <2>4. \A i \in 1..Len(args) : Piece(args, i) = Piece(longer, i)
    <3> HIDE DEF longer
    <3> QED BY <2>1 DEF Piece
  <2> HIDE DEF longer, last, p
  <2>5. /\ t \in Seq(Seq(Chars)) /\ Len(t) = Len(p) + 1
        /\ \A i \in 1..Len(p) : t[i] = p[i]
        /\ t[Len(p) + 1] = last
    BY <2>2, <2>3, AppendProperties
  <2>6. q \in Seq(Seq(Chars)) /\ Len(q) = Len(longer) /\ \A i \in 1..Len(longer) : q[i] = Piece(longer, i)
    BY <1>2, <2>1
  <2> HIDE DEF q, t
  <2>7. Len(q) = Len(t)
    BY <2>1, <2>3, <2>5, <2>6
  <2>8. ASSUME NEW i \in 1..Len(q) PROVE q[i] = t[i]
    <3>1. CASE i = Len(args) + 1
      BY <2>1, <2>3, <2>5, <2>6, <3>1 DEF last
    <3>2. CASE i # Len(args) + 1
      <4>1. i \in 1..Len(args) /\ i \in 1..Len(longer)
        BY <2>1, <2>6, <3>2
      <4> QED BY <2>3, <2>4, <2>5, <2>6, <4>1
    <3> QED BY <3>1, <3>2
  <2>9. q = t
    BY <2>5, <2>6, <2>7, <2>8, SeqEqual
  <2> QED BY <2>9 DEF q, t, last, longer, p
<1> QED BY <1>2, <1>3, <1>4

(* A line of which every argument is read needs one more step to be read:  *)
(* the end of the last argument, which a space or the end of the line is.  *)
LineOf(args) == Reads(SplitState, RenderCommandArgs(args))
IsReadTo(s, args) ==
  /\ s \in SplitStates /\ s.quote = "none" /\ ~s.escaping
  /\ FlushToken(s) = At(args, <<>>, "none", FALSE)

LEMMA FlushIs ==
  ASSUME NEW args \in Seq(Seq(Chars)), NEW arg \in Seq(Chars)
  PROVE  IsReadTo(At(args, arg, "none", TRUE), Append(args, arg))
<1> DEFINE s == At(args, arg, "none", TRUE)
           all == Append(args, arg)
<1>1. s \in SplitStates /\ s.quote = "none" /\ ~s.escaping
  <2>1. s \in SplitStates
    BY AtIs
  <2>2. s.quote = "none" /\ ~s.escaping
    BY DEF At
  <2> QED BY <2>1, <2>2
<1>2. FlushToken(s) = At(all, <<>>, "none", FALSE)
  <2>1. s.started /\ s.args = args /\ s.current = arg
    BY DEF At
  <2>2. FlushToken(s) = [s EXCEPT !.args = all, !.current = <<>>, !.started = FALSE]
    <3> HIDE DEF s
    <3> QED BY <2>1 DEF FlushToken
  <2>3. all \in Seq(Seq(Chars))
    OBVIOUS
  <2> DEFINE empty == <<>>
             once == [s EXCEPT !.args = all]
             twice == [once EXCEPT !.current = empty]
             thrice == [twice EXCEPT !.started = FALSE]
  <2>4. empty \in Seq(Chars) /\ s.quote = "none" /\ s.escaping = FALSE
    <3>1. empty \in Seq(Chars)
      OBVIOUS
    <3> HIDE DEF empty
    <3> QED BY <3>1 DEF At
  <2> HIDE DEF all, empty, s
  <2>5. once \in SplitStates /\ once.args = all /\ once.quote = "none" /\ once.escaping = FALSE
    BY <1>1, <2>3, <2>4 DEF SplitStates
  <2> HIDE DEF once
  <2>6. /\ twice \in SplitStates /\ twice.args = all /\ twice.current = empty
        /\ twice.quote = "none" /\ twice.escaping = FALSE
    BY <2>4, <2>5 DEF SplitStates
  <2> HIDE DEF twice
  <2>7. /\ thrice \in SplitStates /\ thrice.args = all /\ thrice.current = empty
        /\ thrice.quote = "none" /\ thrice.escaping = FALSE /\ thrice.started = FALSE
    BY <2>6 DEF SplitStates
  <2>8. [s EXCEPT !.args = all, !.current = empty, !.started = FALSE] = thrice
    BY DEF thrice, twice, once
  <2> HIDE DEF thrice
  <2>9. thrice = [args |-> thrice.args, current |-> thrice.current, quote |-> thrice.quote,
                  escaping |-> thrice.escaping, started |-> thrice.started]
    BY <2>7 DEF SplitStates
  <2> QED BY <2>2, <2>7, <2>8, <2>9 DEF empty, At
<1> QED BY <1>1, <1>2 DEF IsReadTo

LEMMA LineIsRead ==
  ASSUME NEW args \in Seq(Seq(Chars))
  PROVE  RenderCommandArgs(args) \in Seq(Chars) /\ IsReadTo(LineOf(args), args)
<1> DEFINE line(t) == RenderCommandArgs(t)
           good == {t \in Seq(Seq(Chars)) : IsReadTo(LineOf(t), t)}
<1>1. \A t : line(t) = FlattenSeq(Pieces(t))
  BY Zenon DEF RenderCommandArgs, Pieces, Piece
<1>2. \A t \in Seq(Seq(Chars)) : line(t) \in Seq(Chars)
  BY <1>1, PiecesGrow, FlattenIs
<1>3. LineOf(<<>>) = SplitState /\ <<>> \in good
  <2>1. line(<<>>) = <<>> /\ <<>> \in Seq(Chars) /\ <<>> \in Seq(Seq(Chars))
    BY <1>1, PiecesGrow, FlattenIs
  <2>2. LineOf(<<>>) = SplitState
    <3> HIDE DEF line
    <3>1. Reads(SplitState, <<>>) = SplitState
      BY <2>1, StartIs, ReadsOn
    <3> QED BY <2>1, <3>1 DEF LineOf, line
  <2>3. SplitState.quote = "none" /\ ~SplitState.escaping /\ ~SplitState.started
    BY DEF SplitState
  <2>4. FlushToken(SplitState) = SplitState
    BY <2>3 DEF FlushToken
  <2> QED BY <2>1, <2>2, <2>3, <2>4, StartIs DEF IsReadTo
<1>4. ASSUME NEW t \in Seq(Seq(Chars)), NEW arg \in Seq(Chars), t \in good PROVE Append(t, arg) \in good
  <2> DEFINE longer == Append(t, arg)
             text == RenderCommandArg(arg)
             before == line(t)
             s == LineOf(t)
             from == At(t, <<>>, "none", FALSE)
  <2>1. /\ longer \in Seq(Seq(Chars)) /\ longer[Len(t) + 1] = arg /\ Len(t) \in Nat
        /\ (Len(t) = 0 <=> t = <<>>)
    BY AppendProperties, LenProperties, EmptySeq
  <2>2. text \in Seq(Chars) /\ Reads(from, text) = At(t, arg, "none", TRUE)
    BY RenderedIsRead
  <2>3. before \in Seq(Chars)
    BY <1>2
  <2>4. line(longer) = before \o Piece(longer, Len(t) + 1)
    <3>1. Pieces(t) \in Seq(Seq(Chars)) /\ Pieces(longer) = Append(Pieces(t), Piece(longer, Len(t) + 1))
      BY PiecesGrow
    <3>2. Piece(longer, Len(t) + 1) \in Seq(Chars)
      <4>1. <<>> \in Seq(Chars) /\ <<"space">> \in Seq(Chars)
        BY DEF Chars
      <4> HIDE DEF longer
      <4> QED BY <2>1, <2>2, <4>1 DEF Piece
    <3> HIDE DEF longer, line
    <3>3. FlattenSeq(Append(Pieces(t), Piece(longer, Len(t) + 1))) = FlattenSeq(Pieces(t)) \o Piece(longer, Len(t) + 1)
      BY <3>1, <3>2, FlattenIs
    <3> QED BY <1>1, <3>1, <3>3
  <2>5. Reads(SplitState, line(longer)) = At(t, arg, "none", TRUE)
    <3>1. CASE t = <<>>
      <4>1. Piece(longer, Len(t) + 1) = <<>> \o text
        <5> HIDE DEF longer
        <5> QED BY <2>1, <3>1 DEF Piece
      <4>2. before = <<>>
        BY <1>1, <3>1, PiecesGrow, FlattenIs
      <4>3. <<>> \o (<<>> \o text) = text
        <5> HIDE DEF text
        <5> QED BY <2>2
      <4>4. SplitState = from
        BY <3>1, StartIs
      <4> HIDE DEF text, before, line, from, longer
      <4> QED BY <2>2, <2>4, <4>1, <4>2, <4>3, <4>4
    <3>2. CASE t # <<>>
      <4> DEFINE space == <<"space">>
                 spaced == space \o text
      <4>1. Piece(longer, Len(t) + 1) = spaced
        <5> HIDE DEF longer
        <5> QED BY SMTT(30), <2>1, <3>2 DEF Piece
      <4>2. space \in Seq(Chars) /\ "space" \in Chars
        BY DEF Chars
      <4> HIDE DEF text, before, line, longer
      <4>3. spaced \in Seq(Chars)
        BY <2>2, <4>2
      <4>4. IsReadTo(s, t) /\ s = Reads(SplitState, before)
        BY <1>4 DEF LineOf, line, before
      <4> HIDE DEF s
      <4>5. Reads(s, space) = Consume(s, "space")
        BY <4>2, <4>4, ReadsOne DEF IsReadTo
      <4>6. Consume(s, "space") = from
        BY <4>4 DEF Consume, IsReadTo
      <4> HIDE DEF space, from
      <4>7. Reads(s, spaced) = Reads(Reads(s, space), text)
        BY <2>2, <4>2, <4>4, ReadsBoth DEF IsReadTo
      <4> HIDE DEF spaced
      <4>8. Reads(SplitState, before \o spaced) = Reads(Reads(SplitState, before), spaced)
        BY <2>3, <4>3, StartIs, ReadsBoth
      <4> QED BY <2>2, <2>4, <4>1, <4>4, <4>5, <4>6, <4>7, <4>8
    <3> QED BY <3>1, <3>2
  <2>6. IsReadTo(At(t, arg, "none", TRUE), longer)
    BY FlushIs
  <2> QED BY <2>1, <2>5, <2>6 DEF LineOf
<1>5. Seq(Seq(Chars)) \subseteq good
  <2> HIDE DEF good
  <2> QED BY <1>3, <1>4, AllSequences
<1> QED BY <1>2, <1>5

(* Every command, of however many arguments, is read from its own line     *)
(* (RenderCommandArgs, splitCommandLine).                                  *)
THEOREM CommandIsRead ==
  ASSUME NEW args \in Seq(Seq(Chars))
  PROVE  SplitCommandLine(RenderCommandArgs(args)) = args
<1> DEFINE line == RenderCommandArgs(args)
           s == FoldLeft(Consume, SplitState, line)
<1>1. line \in Seq(Chars) /\ IsReadTo(Reads(SplitState, line), args)
  BY LineIsRead DEF LineOf
<1> HIDE DEF line
<1>2. s = Reads(SplitState, line)
  BY <1>1, SplitFolds
<1>3. SplitCommandLine(line) = IF s.escaping \/ s.quote # "none" THEN "error" ELSE FlushToken(s).args
  BY Zenon DEF SplitCommandLine
<1>4. FlushToken(s) = At(args, <<>>, "none", FALSE) /\ s.quote = "none" /\ ~s.escaping
  BY <1>1, <1>2 DEF IsReadTo
<1>5. FlushToken(s).args = args
  BY <1>4 DEF At
<1> HIDE DEF s
<1>6. SplitCommandLine(line) = args
  BY <1>3, <1>4, <1>5
<1> QED BY <1>6 DEF line

LEMMA LinesAreLines == Lines \subseteq Seq(Seq(Chars))
<1> DEFINE texts == BoundedSeq(Chars, MaxLine)
<1>1. ASSUME NEW text \in texts PROVE text \in Seq(Chars)
  BY ArgumentsAssumption DEF BoundedSeq, SeqOf
<1> HIDE DEF texts
<1>2. ASSUME NEW text \in Seq(Chars), NEW n \in 0..Len(text)
      PROVE  SubSeq(text, 1, n) \in Seq(Chars) /\ SubSeq(text, n + 1, Len(text)) \in Seq(Chars)
  OBVIOUS
<1>3. ASSUME NEW args \in Lines PROVE args \in Seq(Seq(Chars))
  <2>1. \/ \E text \in texts : args = <<text>>
        \/ \E text \in texts : \E n \in 0..Len(text) : args = <<SubSeq(text, 1, n), SubSeq(text, n + 1, Len(text))>>
    BY DEF Lines, texts
  <2>2. CASE \E text \in texts : args = <<text>>
    BY <1>1, <2>2
  <2>3. ASSUME NEW text \in texts, NEW n \in 0..Len(text),
               args = <<SubSeq(text, 1, n), SubSeq(text, n + 1, Len(text))>>
        PROVE  args \in Seq(Seq(Chars))
    BY <1>1, <1>2, <2>3
  <2> QED BY <2>1, <2>2, <2>3
<1> QED BY <1>3

LEMMA RecordedLinesAreRead == LinesAreRead
BY CommandIsRead, LinesAreLines DEF LinesAreRead

(* So the lines a run looks at are read, and stay so.                      *)
THEOREM RecordedIsReadAlways == TrustSpec => []RecordedIsRead
<1>1. RecordedIsRead
  BY RecordedLinesAreRead DEF RecordedIsRead
<1> QED BY <1>1, PTL
=============================================================================
