----------------------------- MODULE FilterTrust -----------------------------
(***************************************************************************)
(* Approval of project filters (internal/filtertrust/trust.go) and its use *)
(* by executions (internal/filters/yaml/loader.go).  Users edit the files  *)
(* of their projects while processes run `filter trust`, `filter untrust`  *)
(* and commands.  Each lists the directory, reads one file after the other *)
(* and reads the one store of all projects; the store is replaced as a     *)
(* whole, without a lock.                                                  *)
(***************************************************************************)
EXTENDS FilterLookup

CONSTANTS
  Projects,  (* canonical project roots                                *)
  Edited,    (* those whose files change                               *)
  Procs,     (* processes                                              *)
  Layouts,   (* sources that projects start with                       *)
  Home,      (* the home source; it does not change                    *)
  MaxSteps   (* edits and started processes at most                    *)

ASSUME TrustAssumption ==
  /\ MaxSteps \in Nat /\ Edited \subseteq Projects /\ Projects # {}
  /\ Layouts \subseteq Directories /\ Home \in Directories

VARIABLES
  dirs,     (* the filter directory of each project                    *)
  store,    (* the trust store: of each project no or one digest       *)
  steps,    (* edits and started processes so far                      *)
  (* Of each process: *)
  pc,
  command,  (* "trust", "untrust" or "execute"                         *)
  root,     (* its project                                             *)
  todo,     (* names it has listed and not read                        *)
  seen,     (* what it has read                                        *)
  rounds,   (* evaluations an execution has to do                      *)
  copy,     (* the store it has read                                   *)
  ran,      (* the project definition an execution uses, if any        *)
  (* History, read by no action. *)
  granted,  (* digests that were ever approved for each project        *)
  decided   (* what the last command of each project itself wrote      *)

job  == <<command, root, rounds>>
vars == <<dirs, store, steps, pc, job, todo, seen, copy, ran, granted, decided>>

Commands == {"trust", "untrust", "execute"}
Places   == {"idle", "list", "read", "load", "write", "select", "done"}
Is(p, place)   == pc[p] = place
Goto(p, place) == pc' = [pc EXCEPT ![p] = place]

(* The mapping file is a file like the others; it comes first. *)
MappingFile  == 0
Listing(dir) == Names(dir) \union IF dir.map = <<>> THEN {} ELSE {MappingFile}

(* sourceFilesDigest: a hash over the root and over name and bytes of each *)
(* file; different inputs have different digests.                          *)
Digest(r, dir) == [root |-> r, files |-> dir.files, map |-> dir.map]

Undecided == [r \in Projects |-> {}]

(* Projects start with the same files, some of them approved. *)
TrustInit ==
  /\ \E layout \in Layouts : dirs = [r \in Projects |-> layout]
  /\ \E approved \in SUBSET {r \in Projects : Listing(dirs[r]) # {}} :
       store = [r \in Projects |-> IF r \in approved THEN {Digest(r, dirs[r])} ELSE {}]
  /\ granted = store /\ decided = store
  /\ steps = 0
  /\ pc = [p \in Procs |-> "idle"]
  (* The commands of idle processes mean nothing. *)
  /\ command = [p \in Procs |-> "execute"] /\ root = [p \in Procs |-> CHOOSE r \in Projects : TRUE]
  /\ rounds = [p \in Procs |-> 0] /\ todo = [p \in Procs |-> {}]
  /\ seen = [p \in Procs |-> Empty] /\ copy = [p \in Procs |-> Undecided]
  /\ ran = [p \in Procs |-> {}]

Counted == steps < MaxSteps /\ steps' = steps + 1

-----------------------------------------------------------------------------
(* A user edits a project: a file is written or removed, or the mappings   *)
(* change.                                                                 *)
With(dir, f, new) ==
  [dir EXCEPT !.files = [g \in Names(dir) \union {f} |-> IF g = f THEN new ELSE dir.files[g]]]
Without(dir, f) ==
  [dir EXCEPT !.files = [g \in Names(dir) \ {f} |-> dir.files[g]]]

Edit(r) ==
  /\ Counted
  /\ \/ \E f \in Files, new \in Contents : dirs' = [dirs EXCEPT ![r] = With(@, f, new)]
     \/ \E f \in Names(dirs[r]) : dirs' = [dirs EXCEPT ![r] = Without(@, f)]
     \/ \E map \in Partial(Tools, Tools) : dirs' = [dirs EXCEPT ![r].map = map]
  /\ UNCHANGED <<store, pc, job, todo, seen, copy, ran, granted, decided>>

-----------------------------------------------------------------------------
(* Processes *)

Ends(p) ==
  /\ Goto(p, "idle")
  /\ todo' = [todo EXCEPT ![p] = {}] /\ seen' = [seen EXCEPT ![p] = Empty]
  /\ copy' = [copy EXCEPT ![p] = Undecided] /\ ran' = [ran EXCEPT ![p] = {}]

(* An execution evaluates the project when it lists its sources and again  *)
(* when it loads the filter; `filter untrust` does not look at the files.  *)
Begin(p, c, r) ==
  /\ Is(p, "idle") /\ Counted
  /\ command' = [command EXCEPT ![p] = c] /\ root' = [root EXCEPT ![p] = r]
  /\ rounds' = [rounds EXCEPT ![p] = IF c = "execute" THEN 2 ELSE 0]
  /\ Goto(p, IF c = "untrust" THEN "load" ELSE "list")
  /\ UNCHANGED <<dirs, store, todo, seen, copy, ran, granted, decided>>

(* An execution without usable project filters goes on with what is left. *)
Unusable(p) ==
  IF command[p] = "execute"
  THEN /\ Goto(p, "select")
       /\ todo' = [todo EXCEPT ![p] = {}] /\ seen' = [seen EXCEPT ![p] = Empty]
       /\ UNCHANGED <<copy, ran>>
  ELSE Ends(p)

List(p) ==
  /\ Is(p, "list")
  /\ LET listed == Listing(dirs[root[p]]) IN
     IF listed = {} THEN Unusable(p)
     ELSE /\ Goto(p, "read")
          /\ todo' = [todo EXCEPT ![p] = listed] /\ seen' = [seen EXCEPT ![p] = Empty]
          /\ UNCHANGED <<copy, ran>>
  /\ UNCHANGED <<dirs, store, steps, job, granted, decided>>

(* A file that has gone since the listing makes the source unsafe. *)
ReadFile(p) ==
  LET name == Min(todo[p])
      dir  == dirs[root[p]]
  IN
  /\ Is(p, "read") /\ todo[p] # {}
  /\ IF name \notin Listing(dir) \/ (name # MappingFile /\ dir.files[name].kind = "unreadable")
     THEN Unusable(p)
     ELSE /\ seen' = [seen EXCEPT ![p] =
               IF name = MappingFile THEN [@ EXCEPT !.map = dir.map]
               ELSE With(@, name, dir.files[name])]
          /\ todo' = [todo EXCEPT ![p] = @ \ {name}]
          /\ Goto(p, IF todo[p] = {name} THEN "load" ELSE "read")
          /\ UNCHANGED <<copy, ran>>
  /\ UNCHANGED <<dirs, store, steps, job, granted, decided>>

Approved(p) == Digest(root[p], seen[p]) \in store[root[p]]

(* What was read is approved or not; a store that cannot be read approves  *)
(* nothing.                                                                *)
Evaluate(p) ==
  /\ Is(p, "load") /\ command[p] = "execute"
  /\ \/ /\ Approved(p)
        /\ rounds' = [rounds EXCEPT ![p] = @ - 1]
        /\ Goto(p, IF rounds[p] = 1 THEN "select" ELSE "list")
        /\ UNCHANGED <<todo, seen, copy, ran>>
     \/ Unusable(p) /\ UNCHANGED rounds
  /\ UNCHANGED <<dirs, store, steps, command, root, granted, decided>>

LoadDefaultStore(p) ==
  /\ Is(p, "load") /\ command[p] # "execute"
  /\ copy' = [copy EXCEPT ![p] = store]
  /\ Goto(p, "write")
  /\ UNCHANGED <<dirs, store, steps, job, todo, seen, ran, granted, decided>>

(* Trust and Untrust put their own project into the store they have read.  *)
WriteDefaultStore(p) ==
  LET r   == root[p]
      new == IF command[p] = "trust" THEN {Digest(r, seen[p])} ELSE {}
  IN
  /\ Is(p, "write")
  /\ store' = [copy[p] EXCEPT ![r] = new]
  /\ granted' = [granted EXCEPT ![r] = @ \union new]
  /\ decided' = [decided EXCEPT ![r] = new]
  /\ Ends(p)
  /\ UNCHANGED <<dirs, steps, job>>

(* Mutant: the directory is opened again. *)
SelectReopened(p) ==
  /\ Is(p, "select") /\ Goto(p, "done")
  /\ \E tool \in Tools :
       LET project == IF seen[p] = Empty THEN Empty ELSE dirs[root[p]]
           choice  == LoadExecutionFilter(<<project, Home>>, tool)
       IN  ran' = [ran EXCEPT ![p] =
             IF choice.source = 1 THEN {[file |-> choice.file, definition |-> project.files[choice.file]]}
             ELSE {}]
  /\ UNCHANGED <<dirs, store, steps, job, todo, seen, copy, granted, decided>>

(* The filter comes from the bytes whose digest was approved. *)
Select(p) ==
  /\ Is(p, "select") /\ Goto(p, "done")
  /\ \E tool \in Tools :
       LET choice == LoadExecutionFilter(<<seen[p], Home>>, tool)
       IN  ran' = [ran EXCEPT ![p] =
             IF choice.source = 1 THEN {[file |-> choice.file, definition |-> seen[p].files[choice.file]]}
             ELSE {}]
  /\ UNCHANGED <<dirs, store, steps, job, todo, seen, copy, granted, decided>>

(* A process is done, fails or is killed. *)
Stop(p) ==
  /\ ~Is(p, "idle")
  /\ Ends(p)
  /\ UNCHANGED <<dirs, store, steps, job, granted, decided>>

TrustNext ==
  \/ \E r \in Edited : Edit(r)
  \/ \E p \in Procs :
       \/ \E c \in Commands, r \in Projects : Begin(p, c, r)
       \/ List(p) \/ ReadFile(p) \/ Evaluate(p) \/ Select(p)
       \/ LoadDefaultStore(p) \/ WriteDefaultStore(p)
       \/ Stop(p)

TrustSpec == TrustInit /\ [][TrustNext]_vars
-----------------------------------------------------------------------------
(* Properties *)

TrustTypeOK ==
  /\ dirs \in [Projects -> Directories]
  /\ \A r \in Projects :
       /\ store[r] \subseteq granted[r] /\ Cardinality(store[r]) <= 1
       /\ \A d \in granted[r] : d.root = r /\ [files |-> d.files, map |-> d.map] \in Directories
  /\ decided \in [Projects -> SUBSET UNION {granted[r] : r \in Projects}]
  /\ steps \in 0..MaxSteps
  /\ pc \in [Procs -> Places] /\ command \in [Procs -> Commands] /\ root \in [Procs -> Projects]
  /\ rounds \in [Procs -> 0..2]
  /\ \A p \in Procs :
       /\ todo[p] \subseteq Files \union {MappingFile} /\ seen[p] \in Directories
       /\ \A r \in Projects : copy[p][r] \subseteq granted[r]
       /\ ran[p] \subseteq [file : Files, definition : Parsed]

(* A project filter that an execution uses is a file of a source that was  *)
(* approved as a whole, with the bytes that were approved, however the     *)
(* files change between the listing, the reads, the two evaluations and    *)
(* the lookup (EvaluateSource returns the bytes it has digested).          *)
OnlyApprovedRuns ==
  \A p \in Procs : \A used \in ran[p] :
    \E d \in granted[root[p]] :
      used.file \in DOMAIN d.files /\ d.files[used.file] = used.definition

(* For sources with one file per filter, named after it, the lookup of an  *)
(* execution and the inventory of `filter status`, two separate searches,  *)
(* choose the same filter, overrides, aliases and fallbacks included       *)
(* (LoadExecutionFilterFromSourcesWithTiming).                             *)
TidySourcesAgree ==
  \A r \in Projects, tool \in Tools :
    LET sources == <<dirs[r], Home>> IN
    Tidy(dirs[r]) /\ Tidy(Home) =>
      LoadExecutionFilter(sources, tool) = LoadRegistryStatus(sources, tool)

(* The filter of a tool defines that tool or what an alias of the same     *)
(* source says, and it compiles (executionFilterTargets).                  *)
AliasBindsInItsSource ==
  \A r \in Projects, tool \in Tools :
    LET sources == <<dirs[r], Home>>
        choice  == LoadExecutionFilter(sources, tool)
        source  == sources[choice.source]
    IN  choice # Passthrough =>
          \E target \in {tool} \union {source.map[t] : t \in {tool} \intersect DOMAIN source.map} :
            source.files[choice.file] = [kind |-> "ok", filter |-> target]

-----------------------------------------------------------------------------
(* What the documentation says *)

(* "project filters remain on disk but are ignored until explicitly        *)
(* trusted again" (filter untrust): after the last decision about a        *)
(* project was to untrust it, the store does not approve it.               *)
UntrustedStaysUntrusted == \A r \in Projects : decided[r] = {} => store[r] = {}
=============================================================================
