---------------------------- MODULE FilterLookup ----------------------------
(***************************************************************************)
(* Which filter a tool gets (internal/filters/yaml/loader.go): the lookup  *)
(* that runs before every command and reads only what it needs, and the    *)
(* inventory of `cmdshape filter status`, which compiles everything.  No   *)
(* state: directories in, a choice out.                                    *)
(*                                                                         *)
(* A file is its rank in the lexicographic order of names.  A definition   *)
(* that parses may still not compile: regular expressions of line rules    *)
(* are first compiled then.                                                *)
(***************************************************************************)
EXTENDS FiniteSetsExt, Sequences, Integers

CONSTANTS
  Tools,      (* commands, filter ids and aliases                       *)
  FileCount,  (* names a visible YAML file of a source may have          *)
  Exact       (* of a tool: the files <tool>.yaml and <tool>.yml         *)

Files == 1..FileCount

ASSUME LookupAssumption == FileCount \in Nat /\ Exact \in [Tools -> SUBSET Files]

(* What is in a file; only what parses has a filter id. *)
Parsed   == [kind : {"ok", "broken"}, filter : Tools]
Contents == Parsed \union [kind : {"invalid", "unreadable"}]

(* A source: its files, and the mappings from alias to target (none when   *)
(* .mappings.yaml is missing or invalid).                                  *)
Partial(S, T) == UNION {[D -> T] : D \in SUBSET S}
Directories   == [files : Partial(Files, Contents), map : Partial(Tools, Tools)]
Empty         == [files |-> <<>>, map |-> <<>>]

Names(dir) == DOMAIN dir.files

(* A lookup ends with a file, with nothing, or fails. *)
Nothing == 0
Failure == -1

LastFile(files) == IF files = {} THEN Nothing ELSE Max(files)

Defines(dir, f, targets) == dir.files[f] \in Parsed /\ dir.files[f].filter \in targets

(* The last of some files that defines one of the targets; one that cannot *)
(* be read stops the search.                                               *)
LastDefinition(dir, files, targets) ==
  IF \E f \in files : dir.files[f].kind = "unreadable" THEN Failure
  ELSE LastFile({f \in files : Defines(dir, f, targets)})

-----------------------------------------------------------------------------
(* The lookup of an execution *)

LoadExactTargetDefinition(dir, target) ==
  LastDefinition(dir, Exact[target] \intersect Names(dir), {target})

(* Mutant: up to a file instead of after it. *)
LoadLegacyTargetDefinitionUpTo(dir, targets, after) ==
  LastDefinition(dir, {f \in Names(dir) : f <= after}, targets)

LoadLegacyTargetDefinitionAfter(dir, targets, after) ==
  LastDefinition(dir, {f \in Names(dir) : f > after}, targets)

(* A later file with the same id overrides the exact one. *)
LoadExactExecutionFilter(dir, target) ==
  LET exact    == LoadExactTargetDefinition(dir, target)
      override == LoadLegacyTargetDefinitionAfter(dir, {target}, exact)
  IN  IF exact \in {Nothing, Failure} \/ override = Nothing THEN exact ELSE override

(* The tool itself first, then its alias, then files with other names. *)
ExecutionFilterTargets(dir, tool) ==
  IF tool \in DOMAIN dir.map /\ dir.map[tool] # tool THEN <<tool, dir.map[tool]>> ELSE <<tool>>

LoadExecutionDefinition(dir, tool) ==
  LET targets == ExecutionFilterTargets(dir, tool)
      found   == {i \in DOMAIN targets : LoadExactExecutionFilter(dir, targets[i]) # Nothing}
  IN  IF found # {} THEN LoadExactExecutionFilter(dir, targets[Min(found)])
      ELSE LoadLegacyTargetDefinitionAfter(dir, {targets[i] : i \in DOMAIN targets}, 0)

(* Mutant: a definition that does not compile is taken. *)
LoadExecutionFilterFromSourceUncompiled(dir, tool) == LoadExecutionDefinition(dir, tool)

LoadExecutionFilterFromSource(dir, tool) ==
  LET f == LoadExecutionDefinition(dir, tool)
  IN  IF f \in Names(dir) /\ dir.files[f].kind = "broken" THEN Nothing ELSE f

(* The first source with an answer; Passthrough when none has one or the   *)
(* lookup failed.                                                          *)
Choice(source, file) == [source |-> source, file |-> file]
Passthrough == Choice(0, Nothing)

LoadExecutionFilter(sources, tool) ==
  LET found == {i \in DOMAIN sources : LoadExecutionFilterFromSource(sources[i], tool) # Nothing}
      first == Min(found)
      file  == LoadExecutionFilterFromSource(sources[first], tool)
  IN  IF found = {} \/ file = Failure THEN Passthrough ELSE Choice(first, file)

-----------------------------------------------------------------------------
(* The inventory: a source that cannot be read completely is left out. *)

InspectFilterSource(dir, tool) ==
  IF \E f \in Names(dir) : dir.files[f].kind = "unreadable" THEN Nothing
  ELSE LastFile({f \in Names(dir) : dir.files[f] = [kind |-> "ok", filter |-> tool]})

(* The definitions of a source, then its aliases. *)
RegisteredBySource(dir, tool) ==
  LET own == InspectFilterSource(dir, tool)
  IN  IF own = Nothing /\ tool \in DOMAIN dir.map
      THEN InspectFilterSource(dir, dir.map[tool]) ELSE own

LoadRegistryStatus(sources, tool) ==
  LET found == {i \in DOMAIN sources : RegisteredBySource(sources[i], tool) # Nothing}
      first == Min(found)
  IN  IF found = {} THEN Passthrough
      ELSE Choice(first, RegisteredBySource(sources[first], tool))

-----------------------------------------------------------------------------
(* Sources laid out as the documentation has them: everything is readable  *)
(* and compiles, and each filter has a file of its own name.               *)
Tidy(dir) ==
  \A f \in Names(dir) :
    /\ dir.files[f].kind \notin {"unreadable", "broken"}
    /\ dir.files[f].kind = "ok" =>
         \E e \in Exact[dir.files[f].filter] \intersect Names(dir) : dir.files[e] = dir.files[f]
=============================================================================
