------------------------------- MODULE Filter -------------------------------
(***************************************************************************)
(* The run-time decisions of one YAML filter case                          *)
(* (internal/filters/yaml/yaml_filter.go): which scope owns a stream, what *)
(* the scope's rules do with a line, and what text the scope renders when  *)
(* the command exits.                                                      *)
(*                                                                         *)
(* Line contents are abstracted.  Which rule a line matches is the choice  *)
(* of the command that printed it, so a rule name is an argument here; a   *)
(* text is known by its length, by the lines whose content it displays and *)
(* by what the filter added to it.                                         *)
(***************************************************************************)
EXTENDS Naturals, FiniteSets

CONSTANTS
  Cases,        (* the selected cases to consider                           *)
  RenderSizes   (* lengths of a rendered group summary                      *)

VARIABLES
  activeCase,   (* the case selected for the invocation; never changes      *)
  hidden,       (* per scope: lines dropped because lines.max was reached   *)
  collected,    (* per scope: lines handed to a group                       *)
  inSection     (* per scope: a boundary group has been opened              *)

filterVars == <<activeCase, hidden, collected, inSection>>

Streams == {"stdout", "stderr"}
Scopes  == Streams \union {"combined"}
Rules   == {"group", "boundary", "keep", "replace", "skip", "other"}

(***************************************************************************)
(* A scope has the kinds of rules it declares, the limit of lines.max (0:  *)
(* none) and the length of the rendered max.print (0: none).  A case with  *)
(* passthrough has no scope; combined is never mixed with stdout or        *)
(* stderr; footer is the length of the rendered finally.print (0: none).   *)
(***************************************************************************)
Scope    == [rules : SUBSET (Rules \ {"other"}), max : Nat, print : Nat]
Routings == {{}, {"combined"}, {"stdout"}, {"stderr"}, Streams}

ASSUME FilterAssumption ==
  /\ \A c \in Cases :
       /\ c.passthrough \in BOOLEAN /\ c.footer \in Nat
       /\ DOMAIN c.scope \in Routings
       /\ c.scope \in [DOMAIN c.scope -> Scope]
       /\ c.passthrough => DOMAIN c.scope = {}
  /\ RenderSizes \subseteq Nat \ {0}

FilterInit ==
  /\ activeCase \in Cases
  /\ hidden = [c \in Scopes |-> 0]
  /\ collected = [c \in Scopes |-> {}]
  /\ inSection = [c \in Scopes |-> FALSE]

FilterTypeOK ==
  /\ activeCase \in Cases
  /\ hidden \in [Scopes -> Nat]
  /\ collected \in [Scopes -> SUBSET Nat]
  /\ inSection \in [Scopes -> BOOLEAN]

-----------------------------------------------------------------------------
(* Lines *)

ScopeNames == DOMAIN activeCase.scope
Filtered(s) == ScopeNames \intersect {s, "combined"} # {}
ScopeOf(s)  == IF s \in ScopeNames THEN s ELSE "combined"
RulesOf(c)  == activeCase.scope[c].rules

(* Once a boundary group is open every line belongs to a group. *)
MayMatch(c, rule) ==
  IF inSection[c] THEN rule \in {"group", "boundary"}
                  ELSE rule \in RulesOf(c) \union {"other"}

Grouping(rule)     == rule \in {"group", "boundary"}
Dropping(c, rule)  == rule = "skip" \/ (rule = "other" /\ "keep" \in RulesOf(c))
Retaining(c, rule) == ~Grouping(rule) /\ ~Dropping(c, rule)

(* count is the number of lines the engine already retains for the stream. *)
AtMax(c, count) ==
  activeCase.scope[c].max > 0 /\ count >= activeCase.scope[c].max

(* The action for a line is ignore: a group took it, a rule dropped it, or *)
(* it would have been retained but the limit is reached.                   *)
Ignores(c, rule, count) == ~Retaining(c, rule) \/ AtMax(c, count)

NoteIgnored(c, rule, id) ==
  /\ hidden' = IF Retaining(c, rule) THEN [hidden EXCEPT ![c] = @ + 1] ELSE hidden
  /\ collected' = IF Grouping(rule) THEN [collected EXCEPT ![c] = @ \union {id}]
                                    ELSE collected
  /\ inSection' = IF rule = "boundary" THEN [inSection EXCEPT ![c] = TRUE] ELSE inSection
  /\ UNCHANGED activeCase

-----------------------------------------------------------------------------
(* Exit *)

(* A scope whose groups collected something may render them.  What they    *)
(* render replaces the retained text, it is not added to it.               *)
GroupTexts(c) ==
  IF collected[c] = {} THEN {}
  ELSE [size : RenderSizes, shows : SUBSET collected[c] \ {{}},
        exact : {{}}, adds : {{}}]

Adding(text, size, what) ==
  [size |-> text.size + size, shows |-> text.shows, exact |-> text.exact,
   adds |-> text.adds \union {what}]

(* Mutant: the note replaces the text. *)
WithOmittedOnly(c, buffered) ==
  IF hidden[c] = 0 \/ activeCase.scope[c].print = 0 THEN buffered
  ELSE Adding([buffered EXCEPT !.size = 0, !.shows = {}], activeCase.scope[c].print, "omitted")

(* buffered is the text the engine retains for the scope. *)
WithOmitted(c, buffered) ==
  IF hidden[c] = 0 \/ activeCase.scope[c].print = 0 THEN buffered
  ELSE Adding(buffered, activeCase.scope[c].print, "omitted")

WithFooter(text, exitCode) ==
  IF exitCode # 0 \/ activeCase.footer = 0 THEN text
  ELSE Adding(text, activeCase.footer, "footer")

(* With two split scopes only stdout carries the footer. *)
CarriesFooter(c) == c = "stderr" => "stdout" \notin ScopeNames

ScopeTexts(c, buffered, exitCode) ==
  {IF CarriesFooter(c) THEN WithFooter(t, exitCode) ELSE t :
     t \in GroupTexts(c) \union {WithOmitted(c, buffered)}}
=============================================================================
