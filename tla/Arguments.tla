----------------------------- MODULE Arguments -----------------------------
(***************************************************************************)
(* What is read from the arguments of a command: the case of a filter it   *)
(* selects and what that case adds to it (filters/operations, yaml_filter),*)
(* and the line a command is recorded in and read from again (parser.go).  *)
(*                                                                         *)
(* An argument is a token: Long("f") is --f, Attached("f", "v") --f=v,     *)
(* Short({"a", "b"}) -ab, Word("w") w, and Separator --.                   *)
(***************************************************************************)
EXTENDS Integers, Sequences, FiniteSets, SequencesExt

CONSTANTS
  Options,     \* long options
  Values,      \* words, which are also the values of options
  Letters,     \* short flags
  ValueFlags,  \* flags_consuming_next_arg
  Whens,       \* `when` of cases
  Additions,   \* `command` of cases
  (* Bounds: *)
  MaxArgs,     \* arguments around the one in question
  MaxLine      \* characters of all the arguments of a recorded command

Long(name) == [kind |-> "long", name |-> name]
Attached(name, value) == [kind |-> "attached", name |-> name, value |-> value]
Short(letters) == [kind |-> "short", letters |-> letters]
Word(text) == [kind |-> "word", text |-> text]
Separator == [kind |-> "separator"]

Tokens ==
  {Long(n) : n \in Options} \union {Attached(n, v) : n \in Options, v \in Values}
    \union {Short({l}) : l \in Letters} \union {Word(v) : v \in Values} \union {Separator}

ASSUME ArgumentsAssumption ==
  /\ ValueFlags \subseteq {Long(n) : n \in Options} \union {Short({l}) : l \in Letters}
  /\ Whens \in Seq(ToSet(Whens))
  /\ \A i \in DOMAIN Whens :
       /\ Whens[i].haveAny \union Whens[i].lackAny \subseteq Tokens
       /\ Additions[i].shortFlags \in Seq(Letters)
       /\ Additions[i].ifMissing \in Seq(Tokens) /\ Additions[i].ifNoPositionals \in Seq(Tokens)
  /\ MaxArgs \in Nat /\ MaxLine \in Nat

-----------------------------------------------------------------------------
(* ParseArguments reads the arguments in order.  A value flag takes what   *)
(* follows, whatever it is.                                                *)

Unread == [after |-> FALSE, pending |-> "none", raw |-> <<>>, before |-> <<>>,
           normalized |-> <<>>, normalizedPre |-> <<>>, positionals |-> <<>>, options |-> <<>>]

Normalizing(view, args) ==
  [view EXCEPT !.normalized = @ \o args, !.normalizedPre = @ \o args]

(* Mutant: the value of an option counts as a positional. *)
AppendValueAsPositional(view, arg) ==
  [Normalizing(view, <<arg>>) EXCEPT !.pending = "none", !.before = Append(@, arg),
                                     !.positionals = Append(@, arg)]

(* appendLongOption, appendStandaloneValue *)
AppendValue(view, arg) ==
  [Normalizing(view, <<arg>>) EXCEPT
     !.pending = "none", !.before = Append(@, arg),
     !.options = IF view.pending = "long" THEN Append(Front(@), [Last(@) EXCEPT !.value = <<arg>>]) ELSE @]

AppendBeforeSeparator(view, arg) ==
  LET pending == IF arg \in ValueFlags THEN arg.kind ELSE "none" IN
  CASE arg.kind = "attached" ->
         [Normalizing(view, <<Long(arg.name), Word(arg.value)>>) EXCEPT
            !.options = Append(@, [name |-> arg.name, value |-> <<Word(arg.value)>>])]
    [] arg.kind = "long" ->
         [Normalizing(view, <<arg>>) EXCEPT
            !.options = Append(@, [name |-> arg.name, value |-> <<>>]), !.pending = pending]
    [] OTHER ->
         [Normalizing(view, <<arg>>) EXCEPT
            !.pending = pending,
            !.positionals = IF arg.kind = "word" /\ pending = "none" THEN Append(@, arg) ELSE @]

ParseArgument(view, arg) ==
  LET next == [view EXCEPT !.raw = Append(@, arg)] IN
  CASE view.after              -> [next EXCEPT !.normalized = Append(@, arg), !.positionals = Append(@, arg)]
    [] ~view.after /\ view.pending # "none" -> AppendValue(next, arg)
    [] ~view.after /\ view.pending = "none" /\ arg = Separator ->
         [next EXCEPT !.after = TRUE, !.normalized = Append(@, arg)]
    [] OTHER                   -> AppendBeforeSeparator([next EXCEPT !.before = Append(@, arg)], arg)

ParseArguments(args) == FoldLeft(ParseArgument, Unread, args)

HasLongOption(view, name) == \E i \in DOMAIN view.options : view.options[i].name = name
HasLongOptionValue(view, name, value) ==
  [name |-> name, value |-> <<Word(value)>>] \in ToSet(view.options)

MatchesWanted(view, want) ==
  CASE want.kind = "attached" -> HasLongOptionValue(view, want.name, want.value)
    [] want.kind = "long"     -> HasLongOption(view, want.name)
    [] want = Separator       -> FALSE
    [] OTHER                  -> want \in ToSet(view.raw)

(* -a also in -ab, of what comes before the separator, values included.    *)
HasShortFlag(view, letter) ==
  \E arg \in ToSet(view.before) : arg.kind = "short" /\ letter \in arg.letters

(* --f=v is read as --f v.  A sequence that begins with an option does not *)
(* reach past the separator.                                               *)
Normalized(sequence) ==
  FlattenSeq([i \in DOMAIN sequence |->
    IF sequence[i].kind = "attached"
    THEN <<Long(sequence[i].name), Word(sequence[i].value)>> ELSE <<sequence[i]>>])

ContainsSequence(args, sequence) ==
  \E i \in 0..(Len(args) - Len(sequence)) : SubSeq(args, i + 1, i + Len(sequence)) = sequence

MatchesHaveSequence(view, sequence) ==
  sequence # <<>> =>
    ContainsSequence(IF sequence[1].kind \in {"long", "attached", "separator"} THEN view.normalizedPre ELSE view.normalized,
                     Normalized(sequence))

MatchesWhenArguments(when, args) ==
  LET view == ParseArguments(args) IN
  /\ when.first # {} => args # <<>> /\ args[1] \in when.first
  /\ when.haveAny # {} => \E want \in when.haveAny : MatchesWanted(view, want)
  /\ \A want \in when.lackAny : ~MatchesWanted(view, want)
  /\ MatchesHaveSequence(view, when.sequence)
  /\ when.haveShort # {} => \E l \in when.haveShort : HasShortFlag(view, l)
  /\ \A l \in when.lackShort : ~HasShortFlag(view, l)
  /\ \A l \in when.allShort : HasShortFlag(view, l)
  /\ when.notAllShort # {} => \E l \in when.notAllShort : ~HasShortFlag(view, l)
  /\ ToSet(view.positionals) \intersect when.positionalsLack = {}
  /\ when.noPositionals =>
       Len(view.positionals) <= IF when.first # {} /\ args # <<>> THEN 1 ELSE 0

-----------------------------------------------------------------------------
(* PrepareCommand: the first case that matches what the user gave decides  *)
(* what is added; Whens and Additions are in the order of the cases.       *)

CaseForArgs(args) ==
  IF \E i \in DOMAIN Whens : MatchesWhenArguments(Whens[i], args)
  THEN SelectInSeq(Whens, LAMBDA when : MatchesWhenArguments(when, args)) ELSE 0

ArgumentPresent(args, want) ==
  MatchesWanted(ParseArguments(args), want)

AddShortFlagIfMissing(args, letter) ==
  IF \E i \in DOMAIN args : args[i].kind = "short" /\ letter \in args[i].letters
  THEN args ELSE Append(args, Short({letter}))

AppendIfMissing(args, want) ==
  IF ArgumentPresent(args, want) THEN args ELSE Append(args, want)

HasExplicitPositionals(when, args) ==
  ParseArguments(IF when.first # {} THEN Tail(args) ELSE args).positionals # <<>>

ApplyCommandMutations(args, when, command) ==
  LET mutated == FoldLeft(AppendIfMissing, FoldLeft(AddShortFlagIfMissing, args, command.shortFlags),
                          command.ifMissing)
  IN  IF HasExplicitPositionals(when, mutated) THEN mutated ELSE mutated \o command.ifNoPositionals

(* What is executed, and what the case is looked up by from then on.       *)
PrepareCommand(args) ==
  LET i == CaseForArgs(args) IN
  [args |-> IF i = 0 THEN args ELSE ApplyCommandMutations(args, Whens[i], Additions[i]),
   matching |-> args]

-----------------------------------------------------------------------------
(* A captured command is recorded as one line, which replays read.  The    *)
(* characters have names: "plain" stands for those that need no quotes,    *)
(* "dollar" for the others that mean nothing to the parser.                *)

Chars == {"plain", "dollar", "space", "apostrophe", "quotes", "backslash", "semicolon"}

(* Mutant: a quote ends what is quoted, and begins it again. *)
QuoteShellArgBare(arg) ==
  <<"apostrophe">>
    \o FlattenSeq([i \in DOMAIN arg |->
         IF arg[i] = "apostrophe" THEN <<"apostrophe", "apostrophe">> ELSE <<arg[i]>>])
    \o <<"apostrophe">>

QuoteShellArg(arg) ==
  <<"apostrophe">>
    \o FlattenSeq([i \in DOMAIN arg |->
         IF arg[i] = "apostrophe" THEN <<"apostrophe", "quotes", "apostrophe", "quotes", "apostrophe">>
         ELSE <<arg[i]>>])
    \o <<"apostrophe">>

RenderCommandArg(arg) ==
  IF arg # <<>> /\ ToSet(arg) \subseteq {"plain"} THEN arg ELSE QuoteShellArg(arg)

RenderCommandArgs(args) ==
  FlattenSeq([i \in DOMAIN args |-> (IF i = 1 THEN <<>> ELSE <<"space">>) \o RenderCommandArg(args[i])])

SplitState == [args |-> <<>>, current |-> <<>>, quote |-> "none", escaping |-> FALSE, started |-> FALSE]

WriteRune(s, r) == [s EXCEPT !.current = Append(@, r), !.started = TRUE]

FlushToken(s) ==
  IF s.started THEN [s EXCEPT !.args = Append(@, s.current), !.current = <<>>, !.started = FALSE] ELSE s

ConsumeEscaped(s, r) ==
  LET Escapes == IF s.quote = "double" THEN {"quotes", "backslash", "dollar"}
                 ELSE {"space", "backslash", "apostrophe", "quotes", "semicolon"}
  IN  IF r \in Escapes THEN WriteRune(s, r) ELSE WriteRune(WriteRune(s, "backslash"), r)

Consume(s, r) ==
  CASE s.escaping         -> [ConsumeEscaped(s, r) EXCEPT !.escaping = FALSE]
    [] ~s.escaping /\ s.quote = "single" ->
         IF r = "apostrophe" THEN [s EXCEPT !.quote = "none"] ELSE WriteRune(s, r)
    [] ~s.escaping /\ s.quote = "double" ->
         CASE r = "quotes"    -> [s EXCEPT !.quote = "none"]
           [] r = "backslash" -> [s EXCEPT !.escaping = TRUE]
           [] OTHER           -> WriteRune(s, r)
    [] ~s.escaping /\ s.quote = "none" ->
         CASE r = "space"      -> FlushToken(s)
           [] r = "apostrophe" -> [s EXCEPT !.quote = "single", !.started = TRUE]
           [] r = "quotes"     -> [s EXCEPT !.quote = "double", !.started = TRUE]
           [] r = "backslash"  -> [s EXCEPT !.escaping = TRUE, !.started = TRUE]
           [] OTHER            -> WriteRune(s, r)

(* splitCommandLine; an open quote or escape is an error.                  *)
SplitCommandLine(line) ==
  LET s == FoldLeft(Consume, SplitState, line) IN
  IF s.escaping \/ s.quote # "none" THEN "error" ELSE FlushToken(s).args

-----------------------------------------------------------------------------
(* The leading command is a word, and no case asks for this value as one   *)
(* of the arguments: that would compare it with them as they stand.        *)
NamesOptions(value) ==
  \A i \in DOMAIN Whens :
    /\ Whens[i].first \subseteq {Word(v) : v \in Values}
    /\ Word(value) \notin Whens[i].haveAny \union Whens[i].lackAny \union ToSet(Additions[i].ifMissing)

Added(args) == SubSeq(PrepareCommand(args).args, Len(args) + 1, Len(PrepareCommand(args).args))

(* "the same option behaves differently in attached and split forms" when  *)
(* its declaration is missing: with it, the same case is selected, and     *)
(* adds the same arguments to the command.                                 *)
FormsAreAlike ==
  \A before, after \in BoundedSeq(Tokens, MaxArgs) :
    LET view == ParseArguments(before) IN
    (Len(before) + Len(after) <= MaxArgs /\ ~view.after /\ view.pending = "none") =>
      \A flag \in {f \in ValueFlags : f.kind = "long"}, v \in {v \in Values : NamesOptions(v)} :
        LET attached == before \o <<Attached(flag.name, v)>> \o after
            split == before \o <<flag, Word(v)>> \o after
        IN  CaseForArgs(attached) = CaseForArgs(split) /\ Added(attached) = Added(split)

Lines ==
  LET texts == BoundedSeq(Chars, MaxLine)
  IN  {<<text>> : text \in texts}
        \union UNION {{<<SubSeq(text, 1, n), SubSeq(text, n + 1, Len(text))>> : n \in 0..Len(text)} : text \in texts}

(* What is recorded of a command is read as the very command, so a replay  *)
(* selects the case the command would have (runner.go, capture.go).        *)
LinesAreRead == \A args \in Lines : SplitCommandLine(RenderCommandArgs(args)) = args
=============================================================================
