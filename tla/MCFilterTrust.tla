--------------------------- MODULE MCFilterTrust ---------------------------
(* Instances of the project filters for TLC: a.yaml, a.yml, b.yaml; and    *)
(* of what is read from arguments, which no step changes.                  *)
EXTENDS FilterUse, TLC

CONSTANTS a, b

MCTools == {a, b}
MCExact == a :> {1, 2} @@ b :> {3}

Defined(tool) == [kind |-> "ok", filter |-> tool]
MCHome == [files |-> 1 :> Defined(a), map |-> b :> a]
MCLayouts == {Empty, MCHome}

MCValueFlags == {Long("output"), Short({"C"})}

AnyCase ==
  [first |-> {}, haveAny |-> {}, lackAny |-> {}, sequence |-> <<>>, haveShort |-> {}, lackShort |-> {},
   allShort |-> {}, notAllShort |-> {}, positionalsLack |-> {}, noPositionals |-> FALSE]
NoAddition == [shortFlags |-> <<>>, ifMissing |-> <<>>, ifNoPositionals |-> <<>>]

MCWhens ==
  <<[AnyCase EXCEPT !.sequence = <<Attached("output", "v"), Word("w")>>],
    [AnyCase EXCEPT !.haveAny = {Attached("output", "w")}, !.allShort = {"C"}],
    [AnyCase EXCEPT !.lackAny = {Long("output")}, !.haveShort = {"C"}],
    [AnyCase EXCEPT !.first = {Word("v")}, !.noPositionals = TRUE, !.lackShort = {"C"}],
    [AnyCase EXCEPT !.positionalsLack = {Word("w")}, !.notAllShort = {"C"}]>>
MCAdditions ==
  <<NoAddition, [NoAddition EXCEPT !.ifMissing = <<Attached("output", "v")>>],
    [NoAddition EXCEPT !.shortFlags = <<"C">>], [NoAddition EXCEPT !.ifNoPositionals = <<Word("w")>>],
    [NoAddition EXCEPT !.ifMissing = <<Long("plain"), Attached("output", "w")>>, !.ifNoPositionals = <<Word("v")>>]>>

Symmetric == Permutations(Procs)
=============================================================================
