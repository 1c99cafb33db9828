----------------------------- MODULE MCCapture -----------------------------
(* Instances of Capture: two of the four expectations; and of Redaction,   *)
(* which no step of a capture changes.                                     *)
EXTENDS Capture, Redaction, TLC

MCSymmetry == Permutations(Procs)
MCExpected == <<"output", "decisions">>

MCValues == {<<"a">>, <<"a", "b">>, <<"b", "a", "a">>, <<"*", "b">>}
MCSecrets == {<<>>} \union {<<v>> : v \in MCValues \union {<<"a", "a">>}} \union {<<v, w>> : v, w \in MCValues}

(* Redaction does not depend on how the output arrives; it is looked at    *)
(* before anything has happened.                                           *)
RedactionIgnoresCuts == captures = 0 /\ verifies = 0 => CutsDoNotMatter
=============================================================================
