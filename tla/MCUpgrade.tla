----------------------------- MODULE MCUpgrade -----------------------------
(* Instances of Upgrade: two versions, of which the second ships one filter *)
(* and one alias more.                                                      *)
EXTENDS Upgrade, TLC

CONSTANTS a, b

MCSymmetry == Permutations(Procs)
MCTarget == [x \in {a, b} |-> IF x = a THEN 1 ELSE 2]
MCShipped == [v \in 1..2 |-> IF v = 1 THEN {1, a} ELSE {1, 2, a, b}]
=============================================================================
