-------------------------- MODULE MCRecoveryStore --------------------------
(* Instances of RecoveryStore. *)
EXTENDS RecoveryStore, TLC

MCSymmetry == Permutations(Procs)
=============================================================================
