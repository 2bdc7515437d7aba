----------------------------- MODULE MCRecovery -----------------------------
(* The symmetry of the models of Recovery. *)
EXTENDS Recovery, TLC

JobSymmetry == Permutations(Jobs)
=============================================================================
