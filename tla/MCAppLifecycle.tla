--------------------------- MODULE MCAppLifecycle ---------------------------
(* Values for the constants of AppLifecycle and the symmetry of its models. *)
EXTENDS AppLifecycle, TLC

TaskSymmetry == Permutations(Tasks)
=============================================================================
