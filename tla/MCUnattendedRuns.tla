-------------------------- MODULE MCUnattendedRuns --------------------------
(* UnattendedRuns on small instances: no two runs and no two requests are   *)
(* told apart.                                                              *)
EXTENDS UnattendedRuns, TLC

Symmetry == Permutations(Requests) \cup Permutations(Runs)
=============================================================================
