------------------------------ MODULE MCVaultFile ------------------------------
(* VaultFile on small instances: sessions are model values that nothing      *)
(* tells apart.                                                              *)
EXTENDS VaultFile, TLC

Symmetry == Permutations(Sessions)
=============================================================================
