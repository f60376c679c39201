---------------------------- MODULE MCAgentService ----------------------------
(* AgentService on small instances: threads are model values that nothing   *)
(* tells apart.                                                              *)
EXTENDS AgentService, TLC

Symmetry == Permutations(Threads)
=============================================================================
