---------------------------- MODULE MCSharedVault ----------------------------
(* SharedVault on small instances: values are model values nothing tells    *)
(* apart.                                                                   *)
EXTENDS SharedVault

Symmetry == Permutations(Values)

\* bound: with a change of the roster, one mishap, and either every item version or
\* one version beside a copy of a replica; without, all that the constants allow.
Bounded ==
  Changes > 0 => \A d \in Devices :
    /\ mishaps <= 1 /\ Cardinality(copies[d]) <= 1
    /\ copies[d] # {} => Count(ItemOp) <= 1

\* Spec without the steps that leave the bound.
BoundedSpec == Init /\ [][Next /\ Bounded']_vars
=============================================================================
