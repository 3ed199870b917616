------------------------- MODULE MCProviderConfig -------------------------
(* Instances of ProviderConfig: all managed resources live in one         *)
(* namespace, which is not always the only one.                           *)
EXTENDS ProviderConfig, TLC

CONSTANTS m1, m2, n1, n2, c1, c2

OneNamespace == [m \in Managed |-> n1]

Elsewhere == [m \in Managed |-> n2]

Symmetry == Permutations({m1, m2}) \cup Permutations({c1, c2})
===========================================================================
