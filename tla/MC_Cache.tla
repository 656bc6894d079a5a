------------------------------ MODULE MC_Cache ------------------------------
(***************************************************************************)
(* Small instances of TimeAndSizeBoundedCache for TLC.                     *)
(***************************************************************************)
EXTENDS TimeAndSizeBoundedCache

CONSTANTS k1, k2, k3, k4, n1, n2, n3, n4, v1, v2

FourKeys == {k1, k2, k3, k4}
ThreeKeys == {k1, k2, k3}
TwoKeys == {k1, k2}
FourNodes == {n1, n2, n3, n4}
ThreeNodes == {n1, n2, n3}
TwoNodes == {n1, n2}
OneValue == {v1}
TwoValues == {v1, v2}

\* Nodes, keys and values are only ever compared.
Interchangeable ==
  Permutations(Keys) \union Permutations(Nodes) \union Permutations(Values)
=============================================================================
