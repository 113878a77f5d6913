--------------------------- MODULE MCCRTDecompose ---------------------------
(***************************************************************************)
(* Instances of CRTDecompose for TLC: rings of dimension 4, one thread per *)
(* tower.                                                                  *)
(***************************************************************************)
EXTENDS CRTDecompose, TLC

CONSTANTS a, b, c   \* threads

ThreeModuli == {17, 41, 97}
ThreeTowers == (a :> 17) @@ (b :> 97) @@ (c :> 41)
Roots       == (17 :> 2) @@ (41 :> 3) @@ (97 :> 33)

TowerCalls ==
  [t \in Threads |-> {TowerRequest(k, m) : k \in {"ForwardInPlace", "InverseInPlace"}, m \in Moduli}]
=============================================================================
