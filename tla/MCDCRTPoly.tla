----------------------------- MODULE MCDCRTPoly -----------------------------
(***************************************************************************)
(* Instances of DCRTPoly for TLC.                                          *)
(***************************************************************************)
EXTENDS DCRTPoly, TLC

CONSTANTS a, b   \* objects

OneModulus  == <<17>>
TwoModuli   == <<17, 41>>
Extension   == <<97>>

(* No operation treats one object in another way than the others.          *)
Symmetry == Permutations(Objects)

(* A polynomial with values, of which nothing is asked but its powers.     *)
PowersNext == \E x \in Objects : SwitchFormat(x) \/ PowersOfBase(x)
PowersSpec == Init /\ [][PowersNext]_vars

(* PowersOfBase returns for a polynomial that has values: it is there to   *)
(* give {x, base*x, base^2*x, ...} for the key of a relinearization.       *)
PowersOfBaseReturns == Running
=============================================================================
