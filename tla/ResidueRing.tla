---------------------------- MODULE ResidueRing ----------------------------
(***************************************************************************)
(* What modular arithmetic promises: an accumulator in the ring of         *)
(* integers modulo a number, to which integers are added, from which they  *)
(* are subtracted, and which is multiplied by them, exactly.               *)
(*                                                                         *)
(* The record applied names the operation of a step and its operand.       *)
(***************************************************************************)
EXTENDS Integers

CONSTANT Moduli
VARIABLES residue, modulus, applied

vars == <<residue, modulus, applied>>

Is(op)     == applied'.op = op
Becomes(x) == residue' = x % modulus
By         == applied'.by

Init ==
  /\ modulus \in Moduli
  /\ residue \in 0 .. modulus - 1

Next ==
  /\ UNCHANGED modulus
  /\ \/ Is("Keep")  /\ UNCHANGED residue
     \/ Is("Plus")  /\ Becomes(residue + By)
     \/ Is("Minus") /\ Becomes(residue - By)
     \/ Is("Times") /\ Becomes(residue * By)

Spec == Init /\ [][Next]_vars
=============================================================================
