------------------------------ MODULE PolyRing ------------------------------
(***************************************************************************)
(* What a polynomial with one modulus promises: an element of the integers *)
(* modulo q, adjoined a root of X^N + 1, and the operations on it, each by *)
(* its definition on coefficients.  Nothing here knows of formats.         *)
(*                                                                         *)
(* The record call names the operation of a step and its argument.         *)
(***************************************************************************)
EXTENDS NegacyclicRing

VARIABLES element, modulus, call

vars == <<element, modulus, call>>

Becomes(x)  == element' = Modulo(x, modulus) /\ modulus' = modulus
Moves(x, m) == element' = Modulo(x, m) /\ modulus' = m
Is(op)      == call'.op = op
Arg         == call'.arg
Lifted      == Centred(element, modulus)

\* A new element of the same ring that is not given by a formula.
Solves(Fits(_)) == modulus' = modulus /\ element' \in Ring(modulus) /\ Fits(element')

Init == element \in Ring(modulus)

Next ==
  \/ Is("Keep")     /\ UNCHANGED <<element, modulus>>
  \/ Is("Assign")   /\ Moves(Arg, modulus')
  \/ Is("Plus")     /\ Becomes(Plus(element, Arg))
  \/ Is("Minus")    /\ Becomes(Minus(element, Arg))
  \/ Is("Times")    /\ Becomes(Times(element, Arg))
  \/ Is("TimesInt") /\ Becomes(Scaled(element, Arg))
  \/ Is("MultAcc")  /\ Becomes(Plus(element, Scaled(Arg.by, Arg.factor)))
  \/ Is("AtPower")  /\ Becomes(AtPower(element, Arg))
  \/ Is("Sparse")   /\ Becomes(Sparse(element, Arg))
  \/ Is("Mod")      /\ Becomes(Modulo(Lifted, Arg))
  \/ Is("Switch")   /\ Moves(Lifted, Arg)
  \/ Is("Reduce")   /\ Moves(element, Arg)
  \/ Is("Inverse")  /\ Solves(LAMBDA y : Modulo(Times(element, y), modulus) = Constant(1))
  \/ Is("Spoil")    /\ Solves(LAMBDA y : TRUE)
  \/ Is("Round")    /\ Solves(LAMBDA y : Nearest(Centred(y, modulus), Lifted, Arg.p, Arg.q))

Spec == Init /\ [][Next]_vars
=============================================================================
