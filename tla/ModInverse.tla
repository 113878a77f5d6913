---------------------------- MODULE ModInverse ----------------------------
(***************************************************************************)
(* NativeIntegerT::ModInverse (ubintnathexl.h): the extended Euclidean     *)
(* loop, one iteration a step, on the signed words of the build.           *)
(*                                                                         *)
(* The loop runs while a > 1 and divides by rest, the modulus of the       *)
(* code's loop, without looking at it: for arguments with a common factor  *)
(* it reaches a division by zero, which stops the process and is no        *)
(* exception.                                                              *)
(***************************************************************************)
EXTENDS Integers

CONSTANTS
  Values,     \* the words to invert
  Mods,       \* the moduli
  SignedMax   \* the largest signed word

\* Every modulus is a signed word, as the sixty-bit limit on moduli makes it.
ASSUME InverseAssumption ==
  SignedMax \in Nat /\ Values \subseteq Nat /\ Mods \subseteq 1 .. SignedMax

VARIABLES
  argument, mod,   \* the arguments
  a, rest, x, y,   \* the loop's variables
  pc               \* "loop", "done", "threw" or "trapped"

inverseVars == <<argument, mod, a, rest, x, y, pc>>

Abs(n) == IF n < 0 THEN -n ELSE n

InverseInit ==
  /\ argument \in Values
  /\ mod \in Mods
  /\ a = argument % mod
  /\ rest = mod
  /\ x = 1
  /\ y = 0
  /\ pc = IF argument % mod = 0 THEN "threw" ELSE "loop"

IterateToNearest ==
  /\ pc = "loop" /\ a > 1 /\ rest # 0
  /\ a' = rest
  /\ rest' = a - ((2 * a + rest) \div (2 * rest)) * rest
  /\ x' = y
  /\ y' = x - ((2 * a + rest) \div (2 * rest)) * y
  /\ UNCHANGED <<argument, mod, pc>>

Iterate ==
  /\ pc = "loop" /\ a > 1 /\ rest # 0
  /\ a' = rest
  /\ rest' = a % rest
  /\ x' = y
  /\ y' = x - (a \div rest) * y
  /\ UNCHANGED <<argument, mod, pc>>

TrapAtOne ==
  /\ pc = "loop" /\ a >= 1 /\ rest = 0
  /\ pc' = "trapped"
  /\ UNCHANGED <<argument, mod, a, rest, x, y>>

Trap ==
  /\ pc = "loop" /\ a > 1 /\ rest = 0
  /\ pc' = "trapped"
  /\ UNCHANGED <<argument, mod, a, rest, x, y>>

ReturnUncorrected ==
  /\ pc = "loop" /\ a <= 1
  /\ pc' = "done"
  /\ UNCHANGED <<argument, mod, a, rest, x, y>>

ReturnBelowOne ==
  /\ pc = "loop" /\ a < 1
  /\ x' = IF x < 0 THEN x + mod ELSE x
  /\ pc' = "done"
  /\ UNCHANGED <<argument, mod, a, rest, y>>

ReturnAlwaysCorrected ==
  /\ pc = "loop" /\ a <= 1
  /\ x' = x + mod
  /\ pc' = "done"
  /\ UNCHANGED <<argument, mod, a, rest, y>>

ReturnInverse ==
  /\ pc = "loop" /\ a <= 1
  /\ x' = IF x < 0 THEN x + mod ELSE x
  /\ pc' = "done"
  /\ UNCHANGED <<argument, mod, a, rest, y>>

InverseNext == Iterate \/ Trap \/ ReturnInverse

InverseSpec == InverseInit /\ [][InverseNext]_inverseVars /\ WF_inverseVars(InverseNext)

-----------------------------------------------------------------------------
InverseTypeOK ==
  /\ argument \in Values /\ mod \in Mods
  /\ a \in Nat /\ rest \in Nat
  /\ x \in Int /\ y \in Int
  /\ pc \in {"loop", "done", "threw", "trapped"}

(* What is returned is the inverse, in canonical form: the product with    *)
(* the argument is one, and no multiple of the modulus is left.            *)
ReturnsInverse ==
  pc = "done" => x \in 0 .. mod - 1 /\ (mod > 1 => (x * argument) % mod = 1)

(* The signed words never overflow, nor does the product q * y on the way: *)
(* the coefficients stay within the modulus however long the loop runs.    *)
NoOverflow ==
  /\ Abs(x) <= SignedMax /\ Abs(y) <= SignedMax
  /\ pc = "loop" /\ a > 1 /\ rest # 0 => Abs((a \div rest) * y) <= SignedMax

(* The process only dies on arguments that have no inverse, and those that *)
(* have none never return.                                                 *)
Invertible == \E k \in 0 .. mod - 1 : (k * argument) % mod = 1
TrapsOnlyWithoutInverse ==
  /\ pc = "trapped" => ~Invertible
  /\ pc = "done" => Invertible

(* The loop ends for every pair of arguments.                              *)
Terminates == <>(pc # "loop")
=============================================================================
