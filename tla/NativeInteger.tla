--------------------------- MODULE NativeInteger ---------------------------
(***************************************************************************)
(* A NativeIntegerT used as an accumulator of modular arithmetic: its      *)
(* in-place member functions (ubintnathexl.h), any of them after any       *)
(* other, over the words of NativeWord.                                    *)
(*                                                                         *)
(* A function without Fast in its name takes any word.  One with Fast      *)
(* trusts its caller that both operands are below the modulus ("where      *)
(* operands are < modulus").  One that reduces with mu is only right for   *)
(* dividends below 2^(2n + 2), for a modulus of n bits: one bit less than  *)
(* the comment on ComputeMu grants, for at 2^(2n + 2) and above one        *)
(* correction of the quotient is no longer enough.                         *)
(***************************************************************************)
EXTENDS NativeWord

CONSTANTS
  Moduli,  \* the moduli in use
  Words    \* the words the accumulator starts with and is combined with

ASSUME NativeAssumption ==
  /\ \A m \in Moduli : BarrettModulus(m)
  /\ Words \subseteq Word

VARIABLES
  value, modulus, mu,
  applied   \* the operation that has just been applied, as the ring knows it,
            \* and its operand

vars == <<value, modulus, mu, applied>>

Applied(op, b) == [op |-> op, by |-> b]
Nothing        == Applied("Keep", -1)

Init ==
  /\ value \in Words
  /\ modulus \in Moduli
  /\ mu = ComputeMu(modulus)
  /\ applied = Nothing

TypeOK ==
  /\ value \in Word
  /\ modulus \in Moduli
  /\ mu \in Word
  /\ applied \in [op : {"Keep", "Plus", "Minus", "Times"}, by : Int]

Residue     == 0 .. modulus - 1
Dividend(x) == x < 2^(2 * GetMSB(modulus) + 2)

Leaves(op, b, x) == value' = x /\ applied' = Applied(op, b)

-----------------------------------------------------------------------------
(* Any words.                                                              *)
ModEq       == Leaves("Keep", 0, value % modulus)
ModAddEq(b) == Leaves("Plus", b, ModAdd(value, b, modulus))
ModSubEq(b) == Leaves("Minus", b, ModSub(value, b, modulus))
ModMulEq(b) == Leaves("Times", b, ModMul(value, b, modulus))

ModMulFastConstEq(b, bInv) == Leaves("Times", b, ModMulFastConst(value, b, modulus, bInv))

(* Dividends.                                                              *)
ModEqMu       == Leaves("Keep", 0, ModBarrett(value, modulus, mu))
ModAddEqMu(b) == Leaves("Plus", b, ModAddMu(value, b, modulus, mu))
ModSubEqMu(b) == Leaves("Minus", b, ModSubMu(value, b, modulus, mu))
ModMulEqMu(b) == Leaves("Times", b, ModMulMu(value, b, modulus, mu))
ModMulEqD(b)   == Leaves("Times", b, ModMulD(value, b, modulus))
ModMulEqMuD(b) == Leaves("Times", b, ModMulMuD(value, b, modulus, mu))

(* Residues.                                                               *)
ModAddFastEq(b)    == Leaves("Plus", b, ModAddFast(value, b, modulus))
ModSubFastEq(b)    == Leaves("Minus", b, ModSubFast(value, b, modulus))
ModMulFastEq(b)    == Leaves("Times", b, ModMulFast(value, b, modulus))
ModMulFastEqMu(b)  == Leaves("Times", b, ModMulFastMu(value, b, modulus, mu))
ModMulFastEqD(b)   == Leaves("Times", b, ModMulFastD(value, b, modulus))
ModMulFastEqMuD(b) == Leaves("Times", b, ModMulFastMuD(value, b, modulus, mu))

-----------------------------------------------------------------------------
OnAnyWord ==
  \/ ModEq
  \/ \E b \in Words : ModAddEq(b) \/ ModSubEq(b) \/ ModMulEq(b)
  \/ \E b \in Residue : ModMulFastConstEq(b, PrepModMulConst(b, modulus))

OnDividends ==
  /\ Dividend(value)
  /\ \/ ModEqMu
     \/ \E b \in Words :
          /\ Dividend(b)
          /\ \/ ModAddEqMu(b) \/ ModSubEqMu(b) \/ ModMulEqMu(b)
             \/ ShiftsFit(modulus) /\ (ModMulEqD(b) \/ ModMulEqMuD(b))

OnResidues ==
  /\ value \in Residue
  /\ \E b \in Residue :
       \/ ModAddFastEq(b) \/ ModSubFastEq(b) \/ ModMulFastEq(b) \/ ModMulFastEqMu(b)
       \/ ShiftsFit(modulus) /\ (ModMulFastEqD(b) \/ ModMulFastEqMuD(b))

\* The caller has the result; only the value is left.
TakeResult == applied' = Nothing /\ UNCHANGED value

Next ==
  /\ \/ applied = Nothing /\ (OnAnyWord \/ OnDividends \/ OnResidues)
     \/ applied # Nothing /\ TakeResult
  /\ UNCHANGED <<modulus, mu>>

Spec == Init /\ [][Next]_vars

-----------------------------------------------------------------------------
(* Every in-place modular operation leaves a canonical residue, whatever   *)
(* word it started from: the Fast operations that follow rely on it, and a *)
(* quotient one too small shows up there, not where it was made.           *)
LeavesResidue == applied # Nothing => value \in Residue

(* Whatever reduction an operation uses, it does exactly what the ring     *)
(* does: the wrapping word arithmetic, the truncated quotients and the     *)
(* single conditional subtractions lose nothing over any chain of calls.   *)
Ring == INSTANCE ResidueRing WITH residue <- value % modulus
ImplementsRing == Ring!Spec
=============================================================================
