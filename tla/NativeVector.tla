---------------------------- MODULE NativeVector ----------------------------
(***************************************************************************)
(* NativeVectorT (mubintvecnathexl.h and .cpp): a vector of words with a   *)
(* modulus, through its in-place member functions, any of them after any   *)
(* other.  A const member function does the same to a copy.  An operand    *)
(* vector of another length or modulus is refused before anything is       *)
(* assigned, and so is a modulus that is too long.                         *)
(*                                                                         *)
(* Every Fast function of NativeIntegerT trusts the entries to be below    *)
(* the modulus; the functions named in Extra do not keep them there.       *)
(***************************************************************************)
EXTENDS NativeEntries

CONSTANTS
  N,         \* length
  Moduli,    \* moduli of the vector, and to switch to
  MaxBits,   \* MAX_MODULUS_SIZE: no modulus is longer
  Scalars,   \* integers to combine with
  Extra      \* which of the functions that leave entries unreduced are used

VectorAssumption ==
  /\ N \in Nat \ {0} /\ MaxBits \in 1 .. W - 2
  /\ Moduli \subseteq 2 .. 2^MaxBits - 1 /\ Scalars \subseteq Word

VARIABLES data, modulus

vars == <<data, modulus>>

Index == 1 .. N
Vectors(m) == [Index -> 0 .. m - 1]

Init ==
  /\ modulus \in Moduli
  /\ data = [i \in Index |-> 0]

\* An in-place function that treats every entry alike, or by its index.
Each(f(_)) == data' = [i \in Index |-> f(data[i])] /\ UNCHANGED modulus
EachAt(f(_, _)) == data' = [i \in Index |-> f(data[i], i)] /\ UNCHANGED modulus

\* A scalar is reduced when it is not below the modulus.
ReducedUnlessEqual(b) == IF b > modulus THEN b % modulus ELSE b
ReducedScalar(b)      == IF b >= modulus THEN b % modulus ELSE b

-----------------------------------------------------------------------------
(* Modular arithmetic.                                                     *)

ModAddEq(b) ==
  LET bv == ReducedScalar(b) IN Each(LAMBDA x : ModAddFast(x, bv, modulus))
ModSubEq(b) ==
  LET bv == ReducedScalar(b) IN Each(LAMBDA x : ModSubFast(x, bv, modulus))
ModMulEq(b) ==
  LET bv == ReducedScalar(b) IN Each(LAMBDA x : EltwiseFMAMod(x, bv, modulus))

ModAddVectorEq(v) == EachAt(LAMBDA x, i : ModAddFast(x, v[i], modulus))
ModSubVectorEq(v) == EachAt(LAMBDA x, i : ModSubFast(x, v[i], modulus))
ModMulVectorEq(v) == EachAt(LAMBDA x, i : EltwiseMultMod(x, v[i], modulus))

ModAddAtIndexEq(k, b) ==
  EachAt(LAMBDA x, i : IF i = k THEN ModAdd(x, b, modulus) ELSE x)

MultAccEqNoCheck(v, b) ==
  LET iv   == ReducedScalar(b)
      iinv == PrepModMulConst(iv, modulus)
  IN  EachAt(LAMBDA x, i : ModAddFast(x, ModMulFastConst(v[i], iv, modulus, iinv), modulus))

(* The exponent is reduced by the modulus, too.                            *)
ModExp(b) == LET bv == ReducedScalar(b) IN [i \in Index |-> Power(data[i], bv, modulus)]
ModExpEq(b) == data' = ModExp(b) /\ UNCHANGED modulus

(* A multiple of the modulus throws, when the entries before it are        *)
(* inverted already.  For an entry that has a factor in common with the    *)
(* modulus there is no call to speak of: the process stops (ModInverse).   *)
ModInverseEq ==
  LET bad  == {i \in Index : data[i] % modulus = 0}
      done == {i \in Index : \A j \in bad : i < j}
  IN  /\ \A i \in done : HasInverse(data[i], modulus)
      /\ EachAt(LAMBDA x, i : IF i \in done THEN InverseOf(x, modulus) ELSE x)

\* Entries are multiplied as words, without the modulus.
MultInWiderType(v) == EachAt(LAMBDA x, i : x * v[i])
MultWithOutMod(v)  == EachAt(LAMBDA x, i : Wrap(x * v[i]))

-----------------------------------------------------------------------------
(* Changes of the modulus.                                                 *)

SwitchModulus(nm) ==
  /\ GetMSB(nm) <= MaxBits
  /\ modulus' = nm
  /\ data' = [i \in Index |-> SwitchEntry(data[i], modulus, nm)]

LazySwitchModulus(nm) ==
  /\ GetMSB(nm) <= MaxBits
  /\ modulus' = nm
  /\ data' = [i \in Index |-> EltwiseReduceMod(data[i], nm)]

ModByTwoEq == Each(LAMBDA x : FlippedAboveHalf(x, modulus))

(* The modulus stays, though the entries are those of another.             *)
ModEq(nm) == Each(LAMBDA x : ModEntry(x, modulus, nm))

-----------------------------------------------------------------------------
(* Rounding.                                                               *)

DivideAndRoundEq(q) == q # 0 /\ Each(LAMBDA x : DivideEntry(x, modulus, q))

MultiplyAndRoundEq(p, q) ==
  /\ q # 0
  /\ LET rounded == [i \in Index |-> MultiplyEntry(data[i], modulus, p, q)]
     IN  data' \in {v \in [Index -> UNION Range(rounded)] : \A i \in Index : v[i] \in rounded[i]}
  /\ UNCHANGED modulus

-----------------------------------------------------------------------------
(* Assignment.  A list is reduced and padded with zeros (one longer than   *)
(* the vector would lengthen it); a single value goes to the first entry   *)
(* as it is.                                                               *)

AssignList(list) ==
  /\ Len(list) <= N
  /\ EachAt(LAMBDA x, i : IF i <= Len(list) THEN list[i] % modulus ELSE 0)

AssignValue(val) == EachAt(LAMBDA x, i : IF i = 1 THEN val ELSE 0)

-----------------------------------------------------------------------------
Modular ==
  \/ \E b \in Scalars : ModAddEq(b) \/ ModSubEq(b) \/ ModMulEq(b) \/ ModExpEq(b)
  \/ \E v \in Vectors(modulus) :
       \/ ModAddVectorEq(v) \/ ModSubVectorEq(v) \/ ModMulVectorEq(v)
       \/ \E b \in Scalars : MultAccEqNoCheck(v, b)
  \/ \E k \in Index, b \in Scalars : ModAddAtIndexEq(k, b)
  \/ ModInverseEq

Switching ==
  \/ \E nm \in Moduli : SwitchModulus(nm) \/ LazySwitchModulus(nm)
  \/ ModByTwoEq

Leaving ==
  \/ "DivideAndRound" \in Extra /\ \E q \in Scalars : DivideAndRoundEq(q)
  \/ "MultiplyAndRound" \in Extra /\ \E p, q \in Scalars : p < q /\ MultiplyAndRoundEq(p, q)
  \/ "Mod" \in Extra /\ \E nm \in Moduli : ModEq(nm)
  \/ "AssignValue" \in Extra /\ \E b \in Scalars : AssignValue(b)
  \/ "MultWithOutMod" \in Extra /\ \E v \in Vectors(modulus) : MultWithOutMod(v)

Next ==
  \/ Modular
  \/ Switching
  \/ \E list \in UNION {[1 .. n -> Scalars] : n \in 0 .. N} : AssignList(list)
  \/ Leaving

Spec == Init /\ [][Next]_vars

-----------------------------------------------------------------------------
TypeOK == modulus \in Moduli /\ data \in [Index -> Word]

(* What every Fast function of the entries trusts ("where operands are <   *)
(* modulus"): each entry is below the modulus, whatever was called before. *)
EntriesBelowModulus == \A i \in Index : data[i] < modulus

(* Switching the modulus keeps the centred value: the comparisons and the  *)
(* two conditional subtractions agree with reducing it by the new modulus, *)
(* for the entries that a chain of modular operations and switches leaves, *)
(* and for any other entry below the modulus.                              *)
SwitchKeepsCentre ==
  [][\A nm \in Moduli :
       SwitchModulus(nm) =>
         \A i \in Index :
           Extra = {} \/ data[i] < modulus => data'[i] = Centre(data[i], modulus) % nm]_vars

(* Modulo two, an entry becomes the parity of its centred value (odd       *)
(* moduli: with an even one the flip for negative entries is wrong).       *)
ParityOfCentre ==
  [][ModByTwoEq /\ modulus % 2 = 1 =>
       \A i \in Index : data'[i] = Centre(data[i], modulus) % 2]_vars

(* Rounding functions round the centred value to a nearest integer, below  *)
(* zero as above it, for every denominator, even or odd.  It takes entries *)
(* that are not above the modulus: the rounding functions leave no other.  *)
RoundsCentre ==
  [][/\ "DivideAndRound" \in Extra =>
          \A q \in Scalars :
            DivideAndRoundEq(q) =>
              \A i \in Index : data[i] <= modulus => IsRounded(data'[i], data[i], modulus, 1, q)
     /\ "MultiplyAndRound" \in Extra =>
          \A p, q \in Scalars :
            p < q /\ MultiplyAndRoundEq(p, q) =>
              \A i \in Index : data[i] <= modulus => IsRounded(data'[i], data[i], modulus, p, q)]_vars

(* What the entries stand for, as centred values, survives every change of *)
(* the modulus and every rounding.                                         *)
CentresKept == SwitchKeepsCentre /\ ParityOfCentre /\ RoundsCentre
=============================================================================
