--------------------------- MODULE NativeEntries ---------------------------
(***************************************************************************)
(* What the functions of NativeVectorT do to one entry                     *)
(* (mubintvecnathexl.cpp): an entry x of a vector with modulus m or om.    *)
(* Entries stand for residues, and where a function rounds, divides or     *)
(* changes the modulus, for the centred ones: an entry above half the      *)
(* modulus is negative.  Operators named Eltwise... are HEXL's.            *)
(***************************************************************************)
EXTENDS NativeDigits

Half(m) == m \div 2

\* The centred residue that x stands for modulo m.
Centre(x, m) == IF x > Half(m) THEN x - m ELSE x

EltwiseFMAMod(x, b, m)               == (x * b) % m
EltwiseMultMod(x, y, m)              == (x * y) % m
EltwiseReduceMod(x, nm)              == x % nm
EltwiseCmpAdd(x, bound, diff)        == IF x > bound THEN Wrap(x + diff) ELSE x
EltwiseCmpSubMod(x, nm, bound, diff) == IF x > bound THEN (x - diff) % nm ELSE x % nm

Power(x, n, m) ==
  LET power[i \in 0 .. n] == IF i = 0 THEN 1 % m ELSE (power[i - 1] * x) % m IN power[n]

\* ModInverse of an entry that has an inverse; module ModInverse has the loop.
HasInverse(x, m) == \E y \in 0 .. m - 1 : (x * y) % m = 1
InverseOf(x, m)  == CHOOSE y \in 0 .. m - 1 : (x * y) % m = 1

-----------------------------------------------------------------------------
(* Changes of the modulus.                                                 *)

SwitchEntryAtHalf(x, om, nm) ==
  IF nm > om THEN EltwiseCmpAdd(x, Half(om) - 1, nm - om)
  ELSE EltwiseCmpSubMod(x, nm, Half(om) - 1, (om - nm) % nm)

SwitchEntry(x, om, nm) ==
  IF nm > om THEN EltwiseCmpAdd(x, Half(om), nm - om)
  ELSE EltwiseCmpSubMod(x, nm, Half(om), (om - nm) % nm)

\* The low bit of x, flipped for a negative entry.
FlippedAtHalf(x, m)    == IF x >= Half(m) THEN (x + 1) % 2 ELSE x % 2
FlippedAboveHalf(x, m) == IF x > Half(m) THEN (x + 1) % 2 ELSE x % 2

ModEntry(x, om, nm) == IF nm = 2 THEN FlippedAboveHalf(x, om) ELSE SwitchEntry(x, om, nm)

-----------------------------------------------------------------------------
(* Rounding.  A negative entry is rounded by its size, and the modulus     *)
(* itself is left where it rounds to zero.                                 *)

DivideEntry(x, m, q) ==
  IF x > Half(m) THEN Wrap(m - RoundedQuotient(Wrap(m - x), q)) ELSE RoundedQuotient(x, q)

MultiplyEntry(x, m, p, q) ==
  IF x > Half(m) THEN {Wrap(m - t) : t \in RoundedProduct(Wrap(m - x), p, q)}
  ELSE {t % m : t \in RoundedProduct(x, p, q)}

\* new is old times p / q, both centred, to a nearest integer.
IsRounded(new, old, m, p, q) ==
  LET c == IF old > Half(m) THEN new - m ELSE new
  IN  2 * (c * q - Centre(old, m) * p) \in -q .. q
=============================================================================
