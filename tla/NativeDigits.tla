---------------------------- MODULE NativeDigits ----------------------------
(***************************************************************************)
(* The binary digits of a NativeIntegerT (ubintnathexl.h): its length, its *)
(* bits, and its digits in a base that is a power of two; and the two      *)
(* roundings of a quotient.                                                *)
(***************************************************************************)
EXTENDS NativeWord, Sequences, SequencesExt

\* The length in bits, whatever the base.
GetLengthForBase(x) == GetMSB(x)

\* The values the bit at an index, counted from 1, can have.  A shift by W or
\* more is undefined: the hardware takes it modulo W, a compiler that sees it
\* may produce zero.
GetBitAtIndex(x, index) ==
  IF index <= W THEN {(x \div 2^(index - 1)) % 2}
  ELSE {0, (x \div 2^((index - 1) % W)) % 2}

\* The values the digit at an index, counted from 1, can have in base 2^len.
GetDigitAtIndexFromZero(x, index, len) ==
  LET Bit(digits, i) == {d + b * 2^i : d \in digits, b \in GetBitAtIndex(x, 1 + index * len + i)}
  IN  FoldLeft(Bit, {0}, [i \in 1 .. len |-> i - 1])

GetDigitAtIndexForBase(x, index, len) ==
  LET newIndex == 1 + (index - 1) * len
      Bit(digits, i) == {d + b * 2^i : d \in digits, b \in GetBitAtIndex(x, newIndex + i)}
  IN  FoldLeft(Bit, {0}, [i \in 1 .. len |-> i - 1])

\* The number of digits of len bits that BaseDecompose and PowersOfBase take
\* for a modulus.
NumWindows(modulus, len) ==
  LET nBits == GetLengthForBase(modulus)
  IN  IF nBits % len > 0 THEN nBits \div len + 1 ELSE nBits \div len

-----------------------------------------------------------------------------
(* Rounding.                                                               *)

RoundedUpAtHalf(a, q) == IF a % q >= q \div 2 THEN a \div q + 1 ELSE a \div q
RoundedQuotient(a, q) == IF a % q > q \div 2 THEN a \div q + 1 ELSE a \div q

\* What MultiplyAndRound, which computes in doubles, can return for operands
\* far below the precision of a double: a * p / q to the nearest integer, where
\* an exact half may have been rounded below the half on the way.
RoundedProduct(a, p, q) ==
  LET r == (2 * a * p + q) \div (2 * q)
  IN  IF (2 * a * p + q) % (2 * q) = 0 THEN {r, r - 1} ELSE {r}
=============================================================================
