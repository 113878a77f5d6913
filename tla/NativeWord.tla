----------------------------- MODULE NativeWord -----------------------------
(***************************************************************************)
(* The word arithmetic of NativeIntegerT (ubintnathexl.h): what its const  *)
(* member functions return, for words of W bits.  The build has W = 64, or *)
(* W = 32; nothing here depends on the value, and TLC takes a small one.   *)
(* Every sum, difference and product of words wraps at 2^W, as NativeInt   *)
(* does; a double word (typeD) is a pair of words.                         *)
(*                                                                         *)
(* Modular functions come in three kinds.  The plain ones use the word's   *)
(* own % operator.  Those that take mu use Barrett reduction.  Those that  *)
(* take a precomputed inverse use Shoup's method.  The overloads for a     *)
(* word type with no wider integer (DNativeInt = NativeInt) work on typeD  *)
(* all the way, and end in D here.                                         *)
(***************************************************************************)
EXTENDS Integers

CONSTANT W   \* bits in a word

ASSUME WordAssumption == W \in Nat /\ W > 7

\* The law of powers of two, over the exponents that occur.
ASSUME PowerAssumption ==
  /\ \A i \in 0 .. 2 * W : 2^i \in Nat \ {0}
  /\ \A i, j \in 0 .. 2 * W : i + j <= 2 * W => 2^(i + j) = 2^i * 2^j
  /\ 2^1 = 2

Word    == 0 .. 2^W - 1
Wrap(x) == x % 2^W
Signed(x) == IF x < 2^(W - 1) THEN x ELSE x - 2^W   \* static_cast<SignedNativeInt>

\* The position of the highest bit set, counted from 1; 0 for 0.
GetMSB(x) == CHOOSE n \in 0 .. W : x < 2^n /\ (n = 0 \/ 2^(n - 1) <= x)

-----------------------------------------------------------------------------
(* Double words.                                                           *)

MultD(a, b) == [hi |-> (a * b) \div 2^W, lo |-> (a * b) % 2^W]

GetD(x) == x.hi * 2^W + x.lo

SubtractD(res, a) ==
  [lo |-> Wrap(res.lo - a.lo),
   hi |-> Wrap(res.hi - a.hi - (IF res.lo < a.lo THEN 1 ELSE 0))]

\* The two parts have no bit in common, so the code's | is a sum.  The shift
\* is 1 .. W - 1: outside it the code is undefined.
RShiftD(x, shift) == (x.lo \div 2^shift) + Wrap(x.hi * 2^(W - shift))

MultDHi(a, b) == MultD(a, b).hi

\* The product from half words, for the targets without a wider integer.
MultDSchoolNoCarry(a, b) ==
  LET H    == 2^(W \div 2)
      p1   == (a % H) * (b \div H)
      p2   == (a \div H) * (b % H)
      temp == Wrap(p1 + p2)
      low  == (a % H) * (b % H)
      lo   == Wrap(low + (temp % H) * H)
  IN  [lo |-> lo, hi |-> (a \div H) * (b \div H) + temp \div H + (IF low > lo THEN 1 ELSE 0)]

MultDSchool(a, b) ==
  LET H    == 2^(W \div 2)
      p1   == (a % H) * (b \div H)
      p2   == (a \div H) * (b % H)
      temp == Wrap(p1 + p2)
      low  == (a % H) * (b % H)
      lo   == Wrap(low + (temp % H) * H)
  IN  [lo |-> lo,
       hi |-> Wrap((a \div H) * (b \div H) + temp \div H
                   + (IF low > lo THEN 1 ELSE 0)
                   + (IF temp < p1 \/ temp < p2 THEN H ELSE 0))]

-----------------------------------------------------------------------------
(* Barrett reduction.                                                      *)

ComputeMu(m) == Wrap(2^(2 * GetMSB(m) + 3) \div m)

\* The last step of every reduction: one conditional subtraction.
NotCorrected(r, m)   == r
CorrectedBelow(r, m) == IF r < m THEN r - m ELSE r
CorrectedOnce(r, m)  == IF r >= m THEN r - m ELSE r

ModMu(a, m, mu, n) ==
  LET prod == MultD(RShiftD([hi |-> 0, lo |-> a], n), mu)
  IN  CorrectedOnce(Wrap(a - (GetD(prod) \div 2^(n + 7)) * m), m)

ModMuD(a, m, mu, n) ==
  LET prod == MultD(RShiftD([hi |-> 0, lo |-> a], n), mu)
  IN  CorrectedOnce(Wrap(a - MultD(RShiftD(prod, n + 7), m).lo), m)

\* Mod(modulus, mu), and the conditional reductions of the other functions.
ModBarrett(a, m, mu) == ModMu(a, m, mu, GetMSB(m) - 2)
Reduced(a, m, mu)    == IF a >= m THEN ModBarrett(a, m, mu) ELSE a
ReducedD(a, m, mu)   == IF a >= m THEN ModMuD(a, m, mu, GetMSB(m) - 2) ELSE a

-----------------------------------------------------------------------------
(* Sums and differences.                                                   *)

ModAddFast(a, b, m) == CorrectedOnce(Wrap(a + b), m)
ModAdd(a, b, m)     == ModAddFast(a % m, b % m, m)
ModAddMu(a, b, m, mu) == ModAddFast(Reduced(a, m, mu), Reduced(b, m, mu), m)

ModSubFastUnguarded(a, b, m) == Wrap(a - b)
ModSubFast(a, b, m) == IF a < b THEN Wrap(a + m - b) ELSE a - b
ModSub(a, b, m)     == ModSubFast(a % m, b % m, m)
ModSubMu(a, b, m, mu) == ModSubFast(Reduced(a, m, mu), Reduced(b, m, mu), m)

-----------------------------------------------------------------------------
(* Products.                                                               *)

ModMulFast(a, b, m) == (a * b) % m
ModMul(a, b, m)     == ModMulFast(a % m, b % m, m)

ModMulFastMuWrongShift(a, b, m, mu) ==
  LET n   == GetMSB(m) - 2
      tmp == MultD(RShiftD(MultD(a, b), n), mu)
  IN  CorrectedOnce(Wrap(a * b - m * (GetD(tmp) \div 2^(n + 6))), m)

ModMulFastMu(a, b, m, mu) ==
  LET n   == GetMSB(m) - 2
      tmp == MultD(RShiftD(MultD(a, b), n), mu)
  IN  CorrectedOnce(Wrap(a * b - m * (GetD(tmp) \div 2^(n + 7))), m)

ModMulMu(a, b, m, mu) == ModMulFastMu(Reduced(a, m, mu), Reduced(b, m, mu), m, mu)

ModMulFastMuD(a, b, m, mu) ==
  LET n    == GetMSB(m) - 2
      prod == MultD(a, b)
      tmp  == MultD(RShiftD(prod, n), mu)
  IN  CorrectedOnce(SubtractD(prod, MultD(RShiftD(tmp, n + 7), m)).lo, m)

ModMulMuD(a, b, m, mu) == ModMulFastMuD(ReducedD(a, m, mu), ReducedD(b, m, mu), m, mu)
ModMulFastD(a, b, m)   == ModMulFastMuD(a, b, m, ComputeMu(m))
ModMulD(a, b, m)       == ModMulMuD(a, b, m, ComputeMu(m))

(* A product by a constant b < m that is known in advance.                 *)
PrepModMulConst(b, m) == Wrap((b * 2^W) \div m)

ModMulFastConstNoStep(a, b, m, bInv) ==
  LET yprime == Signed(Wrap(a * b - MultDHi(a, bInv) * m))
  IN  Wrap(IF yprime >= 0 THEN yprime ELSE yprime + m)

ModMulFastConst(a, b, m, bInv) ==
  LET q      == Wrap(MultDHi(a, bInv) + 1)
      yprime == Signed(Wrap(a * b - q * m))
  IN  Wrap(IF yprime >= 0 THEN yprime ELSE yprime + m)

-----------------------------------------------------------------------------
(* The moduli the reductions are for: GetMSB brackets them, their mu fits  *)
(* a word, and the smallest shift is defined.  Without a wider integer the *)
(* larger shift must be defined too.                                       *)
BarrettModulus(m) ==
  LET n == GetMSB(m)
  IN  /\ m \in Word /\ n \in 3 .. W - 4
      /\ 2^(n - 1) <= m /\ m < 2^n
      /\ 2^(2 * n + 3) \div m < 2^W

ShiftsFit(m) == GetMSB(m) + 5 < W
=============================================================================
