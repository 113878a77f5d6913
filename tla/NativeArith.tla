---------------------------- MODULE NativeArith ----------------------------
(***************************************************************************)
(* A NativeIntegerT used for plain, non-modular arithmetic                 *)
(* (ubintnathexl.h): sums, differences and products with and without       *)
(* bounds checking, quotients, powers, shifts, parsing and digits, any of  *)
(* them after any other, over words of W bits.                             *)
(*                                                                         *)
(* A call that only returns a result and one that works in place differ in *)
(* whether number takes the result.  The record call keeps the operand the *)
(* last call found, its arguments, what it returned and whether it threw:  *)
(* an in-place call that throws may have assigned first.                   *)
(***************************************************************************)
EXTENDS NativeDigits

CONSTANTS
  Numbers,   \* the words the accumulator starts with and is combined with
  Strings,   \* strings to parse: sequences of characters, as offsets from '0'
  Exponents, \* exponents of powers
  ExpModuli  \* moduli of ModExp

ASSUME ArithAssumption ==
  /\ W % 2 = 0   \* a word has two halves
  /\ Numbers \subseteq Word
  /\ \A str \in Strings : str \in Seq(Int)
  /\ Exponents \subseteq Word
  /\ ExpModuli \subseteq Word \ {0, 1}

VARIABLES number, call

arithVars == <<number, call>>

\* What a call returns, and whether it threw instead.
Returns(v)   == [result |-> v, threw |-> FALSE]
Throws(left) == [result |-> left, threw |-> TRUE]
Unless(bad, left, v) == IF bad THEN Throws(left) ELSE Returns(v)

-----------------------------------------------------------------------------
(* Sums, differences and products.  The ...EqCheck functions assign before *)
(* they look, all but SubEqCheck.                                          *)

AddCheck(a, b)   == LET r == Wrap(a + b) IN Unless(r < a \/ r < b, a, r)
AddWider(a, b)   == Returns(b + a)
AddFast(a, b)    == Returns(Wrap(b + a))
AddEqCheckLate(a, b) == LET r == Wrap(a + b) IN Unless(r <= a, r, r)
AddEqCheck(a, b) == LET r == Wrap(a + b) IN Unless(r < a, r, r)

SubCheck(a, b)   == Returns(IF a <= b THEN 0 ELSE a - b)
SubFast(a, b)    == Returns(Wrap(a - b))
SubEqCheckLate(a, b) == Unless(a < b, Wrap(a - b), Wrap(a - b))
SubEqCheck(a, b) == Unless(a < b, a, Wrap(a - b))

MulCheck(a, b)   == LET p == Wrap(b * a) IN Unless(p < a \/ p < b, a, p)
MulFast(a, b)    == Returns(Wrap(b * a))
MulEqCheck(a, b) == LET p == Wrap(a * b) IN Unless(p < a, p, p)

-----------------------------------------------------------------------------
(* Quotients.                                                              *)

DividedBy(a, b) == IF b = 0 THEN Throws(a) ELSE Returns(a \div b)

DivideAndRound(a, q) == IF q = 0 THEN Throws(a) ELSE Returns(RoundedQuotient(a, q))

-----------------------------------------------------------------------------
(* Powers, by squaring, over the bits of the exponent.  The products of    *)
(* ModExp are of double words, those of Exp wrap.                          *)

\* The bits of p, the least significant first, up to its highest one.
Bits(p) == [i \in 1 .. GetMSB(p) |-> (p \div 2^(i - 1)) % 2]

ExpStepSquaredFirst(acc, bit) ==
  LET x == Wrap(acc.x * acc.x) IN [r |-> IF bit = 1 THEN Wrap(acc.r * x) ELSE acc.r, x |-> x]

ExpStep(acc, bit) ==
  [r |-> IF bit = 1 THEN Wrap(acc.r * acc.x) ELSE acc.r, x |-> Wrap(acc.x * acc.x)]

Exp(a, p) == Returns(FoldLeft(ExpStep, [r |-> 1, x |-> a], Bits(p)).r)

ModExp(a, p, m) ==
  LET Red(x) == IF x >= m THEN x % m ELSE x
      Step(acc, bit) ==
        LET t == Red(acc.t * acc.t) IN [t |-> t, r |-> IF bit = 1 THEN Red(acc.r * t) ELSE acc.r]
      first == [t |-> a, r |-> IF p % 2 = 1 THEN Red(a) ELSE 1]
  IN  FoldLeft(Step, first, SubSeq(Bits(p), 2, GetMSB(p))).r

ModExpD(a, p, m) ==
  LET mu == ComputeMu(m)
      Step(acc, bit) ==
        LET t == ModMulFastMuD(acc.t, acc.t, m, mu)
        IN  [t |-> t, r |-> IF bit = 1 THEN ModMulFastMuD(acc.r, t, m, mu) ELSE acc.r]
      t0    == a % m
      first == [t |-> t0, r |-> IF p % 2 = 1 THEN ModMulFastMuD(1, t0, m, mu) ELSE 1]
  IN  FoldLeft(Step, first, SubSeq(Bits(p), 2, GetMSB(p))).r

-----------------------------------------------------------------------------
(* Shifts.                                                                 *)

LShift(a, shift)  == Returns(Wrap(a * 2^shift))
RShift(a, shift)  == Returns(a \div 2^shift)

-----------------------------------------------------------------------------
(* Strings.                                                                *)

\* One character of SetValue.  Only a character above '9' is refused, and
\* only a sum that came out below the one before is taken for an overflow.
SetDigit(acc, c) ==
  IF acc.threw THEN acc
  ELSE LET next == Wrap(10 * acc.result + c)
       IN  Unless(c > 9 \/ next < acc.result, number, next)

SetValue(str) == FoldLeft(SetDigit, Returns(0), str)

FromBit(acc, c) ==
  IF acc.threw THEN acc ELSE Unless(c < 0 \/ c > 1, number, Wrap(acc.result * 2) + c)

FromUnboundedBinary(str) == FoldLeft(FromBit, Returns(0), str)

FromBinaryString(str) ==
  IF Len(str) > W THEN Throws(number) ELSE FoldLeft(FromBit, Returns(0), str)

-----------------------------------------------------------------------------
(* Calls.                                                                  *)

Record(op, on, by, r) ==
  call' = [op |-> op, on |-> on, by |-> by, result |-> r.result, threw |-> r.threw]

Const(op, by, r)   == Record(op, number, by, r) /\ UNCHANGED number
InPlace(op, by, r) == Record(op, number, by, r) /\ number' = r.result

Sum(b) ==
  \/ Const("AddCheck", b, AddCheck(number, b))
  \/ InPlace("AddEqCheck", b, AddEqCheck(number, b))
  \/ InPlace("AddEqFast", b, AddFast(number, b))

Difference(b) ==
  \/ Const("SubCheck", b, SubCheck(number, b))
  \/ InPlace("SubEqCheck", b, SubEqCheck(number, b))
  \/ InPlace("SubEqFast", b, SubFast(number, b))

Multiple(b) ==
  \/ Const("MulCheck", b, MulCheck(number, b))
  \/ InPlace("MulEqCheck", b, MulEqCheck(number, b))
  \/ InPlace("MulEqFast", b, MulFast(number, b))

Quotient(b) ==
  \/ InPlace("DividedByEq", b, DividedBy(number, b))
  \/ InPlace("DivideAndRoundEq", b, DivideAndRound(number, b))

RaiseTo(b) ==
  \/ InPlace("ExpEq", b, Exp(number, b))
  \/ \E m \in ExpModuli :
       \/ InPlace("ModExpEq", <<b, m>>, Returns(ModExp(number, b, m)))
       \/ /\ BarrettModulus(m) /\ ShiftsFit(m)
          /\ InPlace("ModExpEq", <<b, m>>, Returns(ModExpD(number, b, m)))

Shift ==
  \E s \in 0 .. W - 1 :
    InPlace("LShiftEq", s, LShift(number, s)) \/ InPlace("RShiftEq", s, RShift(number, s))

Parse(str) ==
  \/ InPlace("SetValue", str, SetValue(str))
  \/ Const("FromBinaryString", str, FromBinaryString(str))

NoCall == [op |-> "none", on |-> 0, by |-> 0, result |-> 0, threw |-> FALSE]

ArithInit ==
  /\ number \in Numbers
  /\ call = NoCall

Call ==
  \/ \E b \in Numbers : Sum(b) \/ Difference(b) \/ Multiple(b) \/ Quotient(b)
  \/ \E p \in Exponents : RaiseTo(p)
  \/ Shift
  \/ \E str \in Strings : Parse(str)

\* The caller takes what the call returned, or catches what it threw; between
\* calls only the number is left.
ReturnToCaller == call' = NoCall /\ UNCHANGED number

ArithNext ==
  \/ call = NoCall /\ Call
  \/ call # NoCall /\ ReturnToCaller

ArithSpec == ArithInit /\ [][ArithNext]_arithVars

-----------------------------------------------------------------------------
ArithTypeOK ==
  /\ number \in Word
  /\ call.threw \in BOOLEAN

Called(ops) == call.op \in ops

(* The checked sums and differences throw exactly when the result does not *)
(* fit, and return the exact result otherwise; SubCheck saturates instead. *)
SumsChecked ==
  /\ Called({"AddCheck", "AddEqCheck"}) =>
       IF call.on + call.by \in Word THEN ~call.threw /\ call.result = call.on + call.by
       ELSE call.threw
  /\ Called({"SubEqCheck"}) =>
       IF call.on - call.by \in Word THEN ~call.threw /\ call.result = call.on - call.by
       ELSE call.threw /\ number = call.on
  /\ Called({"SubCheck"}) => call.result = (IF call.on > call.by THEN call.on - call.by ELSE 0)

(* What a throwing call did to its operand can be undone by the caller:    *)
(* AddEqCheck and MulEqCheck leave the wrapped result, the others nothing. *)
(* After a sum that threw, subtracting the operand again restores it.      *)
ThrowsRecoverable ==
  /\ Called({"AddEqCheck"}) /\ call.threw => SubFast(number, call.by).result = call.on
  /\ Called({"SubEqCheck", "DividedByEq", "DivideAndRoundEq", "SetValue"}) /\ call.threw =>
       number = call.on

(* A throw of the checked operations tells the truth, and loses nothing.   *)
ChecksHold == SumsChecked /\ ThrowsRecoverable

(* DivideAndRound returns a nearest integer to the quotient, for every     *)
(* denominator, odd or even: no neighbour of the result is closer.         *)
RoundsToNearest ==
  Called({"DivideAndRoundEq"}) /\ ~call.threw =>
    LET error == 2 * (call.result * call.by - call.on)
    IN  -call.by <= error /\ error <= call.by

\* x to the n-th power, by n multiplications that each apply Red.
Repeated(x, n, Red(_)) ==
  LET power[i \in 0 .. n] == IF i = 0 THEN 1 ELSE Red(power[i - 1] * x) IN power[n]

(* Squaring over the bits of the exponent gives the same as multiplying    *)
(* that often: wrapped at every step for Exp, reduced for ModExp, whether  *)
(* its products are of double words or by Barrett reduction.               *)
PowersExact ==
  /\ Called({"ExpEq"}) => call.result = Repeated(call.on, call.by, Wrap)
  /\ Called({"ModExpEq"}) =>
       LET Red(x) == x % call.by[2]
       IN  call.result = Repeated(call.on % call.by[2], call.by[1], Red)

(* The product of two words from half words is the product of the words,   *)
(* carries and all.                                                        *)
SchoolbookExact == \A b \in Numbers : MultDSchool(number, b) = MultD(number, b)

(* A binary string is taken for the number it spells, and nothing else is  *)
(* taken.                                                                  *)
BinaryExact ==
  Called({"FromBinaryString"}) =>
    LET spelled == \A i \in DOMAIN call.by : call.by[i] \in {0, 1}
    IN  /\ call.threw = (~spelled \/ Len(call.by) > W)
        /\ ~call.threw =>
             \A i \in DOMAIN call.by :
               (call.result \div 2^(Len(call.by) - i)) % 2 = call.by[i]

(* What the plain operations compute is what arithmetic says: nearest      *)
(* quotients, powers, products of double width, binary strings.            *)
PlainExact == RoundsToNearest /\ PowersExact /\ SchoolbookExact /\ BinaryExact

(* "MulCheck is the multiplication operation with bounds checking": what   *)
(* it returns is the product.                                              *)
ProductsChecked ==
  Called({"MulCheck", "MulEqCheck"}) /\ ~call.threw => call.result = call.on * call.by
=============================================================================
