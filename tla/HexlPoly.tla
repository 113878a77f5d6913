------------------------------ MODULE HexlPoly ------------------------------
(***************************************************************************)
(* HexlPolyImpl over NativeVector (hexlpoly.h, hexlpoly-impl.h): one       *)
(* polynomial modulo X^N + 1 and a word modulus, N a power of two, through *)
(* its member functions, any of them after any other.  Its values are the  *)
(* coefficients, or the evaluations at the odd powers of a root of unity   *)
(* in bit-reversed order; m_format says which.                             *)
(*                                                                         *)
(* A const member function returns its result, and the in-place one        *)
(* assigns it; here every result is assigned.  Calls that throw leave the  *)
(* polynomial alone and are guards, and so are calls on the wrong format,  *)
(* which the code rarely checks: their guard names the format.  The record *)
(* call keeps the operation's name and argument, for PolyRing to check.    *)
(*                                                                         *)
(* An assignment of more strings than the ring has coefficients lengthens  *)
(* the vector.  What is in the entries past N nobody ever asks: surplus is *)
(* how many there are.  A result that is made in a polynomial of its own   *)
(* sheds them, or is refused by SetValues for them.                        *)
(***************************************************************************)
EXTENDS NativeEntries

CONSTANTS
  N,          \* ring dimension
  Params,     \* records [modulus, root]: root is a primitive 2N-th root of unity
  MaxBits,    \* MAX_MODULUS_SIZE
  Precision,  \* products of a modulus and a divisor that doubles round as RoundedProduct says
  Operands,   \* integer vectors, as operands of sums and products
  Assigned,   \* integer vectors to assign
  Lists,      \* sequences of words to assign
  Scalars,    \* integers, negative ones too
  Indices,    \* odd automorphism indices
  Lengths     \* digit lengths in bits

R == INSTANCE NegacyclicRing

ASSUME PolyAssumption ==
  /\ \E l \in 1 .. W - 1 : N = 2^l
  /\ MaxBits \in 1 .. W - 2
  /\ \A p \in Params :
       /\ p.modulus \in 2 .. 2^MaxBits - 1 /\ HasInverse(N, p.modulus)
       /\ p.root \in 0 .. p.modulus - 1 /\ Power(p.root, N, p.modulus) = p.modulus - 1
  /\ Operands \cup Assigned \subseteq [0 .. N - 1 -> Int]
  /\ Lists \subseteq Seq(Int)
  /\ Scalars \subseteq 1 - 2^(W - 1) .. 2^W - 1
  /\ \A k \in Indices : k \in Nat /\ k % 2 = 1
  /\ Lengths \subseteq Nat \ {0}

VARIABLES
  format, params,
  values,     \* the first N entries of m_values
  surplus,    \* how many more it has
  call

vars == <<format, params, values, surplus, call>>

COEFFICIENT == "COEFFICIENT"
EVALUATION  == "EVALUATION"
Null        == <<>>               \* m_values == nullptr

q      == params.modulus
Index  == 0 .. N - 1
Zeros  == [i \in Index |-> 0]

-----------------------------------------------------------------------------
(* The transforms, by what they compute.                                   *)

ReverseBits(i) ==
  LET logn == GetMSB(N) - 1
      Bit(acc, b) == 2 * acc + ((i \div 2^b) % 2)
  IN  FoldLeft(Bit, 0, [b \in 1 .. logn |-> b - 1])

RootPower(p, e) == Power(p.root, e % (2 * N), p.modulus)

ForwardTransform(x, p) ==
  [i \in Index |->
     LET e == 2 * ReverseBits(i) + 1
     IN  R!Total([j \in Index |-> x[j] * RootPower(p, e * j)]) % p.modulus]

InverseTransform(x, p) ==
  [j \in Index |->
     LET d == (2 * N - 1) * j
         t == [i \in Index |-> x[i] * RootPower(p, d * (2 * ReverseBits(i) + 1))]
     IN  (InverseOf(N, p.modulus) * R!Total(t)) % p.modulus]

\* The polynomial that an integer vector stands for, in a format.
In(v, f, p) ==
  LET x == R!Modulo(v, p.modulus) IN IF f = COEFFICIENT THEN x ELSE ForwardTransform(x, p)

\* The ring element that values stand for.  An empty polynomial is zero.
Element ==
  IF values = Null THEN Zeros
  ELSE LET x == R!Modulo(values, q) IN IF format = COEFFICIENT THEN x ELSE InverseTransform(x, params)

-----------------------------------------------------------------------------
Init ==
  /\ format \in {COEFFICIENT, EVALUATION}
  /\ params \in Params
  /\ values = Null /\ surplus = 0
  /\ call = [op |-> "Keep", arg |-> 0]

Called(op, arg)     == call' = [op |-> op, arg |-> arg]
Entrywise(f(_))     == values' = [i \in Index |-> f(values[i])] /\ UNCHANGED <<format, params, surplus>>
EntriesAt(f(_, _))  == values' = [i \in Index |-> f(values[i], i)] /\ UNCHANGED <<format, params, surplus>>
NotEmpty            == values # Null
Given(x)            == values' = x /\ UNCHANGED <<format, params>>

\* As many values as the ring has, as SetValues and the transforms want them.
Exact               == surplus = 0

(* Sums, differences and products with another polynomial in the same      *)
(* format.  The in-place ones take an empty polynomial for zero.  Plus and *)
(* MultAccEqNoCheck go by the length of the first operand, past the end of *)
(* the second if need be, and ModSub compares the lengths.                 *)
OrZeros == IF values = Null THEN Zeros ELSE values

PlusPoly(v) ==
  /\ LET y == In(v, format, params) IN Given([i \in Index |-> ModAddFast(OrZeros[i], y[i], q)])
  /\ UNCHANGED surplus
  /\ Called("Plus", v)

MinusPoly(v) ==
  /\ Exact /\ UNCHANGED surplus
  /\ LET y == In(v, format, params) IN Given([i \in Index |-> ModSubFast(OrZeros[i], y[i], q)])
  /\ Called("Minus", v)

TimesPoly(v) ==
  /\ format = EVALUATION
  /\ LET y == In(v, format, params)
     IN  Given(IF NotEmpty THEN [i \in Index |-> EltwiseMultMod(values[i], y[i], q)] ELSE Zeros)
  /\ surplus' \in {0, surplus}
  /\ Called("Times", v)

MultAccEqNoCheck(v, b) ==
  /\ NotEmpty
  /\ LET y    == In(v, format, params)
         iinv == PrepModMulConst(b % q, q)
     IN  EntriesAt(LAMBDA x, i : ModAddFast(x, ModMulFastConst(y[i], b % q, q, iinv), q))
  /\ Called("MultAcc", [by |-> v, factor |-> b])

Negate ==
  /\ NotEmpty /\ Exact
  /\ Entrywise(LAMBDA x : ModSubFast(0, x, q))
  /\ Called("TimesInt", -1)

(* Integers.  Plus adds to the coefficient of 1 in either format; Minus    *)
(* subtracts from every entry, which only evaluations ask for, and so does *)
(* AddILElementOne.                                                        *)
PlusIntAtEvery(b) ==
  /\ NotEmpty /\ Exact
  /\ Entrywise(LAMBDA x : ModAdd(x, b, q))
  /\ Called("Plus", R!Constant(b))

PlusInt(b) ==
  /\ NotEmpty /\ Exact
  /\ IF format = COEFFICIENT
     THEN EntriesAt(LAMBDA x, i : IF i = 0 THEN ModAdd(x, b, q) ELSE x)
     ELSE Entrywise(LAMBDA x : ModAddFast(x, b % q, q))
  /\ Called("Plus", R!Constant(b))

MinusInt(b) ==
  /\ NotEmpty /\ format = EVALUATION
  /\ Entrywise(LAMBDA x : ModSubFast(x, b % q, q))
  /\ Called("Minus", R!Constant(b))

AddILElementOne ==
  /\ NotEmpty /\ format = EVALUATION
  /\ Entrywise(LAMBDA x : ModAddFast(x, 1, q))
  /\ Called("Plus", R!Constant(1))

\* A factor is reduced if it is above the modulus, and a negative one is
\* subtracted from the modulus.
SignedFactor(b) ==
  LET size    == IF b < 0 THEN -b ELSE b
      reduced == IF size > q THEN size % q ELSE size
  IN  IF b < 0 THEN q - reduced ELSE reduced

TimesInt(b) ==
  /\ NotEmpty /\ (b < 0 => Exact)
  /\ Entrywise(LAMBDA x : EltwiseFMAMod(x, SignedFactor(b) % q, q))
  /\ Called("TimesInt", b)

-----------------------------------------------------------------------------
(* Automorphisms: evaluations are permuted, coefficients are permuted and  *)
(* negated, and a zero that is negated becomes the modulus.                *)

PermutedUnreversed(k) ==
  LET source == [j \in Index |-> ((k * (2 * j + 1)) \div 2) % N]
  IN  [i \in Index |-> values[source[i]]]

Permuted(k) ==
  LET source == [j \in Index |-> ((k * (2 * j + 1)) \div 2) % N]
  IN  [i \in Index |-> values[ReverseBits(source[ReverseBits(i)])]]

Negacyclic(k) ==
  LET target(j) == (k * j) % N
      jOf       == [i \in Index |-> CHOOSE j \in Index : target(j) = i]
  IN  [i \in Index |->
         LET j == jOf[i] IN IF ((k * j) \div N) % 2 = 1 THEN Wrap(q - values[j]) ELSE values[j]]

AutomorphismTransform(k) ==
  /\ NotEmpty
  /\ Given(IF format = EVALUATION THEN Permuted(k) ELSE Negacyclic(k))
  /\ surplus' = 0
  /\ Called("AtPower", k)

-----------------------------------------------------------------------------
(* Functions of single entries.                                            *)

InverseExistsPastFirst == \A i \in Index \ {0} : values[i] # 0
InverseExists == \A i \in Index : values[i] # 0

MultiplicativeInverse ==
  /\ NotEmpty /\ Exact /\ format = EVALUATION
  /\ \A i \in Index : HasInverse(values[i], q)
  /\ Entrywise(LAMBDA x : InverseOf(x, q))
  /\ Called("Inverse", 0)

MakeSparse(w) ==
  /\ NotEmpty /\ format = COEFFICIENT
  /\ EntriesAt(LAMBDA x, i : IF i % w # 0 THEN 0 ELSE x)
  /\ Called("Sparse", w)

Mod(m) ==
  /\ NotEmpty /\ Exact /\ format = COEFFICIENT /\ m < q /\ q % 2 = 1
  /\ Entrywise(LAMBDA x : ModEntry(x, q, m))
  /\ Called("Mod", m)

DivideAndRound(d) ==
  /\ NotEmpty /\ Exact /\ format = COEFFICIENT /\ d > 0
  /\ Entrywise(LAMBDA x : DivideEntry(x, q, d))
  /\ Called("Round", [p |-> 1, q |-> d])

MultiplyAndRound(p, d) ==
  /\ NotEmpty /\ Exact /\ format = COEFFICIENT /\ 0 < p /\ p < d /\ q * d <= Precision
  /\ LET rounded == [i \in Index |-> MultiplyEntry(values[i], q, p, d)]
     IN  values' \in {v \in [Index -> UNION Range(rounded)] : \A i \in Index : v[i] \in rounded[i]}
  /\ UNCHANGED <<format, params, surplus>>
  /\ Called("Round", [p |-> p, q |-> d])

-----------------------------------------------------------------------------
(* Modulus and format.                                                     *)

SwitchModulus(p) ==
  /\ NotEmpty /\ format = COEFFICIENT /\ GetMSB(p.modulus) <= MaxBits
  /\ values' = [i \in Index |-> SwitchEntry(values[i], q, p.modulus)]
  /\ params' = p
  /\ UNCHANGED <<format, surplus>>
  /\ Called("Switch", p.modulus)

\* A zero that was left as the modulus would become a residue of the new one.
LazySwitchModulus(p) ==
  /\ \A i \in DOMAIN values : values[i] < q
  /\ NotEmpty /\ format = COEFFICIENT /\ GetMSB(p.modulus) <= MaxBits
  /\ values' = [i \in Index |-> EltwiseReduceMod(values[i], p.modulus)]
  /\ params' = p
  /\ UNCHANGED <<format, surplus>>
  /\ Called("Reduce", p.modulus)

(* The format is set first.  The transform throws if the values are not N, *)
(* and the same values stand for another element from then on.             *)
SwitchFormat ==
  /\ NotEmpty
  /\ format' = IF format = COEFFICIENT THEN EVALUATION ELSE COEFFICIENT
  /\ UNCHANGED <<params, surplus>>
  /\ \/ ~Exact /\ UNCHANGED values /\ Called("Spoil", 0)
     \/ /\ Exact /\ Called("Keep", 0)
        /\ values' = IF format = COEFFICIENT THEN ForwardTransform(values, params)
                     ELSE InverseTransform(values, params)

-----------------------------------------------------------------------------
(* Assignment.  Copies and moves take everything; a vector of signed       *)
(* integers becomes coefficients, a word becomes every evaluation, and a   *)
(* list of words or strings goes to the format there is.  Words are not    *)
(* reduced: they are given below the modulus, as a comment on the list     *)
(* assignment has it, and signed ones up to the modulus.                   *)

AssignPoly(v, f, p) ==
  /\ format' = f /\ params' = p /\ values' = In(v, f, p) /\ surplus' = 0
  /\ Called("Assign", v)

AssignEmpty(f, p) ==
  /\ format' = f /\ params' = p /\ values' = Null /\ surplus' = 0
  /\ Called("Assign", Zeros)

AssignInts(v) ==
  /\ \A i \in Index : v[i] \in -q .. q
  /\ format' = COEFFICIENT
  /\ values' = [i \in Index |-> IF v[i] < 0 THEN Wrap(q - (-v[i])) ELSE v[i]]
  /\ UNCHANGED <<params, surplus>>
  /\ Called("Assign", v)

AssignWord(b) ==
  /\ b \in 0 .. q - 1
  /\ format' = EVALUATION
  /\ values' = [i \in Index |-> b]
  /\ UNCHANGED <<params, surplus>>
  /\ Called("Assign", R!Constant(b))

SetValuesToMax ==
  /\ Given([i \in Index |-> q - 1]) /\ surplus' = 0
  /\ Called("Assign", Element')

AssignList(l) ==
  /\ Range(l) \subseteq 0 .. q - 1
  /\ Given([i \in Index |-> IF i < Len(l) THEN l[i + 1] ELSE 0]) /\ UNCHANGED surplus
  /\ Called("Assign", Element')

\* The vector's own assignment: it reduces, and grows to the list.
Grown(l) == IF Len(l) - N > surplus THEN Len(l) - N ELSE surplus

AssignStringsUnreduced(l) ==
  /\ Given([i \in Index |-> IF i < Len(l) THEN l[i + 1] ELSE 0]) /\ surplus' = Grown(l)
  /\ Called("Assign", Element')

AssignStrings(l) ==
  /\ Given([i \in Index |-> IF i < Len(l) THEN l[i + 1] % q ELSE 0]) /\ surplus' = Grown(l)
  /\ Called("Assign", Element')

-----------------------------------------------------------------------------
OnPolys ==
  \E v \in Operands :
    \/ PlusPoly(v) \/ MinusPoly(v) \/ TimesPoly(v)
    \/ \E b \in Scalars : b >= 0 /\ MultAccEqNoCheck(v, b)

OnIntegers ==
  \/ \E b \in Scalars : b >= 0 /\ (PlusInt(b) \/ MinusInt(b))
  \/ \E b \in Scalars : TimesInt(b)
  \/ Negate
  \/ Scalars # {} /\ AddILElementOne

OnEntries ==
  \/ \E k \in Indices : AutomorphismTransform(k)
  \/ MultiplicativeInverse
  \/ \E w \in 1 .. N : MakeSparse(w)
  \/ \E m \in Scalars : m > 1 /\ Mod(m)
  \/ \E d \in Scalars : DivideAndRound(d) \/ \E p \in Scalars : MultiplyAndRound(p, d)

Changing ==
  \/ SwitchFormat
  \/ \E p \in Params : SwitchModulus(p) \/ LazySwitchModulus(p)

Assigning ==
  \/ \E f \in {COEFFICIENT, EVALUATION}, p \in Params :
       AssignEmpty(f, p) \/ \E v \in Assigned : AssignPoly(v, f, p)
  \/ \E v \in Assigned : AssignInts(v)
  \/ \E b \in Scalars : AssignWord(b)
  \/ Scalars # {} /\ SetValuesToMax
  \/ \E l \in Lists : AssignList(l) \/ AssignStrings(l)

Next == OnPolys \/ OnIntegers \/ OnEntries \/ Changing \/ Assigning

Spec == Init /\ [][Next]_vars

-----------------------------------------------------------------------------
(* Digits in base 2^len, and the powers of the base times an element, as   *)
(* relinearization uses them.  Both work on coefficients here; the code    *)
(* can transform the digits, and multiplies in the format there is.        *)

NumDigits(len) == NumWindows(q, len)

Digits(i, len) ==
  LET x == Element IN [j \in Index |-> GetDigitAtIndexForBase(x[j], i, len)]

PowerOfBase(v, i, len) == R!Scaled(v, Power(2, (i - 1) * len, q))

\* The largest centred coefficient, by size.
NormUncentred == Max({values[i] : i \in Index})

Norm ==
  LET above  == {values[i] : i \in {j \in Index : values[j] > Half(q)}}
      below  == {values[i] : i \in {j \in Index : values[j] <= Half(q)}}
      minVal == q - Min(above \cup {q})
      maxVal == Max(below \cup {0})
  IN  IF minVal > maxVal THEN minVal ELSE maxVal

-----------------------------------------------------------------------------
TypeOK ==
  /\ format \in {COEFFICIENT, EVALUATION}
  /\ params \in Params
  /\ surplus \in Nat
  /\ values # Null => \A i \in DOMAIN values : values[i] \in Word

(* Every member function does to the ring element what its name says, in   *)
(* whichever format it is called: the two branches of Plus(Integer) and of *)
(* AutomorphismTransform agree, bit reversals and all, entries left        *)
(* unreduced still stand for their residue, an empty polynomial is zero,   *)
(* and a change of format changes nothing.  It spoils the element after    *)
(* more strings were assigned than the ring has coefficients, until the    *)
(* vector is replaced; every other operation on the longer vector does     *)
(* what it does on one of the right length, or throws.                     *)
Ring == INSTANCE PolyRing WITH element <- Element, modulus <- q
ImplementsRing == Ring!Spec

(* The products of the digits of one element and the powers of the base    *)
(* times another add up to the product of the two, for every digit length  *)
(* that reads no bit past the word: the number of windows, the digits and  *)
(* the exponents fit each other.                                           *)
DigitsTimesPowers ==
  \A len \in Lengths : NotEmpty /\ Exact /\ NumDigits(len) * len <= W =>
    \A v \in Operands :
      LET D(i)       == [j \in Index |-> CHOOSE d \in Digits(i, len)[j] : TRUE]
          Add(x, i)  == R!Plus(x, R!Modulo(R!Times(D(i), PowerOfBase(v, i, len)), q))
          sum        == FoldLeft(Add, Zeros, [i \in 1 .. NumDigits(len) |-> i])
      IN  R!Modulo(sum, q) = R!Modulo(R!Times(Element, v), q)

(* An element of which InverseExists holds has an inverse, and no other.   *)
InverseExistsTruthful ==
  NotEmpty /\ format = EVALUATION /\ (\A i \in Index : values[i] < q) =>
    InverseExists =
      \E y \in R!Ring(q) : R!Modulo(R!Times(Element, y), q) = R!Constant(1)

(* The norm is the largest coefficient of the centred element, by size.    *)
NormIsCentred ==
  NotEmpty /\ format = COEFFICIENT /\ (\A i \in Index : values[i] <= q) =>
    LET c == R!Centred(Element, q)
    IN  Norm = Max({IF c[i] < 0 THEN -c[i] ELSE c[i] : i \in Index})

(* What is read off an element is true of it: its digits make it up, its   *)
(* norm is that of its coefficients, and it has an inverse if it says so.  *)
QueriesTruthful == DigitsTimesPowers /\ NormIsCentred /\ InverseExistsTruthful

(* No value ever exceeds the modulus.  Rounding, switching the modulus and *)
(* automorphisms of coefficients negate a zero into the modulus itself,    *)
(* and the sums, differences and transforms that trust "operands are <     *)
(* modulus" are handed it; none of them makes a larger value of it.        *)
ValuesAtMostModulus == values # Null => \A i \in Index : values[i] <= q
=============================================================================
