------------------------ MODULE NativeIntegerProofs ------------------------
(***************************************************************************)
(* For every word width, every admissible modulus and every operand:       *)
(*                                                                         *)
(*  the accumulator of NativeInteger implements the ring of residues;      *)
(*  a throw of the checked operations of NativeArith tells the truth, and  *)
(*  what its plain operations compute is what arithmetic says.             *)
(***************************************************************************)
EXTENDS NativeWordProofs, NativeInteger, NativeArith

-----------------------------------------------------------------------------
(* The accumulator.                                                        *)

\* What holds of the accumulator before and after any call.
Inv == TypeOK /\ LeavesResidue /\ mu = ComputeMu(modulus)

\* Every call does to the residue what the ring does.
LEMMA CallInRing ==
  ASSUME Inv, OnAnyWord \/ OnDividends \/ OnResidues
  PROVE  LET r == value % modulus
         IN  \E b \in Nat :
               \/ applied' = Applied("Keep", b)  /\ value' = r
               \/ applied' = Applied("Plus", b)  /\ value' = (r + b) % modulus
               \/ applied' = Applied("Minus", b) /\ value' = (r - b) % modulus
               \/ applied' = Applied("Times", b) /\ value' = (r * b) % modulus
<1> DEFINE m == modulus
           r == value % m
           Keeps    == applied' = Applied("Keep", 0)  /\ value' = r
           Adds(b)  == applied' = Applied("Plus", b)  /\ value' = (r + b) % m
           Takes(b) == applied' = Applied("Minus", b) /\ value' = (r - b) % m
           Mults(b) == applied' = Applied("Times", b) /\ value' = (r * b) % m
           Goal     == Keeps \/ \E b \in Nat : Adds(b) \/ Takes(b) \/ Mults(b)
<1>1. BarrettModulus(m) /\ value \in Word /\ mu = ComputeMu(m)
  BY NativeAssumption DEF Inv, TypeOK
<1>2. m \in Nat \ {0} /\ value \in Nat
  BY <1>1, ModulusPowers, WordSize
<1>3. r \in 0 .. m - 1 /\ r \in Int /\ r % m = r
  <2>1. m \in Nat \ {0} /\ value \in Int
    BY <1>2
  <2>2. r \in 0 .. m - 1 /\ r \in Int
    BY ONLY <2>1, Remainders DEF r
  <2>3. r % m = r
    BY ONLY <2>1, <2>2, Remainders
  <2> QED BY <2>2, <2>3
<1>4. ASSUME NEW b \in Words
      PROVE  /\ b \in Word /\ b \in Nat /\ b % m \in 0 .. m - 1
             /\ (r + (b % m)) % m = (r + b) % m
             /\ (r - (b % m)) % m = (r - b) % m
             /\ (r * (b % m)) % m = (r * b) % m
  <2>1. b \in Word /\ b \in Nat /\ b \in Int
    BY NativeAssumption, WordSize
  <2>2. m \in Nat \ {0} /\ r \in Int
    BY <1>2, <1>3
  <2> DEFINE x == b % m
  <2>3. x \in 0 .. m - 1 /\ x \in Int
    BY ONLY <2>1, <2>2, Remainders DEF x
  <2>4. (r + x) % m = (r + b) % m /\ (r - x) % m = (r - b) % m
    BY ONLY <2>1, <2>2, Remainders DEF x
  <2>5. (x * r) % m = (b * r) % m
    BY ONLY <2>1, <2>2, Remainders DEF x
  <2>6. x * r = r * x /\ b * r = r * b
    BY ONLY <2>1, <2>2, <2>3
  <2> QED BY <2>1, <2>3, <2>4, <2>5, <2>6 DEF x
<1>5. \A x \in 0 .. m - 1 :
        ModAddFast(r, x, m) = (r + x) % m /\ ModSubFast(r, x, m) = (r - x) % m
  BY <1>1, <1>3, SumsExact
<1>6. ASSUME OnAnyWord PROVE Goal
  <2>1. CASE ModEq
    BY <2>1 DEF ModEq, Leaves
  <2>2. ASSUME NEW b \in Words, ModAddEq(b) PROVE Goal
    <3>1. Adds(b)
      BY <2>2, <1>4, <1>5 DEF ModAddEq, ModAdd, Leaves
    <3> QED BY <3>1, <1>4
  <2>3. ASSUME NEW b \in Words, ModSubEq(b) PROVE Goal
    <3>1. Takes(b)
      BY <2>3, <1>4, <1>5 DEF ModSubEq, ModSub, Leaves
    <3> QED BY <3>1, <1>4
  <2>4. ASSUME NEW b \in Words, ModMulEq(b) PROVE Goal
    <3>1. Mults(b)
      BY <2>4, <1>4 DEF ModMulEq, ModMul, ModMulFast, Leaves
    <3> QED BY <3>1, <1>4
  <2>5. ASSUME NEW b \in Residue, ModMulFastConstEq(b, PrepModMulConst(b, modulus))
        PROVE  Goal
    <3>1. b \in 0 .. m - 1 /\ b \in Nat /\ b \in Int
      BY <1>2 DEF Residue
    <3>2. value' = (value * b) % m /\ applied' = Applied("Times", b)
      BY <2>5, <3>1, <1>1, ShoupMulExact DEF ModMulFastConstEq, Leaves
    <3>3. value' = (r * b) % m
      <4>1. m \in Nat \ {0} /\ value \in Int /\ b \in Int
        BY <3>1, <1>2
      <4>2. ((value % m) * b) % m = (value * b) % m
        BY ONLY <4>1, Remainders
      <4> QED BY <3>2, <4>2
    <3> QED BY <3>1, <3>2, <3>3
  <2> QED BY <1>6, <2>1, <2>2, <2>3, <2>4, <2>5 DEF OnAnyWord
<1>7. ASSUME OnDividends PROVE Goal
  <2>1. value < 2^(2 * GetMSB(m) + 2)
    BY <1>7 DEF OnDividends, Dividend
  <2>2. ModBarrett(value, m, mu) = r /\ Reduced(value, m, mu) = r
    BY <2>1, <1>1, BarrettModExact, ReducedExact
  <2>3. ShiftsFit(m) => ReducedD(value, m, mu) = r
    BY <2>1, <1>1, ReducedExact
  <2>4. CASE ModEqMu
    BY <2>2, <2>4 DEF ModEqMu, Leaves
  <2>5. ASSUME NEW b \in Words, Dividend(b),
               \/ ModAddEqMu(b) \/ ModSubEqMu(b) \/ ModMulEqMu(b)
               \/ ShiftsFit(m) /\ (ModMulEqD(b) \/ ModMulEqMuD(b))
        PROVE  Goal
    <3> DEFINE x == b % m
    <3>1. x \in 0 .. m - 1 /\ b \in Word /\ b \in Nat /\ b < 2^(2 * GetMSB(m) + 2)
      BY <2>5, <1>4 DEF Dividend
    <3>2. Reduced(b, m, mu) = x
      BY <3>1, <1>1, ReducedExact
    <3>3. ShiftsFit(m) => ReducedD(b, m, mu) = x
      BY <3>1, <1>1, ReducedExact
    <3>4. (r + x) % m = (r + b) % m /\ (r - x) % m = (r - b) % m /\ (r * x) % m = (r * b) % m
      BY <1>4
    <3> HIDE DEF x
    <3>5. CASE ModAddEqMu(b)
      <4>1. Adds(b)
        BY <3>1, <3>2, <3>4, <3>5, <2>2, <1>5 DEF ModAddEqMu, ModAddMu, Leaves
      <4> QED BY <4>1, <3>1
    <3>6. CASE ModSubEqMu(b)
      <4>1. Takes(b)
        BY <3>1, <3>2, <3>4, <3>6, <2>2, <1>5 DEF ModSubEqMu, ModSubMu, Leaves
      <4> QED BY <4>1, <3>1
    <3>7. CASE ModMulEqMu(b)
      <4>1. ModMulFastMu(r, x, m, mu) = (r * x) % m
        BY <3>1, <1>1, <1>3, BarrettMulExact
      <4>2. Mults(b)
        BY <4>1, <3>1, <3>2, <3>4, <3>7, <2>2 DEF ModMulEqMu, ModMulMu, Leaves
      <4> QED BY <4>2, <3>1
    <3>8. CASE ShiftsFit(m) /\ (ModMulEqD(b) \/ ModMulEqMuD(b))
      <4>1. ModMulFastMuD(r, x, m, mu) = (r * x) % m
        BY <3>1, <3>8, <1>1, <1>3, BarrettMulDExact
      <4>2. value' = ModMulMuD(value, b, m, mu) /\ applied' = Applied("Times", b)
        BY <3>8, <1>1 DEF ModMulEqD, ModMulEqMuD, ModMulD, Leaves
      <4>3. Mults(b)
        BY <4>1, <4>2, <3>1, <3>3, <3>4, <3>8, <2>3 DEF ModMulMuD
      <4> QED BY <4>3, <3>1
    <3> QED BY <2>5, <3>5, <3>6, <3>7, <3>8
  <2> QED BY <1>7, <2>4, <2>5 DEF OnDividends
<1>8. ASSUME OnResidues PROVE Goal
  <2>1. value \in 0 .. m - 1 /\ r = value
    BY <1>8, <1>2, Remainders DEF OnResidues, Residue
  <2>2. PICK b \in 0 .. m - 1 :
          \/ ModAddFastEq(b) \/ ModSubFastEq(b) \/ ModMulFastEq(b) \/ ModMulFastEqMu(b)
          \/ ShiftsFit(m) /\ (ModMulFastEqD(b) \/ ModMulFastEqMuD(b))
    BY <1>8 DEF OnResidues, Residue
  <2>3. b \in Nat
    BY <1>2, <2>2
  <2>4. CASE ModAddFastEq(b)
    <3>1. Adds(b)
      BY <2>1, <2>4, <1>5 DEF ModAddFastEq, Leaves
    <3> QED BY <3>1, <2>3
  <2>5. CASE ModSubFastEq(b)
    <3>1. Takes(b)
      BY <2>1, <2>5, <1>5 DEF ModSubFastEq, Leaves
    <3> QED BY <3>1, <2>3
  <2>6. CASE ModMulFastEq(b)
    <3>1. Mults(b)
      BY <2>1, <2>6 DEF ModMulFastEq, ModMulFast, Leaves
    <3> QED BY <3>1, <2>3
  <2>7. CASE ModMulFastEqMu(b)
    <3>1. ModMulFastMu(r, b, m, mu) = (r * b) % m
      BY <1>1, <1>3, BarrettMulExact
    <3>2. Mults(b)
      BY <3>1, <2>1, <2>7 DEF ModMulFastEqMu, Leaves
    <3> QED BY <3>2, <2>3
  <2>8. CASE ShiftsFit(m) /\ (ModMulFastEqD(b) \/ ModMulFastEqMuD(b))
    <3>1. ModMulFastMuD(r, b, m, mu) = (r * b) % m
      BY <2>8, <1>1, <1>3, BarrettMulDExact
    <3>2. Mults(b)
      BY <3>1, <2>1, <2>8, <1>1 DEF ModMulFastEqD, ModMulFastD, ModMulFastEqMuD, Leaves
    <3> QED BY <3>2, <2>3
  <2> QED BY <2>2, <2>4, <2>5, <2>6, <2>7, <2>8
<1>9. Goal
  BY <1>6, <1>7, <1>8
<1> QED BY <1>9

\* A call leaves a residue, which is its own remainder and a word.
LEMMA CallLeavesResidue ==
  ASSUME Inv, OnAnyWord \/ OnDividends \/ OnResidues
  PROVE  /\ value' \in Residue /\ value' \in Word /\ value' % modulus = value'
         /\ applied' \in [op : {"Keep", "Plus", "Minus", "Times"}, by : Int]
<1>1. BarrettModulus(modulus) /\ value \in Word
  BY NativeAssumption DEF Inv, TypeOK
<1> DEFINE r == value % modulus
<1>2. modulus \in Nat \ {0} /\ modulus \in Word /\ r \in 0 .. modulus - 1 /\ r \in Int
  <2>1. modulus \in Nat \ {0} /\ modulus \in Word
    BY <1>1, ModulusPowers
  <2>2. value \in Int
    BY ONLY <1>1, WordSize
  <2> QED BY ONLY <2>1, <2>2, Remainders
<1>3. PICK b \in Nat : \/ applied' = Applied("Keep", b)  /\ value' = r
                       \/ applied' = Applied("Plus", b)  /\ value' = (r + b) % modulus
                       \/ applied' = Applied("Minus", b) /\ value' = (r - b) % modulus
                       \/ applied' = Applied("Times", b) /\ value' = (r * b) % modulus
  BY CallInRing
<1>4. applied' \in [op : {"Keep", "Plus", "Minus", "Times"}, by : Int]
  BY <1>3 DEF Applied
<1>5. value' \in Residue
  <2> HIDE DEF r
  <2>1. b \in Int /\ r + b \in Int /\ r - b \in Int /\ r * b \in Int
    BY <1>2, <1>3
  <2> QED BY <2>1, <1>2, <1>3, Remainders DEF Residue
<1>6. value' \in Word
  BY <1>2, <1>5, WordSize DEF Residue
<1> QED BY <1>2, <1>4, <1>5, <1>6, Remainders DEF Residue

\* The invariant is inductive.
LEMMA InvInductive ==
  /\ Init => Inv
  /\ Inv /\ [Next]_vars => Inv'
<1>1. Init => Inv
  <2> SUFFICES ASSUME Init PROVE Inv
    OBVIOUS
  <2>1. BarrettModulus(modulus) /\ value \in Word /\ 0 \in Nat /\ 0 < 2^(2 * GetMSB(modulus) + 2)
    <3>1. BarrettModulus(modulus) /\ value \in Word
      BY NativeAssumption DEF Init
    <3>2. 2^(2 * GetMSB(modulus) + 2) \in Nat \ {0}
      <4>1. 2 * GetMSB(modulus) + 2 \in 0 .. 2 * W
        BY <3>1, WordAssumption DEF BarrettModulus
      <4> QED BY <4>1, PowerAssumption
    <3> QED BY <3>1, <3>2
  <2>2. ComputeMu(modulus) \in Word
    BY <2>1, BarrettReduces
  <2>3. applied \in [op : {"Keep", "Plus", "Minus", "Times"}, by : Int] /\ applied = Nothing
    BY DEF Init, Nothing, Applied
  <2> QED BY <2>1, <2>2, <2>3 DEF Init, Inv, TypeOK, LeavesResidue
<1>2. ASSUME Inv, [Next]_vars PROVE Inv'
  <2>1. CASE OnAnyWord \/ OnDividends \/ OnResidues
    <3>1. CASE UNCHANGED <<modulus, mu>>
      <4>1. /\ value' \in Residue /\ value' \in Word
            /\ applied' \in [op : {"Keep", "Plus", "Minus", "Times"}, by : Int]
        BY <1>2, <2>1, CallLeavesResidue
      <4>2. modulus' = modulus /\ mu' = mu
        BY <3>1
      <4> QED BY <1>2, <4>1, <4>2 DEF Inv, TypeOK, LeavesResidue, Residue
    <3>2. CASE UNCHANGED vars
      BY <1>2, <3>2 DEF vars, Inv, TypeOK, LeavesResidue, Residue
    <3> QED BY <1>2, <3>1, <3>2 DEF Next
  <2>2. CASE TakeResult /\ UNCHANGED <<modulus, mu>>
    <3>1. applied' \in [op : {"Keep", "Plus", "Minus", "Times"}, by : Int] /\ applied' = Nothing
      BY <2>2 DEF TakeResult, Nothing, Applied
    <3> QED BY <1>2, <2>2, <3>1 DEF TakeResult, Inv, TypeOK, LeavesResidue
  <2>3. CASE UNCHANGED vars
    BY <1>2, <2>3 DEF vars, Inv, TypeOK, LeavesResidue, Residue
  <2> QED BY <1>2, <2>1, <2>2, <2>3 DEF Next
<1> QED BY <1>1, <1>2

\* The accumulator holds a word, and its mu belongs to its modulus.
THEOREM NativeTypeCorrect == Spec => []TypeOK
<1>1. Inv => TypeOK
  BY DEF Inv
<1> QED BY <1>1, InvInductive, PTL DEF Spec

\* Every in-place operation leaves a canonical residue.
THEOREM NativeLeavesResidue == Spec => []LeavesResidue
<1>1. Inv => LeavesResidue
  BY DEF Inv
<1> QED BY <1>1, InvInductive, PTL DEF Spec

\* The word arithmetic implements the ring of residues: each operation, whatever
\* its reduction, is the ring's operation with the same operand.
THEOREM NativeImplementsRing == Spec => ImplementsRing
<1>1. Init => Ring!Init
  <2> SUFFICES ASSUME Init PROVE Ring!Init
    OBVIOUS
  <2>1. BarrettModulus(modulus) /\ value \in Word
    BY NativeAssumption DEF Init
  <2>2. modulus \in Nat \ {0} /\ value \in Int
    BY <2>1, ModulusPowers, WordSize
  <2> QED BY <2>2, Remainders DEF Init, Ring!Init
<1>2. ASSUME Inv, [Next]_vars PROVE [Ring!Next]_Ring!vars
  <2>1. CASE UNCHANGED <<modulus, mu>> /\ (OnAnyWord \/ OnDividends \/ OnResidues)
    <3> DEFINE r == value % modulus
    <3>1. modulus' = modulus /\ value' % modulus' = value'
      BY <1>2, <2>1, CallLeavesResidue
    <3>2. PICK b \in Nat : \/ applied' = Applied("Keep", b)  /\ value' = r
                           \/ applied' = Applied("Plus", b)  /\ value' = (r + b) % modulus
                           \/ applied' = Applied("Minus", b) /\ value' = (r - b) % modulus
                           \/ applied' = Applied("Times", b) /\ value' = (r * b) % modulus
      BY <1>2, <2>1, CallInRing
    <3> QED BY <3>1, <3>2 DEF Applied, Ring!Next, Ring!Is, Ring!Becomes, Ring!By
  <2>2. CASE UNCHANGED <<modulus, mu>> /\ TakeResult
    BY <2>2 DEF TakeResult, Nothing, Applied, Ring!Next, Ring!Is
  <2>3. CASE UNCHANGED vars
    BY <2>3 DEF vars, Ring!vars
  <2> QED BY <1>2, <2>1, <2>2, <2>3 DEF Next
<1> QED BY <1>1, <1>2, InvInductive, PTL DEF Spec, ImplementsRing, Ring!Spec

-----------------------------------------------------------------------------
(* Exp.  Its accumulator after k bits of the exponent holds the power of   *)
(* the low k bits and that of 2^k.                                         *)

\* One step.
LEMMA ExpStepWords ==
  ASSUME NEW acc \in [r : Word, x : Word], NEW bit
  PROVE  ExpStep(acc, bit) \in [r : Word, x : Word]
<1>1. acc.r \in Int /\ acc.x \in Int
  BY WordSize
<1>2. acc.r * acc.x \in Int /\ acc.x * acc.x \in Int
  BY <1>1, ProductInteger
<1> QED BY <1>2, WrapWord DEF ExpStep

\* The fold, step by step.
LEMMA ExpUnrolls ==
  ASSUME NEW a \in Word, NEW p \in Word
  PROVE  \E f \in [0 .. GetMSB(p) -> [r : Word, x : Word]] :
           /\ f[0] = [r |-> 1, x |-> a]
           /\ \A k \in 1 .. GetMSB(p) : f[k] = ExpStep(f[k - 1], Bits(p)[k])
           /\ Exp(a, p) = Returns(f[GetMSB(p)].r)
<1> DEFINE n == GetMSB(p)
           A == [r : Word, x : Word]
           s == Bits(p)
           base == [r |-> 1, x |-> a]
           F == [q \in (1 .. n) \X A |-> ExpStep(q[2], s[q[1]])]
           Good(h) == h = [i \in SUBSET (1 .. n) |->
                             IF i = {} THEN base ELSE ExpStep(h[i \ {Max(i)}], s[Max(i)])]
           iter == CHOOSE h : Good(h)
<1>1. n \in Nat /\ DOMAIN s = 1 .. n
  BY Length DEF Bits
<1>2. Exp(a, p) = Returns(iter[1 .. n].r)
  BY <1>1 DEF Exp, FoldLeft, MapThenFoldSet
<1>3. \A acc \in A, k \in 1 .. n : ExpStep(acc, s[k]) \in A
  BY ExpStepWords
<1>4. Steps(n, A, F) /\ \A k \in 1 .. n, acc \in A : F[<<k, acc>>] = ExpStep(acc, s[k])
  BY <1>1, <1>3 DEF Steps
<1>5. base \in A
  BY One
<1>6. \A i \in SUBSET (1 .. n) : i # {} => Max(i) \in 1 .. n /\ i \ {Max(i)} \in SUBSET (1 .. n)
  BY <1>1, MaxOf
<1> HIDE DEF n, A, s, base, F
<1>7. PICK h : h \in [SUBSET (1 .. n) -> A] /\ Folds(n, A, base, F, h)
  BY <1>1, <1>4, <1>5, FoldExists
<1>8. Good(h)
  BY <1>4, <1>6, <1>7 DEF Folds
<1>9. Good(iter)
  BY <1>8
<1> HIDE DEF iter
<1>10. Folds(n, A, base, F, iter)
  BY <1>4, <1>6, <1>9 DEF Folds
<1> HIDE DEF Good
<1>11. PICK f : Unrolls(n, A, base, F, f) /\ f[n] = iter[1 .. n]
  BY <1>1, <1>4, <1>5, <1>10, FoldUnroll
<1>12. \A k \in 1 .. n : f[k - 1] \in A
  BY <1>1, <1>11 DEF Unrolls
<1> QED BY <1>2, <1>4, <1>11, <1>12 DEF n, A, s, base, Unrolls

\* Exp returns the wrapped power, for every word and exponent.
LEMMA ExpExact ==
  ASSUME NEW a \in Word, NEW p \in Word
  PROVE  /\ Exp(a, p) = Returns(RepeatedMod(a, p, 2^W))
         /\ RepeatedMod(a, p, 2^W) \in Word
<1> DEFINE M == 2^W
           n == GetMSB(p)
<1>1. M \in Nat \ {0, 1} /\ M \in Nat /\ M \in Nat \ {0} /\ Word = 0 .. M - 1
  BY One, WordSize
<1>2. a \in Nat /\ p \in Nat /\ p \in 0 .. M /\ n \in 0 .. W /\ n \in Nat /\ W \in Nat /\ p < 2^n
  BY <1>1, Length, PowersOfTwo
<1>3. \A i \in 0 .. W : 2^i \in Nat \ {0} /\ 2^i <= M
  BY PowersOfTwo
<1>4. 2^0 = 1 /\ \A i \in 1 .. W : 2^i = 2 * 2^(i - 1)
  BY PowersOfTwo
<1>5. PICK f \in [0 .. n -> [r : Word, x : Word]] :
           /\ f[0] = [r |-> 1, x |-> a]
           /\ \A k \in 1 .. n : f[k] = ExpStep(f[k - 1], Bits(p)[k])
           /\ Exp(a, p) = Returns(f[n].r)
  BY ExpUnrolls
<1>6. \A x \in Int : Wrap(x) = x % M
  BY DEF Wrap
<1>7. \A k \in 1 .. n : Bits(p)[k] = (p \div 2^(k - 1)) % 2
  BY <1>2 DEF Bits
<1> HIDE DEF M, n
<1>8. PICK pw : Powers(a, M, M, pw)
  BY <1>1, <1>2, PowersExist
<1>9. /\ \A i \in 0 .. M : pw[i] \in 0 .. M - 1
      /\ \A i, j \in 0 .. M : i + j <= M => pw[i + j] = (pw[i] * pw[j]) % M
  BY <1>1, <1>2, <1>8, PowersAdd
<1> DEFINE Is(k) == f[k].x = pw[2^k] /\ f[k].r = pw[p % 2^k]
           P == {k \in Nat : k <= n => Is(k)}
<1>10. Is(0)
  <2>1. pw[0] = 1 /\ pw[1] = (pw[0] * a) % M
    <3>1. 1 \in 1 .. M /\ 1 - 1 = 0
      BY <1>1
    <3> QED BY <3>1, <1>8 DEF Powers
  <2>2. 1 * a = a /\ a % M = a /\ p % 1 = 0
    <3>1. a < M
      BY <1>1
    <3> QED BY ONLY <1>1, <1>2, <3>1, Residues
  <2> QED BY <1>4, <1>5, <2>1, <2>2
<1>11. ASSUME NEW k \in 1 .. n, Is(k - 1) PROVE Is(k)
  <2> DEFINE d   == 2^(k - 1)
             bit == (p \div d) % 2
             low == p % d
  <2>1. k \in 1 .. W /\ k - 1 \in 0 .. W /\ k \in 0 .. W /\ k - 1 \in 0 .. n
    BY <1>2
  <2>2. /\ d \in Nat \ {0} /\ bit \in {0, 1} /\ low \in Nat
        /\ p % 2^k \in Nat /\ p % 2^k = low + bit * d
    BY <1>2, <2>1, LowBits
  <2>3. 2^k = d + d /\ d + d <= M /\ d \in 0 .. M /\ low < d
    <3>1. 2^k = 2 * d /\ 2^k <= M
      BY <1>3, <1>4, <2>1
    <3>2. low \in 0 .. d - 1
      BY <1>2, <2>2, DivNat
    <3> HIDE DEF d, low
    <3> QED BY <3>1, <3>2, <2>2, <1>1
  <2>4. f[k - 1].x = pw[d] /\ f[k - 1].r = pw[low]
    BY <1>11
  <2>5. f[k] = ExpStep(f[k - 1], bit)
    BY <1>5, <1>7
  <2> HIDE DEF d, bit, low
  <2>6. low \in 0 .. M /\ low + d <= M
    BY <1>1, <2>2, <2>3
  <2>7. pw[d + d] = (pw[d] * pw[d]) % M /\ pw[low + d] = (pw[low] * pw[d]) % M
    BY ONLY <1>9, <2>3, <2>6
  <2>8. pw[d] * pw[d] \in Int /\ pw[low] * pw[d] \in Int
    <3>1. pw[d] \in Int /\ pw[low] \in Int
      BY <1>1, <1>9, <2>3, <2>6
    <3> QED BY <3>1, ProductInteger
  <2>9. f[k].x = (pw[d] * pw[d]) % M /\ f[k].r = IF bit = 1 THEN (pw[low] * pw[d]) % M ELSE pw[low]
    BY <1>6, <2>4, <2>5, <2>8 DEF ExpStep
  <2>10. f[k].x = pw[2^k]
    BY <2>3, <2>7, <2>9
  <2>11. CASE bit = 1
    <3>1. p % 2^k = low + d
      BY <2>2, <2>11
    <3> QED BY <3>1, <2>7, <2>9, <2>10, <2>11
  <2>12. CASE bit = 0
    <3>1. p % 2^k = low
      BY <2>2, <2>12
    <3> QED BY <3>1, <2>9, <2>10, <2>12
  <2> QED BY <2>2, <2>11, <2>12
<1> HIDE DEF Is
<1>12. 0 \in P
  BY <1>10
<1>13. ASSUME NEW k \in Nat, k \in P PROVE k + 1 \in P
  <2>1. SUFFICES ASSUME k + 1 <= n PROVE Is(k + 1)
    OBVIOUS
  <2>2. k + 1 \in 1 .. n /\ (k + 1) - 1 = k /\ Is(k)
    BY <1>2, <1>13, <2>1
  <2> QED BY <1>11, <2>2
<1>14. Nat \subseteq P
  <2> HIDE DEF P
  <2> QED BY ONLY <1>12, <1>13, Induction
<1>15. Is(n)
  BY <1>2, <1>14
<1>16. p % 2^n = p
  BY <1>2, <1>3
<1>17. RepeatedMod(a, p, M) = pw[p] /\ pw[p] \in 0 .. M - 1
  <2>1. RepeatedMod(a, p, M) = pw[p]
    BY ONLY <1>1, <1>2, <1>8, RepeatedIsPower
  <2> QED BY ONLY <1>2, <1>9, <2>1
<1> QED BY <1>1, <1>5, <1>15, <1>16, <1>17 DEF Is, M

-----------------------------------------------------------------------------
(* ModExp, whose accumulator squares before it multiplies.                 *)

\* One step, as it should be.
MulStep(m, acc, bit) ==
  LET t == (acc.t * acc.t) % m IN [t |-> t, r |-> IF bit = 1 THEN (acc.r * t) % m ELSE acc.r]

\* The steps after the first bit of the exponent.
StepsLeft(p) == IF GetMSB(p) = 0 THEN 0 ELSE GetMSB(p) - 1

Later(p) == SubSeq(Bits(p), 2, GetMSB(p))

\* The bits of those steps.
LEMMA LaterBits ==
  ASSUME NEW p \in Word
  PROVE  /\ StepsLeft(p) \in Nat /\ p < 2^(StepsLeft(p) + 1) /\ StepsLeft(p) + 1 \in 1 .. W
         /\ DOMAIN Later(p) = 1 .. StepsLeft(p)
         /\ \A k \in 1 .. StepsLeft(p) : Later(p)[k] = (p \div 2^k) % 2
<1> DEFINE n == GetMSB(p)
           s == SubSeq(Bits(p), 2, n)
           l == StepsLeft(p)
<1>1. n \in 0 .. W /\ p < 2^n /\ p \in Nat /\ W \in Nat /\ W > 7
  BY Length, WordSize, PowersOfTwo
<1>2. s = [k \in 1 .. (n - 1) |-> Bits(p)[k + 1]]
  <2>1. Bits(p) \in Seq(Int)
    BY <1>1 DEF Bits
  <2>2. 1 + n - 2 = n - 1 /\ \A k \in 1 .. n - 1 : k + 2 - 1 = k + 1
    BY <1>1
  <2> QED BY <1>1, <2>1, <2>2
<1>3. \A k \in 1 .. n : Bits(p)[k] = (p \div 2^(k - 1)) % 2
  BY DEF Bits
<1>4. l \in Nat /\ 1 .. (n - 1) = 1 .. l /\ l + 1 \in 1 .. W
  BY <1>1 DEF StepsLeft
<1>5. p < 2^(l + 1)
  <2>1. CASE n = 0
    <3>1. 2^0 = 1 /\ 2^1 = 2 /\ l = 0
      BY <2>1, PowersOfTwo, PowerAssumption DEF StepsLeft
    <3> QED BY <3>1, <1>1, <2>1
  <2>2. CASE n # 0
    <3>1. l + 1 = n
      BY <1>1, <2>2 DEF StepsLeft
    <3> QED BY <3>1, <1>1
  <2> QED BY <2>1, <2>2
<1> HIDE DEF n, s, l
<1>6. \A k \in 1 .. l : s[k] = (p \div 2^k) % 2
  <2>1. ASSUME NEW k \in 1 .. l PROVE s[k] = (p \div 2^k) % 2
    <3>1. k \in 1 .. (n - 1) /\ k + 1 \in 1 .. n /\ (k + 1) - 1 = k
      BY <1>1, <1>4
    <3> QED BY <3>1, <1>2, <1>3
  <2> QED BY <2>1
<1>7. DOMAIN s = 1 .. l
  BY <1>2, <1>4
<1> QED BY <1>4, <1>5, <1>6, <1>7 DEF n, s, l, Later

\* Squaring and multiplying over the bits leaves the power.
LEMMA BySquaring ==
  ASSUME NEW a \in Nat, NEW p \in Word, NEW m \in Nat \ {0, 1}, NEW f,
         f \in [0 .. StepsLeft(p) -> [t : Nat, r : Nat]],
         f[0].t % m = a % m,
         f[0].r = (IF p % 2 = 1 THEN a % m ELSE 1),
         \A k \in 1 .. StepsLeft(p) : f[k] = MulStep(m, f[k - 1], (p \div 2^k) % 2)
  PROVE  f[StepsLeft(p)].r = RepeatedMod(a % m, p, m) /\ f[StepsLeft(p)].r \in 0 .. m - 1
<1> DEFINE M == 2^W
           n == StepsLeft(p)
           b == a % m
<1>1. M \in Nat \ {0, 1} /\ M \in Nat /\ Word = 0 .. M - 1 /\ m \in Nat \ {0} /\ W \in Nat
  BY One, WordSize, PowersOfTwo
<1>2. p \in Nat /\ p \in 0 .. M /\ n \in Nat /\ n + 1 \in 1 .. W /\ p < 2^(n + 1)
  <2>1. n \in Nat /\ n + 1 \in 1 .. W /\ p < 2^(n + 1)
    BY ONLY p \in Word, LaterBits, Zenon
  <2> HIDE DEF n
  <2> QED BY <1>1, <2>1
<1>3. b \in 0 .. m - 1 /\ b \in Nat
  BY ONLY <1>1, a \in Nat, Residues
<1>4. \A i \in 0 .. W : 2^i \in Nat \ {0} /\ 2^i <= M
  BY PowersOfTwo
<1>5. 2^1 = 2 /\ 2^0 = 1 /\ \A i \in 1 .. W : 2^i = 2 * 2^(i - 1)
  BY PowersOfTwo, PowerAssumption
<1>6. \A x \in Int, y \in Int : ((x % m) * y) % m = (x * y) % m
  BY ONLY <1>1, Remainders
<1> HIDE DEF M, n, b
<1>7. PICK pw : Powers(b, m, M, pw)
  BY <1>1, <1>3, PowersExist
<1>8. /\ \A i \in 0 .. M : pw[i] \in 0 .. m - 1
      /\ \A i, j \in 0 .. M : i + j <= M => pw[i + j] = (pw[i] * pw[j]) % m
  BY <1>1, <1>3, <1>7, PowersAdd
<1> DEFINE Is(k) == f[k].t % m = pw[2^k] /\ f[k].r = pw[p % 2^(k + 1)]
           P == {k \in Nat : k <= n => Is(k)}
<1>9. Is(0)
  <2>1. pw[0] = 1 /\ pw[1] = (pw[0] * b) % m
    <3>1. 1 \in 1 .. M /\ 1 - 1 = 0
      BY <1>1
    <3> QED BY <3>1, <1>7 DEF Powers
  <2>2. 1 * b = b /\ b % m = b
    <3>1. b < m
      BY <1>1, <1>3
    <3> QED BY ONLY <1>1, <1>3, <3>1, Residues
  <2>3. p % 2 = 0 \/ p % 2 = 1
    BY <1>2
  <2> QED BY <1>5, <2>1, <2>2, <2>3 DEF b
<1>10. ASSUME NEW k \in 1 .. n, Is(k - 1) PROVE Is(k)
  <2> DEFINE d   == 2^k
             c   == 2^(k - 1)
             bit == (p \div d) % 2
             low == p % d
             t   == f[k - 1].t
  <2>1. /\ k - 1 \in 0 .. W /\ k \in 1 .. W /\ k \in 0 .. W /\ k - 1 \in 0 .. n
        /\ k + 1 \in 1 .. W /\ k + 1 \in 0 .. W /\ (k + 1) - 1 = k /\ (k - 1) + 1 = k
    BY <1>1, <1>2
  <2>2. /\ d \in Nat \ {0} /\ bit \in {0, 1} /\ low \in Nat
        /\ p % 2^(k + 1) \in Nat /\ p % 2^(k + 1) = low + bit * d
    <3> DEFINE j == k + 1
    <3>1. j \in 1 .. W /\ j - 1 = k
      BY <2>1
    <3> HIDE DEF j
    <3>2. /\ 2^(j - 1) \in Nat \ {0} /\ (p \div 2^(j - 1)) % 2 \in {0, 1}
          /\ p % 2^(j - 1) \in Nat /\ p % 2^j \in Nat
          /\ p % 2^j = (p % 2^(j - 1)) + ((p \div 2^(j - 1)) % 2) * 2^(j - 1)
      BY ONLY <3>1, <1>2, LowBits
    <3> QED BY ONLY <3>1, <3>2 DEF j
  <2>3. d = c + c /\ c \in 0 .. M /\ c + c <= M
    <3>1. d = 2 * c /\ d <= M /\ c \in Nat
      BY <1>4, <1>5, <2>1
    <3> HIDE DEF d, c
    <3> QED BY <3>1, <1>1
  <2>4. d \in 0 .. M /\ low + d <= M /\ low \in 0 .. M
    <3>1. 2^(k + 1) = 2 * d /\ 2^(k + 1) <= M /\ d <= M
      BY <1>4, <1>5, <2>1
    <3>2. low \in 0 .. d - 1
      BY <1>2, <2>2, DivNat
    <3> HIDE DEF d, low
    <3> QED BY <3>1, <3>2, <2>2, <1>1
  <2>5. t % m = pw[c] /\ f[k - 1].r = pw[low] /\ t \in Nat
    BY <1>10, <2>1 DEF n
  <2>6. f[k] = MulStep(m, f[k - 1], bit)
    BY DEF n
  <2> HIDE DEF d, c, bit, low, t
  <2>7. pw[c + c] = (pw[c] * pw[c]) % m /\ pw[low + d] = (pw[low] * pw[d]) % m
    BY ONLY <1>8, <2>3, <2>4
  <2>8. pw[c] \in Int /\ pw[low] \in Int /\ pw[d] \in 0 .. m - 1
    BY <1>1, <1>8, <2>3, <2>4
  <2>9. (t * t) % m = pw[d]
    <3>1. t \in Int /\ t % m \in Int
      BY <2>5, <2>8
    <3>2. ((t % m) * t) % m = (t * t) % m
      BY ONLY <1>6, <3>1, Zenon
    <3>3. ((t % m) * (t % m)) % m = (t * (t % m)) % m
      BY ONLY <1>6, <3>1, Zenon
    <3>4. t * (t % m) = (t % m) * t
      <4> DEFINE u == t % m
      <4>1. u \in Int /\ t \in Int
        BY <2>5, <2>8
      <4> HIDE DEF u
      <4>2. t * u = u * t
        BY ONLY <4>1, Reorder
      <4> QED BY <4>2 DEF u
    <3> QED BY ONLY <3>2, <3>3, <3>4, <2>3, <2>5, <2>7
  <2>10. f[k].t = pw[d] /\ f[k].r = IF bit = 1 THEN (pw[low] * pw[d]) % m ELSE pw[low]
    BY <2>5, <2>6, <2>9 DEF MulStep, t
  <2>11. f[k].t % m = pw[d]
    <3> DEFINE e == pw[d]
    <3>1. e \in 0 .. m - 1 /\ f[k].t = e
      BY <2>8, <2>10
    <3> HIDE DEF e
    <3>2. e % m = e
      BY <3>1
    <3> QED BY <3>1, <3>2 DEF e
  <2>12. CASE bit = 1
    <3>1. p % 2^(k + 1) = low + d
      BY <2>2, <2>12
    <3> QED BY <3>1, <2>7, <2>10, <2>11, <2>12 DEF d
  <2>13. CASE bit = 0
    <3>1. p % 2^(k + 1) = low
      BY <2>2, <2>13
    <3> QED BY <3>1, <2>10, <2>11, <2>13 DEF d
  <2> QED BY <2>2, <2>12, <2>13
<1> HIDE DEF Is
<1>11. 0 \in P
  BY <1>9
<1>12. ASSUME NEW k \in Nat, k \in P PROVE k + 1 \in P
  <2>1. SUFFICES ASSUME k + 1 <= n PROVE Is(k + 1)
    OBVIOUS
  <2>2. k + 1 \in 1 .. n /\ (k + 1) - 1 = k /\ Is(k)
    BY <1>2, <1>12, <2>1
  <2> QED BY <1>10, <2>2
<1>13. Nat \subseteq P
  <2> HIDE DEF P
  <2> QED BY ONLY <1>11, <1>12, Induction
<1>14. Is(n)
  BY <1>2, <1>13
<1>15. p % 2^(n + 1) = p
  <2>1. n + 1 \in 0 .. W
    BY <1>2
  <2>2. 2^(n + 1) \in Nat \ {0}
    BY <2>1, <1>4
  <2> DEFINE D == 2^(n + 1)
  <2>3. D \in Nat \ {0} /\ p < D
    BY <1>2, <2>2
  <2> HIDE DEF D
  <2>4. p % D = p
    BY ONLY <1>2, <2>3, Residues
  <2> QED BY <2>4 DEF D
<1>16. RepeatedMod(b, p, m) = pw[p] /\ pw[p] \in 0 .. m - 1
  <2>1. RepeatedMod(b, p, m) = pw[p]
    BY ONLY <1>1, <1>2, <1>3, <1>7, RepeatedIsPower
  <2> QED BY ONLY <1>2, <1>8, <2>1
<1> QED BY <1>14, <1>15, <1>16 DEF Is, b, n

\* A conditional reduction is a reduction.
LEMMA RedExact ==
  ASSUME NEW m \in Nat \ {0}, NEW x \in Nat
  PROVE  (IF x >= m THEN x % m ELSE x) = x % m /\ x % m \in Nat
<1>1. CASE x >= m
  BY <1>1, DivNat
<1>2. CASE ~(x >= m)
  <2>1. x \in 0 .. m - 1
    BY <1>2
  <2>2. x % m = x
    BY <2>1
  <2> QED BY <1>2, <2>2
<1> QED BY <1>1, <1>2

\* A step keeps natural numbers, and residues.
LEMMA MulStepTypes ==
  ASSUME NEW m \in Nat \ {0}, NEW bit
  PROVE  /\ \A acc \in [t : Nat, r : Nat] : MulStep(m, acc, bit) \in [t : Nat, r : Nat]
         /\ \A acc \in [t : 0 .. m - 1, r : 0 .. m - 1] :
              MulStep(m, acc, bit) \in [t : 0 .. m - 1, r : 0 .. m - 1]
<1>1. \A x \in Nat : x % m \in 0 .. m - 1 /\ x % m \in Nat
  BY DivNat
<1>2. ASSUME NEW t \in Nat, NEW r \in Nat
      PROVE  (t * t) % m \in 0 .. m - 1 /\ (r * ((t * t) % m)) % m \in 0 .. m - 1
  <2>1. (t * t) % m \in 0 .. m - 1 /\ (t * t) % m \in Nat
    BY <1>1, ProductInteger
  <2>2. r * ((t * t) % m) \in Nat
    BY ONLY <2>1, r \in Nat, ProductInteger
  <2> QED BY <1>1, <2>1, <2>2
<1>3. ASSUME NEW acc \in [t : Nat, r : Nat]
      PROVE  /\ (acc.t * acc.t) % m \in 0 .. m - 1
             /\ (acc.r * ((acc.t * acc.t) % m)) % m \in 0 .. m - 1
  <2>1. acc.t \in Nat /\ acc.r \in Nat
    OBVIOUS
  <2> QED BY ONLY <2>1, <1>2
<1>4. ASSUME NEW acc \in [t : Nat, r : Nat]
      PROVE  MulStep(m, acc, bit) \in [t : Nat, r : Nat]
  BY <1>3 DEF MulStep
<1>5. ASSUME NEW acc \in [t : 0 .. m - 1, r : 0 .. m - 1]
      PROVE  MulStep(m, acc, bit) \in [t : 0 .. m - 1, r : 0 .. m - 1]
  <2>1. acc \in [t : Nat, r : Nat] /\ acc.r \in 0 .. m - 1
    OBVIOUS
  <2> QED BY <1>3, <2>1 DEF MulStep
<1> QED BY <1>4, <1>5

\* The step of ModExp.
ModExpStep(m, acc, bit) ==
  LET Red(x) == IF x >= m THEN x % m ELSE x
      t      == Red(acc.t * acc.t)
  IN  [t |-> t, r |-> IF bit = 1 THEN Red(acc.r * t) ELSE acc.r]

\* It is as it should be.
LEMMA ModExpStepExact ==
  ASSUME NEW m \in Nat \ {0}, NEW acc \in [t : Nat, r : Nat], NEW bit
  PROVE  ModExpStep(m, acc, bit) = MulStep(m, acc, bit)
<1> DEFINE t == (acc.t * acc.t) % m
<1>1. acc.t \in Nat /\ acc.r \in Nat
  OBVIOUS
<1>2. acc.t * acc.t \in Nat
  BY <1>1, ProductInteger
<1>3. (IF acc.t * acc.t >= m THEN (acc.t * acc.t) % m ELSE acc.t * acc.t) = t /\ t \in Nat
  BY <1>2, RedExact
<1> HIDE DEF t
<1>4. acc.r * t \in Nat
  BY <1>1, <1>3, ProductInteger
<1>5. (IF acc.r * t >= m THEN (acc.r * t) % m ELSE acc.r * t) = (acc.r * t) % m
  BY <1>4, RedExact
<1>6. ModExpStep(m, acc, bit) = [t |-> t, r |-> IF bit = 1 THEN (acc.r * t) % m ELSE acc.r]
  BY <1>3, <1>5 DEF ModExpStep
<1> QED BY <1>6 DEF MulStep, t

\* The step of its variant for words without a double width type.
ModExpDStep(m, acc, bit) ==
  LET t == ModMulFastMuD(acc.t, acc.t, m, ComputeMu(m))
  IN  [t |-> t, r |-> IF bit = 1 THEN ModMulFastMuD(acc.r, t, m, ComputeMu(m)) ELSE acc.r]

\* On residues it is as it should be, too.
LEMMA ModExpDStepExact ==
  ASSUME NEW m, BarrettModulus(m), ShiftsFit(m), NEW acc \in [t : 0 .. m - 1, r : 0 .. m - 1],
         NEW bit
  PROVE  ModExpDStep(m, acc, bit) = MulStep(m, acc, bit)
<1> DEFINE t == (acc.t * acc.t) % m
<1>1. acc.t \in 0 .. m - 1 /\ acc.r \in 0 .. m - 1 /\ m \in Nat \ {0}
  BY ModulusPowers
<1>2. ModMulFastMuD(acc.t, acc.t, m, ComputeMu(m)) = t
  BY <1>1, BarrettMulDExact
<1>3. t \in 0 .. m - 1
  <2>1. acc.t * acc.t \in Nat
    BY <1>1, ProductInteger
  <2> QED BY <1>1, <2>1, DivNat
<1> HIDE DEF t
<1>4. ModMulFastMuD(acc.r, t, m, ComputeMu(m)) = (acc.r * t) % m
  BY <1>1, <1>3, BarrettMulDExact
<1>5. ModExpDStep(m, acc, bit) = [t |-> t, r |-> IF bit = 1 THEN (acc.r * t) % m ELSE acc.r]
  BY <1>2, <1>4 DEF ModExpDStep
<1> QED BY <1>5 DEF MulStep, t

\* ModExp as a fold, step by step.
LEMMA ModExpUnrolls ==
  ASSUME NEW a \in Word, NEW p \in Word, NEW m \in Nat \ {0}
  PROVE  \E f \in [0 .. StepsLeft(p) -> [t : Nat, r : Nat]] :
           /\ f[0] = [t |-> a, r |-> IF p % 2 = 1 THEN a % m ELSE 1]
           /\ \A k \in 1 .. StepsLeft(p) : f[k] = MulStep(m, f[k - 1], (p \div 2^k) % 2)
           /\ ModExp(a, p, m) = f[StepsLeft(p)].r
<1> DEFINE n == StepsLeft(p)
           A == [t : Nat, r : Nat]
           s == Later(p)
           base == [t |-> a, r |-> IF p % 2 = 1 THEN (IF a >= m THEN a % m ELSE a) ELSE 1]
           F == [q \in (1 .. n) \X A |-> ModExpStep(m, q[2], s[q[1]])]
           Good(h) == h = [i \in SUBSET (1 .. n) |->
                             IF i = {} THEN base ELSE ModExpStep(m, h[i \ {Max(i)}], s[Max(i)])]
           iter == CHOOSE h : Good(h)
<1>1. /\ n \in Nat /\ DOMAIN s = 1 .. n
      /\ \A k \in 1 .. n : s[k] = (p \div 2^k) % 2
  BY ONLY p \in Word, LaterBits, Zenon
<1>2. ModExp(a, p, m) = iter[1 .. n].r
  BY <1>1 DEF ModExp, FoldLeft, MapThenFoldSet, ModExpStep, Later
<1>3. \A acc \in A, k \in 1 .. n :
        ModExpStep(m, acc, s[k]) \in A /\ ModExpStep(m, acc, s[k]) = MulStep(m, acc, s[k])
  <2> SUFFICES ASSUME NEW acc \in A, NEW k \in 1 .. n
               PROVE  ModExpStep(m, acc, s[k]) \in A /\ ModExpStep(m, acc, s[k]) = MulStep(m, acc, s[k])
    OBVIOUS
  <2>1. ModExpStep(m, acc, s[k]) = MulStep(m, acc, s[k])
    BY ONLY acc \in A, m \in Nat \ {0}, ModExpStepExact
  <2>2. MulStep(m, acc, s[k]) \in A
    BY ONLY acc \in A, m \in Nat \ {0}, MulStepTypes
  <2> QED BY <2>1, <2>2
<1>4. Steps(n, A, F) /\ \A k \in 1 .. n, acc \in A : F[<<k, acc>>] = ModExpStep(m, acc, s[k])
  BY <1>1, <1>3 DEF Steps
<1>5. base \in A /\ base = [t |-> a, r |-> IF p % 2 = 1 THEN a % m ELSE 1]
  <2>1. a \in Nat
    BY WordSize
  <2>2. (IF a >= m THEN a % m ELSE a) = a % m /\ a % m \in Nat
    BY ONLY <2>1, m \in Nat \ {0}, RedExact
  <2>3. base = [t |-> a, r |-> IF p % 2 = 1 THEN a % m ELSE 1]
    BY <2>2
  <2> QED BY <2>1, <2>2, <2>3
<1>6. \A i \in SUBSET (1 .. n) : i # {} => Max(i) \in 1 .. n /\ i \ {Max(i)} \in SUBSET (1 .. n)
  BY <1>1, MaxOf
<1> HIDE DEF n, A, s, base, F
<1>7. PICK h : h \in [SUBSET (1 .. n) -> A] /\ Folds(n, A, base, F, h)
  BY <1>1, <1>4, <1>5, FoldExists
<1>8. Good(h)
  BY <1>4, <1>6, <1>7 DEF Folds
<1>9. Good(iter)
  BY <1>8
<1> HIDE DEF iter
<1>10. Folds(n, A, base, F, iter)
  BY <1>4, <1>6, <1>9 DEF Folds
<1> HIDE DEF Good
<1>11. PICK f : Unrolls(n, A, base, F, f) /\ f[n] = iter[1 .. n]
  BY <1>1, <1>4, <1>5, <1>10, FoldUnroll
<1>12. \A k \in 1 .. n : f[k - 1] \in A
  BY <1>1, <1>11 DEF Unrolls
<1>13. ASSUME NEW k \in 1 .. n
       PROVE  f[k] = MulStep(m, f[k - 1], (p \div 2^k) % 2)
  <2>1. f[k - 1] \in A
    BY <1>12
  <2>2. f[k] = F[<<k, f[k - 1]>>]
    BY <1>11 DEF Unrolls
  <2>3. F[<<k, f[k - 1]>>] = MulStep(m, f[k - 1], s[k])
    BY <1>3, <1>4, <2>1
  <2> QED BY <1>1, <2>2, <2>3
<1> QED BY <1>2, <1>5, <1>11, <1>13 DEF n, A, base, Unrolls

\* The same for ModExp without a wider integer.
LEMMA ModExpDUnrolls ==
  ASSUME NEW a \in Word, NEW p \in Word, NEW m, BarrettModulus(m), ShiftsFit(m), m # 1
  PROVE  \E f \in [0 .. StepsLeft(p) -> [t : 0 .. m - 1, r : 0 .. m - 1]] :
           /\ f[0] = [t |-> a % m, r |-> IF p % 2 = 1 THEN a % m ELSE 1]
           /\ \A k \in 1 .. StepsLeft(p) : f[k] = MulStep(m, f[k - 1], (p \div 2^k) % 2)
           /\ ModExpD(a, p, m) = f[StepsLeft(p)].r
<1>0. m \in Nat \ {0} /\ a \in Nat
  BY ModulusPowers, WordSize
<1> DEFINE n == StepsLeft(p)
           A == [t : 0 .. m - 1, r : 0 .. m - 1]
           s == Later(p)
           base == [t |-> a % m,
                    r |-> IF p % 2 = 1 THEN ModMulFastMuD(1, a % m, m, ComputeMu(m)) ELSE 1]
           F == [q \in (1 .. n) \X A |-> ModExpDStep(m, q[2], s[q[1]])]
           Good(h) == h = [i \in SUBSET (1 .. n) |->
                             IF i = {} THEN base ELSE ModExpDStep(m, h[i \ {Max(i)}], s[Max(i)])]
           iter == CHOOSE h : Good(h)
<1>1. /\ n \in Nat /\ DOMAIN s = 1 .. n
      /\ \A k \in 1 .. n : s[k] = (p \div 2^k) % 2
  BY ONLY p \in Word, LaterBits, Zenon
<1>2. ModExpD(a, p, m) = iter[1 .. n].r
  BY <1>1 DEF ModExpD, FoldLeft, MapThenFoldSet, ModExpDStep, Later
<1>3. \A acc \in A, k \in 1 .. n :
        ModExpDStep(m, acc, s[k]) \in A /\ ModExpDStep(m, acc, s[k]) = MulStep(m, acc, s[k])
  <2> SUFFICES ASSUME NEW acc \in A, NEW k \in 1 .. n
               PROVE  ModExpDStep(m, acc, s[k]) \in A /\ ModExpDStep(m, acc, s[k]) = MulStep(m, acc, s[k])
    OBVIOUS
  <2>1. ModExpDStep(m, acc, s[k]) = MulStep(m, acc, s[k])
    BY ONLY acc \in A, BarrettModulus(m), ShiftsFit(m), ModExpDStepExact
  <2>2. MulStep(m, acc, s[k]) \in A
    BY ONLY acc \in A, <1>0, MulStepTypes
  <2> QED BY <2>1, <2>2
<1>4. Steps(n, A, F) /\ \A k \in 1 .. n, acc \in A : F[<<k, acc>>] = ModExpDStep(m, acc, s[k])
  BY <1>1, <1>3 DEF Steps
<1>5. base \in A /\ base = [t |-> a % m, r |-> IF p % 2 = 1 THEN a % m ELSE 1]
  <2>2. a % m \in 0 .. m - 1 /\ 1 \in 0 .. m - 1
    <3>1. a % m \in 0 .. m - 1
      BY ONLY <1>0, Residues
    <3>2. 1 \in 0 .. m - 1
      BY <1>0, m # 1
    <3> QED BY <3>1, <3>2
  <2>1. ModMulFastMuD(1, a % m, m, ComputeMu(m)) = a % m
    <3> DEFINE b == a % m
    <3>1. b \in 0 .. m - 1 /\ 1 \in 0 .. m - 1 /\ b \in Nat
      BY <1>0, <2>2
    <3> HIDE DEF b
    <3>2. ModMulFastMuD(1, b, m, ComputeMu(m)) = (1 * b) % m
      BY <3>1, BarrettMulDExact
    <3>3. 1 * b = b /\ b % m = b
      <4>1. b < m
        BY <1>0, <3>1
      <4> QED BY ONLY <1>0, <3>1, <4>1, Residues
    <3> QED BY <3>2, <3>3 DEF b
  <2>3. base = [t |-> a % m, r |-> IF p % 2 = 1 THEN a % m ELSE 1]
    BY <2>1
  <2> QED BY <2>2, <2>3
<1>6. \A i \in SUBSET (1 .. n) : i # {} => Max(i) \in 1 .. n /\ i \ {Max(i)} \in SUBSET (1 .. n)
  BY <1>1, MaxOf
<1> HIDE DEF n, A, s, base, F
<1>7. PICK h : h \in [SUBSET (1 .. n) -> A] /\ Folds(n, A, base, F, h)
  BY <1>1, <1>4, <1>5, FoldExists
<1>8. Good(h)
  BY <1>4, <1>6, <1>7 DEF Folds
<1>9. Good(iter)
  BY <1>8
<1> HIDE DEF iter
<1>10. Folds(n, A, base, F, iter)
  BY <1>4, <1>6, <1>9 DEF Folds
<1> HIDE DEF Good
<1>11. PICK f : Unrolls(n, A, base, F, f) /\ f[n] = iter[1 .. n]
  BY <1>1, <1>4, <1>5, <1>10, FoldUnroll
<1>12. \A k \in 1 .. n : f[k - 1] \in A
  BY <1>1, <1>11 DEF Unrolls
<1>13. ASSUME NEW k \in 1 .. n
       PROVE  f[k] = MulStep(m, f[k - 1], (p \div 2^k) % 2)
  <2>1. f[k - 1] \in A
    BY <1>12
  <2>2. f[k] = F[<<k, f[k - 1]>>]
    BY <1>11 DEF Unrolls
  <2>3. F[<<k, f[k - 1]>>] = MulStep(m, f[k - 1], s[k])
    BY <1>3, <1>4, <2>1
  <2> QED BY <1>1, <2>2, <2>3
<1> QED BY <1>2, <1>5, <1>11, <1>13 DEF n, A, base, Unrolls

\* ModExp returns the power in the residue ring, for every word and exponent.
LEMMA ModExpExact ==
  ASSUME NEW a \in Word, NEW p \in Word, NEW m \in Word \ {0, 1}
  PROVE  ModExp(a, p, m) = RepeatedMod(a % m, p, m) /\ ModExp(a, p, m) \in Word
<1>1. m \in Nat \ {0, 1} /\ m \in Nat \ {0} /\ a \in Nat /\ m <= 2^W - 1
  BY WordSize
<1>2. PICK f \in [0 .. StepsLeft(p) -> [t : Nat, r : Nat]] :
           /\ f[0] = [t |-> a, r |-> IF p % 2 = 1 THEN a % m ELSE 1]
           /\ \A k \in 1 .. StepsLeft(p) : f[k] = MulStep(m, f[k - 1], (p \div 2^k) % 2)
           /\ ModExp(a, p, m) = f[StepsLeft(p)].r
  BY <1>1, ModExpUnrolls
<1>3. f[0].t % m = a % m /\ f[0].r = (IF p % 2 = 1 THEN a % m ELSE 1)
  BY <1>2
<1>4. f[StepsLeft(p)].r = RepeatedMod(a % m, p, m) /\ f[StepsLeft(p)].r \in 0 .. m - 1
  BY ONLY <1>1, <1>2, <1>3, p \in Word, BySquaring
<1> QED BY <1>1, <1>2, <1>4, WordSize

\* So it does without a wider integer.
LEMMA ModExpDExact ==
  ASSUME NEW a \in Word, NEW p \in Word, NEW m \in Word \ {0, 1}, BarrettModulus(m), ShiftsFit(m)
  PROVE  ModExpD(a, p, m) = RepeatedMod(a % m, p, m) /\ ModExpD(a, p, m) \in Word
<1>1. m \in Nat \ {0, 1} /\ m \in Nat \ {0} /\ a \in Nat /\ m <= 2^W - 1
  BY WordSize
<1>2. PICK f \in [0 .. StepsLeft(p) -> [t : 0 .. m - 1, r : 0 .. m - 1]] :
           /\ f[0] = [t |-> a % m, r |-> IF p % 2 = 1 THEN a % m ELSE 1]
           /\ \A k \in 1 .. StepsLeft(p) : f[k] = MulStep(m, f[k - 1], (p \div 2^k) % 2)
           /\ ModExpD(a, p, m) = f[StepsLeft(p)].r
  BY <1>1, ModExpDUnrolls
<1>3. f[0].t % m = a % m /\ f[0].r = (IF p % 2 = 1 THEN a % m ELSE 1)
  <2> DEFINE b == a % m
  <2>1. b \in 0 .. m - 1
    BY <1>1, DivNat
  <2> HIDE DEF b
  <2>2. b % m = b
    BY <1>1, <2>1
  <2>3. f[0].t = b
    BY <1>2 DEF b
  <2> QED BY <1>2, <2>2, <2>3 DEF b
<1>4. f \in [0 .. StepsLeft(p) -> [t : Nat, r : Nat]]
  BY <1>1
<1>5. f[StepsLeft(p)].r = RepeatedMod(a % m, p, m) /\ f[StepsLeft(p)].r \in 0 .. m - 1
  BY ONLY <1>1, <1>2, <1>3, <1>4, p \in Word, BySquaring
<1> QED BY <1>1, <1>2, <1>5, WordSize

-----------------------------------------------------------------------------
(* Strings.                                                                *)

Outcomes(A) == [result : A, threw : BOOLEAN]

\* One character of a decimal string.
LEMMA SetDigitTypes ==
  ASSUME number \in Word, NEW acc \in Outcomes(Word), NEW c \in Int
  PROVE  /\ SetDigit(acc, c) \in Outcomes(Word)
         /\ (acc.threw => acc.result = number)
              => (SetDigit(acc, c).threw => SetDigit(acc, c).result = number)
<1>1. acc.result \in Int
  BY WordSize DEF Outcomes
<1>2. Wrap(10 * acc.result + c) \in Word
  BY <1>1, WrapWord
<1> QED BY <1>2 DEF SetDigit, Unless, Returns, Throws, Outcomes

\* SetValue as a fold, step by step.
LEMMA SetValueUnrolls ==
  ASSUME number \in Word, NEW str \in Seq(Int)
  PROVE  \E f \in [0 .. Len(str) -> Outcomes(Word)] :
           /\ f[0] = Returns(0)
           /\ \A k \in 1 .. Len(str) : f[k] = SetDigit(f[k - 1], str[k])
           /\ SetValue(str) = f[Len(str)]
<1> DEFINE n == Len(str)
           A == Outcomes(Word)
           s == str
           base == Returns(0)
           F == [q \in (1 .. n) \X A |-> SetDigit(q[2], s[q[1]])]
           Good(h) == h = [i \in SUBSET (1 .. n) |->
                             IF i = {} THEN base ELSE SetDigit(h[i \ {Max(i)}], s[Max(i)])]
           iter == CHOOSE h : Good(h)
<1>1. n \in Nat /\ DOMAIN s = 1 .. n /\ \A k \in 1 .. n : s[k] \in Int
  OBVIOUS
<1>2. SetValue(str) = iter[1 .. n]
  BY <1>1 DEF SetValue, FoldLeft, MapThenFoldSet
<1>3. \A acc \in A, k \in 1 .. n : SetDigit(acc, s[k]) \in A
  BY <1>1, SetDigitTypes
<1>4. Steps(n, A, F) /\ \A k \in 1 .. n, acc \in A : F[<<k, acc>>] = SetDigit(acc, s[k])
  BY <1>1, <1>3 DEF Steps
<1>5. base \in A
  BY WordSize DEF Returns, Outcomes
<1>6. \A i \in SUBSET (1 .. n) : i # {} => Max(i) \in 1 .. n /\ i \ {Max(i)} \in SUBSET (1 .. n)
  BY <1>1, MaxOf
<1> HIDE DEF n, A, s, base, F
<1>7. PICK h : h \in [SUBSET (1 .. n) -> A] /\ Folds(n, A, base, F, h)
  BY <1>1, <1>4, <1>5, FoldExists
<1>8. Good(h)
  BY <1>4, <1>6, <1>7 DEF Folds
<1>9. Good(iter)
  BY <1>8
<1> HIDE DEF iter
<1>10. Folds(n, A, base, F, iter)
  BY <1>4, <1>6, <1>9 DEF Folds
<1> HIDE DEF Good
<1>11. PICK f : Unrolls(n, A, base, F, f) /\ f[n] = iter[1 .. n]
  BY <1>1, <1>4, <1>5, <1>10, FoldUnroll
<1>12. \A k \in 1 .. n : f[k - 1] \in A
  BY <1>1, <1>11 DEF Unrolls
<1> QED BY <1>2, <1>4, <1>11, <1>12 DEF n, A, s, base, Unrolls

\* SetValue leaves a word, and the number it found when it throws.
LEMMA SetValueKeeps ==
  ASSUME number \in Word, NEW str \in Seq(Int)
  PROVE  /\ SetValue(str) \in Outcomes(Word)
         /\ SetValue(str).threw => SetValue(str).result = number
<1>1. PICK f \in [0 .. Len(str) -> Outcomes(Word)] :
           /\ f[0] = Returns(0)
           /\ \A k \in 1 .. Len(str) : f[k] = SetDigit(f[k - 1], str[k])
           /\ SetValue(str) = f[Len(str)]
  BY SetValueUnrolls
<1> DEFINE n == Len(str)
           Kept(k) == f[k].threw => f[k].result = number
           P == {k \in Nat : k <= n => Kept(k)}
<1>2. n \in Nat /\ \A k \in 1 .. n : str[k] \in Int
  OBVIOUS
<1>3. 0 \in P
  BY <1>1 DEF Returns
<1>4. ASSUME NEW k \in Nat, k \in P PROVE k + 1 \in P
  <2>1. SUFFICES ASSUME k + 1 <= n PROVE Kept(k + 1)
    OBVIOUS
  <2>2. k + 1 \in 1 .. n /\ (k + 1) - 1 = k /\ Kept(k) /\ f[k] \in Outcomes(Word) /\ str[k + 1] \in Int
    BY <1>2, <1>4, <2>1
  <2>3. f[k + 1] = SetDigit(f[k], str[k + 1])
    BY <1>1, <2>2
  <2> QED BY <2>2, <2>3, SetDigitTypes
<1>5. Nat \subseteq P
  <2> HIDE DEF P
  <2> QED BY ONLY <1>3, <1>4, Induction
<1>6. Kept(n)
  BY <1>2, <1>5
<1> QED BY <1>1, <1>2, <1>6

\* One character of a binary string.
LEMMA FromBitTypes ==
  ASSUME number \in Word, NEW acc \in Outcomes(Nat), NEW c \in Int
  PROVE  FromBit(acc, c) \in Outcomes(Nat)
<1>1. acc.result * 2 \in Int
  BY DEF Outcomes
<1>2. Wrap(acc.result * 2) \in Nat /\ number \in Nat
  BY <1>1, WrapWord, WordSize
<1>3. ~(c < 0 \/ c > 1) => Wrap(acc.result * 2) + c \in Nat
  BY <1>2
<1> QED BY <1>2, <1>3 DEF FromBit, Unless, Returns, Throws, Outcomes

\* FromBinaryString as a fold, step by step.
LEMMA FromBinaryUnrolls ==
  ASSUME number \in Word, NEW str \in Seq(Int), Len(str) <= W
  PROVE  \E f \in [0 .. Len(str) -> Outcomes(Nat)] :
           /\ f[0] = Returns(0)
           /\ \A k \in 1 .. Len(str) : f[k] = FromBit(f[k - 1], str[k])
           /\ FromBinaryString(str) = f[Len(str)]
<1> DEFINE n == Len(str)
           A == Outcomes(Nat)
           s == str
           base == Returns(0)
           F == [q \in (1 .. n) \X A |-> FromBit(q[2], s[q[1]])]
           Good(h) == h = [i \in SUBSET (1 .. n) |->
                             IF i = {} THEN base ELSE FromBit(h[i \ {Max(i)}], s[Max(i)])]
           iter == CHOOSE h : Good(h)
<1>1. n \in Nat /\ DOMAIN s = 1 .. n /\ \A k \in 1 .. n : s[k] \in Int
  OBVIOUS
<1>2. FromBinaryString(str) = iter[1 .. n]
  BY <1>1, PowersOfTwo DEF FromBinaryString, FoldLeft, MapThenFoldSet
<1>3. \A acc \in A, k \in 1 .. n : FromBit(acc, s[k]) \in A
  BY <1>1, FromBitTypes
<1>4. Steps(n, A, F) /\ \A k \in 1 .. n, acc \in A : F[<<k, acc>>] = FromBit(acc, s[k])
  BY <1>1, <1>3 DEF Steps
<1>5. base \in A
  BY DEF Returns, Outcomes
<1>6. \A i \in SUBSET (1 .. n) : i # {} => Max(i) \in 1 .. n /\ i \ {Max(i)} \in SUBSET (1 .. n)
  BY <1>1, MaxOf
<1> HIDE DEF n, A, s, base, F
<1>7. PICK h : h \in [SUBSET (1 .. n) -> A] /\ Folds(n, A, base, F, h)
  BY <1>1, <1>4, <1>5, FoldExists
<1>8. Good(h)
  BY <1>4, <1>6, <1>7 DEF Folds
<1>9. Good(iter)
  BY <1>8
<1> HIDE DEF iter
<1>10. Folds(n, A, base, F, iter)
  BY <1>4, <1>6, <1>9 DEF Folds
<1> HIDE DEF Good
<1>11. PICK f : Unrolls(n, A, base, F, f) /\ f[n] = iter[1 .. n]
  BY <1>1, <1>4, <1>5, <1>10, FoldUnroll
<1>12. \A k \in 1 .. n : f[k - 1] \in A
  BY <1>1, <1>11 DEF Unrolls
<1> QED BY <1>2, <1>4, <1>11, <1>12 DEF n, A, s, base, Unrolls

\* Appending a bit does not change the bits above it.
LEMMA AppendBit ==
  ASSUME NEW r \in Nat, NEW c \in 0 .. 1, NEW D \in Nat \ {0}
  PROVE  (2 * r + c) \div (2 * D) = r \div D
<1>1. PICK q \in Nat, s \in 0 .. D - 1 : q = r \div D /\ r = D * q + s
  BY DivSplit
<1> DEFINE M == 2 * D
           t == 2 * s + c
           x == 2 * r + c
<1>2. M \in Nat \ {0} /\ t \in 0 .. M - 1 /\ x \in Nat
  OBVIOUS
<1>3. x = q * M + t
  <2>1. D * q \in Int
    OBVIOUS
  <2>2. 2 * r = 2 * (D * q) + 2 * s
    <3> DEFINE y == D * q
    <3>1. r = y + s /\ y \in Int
      BY <1>1, <2>1
    <3> HIDE DEF y
    <3>2. 2 * r = 2 * y + 2 * s
      BY ONLY <3>1, s \in 0 .. D - 1
    <3> QED BY <3>2 DEF y
  <2>3. 2 * (D * q) = q * M /\ q * M \in Int
    OBVIOUS
  <2> QED BY <2>2, <2>3
<1> HIDE DEF M, t, x
<1>4. x \div M = q
  BY ONLY <1>2, <1>3, q \in Nat, DivUnique
<1> QED BY <1>1, <1>4 DEF M, x

\* A binary string is refused exactly when a character is no bit, and else
\* every bit of the result is the character at its place.
LEMMA FromBinaryExact ==
  ASSUME number \in Word, NEW str \in Seq(Int), Len(str) <= W
  PROVE  /\ FromBinaryString(str) \in Outcomes(Nat)
         /\ FromBinaryString(str).threw <=> \E i \in 1 .. Len(str) : str[i] \notin {0, 1}
         /\ ~FromBinaryString(str).threw =>
              \A i \in 1 .. Len(str) :
                (FromBinaryString(str).result \div 2^(Len(str) - i)) % 2 = str[i]
<1>1. PICK f \in [0 .. Len(str) -> Outcomes(Nat)] :
           /\ f[0] = Returns(0)
           /\ \A k \in 1 .. Len(str) : f[k] = FromBit(f[k - 1], str[k])
           /\ FromBinaryString(str) = f[Len(str)]
  BY FromBinaryUnrolls
<1> DEFINE n == Len(str)
           Refused(k) == f[k].threw <=> \E i \in 1 .. k : str[i] \notin {0, 1}
           Exact(k)   == ~f[k].threw =>
                           /\ f[k].result < 2^k
                           /\ \A i \in 1 .. k : (f[k].result \div 2^(k - i)) % 2 = str[i]
           P == {k \in Nat : k <= n => Refused(k) /\ Exact(k)}
<1>2. n \in Nat /\ n <= W /\ W \in Nat /\ \A k \in 1 .. n : str[k] \in Int
  BY PowersOfTwo
<1>3. \A i \in 0 .. W : 2^i \in Nat \ {0} /\ 2^i <= 2^W
  BY PowersOfTwo
<1>4. 2^0 = 1 /\ \A i \in 1 .. W : 2^i = 2 * 2^(i - 1)
  BY PowersOfTwo
<1> HIDE DEF n
<1>5. Refused(0) /\ Exact(0)
  <2>1. f[0].threw = FALSE /\ f[0].result = 0 /\ 1 .. 0 = {}
    BY <1>1 DEF Returns
  <2> QED BY <2>1, <1>4
<1>6. ASSUME NEW k \in 1 .. n, Refused(k - 1), Exact(k - 1)
      PROVE  Refused(k) /\ Exact(k)
  <2> DEFINE r == f[k - 1].result
             c == str[k]
  <2>1. k \in 1 .. W /\ k \in 0 .. W /\ k - 1 \in 0 .. W /\ k - 1 \in 0 .. n /\ k - 1 \in Nat
    BY <1>2
  <2>2. f[k - 1] \in Outcomes(Nat) /\ f[k] = FromBit(f[k - 1], c) /\ c \in Int
    BY <1>1, <1>2, <2>1 DEF n
  <2>3. \A i \in 1 .. k : i = k \/ i \in 1 .. (k - 1)
    BY <2>1
  <2>4. \A i \in 1 .. (k - 1) : i \in 1 .. k
    BY <2>1
  <2>5. r \in Nat /\ f[k - 1].threw \in BOOLEAN
    BY <2>2 DEF Outcomes
  <2>6. CASE f[k - 1].threw
    <3>1. f[k] = f[k - 1]
      BY <2>2, <2>6 DEF FromBit
    <3> QED BY <3>1, <2>4, <2>6, <1>6
  <2>7. CASE ~f[k - 1].threw /\ c \notin {0, 1}
    <3>1. f[k].threw
      BY <2>2, <2>7 DEF FromBit, Unless, Throws
    <3>2. k \in 1 .. k /\ str[k] \notin {0, 1}
      BY <2>1, <2>7
    <3> QED BY <3>1, <3>2
  <2>8. CASE ~f[k - 1].threw /\ c \in {0, 1}
    <3> DEFINE x == f[k].result
    <3>1. f[k].threw = FALSE /\ x = Wrap(r * 2) + c
      BY <2>2, <2>8 DEF FromBit, Unless, Returns
    <3>2. r < 2^(k - 1) /\ \A i \in 1 .. (k - 1) : (r \div 2^(k - 1 - i)) % 2 = str[i]
      BY <1>6, <2>8
    <3>3. 2^k = 2 * 2^(k - 1) /\ 2^k <= 2^W /\ 2^(k - 1) \in Nat \ {0} /\ 2^W \in Nat \ {0}
      BY <1>2, <1>3, <1>4, <2>1
    <3> HIDE DEF r, c
    <3>4. r * 2 \in Word
      BY <2>5, <3>2, <3>3, WordSize
    <3>5. Wrap(r * 2) = r * 2
      BY ONLY <3>4, WrapWord
    <3>6. x = 2 * r + c /\ c \in 0 .. 1 /\ x \in Nat
      BY <3>1, <3>5, <2>5, <2>8
    <3> HIDE DEF x
    <3>7. x < 2^k
      BY <2>5, <3>2, <3>3, <3>6
    <3>8. ASSUME NEW i \in 1 .. k PROVE (x \div 2^(k - i)) % 2 = str[i]
      <4>1. CASE i = k
        <5>1. k - i = 0 /\ 2^0 = 1
          BY <2>1, <4>1, <1>4
        <5>2. x % 2 = c /\ x \div 1 = x
          BY <3>6, <2>5
        <5> QED BY <5>1, <5>2, <4>1 DEF c
      <4>2. CASE i # k
        <5> DEFINE j == k - i
                   D == 2^(j - 1)
        <5>1. i \in 1 .. (k - 1) /\ j \in 1 .. W /\ j - 1 = k - 1 - i /\ j - 1 \in 0 .. W
          BY <2>1, <4>2, <1>2
        <5>2. 2^j = 2 * D /\ D \in Nat \ {0}
          BY <1>3, <1>4, <5>1
        <5>3. (r \div D) % 2 = str[i]
          BY <3>2, <5>1
        <5> HIDE DEF D
        <5>4. x \div (2 * D) = r \div D
          BY ONLY <3>6, <2>5, <5>2, AppendBit
        <5>5. x \div 2^j = r \div D
          BY <5>2, <5>4
        <5> QED BY <5>3, <5>5
      <4> QED BY <4>1, <4>2
    <3>9. Refused(k)
      <4>1. \A i \in 1 .. (k - 1) : str[i] \in {0, 1}
        BY <1>6, <2>8
      <4>2. str[k] \in {0, 1}
        BY <2>8 DEF c
      <4> QED BY <3>1, <4>1, <4>2, <2>3
    <3>10. Exact(k)
      BY <3>7, <3>8 DEF x
    <3> QED BY <3>9, <3>10
  <2> QED BY <2>6, <2>7, <2>8
<1> HIDE DEF Refused, Exact
<1>7. 0 \in P
  BY <1>5
<1>8. ASSUME NEW k \in Nat, k \in P PROVE k + 1 \in P
  <2>1. SUFFICES ASSUME k + 1 <= n PROVE Refused(k + 1) /\ Exact(k + 1)
    OBVIOUS
  <2>2. k + 1 \in 1 .. n /\ (k + 1) - 1 = k /\ Refused(k) /\ Exact(k)
    BY <1>2, <1>8, <2>1
  <2> QED BY <1>6, <2>2
<1>9. Nat \subseteq P
  <2> HIDE DEF P
  <2> QED BY ONLY <1>7, <1>8, Induction
<1>10. Refused(n) /\ Exact(n)
  BY <1>2, <1>9
<1>11. f[n] \in Outcomes(Nat)
  BY <1>2 DEF n
<1> QED BY <1>1, <1>10, <1>11 DEF Refused, Exact, n

-----------------------------------------------------------------------------
(* The product of two words from half words.                               *)

\* A half word squared is the size of a word.
LEMMA HalfWord == 2^(W \div 2) \in Nat \ {0} /\ 2^W = 2^(W \div 2) * 2^(W \div 2)
<1> DEFINE h == W \div 2
<1>1. W \in Nat /\ h \in Nat /\ W = h + h
  BY WordAssumption, ArithAssumption
<1> HIDE DEF h
<1>2. h \in 0 .. 2 * W /\ h + h <= 2 * W
  BY <1>1
<1>3. \A i, j \in 0 .. 2 * W : i + j <= 2 * W => 2^(i + j) = 2^i * 2^j
  BY PowerAssumption
<1>4. 2^(h + h) = 2^h * 2^h
  BY ONLY <1>2, <1>3, Zenon
<1>5. 2^h \in Nat \ {0}
  BY <1>2, PowerAssumption
<1> QED BY <1>1, <1>4, <1>5 DEF h

\* The sum of p and q is s with the carry c.
Carries(p, q, M, s, c) ==
  /\ p + q = s + c * M /\ s \in 0 .. M - 1
  /\ (s < p) <=> (c = 1)
  /\ (s < q) <=> (c = 1)

\* A sum of two words wraps at most once, and is below either then.
LEMMA CarryOut ==
  ASSUME NEW M \in Nat \ {0}, NEW p \in 0 .. M - 1, NEW q \in 0 .. M - 1
  PROVE  \E c \in 0 .. 1 : Carries(p, q, M, (p + q) % M, c)
<1> DEFINE s == p + q
<1>1. s \in Nat /\ s < 2 * M
  OBVIOUS
<1>2. CASE s < M
  <2>1. s % M = s
    BY <1>1, <1>2
  <2>2. Carries(p, q, M, s % M, 0)
    BY <1>2, <2>1 DEF Carries
  <2> QED BY <2>2
<1>3. CASE ~(s < M)
  <2> DEFINE r == s - M
  <2>1. r \in 0 .. M - 1 /\ s = 1 * M + r
    BY <1>1, <1>3
  <2>2. s % M = r
    BY ONLY <2>1, <1>1, M \in Nat \ {0}, DivUnique
  <2>3. s = (s % M) + 1 * M
    BY <2>1, <2>2
  <2>4. r < p /\ r < q
    BY <1>1
  <2>5. Carries(p, q, M, s % M, 1)
    BY <2>1, <2>2, <2>3, <2>4 DEF Carries
  <2> QED BY <2>5
<1> QED BY <1>2, <1>3

\* The product of two half words is a word.
LEMMA HalfProduct ==
  ASSUME NEW H \in Nat \ {0}, NEW x \in 0 .. H - 1, NEW y \in 0 .. H - 1
  PROVE  x * y \in 0 .. H * H - 1 /\ x * H \in 0 .. H * H - 1
<1>1. x * y <= x * H
  <2>1. y * x <= H * x /\ x * y = y * x /\ x * H = H * x
    BY Monotone
  <2> QED BY <2>1
<1>2. (x + 1) * H <= H * H /\ (x + 1) * H = x * H + H
  <2>1. x + 1 \in Int /\ H \in Int /\ x + 1 <= H
    OBVIOUS
  <2> QED BY <2>1, Monotone
<1>3. x * y \in Nat /\ x * H \in Nat /\ H * H \in Nat
  BY ProductInteger
<1> QED BY <1>1, <1>2, <1>3

\* Multiplying out two pairs of half words.
LEMMA MultiplyOut ==
  ASSUME NEW H \in Nat \ {0}, NEW M \in Nat, M = H * H,
         NEW ah \in Nat, NEW al \in Nat, NEW bh \in Nat, NEW bl \in Nat
  PROVE  (ah * H + al) * (bh * H + bl) = (ah * bh) * M + (al * bh + ah * bl) * H + al * bl
<1>1. (ah * H) * (bh * H) = (ah * bh) * M
  <2>1. (ah * H) * (bh * H) = ah * (H * (bh * H))
    BY Reorder, ProductInteger
  <2>2. H * (bh * H) = bh * M
    BY Reorder, ProductInteger
  <2>3. ah * (bh * M) = (ah * bh) * M
    BY Reorder
  <2> QED BY <2>1, <2>2, <2>3
<1>2. (ah * H) * bl = (ah * bl) * H
  BY Reorder
<1>3. al * (bh * H) = (al * bh) * H
  BY Reorder
<1>4. (ah * H + al) * (bh * H + bl) = (ah * H) * (bh * H) + (ah * H) * bl + al * (bh * H) + al * bl
  <2> DEFINE u == ah * H
             v == bh * H
  <2>1. u \in Nat /\ v \in Nat
    BY ProductInteger
  <2> HIDE DEF u, v
  <2>2. (u + al) * (v + bl) = u * v + u * bl + al * v + al * bl
    BY ONLY <2>1, al \in Nat, bl \in Nat
  <2> QED BY <2>2 DEF u, v
<1>5. (al * bh + ah * bl) * H = (al * bh) * H + (ah * bl) * H
  <2> DEFINE u == al * bh
             v == ah * bl
  <2>1. u \in Nat /\ v \in Nat
    BY ProductInteger
  <2> HIDE DEF u, v
  <2>2. (u + v) * H = u * H + v * H
    BY ONLY <2>1, H \in Nat \ {0}
  <2> QED BY <2>2 DEF u, v
<1>6. (ah * bh) * M \in Int /\ (ah * bl) * H \in Int /\ (al * bh) * H \in Int /\ al * bl \in Int
  BY ProductInteger
<1> QED BY ONLY <1>1, <1>2, <1>3, <1>4, <1>5, <1>6

\* The product from half words is the product.
LEMMA SchoolbookIsProduct ==
  ASSUME NEW a \in Word, NEW b \in Word
  PROVE  MultDSchool(a, b) = MultD(a, b)
<1> DEFINE H    == 2^(W \div 2)
           M    == 2^W
           al   == a % H
           ah   == a \div H
           bl   == b % H
           bh   == b \div H
           p1   == al * bh
           p2   == ah * bl
           temp == Wrap(p1 + p2)
           low  == al * bl
           tl   == temp % H
           th   == temp \div H
           x    == tl * H
           lo   == Wrap(low + x)
           top  == ah * bh
<1>1. H \in Nat \ {0} /\ M \in Nat \ {0} /\ M = H * H /\ a \in 0 .. M - 1 /\ b \in 0 .. M - 1
  BY HalfWord, WordSize
<1>2. \A y : Wrap(y) = y % M
  BY DEF Wrap
<1> HIDE DEF H, M
<1>3. ASSUME NEW y \in 0 .. M - 1
      PROVE  y % H \in 0 .. H - 1 /\ y \div H \in 0 .. H - 1 /\ y = (y \div H) * H + (y % H)
  <2>1. y \in Nat /\ y < H * H
    BY <1>1
  <2>2. y % H \in 0 .. H - 1 /\ y = H * (y \div H) + (y % H) /\ y \div H \in Nat
    BY <1>1, <2>1, DivNat
  <2>3. y \div H < H
    BY ONLY <1>1, <2>1, DivBelow
  <2>4. H * (y \div H) = (y \div H) * H
    BY <1>1, <2>2
  <2> QED BY <1>1, <2>2, <2>3, <2>4
<1>4. al \in 0 .. H - 1 /\ ah \in 0 .. H - 1 /\ a = ah * H + al
  BY ONLY <1>1, <1>3
<1>5. bl \in 0 .. H - 1 /\ bh \in 0 .. H - 1 /\ b = bh * H + bl
  BY ONLY <1>1, <1>3
<1> HIDE DEF al, ah, bl, bh
<1>6. p1 \in 0 .. M - 1 /\ p2 \in 0 .. M - 1 /\ low \in 0 .. M - 1 /\ top \in Nat
  BY ONLY <1>1, <1>4, <1>5, HalfProduct, ProductInteger
<1>7. a * b = top * M + (p1 + p2) * H + low
  <2>1. al \in Nat /\ ah \in Nat /\ bl \in Nat /\ bh \in Nat
    BY <1>1, <1>4, <1>5
  <2>2. (ah * H + al) * (bh * H + bl) = (ah * bh) * M + (al * bh + ah * bl) * H + al * bl
    BY ONLY <1>1, <2>1, MultiplyOut
  <2> QED BY <1>4, <1>5, <2>2
<1> HIDE DEF p1, p2, low, top
<1>8. PICK c \in 0 .. 1 :
        /\ p1 + p2 = temp + c * M /\ temp \in 0 .. M - 1
        /\ (temp < p1) <=> (c = 1)
        /\ (temp < p2) <=> (c = 1)
  <2>1. temp = (p1 + p2) % M
    BY <1>2
  <2>2. \E c \in 0 .. 1 : Carries(p1, p2, M, (p1 + p2) % M, c)
    BY ONLY <1>1, <1>6, CarryOut
  <2> HIDE DEF temp
  <2> QED BY ONLY <2>1, <2>2 DEF Carries
<1> HIDE DEF temp
<1>9. tl \in 0 .. H - 1 /\ th \in 0 .. H - 1 /\ temp = th * H + tl
  BY ONLY <1>1, <1>3, <1>8
<1> HIDE DEF tl, th
<1>10. x \in 0 .. M - 1
  BY ONLY <1>1, <1>9, HalfProduct
<1> HIDE DEF x
<1>11. PICK d \in 0 .. 1 :
        /\ low + x = lo + d * M /\ lo \in 0 .. M - 1
        /\ (lo < low) <=> (d = 1)
  <2>1. lo = (low + x) % M
    BY <1>2
  <2>2. \E d \in 0 .. 1 : Carries(low, x, M, (low + x) % M, d)
    BY ONLY <1>1, <1>6, <1>10, CarryOut
  <2> HIDE DEF lo
  <2> QED BY ONLY <2>1, <2>2 DEF Carries
<1> HIDE DEF lo
<1> DEFINE hi == top + th + d + c * H
<1>12. hi \in Nat
  BY <1>1, <1>6, <1>9
<1>13. a * b = hi * M + lo
  <2>1. (p1 + p2) * H = temp * H + c * (M * H)
    BY <1>1, <1>8
  <2>2. temp * H = th * M + x
    <3>1. temp * H = (th * H) * H + tl * H
      BY <1>1, <1>9
    <3>2. (th * H) * H = th * (H * H)
      BY <1>1, <1>9, Reorder
    <3> QED BY <1>1, <3>1, <3>2 DEF x
  <2>3. hi * M = top * M + th * M + d * M + c * (M * H)
    <3>1. (c * H) * M = c * (M * H) /\ c * H \in Int
      <4>1. c = 0 \/ c = 1
        OBVIOUS
      <4>2. H * M = M * H /\ M * H \in Int
        BY <1>1
      <4> QED BY <4>1, <4>2, <1>1
    <3> DEFINE u == c * H
    <3>2. u \in Int /\ top \in Int /\ th \in Int /\ d \in Int /\ M \in Int
      BY <1>1, <1>6, <1>9, <3>1
    <3> HIDE DEF u
    <3>3. (top + th + d + u) * M = top * M + th * M + d * M + u * M
      BY ONLY <3>2
    <3> QED BY <3>1, <3>3 DEF u
  <2>4. top * M \in Int /\ th * M \in Int /\ d * M \in Int /\ c * (M * H) \in Int /\ x \in Int
        /\ low \in Int /\ lo \in Int /\ (p1 + p2) * H \in Int
    <3>1. M * H \in Int
      BY <1>1
    <3> QED BY <1>1, <1>6, <1>8, <1>9, <1>10, <1>11, <3>1
  <2> DEFINE product == a * b
             cross == (p1 + p2) * H
             shifted == temp * H
             carried == c * (M * H)
             tops == top * M
             middle == th * M
             carry == d * M
             whole == hi * M
  <2>5. tops \in Int /\ middle \in Int /\ carry \in Int /\ carried \in Int /\ x \in Int
        /\ low \in Int /\ lo \in Int /\ cross \in Int
    BY <2>4
  <2>6. product = tops + cross + low /\ cross = shifted + carried /\ shifted = middle + x
        /\ whole = tops + middle + carry + carried /\ low + x = lo + carry
    BY <1>7, <1>11, <2>1, <2>2, <2>3
  <2> HIDE DEF hi, product, cross, shifted, carried, tops, middle, carry, whole
  <2>7. product = whole + lo
    BY ONLY <2>5, <2>6
  <2> QED BY <2>7 DEF product, whole
<1>14. (a * b) \div M = hi /\ (a * b) % M = lo
  <2>1. a * b \in Nat
    BY <1>1, ProductInteger
  <2> DEFINE y == a * b
  <2> HIDE DEF y, hi
  <2>3. y \in Int /\ M \in Nat \ {0} /\ hi \in Int /\ lo \in 0 .. M - 1 /\ y = hi * M + lo
    BY <1>1, <1>11, <1>12, <1>13, <2>1 DEF y
  <2>2. y \div M = hi /\ y % M = lo
    BY ONLY <2>3, DivUnique
  <2> QED BY <2>2 DEF y
<1>15. Wrap(hi) = hi
  <2>1. a * b \in Nat /\ a * b < M * M
    <3>1. a * b <= a * M /\ a * M < M * M
      <4>1. a * b \in 0 .. M * M - 1
        BY ONLY <1>1, HalfProduct
      <4> QED BY <1>1, <4>1
    <3> QED BY <1>1, <3>1, ProductInteger
  <2>2. (a * b) \div M < M
    <3> DEFINE y == a * b
    <3> HIDE DEF y
    <3>1. y \in Nat /\ y < M * M
      BY <2>1 DEF y
    <3>2. y \div M < M
      BY ONLY <1>1, <3>1, DivBelow
    <3> QED BY <3>2 DEF y
  <2>3. hi \in 0 .. M - 1
    BY <1>1, <1>12, <1>14, <2>2
  <2> HIDE DEF hi
  <2> QED BY <1>1, <1>2, <2>3
<1>16. hi = top + th + (IF low > lo THEN 1 ELSE 0) + (IF temp < p1 \/ temp < p2 THEN H ELSE 0)
  <2>1. d = (IF low > lo THEN 1 ELSE 0)
    BY <1>6, <1>11
  <2>2. c * H = (IF temp < p1 \/ temp < p2 THEN H ELSE 0)
    BY <1>1, <1>8
  <2> QED BY <2>1, <2>2
<1>17. MultD(a, b) = [hi |-> hi, lo |-> lo]
  BY <1>14 DEF MultD, M
<1>18. MultDSchool(a, b) =
         [lo |-> lo,
          hi |-> Wrap(top + th + (IF low > lo THEN 1 ELSE 0)
                      + (IF temp < p1 \/ temp < p2 THEN H ELSE 0))]
  BY DEF MultDSchool, H, al, ah, bl, bh, p1, p2, temp, low, tl, th, x, lo, top
<1> HIDE DEF hi
<1> QED BY <1>15, <1>16, <1>17, <1>18

-----------------------------------------------------------------------------
(* The checks of sums and differences.                                     *)

\* A sum of words came out below an operand exactly when it did not fit, and
\* taking the other operand away again undoes it.
LEMMA CheckedSum ==
  ASSUME NEW a \in Word, NEW b \in Word
  PROVE  /\ Wrap(a + b) \in Word
         /\ (Wrap(a + b) < a) <=> (a + b \notin Word)
         /\ (Wrap(a + b) < b) <=> (a + b \notin Word)
         /\ a + b \in Word => Wrap(a + b) = a + b
         /\ SubFast(Wrap(a + b), b).result = a
<1> DEFINE M == 2^W
           r == Wrap(a + b)
<1>1. M \in Nat \ {0} /\ Word = 0 .. M - 1 /\ a \in 0 .. M - 1 /\ b \in 0 .. M - 1
  BY WordSize
<1>2. r = (a + b) % M /\ SubFast(r, b).result = (r - b) % M
  BY DEF Wrap, SubFast, Returns
<1> HIDE DEF M, r
<1>3. \E c \in 0 .. 1 : Carries(a, b, M, (a + b) % M, c)
  BY ONLY <1>1, CarryOut
<1>4. PICK c \in 0 .. 1 : /\ a + b = r + c * M /\ r \in 0 .. M - 1
                          /\ (r < a) <=> (c = 1)
                          /\ (r < b) <=> (c = 1)
  BY ONLY <1>2, <1>3 DEF Carries
<1>5. (a + b \notin Word) <=> (c = 1)
  BY <1>1, <1>4
<1>6. (r - b) % M = a
  <2> DEFINE x == r - b
             k == -c
  <2>1. x \in Int /\ k \in Int /\ x = k * M + a
    <3>1. c = 0 \/ c = 1
      OBVIOUS
    <3> QED BY <1>1, <1>4, <3>1
  <2> HIDE DEF x, k
  <2>2. x % M = a
    BY ONLY <1>1, <2>1, DivUnique
  <2> QED BY <2>2 DEF x
<1>7. r \in Word /\ (a + b \in Word => r = a + b)
  BY <1>1, <1>4, <1>5
<1>8. ((r < a) <=> (a + b \notin Word)) /\ ((r < b) <=> (a + b \notin Word))
  BY ONLY <1>4, <1>5
<1> QED BY <1>2, <1>6, <1>7, <1>8 DEF r

\* A difference of words is a word unless the first is smaller.
LEMMA CheckedDifference ==
  ASSUME NEW a \in Word, NEW b \in Word
  PROVE  /\ Wrap(a - b) \in Word
         /\ a < b <=> a - b \notin Word
         /\ a - b \in Word => Wrap(a - b) = a - b
<1>1. a - b \in Int /\ a \in Int /\ b \in Int
  BY WordSize
<1>2. (a < b) <=> (a - b \notin Word)
  BY WordSize
<1> QED BY <1>1, <1>2, WrapWord

-----------------------------------------------------------------------------
(* The invariant.                                                          *)

\* A word is kept, every throw tells the truth, every result is exact.  It is
\* inductive because a call finds nothing but the number: what the calls before
\* it returned is gone.
ArithInv == ArithTypeOK /\ ChecksHold /\ PlainExact

\* What a call records.
LEMMA Recorded ==
  ASSUME NEW op, NEW by, NEW r, Record(op, number, by, r)
  PROVE  /\ call'.op = op /\ call'.on = number /\ call'.by = by
         /\ call'.result = r.result /\ call'.threw = r.threw
  BY DEF Record

\* Each part of the invariant is about its own operations.
LEMMA OtherOperations ==
  /\ call'.op \notin {"AddCheck", "AddEqCheck", "SubEqCheck", "SubCheck"} => SumsChecked'
  /\ call'.op \notin {"AddEqCheck", "SubEqCheck", "DividedByEq", "DivideAndRoundEq", "SetValue"}
       => ThrowsRecoverable'
  /\ call'.op # "DivideAndRoundEq" => RoundsToNearest'
  /\ call'.op # "FromBinaryString" => BinaryExact'
<1>1. call'.op \notin {"AddCheck", "AddEqCheck", "SubEqCheck", "SubCheck"} => SumsChecked'
  BY DEF SumsChecked, Called
<1>2. call'.op \notin {"AddEqCheck", "SubEqCheck", "DividedByEq", "DivideAndRoundEq", "SetValue"}
       => ThrowsRecoverable'
  BY DEF ThrowsRecoverable, Called
<1>3. call'.op # "DivideAndRoundEq" => RoundsToNearest'
  BY DEF RoundsToNearest, Called
<1>4. call'.op # "FromBinaryString" => BinaryExact'
  BY DEF BinaryExact, Called
<1> QED BY <1>1, <1>2, <1>3, <1>4

\* So is the part about powers.
LEMMA NoPower ==
  ASSUME call'.op \notin {"ExpEq", "ModExpEq"}
  PROVE  PowersExact'
  BY DEF PowersExact, Called, Repeated

\* The product from half words needs no more than a word.
LEMMA ArithInvParts ==
  ASSUME number' \in Word, call'.threw \in BOOLEAN, SumsChecked', ThrowsRecoverable',
         RoundsToNearest', PowersExact', BinaryExact'
  PROVE  ArithInv'
<1>1. SchoolbookExact'
  <2>1. ASSUME NEW b \in Numbers PROVE MultDSchool(number', b) = MultD(number', b)
    BY ArithAssumption, SchoolbookIsProduct
  <2> QED BY <2>1 DEF SchoolbookExact
<1> QED BY <1>1 DEF ArithInv, ArithTypeOK, ChecksHold, PlainExact

\* Sums.
LEMMA SumInv ==
  ASSUME number \in Word, NEW b \in Word, Sum(b)
  PROVE  ArithInv'
<1> DEFINE a == number
           r == Wrap(a + b)
<1>1. /\ r \in Word
      /\ (r < a) <=> (a + b \notin Word)
      /\ (r < b) <=> (a + b \notin Word)
      /\ a + b \in Word => r = a + b
      /\ SubFast(r, b).result = a
  BY CheckedSum
<1>2. Wrap(b + a) \in Word
  BY CheckedSum
<1> HIDE DEF r
<1>3. CASE Const("AddCheck", b, AddCheck(number, b))
  <2>1. /\ call'.op = "AddCheck" /\ call'.on = a /\ call'.by = b /\ number' = a
        /\ call'.result = AddCheck(a, b).result /\ call'.threw = AddCheck(a, b).threw
    BY <1>3, Recorded DEF Const
  <2>2. AddCheck(a, b) = IF a + b \in Word THEN Returns(r) ELSE Throws(a)
    BY <1>1 DEF AddCheck, Unless, r
  <2>3. SumsChecked'
    BY <1>1, <2>1, <2>2 DEF SumsChecked, Called, Returns, Throws
  <2>4. call'.threw \in BOOLEAN
    BY <2>1, <2>2 DEF Returns, Throws
  <2> QED BY <2>1, <2>3, <2>4, OtherOperations, NoPower, ArithInvParts
<1>4. CASE InPlace("AddEqCheck", b, AddEqCheck(number, b))
  <2>1. /\ call'.op = "AddEqCheck" /\ call'.on = a /\ call'.by = b
        /\ call'.result = AddEqCheck(a, b).result /\ call'.threw = AddEqCheck(a, b).threw
        /\ number' = AddEqCheck(a, b).result
    BY <1>4, Recorded DEF InPlace
  <2>2. AddEqCheck(a, b) = IF a + b \in Word THEN Returns(r) ELSE Throws(r)
    BY <1>1 DEF AddEqCheck, Unless, r
  <2>3. SumsChecked'
    BY <1>1, <2>1, <2>2 DEF SumsChecked, Called, Returns, Throws
  <2>4. number' = r /\ call'.threw \in BOOLEAN
    BY <2>1, <2>2 DEF Returns, Throws
  <2>5. ThrowsRecoverable'
    BY <1>1, <2>1, <2>4 DEF ThrowsRecoverable, Called
  <2> QED BY <1>1, <2>1, <2>3, <2>4, <2>5, OtherOperations, NoPower, ArithInvParts
<1>5. CASE InPlace("AddEqFast", b, AddFast(number, b))
  <2>1. /\ call'.op = "AddEqFast" /\ call'.threw = FALSE /\ number' = Wrap(b + a)
    BY <1>5, Recorded DEF InPlace, AddFast, Returns
  <2> QED BY <1>2, <2>1, OtherOperations, NoPower, ArithInvParts
<1> QED BY <1>3, <1>4, <1>5 DEF Sum

\* Differences.
LEMMA DifferenceInv ==
  ASSUME number \in Word, NEW b \in Word, Difference(b)
  PROVE  ArithInv'
<1> DEFINE a == number
           r == Wrap(a - b)
<1>1. /\ r \in Word
      /\ a < b <=> a - b \notin Word
      /\ a - b \in Word => r = a - b
  BY CheckedDifference
<1> HIDE DEF r
<1>2. CASE Const("SubCheck", b, SubCheck(number, b))
  <2>1. /\ call'.op = "SubCheck" /\ call'.on = a /\ call'.by = b /\ number' = a
        /\ call'.result = (IF a <= b THEN 0 ELSE a - b) /\ call'.threw = FALSE
    BY <1>2, Recorded DEF Const, SubCheck, Returns
  <2>2. (IF a <= b THEN 0 ELSE a - b) = (IF a > b THEN a - b ELSE 0)
    BY WordSize
  <2>3. SumsChecked'
    BY <2>1, <2>2 DEF SumsChecked, Called
  <2> QED BY <2>1, <2>3, OtherOperations, NoPower, ArithInvParts
<1>3. CASE InPlace("SubEqCheck", b, SubEqCheck(number, b))
  <2>1. /\ call'.op = "SubEqCheck" /\ call'.on = a /\ call'.by = b
        /\ call'.result = SubEqCheck(a, b).result /\ call'.threw = SubEqCheck(a, b).threw
        /\ number' = SubEqCheck(a, b).result
    BY <1>3, Recorded DEF InPlace
  <2>2. SubEqCheck(a, b) = IF a - b \in Word THEN Returns(r) ELSE Throws(a)
    BY <1>1 DEF SubEqCheck, Unless, r
  <2>3. SumsChecked'
    BY <1>1, <2>1, <2>2 DEF SumsChecked, Called, Returns, Throws
  <2>4. number' \in Word /\ call'.threw \in BOOLEAN
    BY <1>1, <2>1, <2>2 DEF Returns, Throws
  <2>5. ThrowsRecoverable'
    BY <2>1, <2>2 DEF ThrowsRecoverable, Called, Returns, Throws
  <2> QED BY <2>1, <2>3, <2>4, <2>5, OtherOperations, NoPower, ArithInvParts
<1>4. CASE InPlace("SubEqFast", b, SubFast(number, b))
  <2>1. /\ call'.op = "SubEqFast" /\ call'.threw = FALSE /\ number' = r
    BY <1>4, Recorded DEF InPlace, SubFast, Returns, r
  <2> QED BY <1>1, <2>1, OtherOperations, NoPower, ArithInvParts
<1> QED BY <1>2, <1>3, <1>4 DEF Difference

\* Products, whose check is not among the claims.
LEMMA MultipleInv ==
  ASSUME number \in Word, NEW b \in Word, Multiple(b)
  PROVE  ArithInv'
<1> DEFINE a == number
<1>1. Wrap(a * b) \in Word /\ Wrap(b * a) \in Word
  <2>1. a * b \in Int /\ b * a \in Int
    BY WordSize
  <2> QED BY ONLY <2>1, WrapWord
<1>2. CASE Const("MulCheck", b, MulCheck(number, b))
  <2>1. call'.op = "MulCheck" /\ number' = a /\ call'.threw = MulCheck(a, b).threw
    BY <1>2, Recorded DEF Const
  <2>2. call'.threw \in BOOLEAN
    BY <2>1 DEF MulCheck, Unless, Returns, Throws
  <2> QED BY <2>1, <2>2, OtherOperations, NoPower, ArithInvParts
<1>3. CASE InPlace("MulEqCheck", b, MulEqCheck(number, b))
  <2>1. /\ call'.op = "MulEqCheck" /\ call'.threw = MulEqCheck(a, b).threw
        /\ number' = MulEqCheck(a, b).result
    BY <1>3, Recorded DEF InPlace
  <2>2. number' \in Word /\ call'.threw \in BOOLEAN
    BY <1>1, <2>1 DEF MulEqCheck, Unless, Returns, Throws
  <2> QED BY <2>1, <2>2, OtherOperations, NoPower, ArithInvParts
<1>4. CASE InPlace("MulEqFast", b, MulFast(number, b))
  <2>1. call'.op = "MulEqFast" /\ call'.threw = FALSE /\ number' = Wrap(b * a)
    BY <1>4, Recorded DEF InPlace, MulFast, Returns
  <2> QED BY <1>1, <2>1, OtherOperations, NoPower, ArithInvParts
<1> QED BY <1>2, <1>3, <1>4 DEF Multiple

\* Quotients.
LEMMA QuotientInv ==
  ASSUME number \in Word, NEW b \in Word, Quotient(b)
  PROVE  ArithInv'
<1> DEFINE a == number
<1>1. CASE InPlace("DividedByEq", b, DividedBy(number, b))
  <2>1. /\ call'.op = "DividedByEq" /\ call'.on = a /\ call'.threw = DividedBy(a, b).threw
        /\ number' = DividedBy(a, b).result
    BY <1>1, Recorded DEF InPlace
  <2>2. b # 0 => a \div b \in Word
    <3>1. ASSUME b # 0 PROVE a \div b \in 0 .. a
      <4>1. a \in Nat /\ b \in Nat \ {0} /\ a + 1 \in Nat /\ a < (a + 1) * b
        <5>1. a \in Nat /\ b \in Nat \ {0}
          BY <3>1, WordSize
        <5>2. 1 * (a + 1) <= b * (a + 1) /\ b * (a + 1) = (a + 1) * b
          BY ONLY <5>1, Monotone, 1 <= b, 1 \in Int, b \in Int, a + 1 \in Nat
        <5> QED BY <5>1, <5>2
      <4>2. a \div b \in Nat /\ a \div b < a + 1
        BY ONLY <4>1, DivBelow
      <4> QED BY <4>1, <4>2
    <3> QED BY <3>1, WordSize
  <2>3. number' \in Word /\ call'.threw \in BOOLEAN /\ (call'.threw => number' = call'.on)
    BY <2>1, <2>2 DEF DividedBy, Returns, Throws
  <2>4. ThrowsRecoverable'
    BY <2>1, <2>3 DEF ThrowsRecoverable, Called
  <2> QED BY <2>1, <2>3, <2>4, OtherOperations, NoPower, ArithInvParts
<1>2. CASE InPlace("DivideAndRoundEq", b, DivideAndRound(number, b))
  <2>1. /\ call'.op = "DivideAndRoundEq" /\ call'.on = a /\ call'.by = b
        /\ call'.result = DivideAndRound(a, b).result
        /\ call'.threw = DivideAndRound(a, b).threw
        /\ number' = DivideAndRound(a, b).result
    BY <1>2, Recorded DEF InPlace
  <2> DEFINE q == RoundedQuotient(a, b)
  <2>2. b # 0 => q \in Word /\ -b <= 2 * (q * b - a) /\ 2 * (q * b - a) <= b
    BY RoundedNearest
  <2>3. DivideAndRound(a, b) = IF b = 0 THEN Throws(a) ELSE Returns(q)
    BY DEF DivideAndRound
  <2> HIDE DEF q
  <2>4. /\ number' \in Word /\ call'.threw \in BOOLEAN
        /\ call'.threw => number' = call'.on
        /\ ~call'.threw => call'.result = q /\ b # 0
    <3>1. CASE b = 0
      BY <2>1, <2>3, <3>1 DEF Throws
    <3>2. CASE b # 0
      BY <2>1, <2>2, <2>3, <3>2 DEF Returns
    <3> QED BY <3>1, <3>2
  <2>5. ThrowsRecoverable'
    BY <2>1, <2>4 DEF ThrowsRecoverable, Called
  <2>6. RoundsToNearest'
    BY <2>1, <2>2, <2>4 DEF RoundsToNearest
  <2> QED BY <2>1, <2>4, <2>5, <2>6, OtherOperations, NoPower, ArithInvParts
<1> QED BY <1>1, <1>2 DEF Quotient

\* Powers.
LEMMA PowerInv ==
  ASSUME number \in Word, NEW b \in Word, RaiseTo(b)
  PROVE  ArithInv'
<1>1. CASE InPlace("ExpEq", b, Exp(number, b))
  <2>1. /\ call'.op = "ExpEq" /\ call'.on = number /\ call'.by = b
        /\ call'.result = Exp(number, b).result /\ call'.threw = Exp(number, b).threw
        /\ number' = Exp(number, b).result
    BY <1>1, Recorded DEF InPlace
  <2>2. /\ Exp(number, b) = Returns(RepeatedMod(number, b, 2^W))
        /\ RepeatedMod(number, b, 2^W) \in Word
    BY ExpExact
  <2>3. /\ call'.result = RepeatedMod(number, b, 2^W) /\ number' = RepeatedMod(number, b, 2^W)
        /\ call'.threw = FALSE
    BY <2>1, <2>2 DEF Returns
  <2>4. PowersExact'
    BY <2>1, <2>3 DEF PowersExact, Called, Repeated, RepeatedMod, Wrap
  <2> QED BY <2>1, <2>2, <2>3, <2>4, OtherOperations, ArithInvParts
<1>2. ASSUME NEW m \in ExpModuli, NEW v \in Word, v = RepeatedMod(number % m, b, m),
             InPlace("ModExpEq", <<b, m>>, Returns(v))
      PROVE  ArithInv'
  <2>1. /\ call'.op = "ModExpEq" /\ call'.on = number /\ call'.by = <<b, m>>
        /\ call'.result = v /\ call'.threw = FALSE /\ number' = v
    BY <1>2, Recorded DEF InPlace, Returns
  <2>2. call'.by[1] = b /\ call'.by[2] = m
    BY <2>1
  <2>3. PowersExact'
    BY <1>2, <2>1, <2>2 DEF PowersExact, Called, Repeated, RepeatedMod
  <2> QED BY <2>1, <2>3, OtherOperations, ArithInvParts
<1>3. ASSUME NEW m \in ExpModuli, InPlace("ModExpEq", <<b, m>>, Returns(ModExp(number, b, m)))
      PROVE  ArithInv'
  <2>1. m \in Word \ {0, 1}
    BY ArithAssumption
  <2>2. ModExp(number, b, m) = RepeatedMod(number % m, b, m) /\ ModExp(number, b, m) \in Word
    BY <2>1, ModExpExact
  <2> QED BY <1>2, <1>3, <2>2
<1>4. ASSUME NEW m \in ExpModuli, BarrettModulus(m), ShiftsFit(m),
             InPlace("ModExpEq", <<b, m>>, Returns(ModExpD(number, b, m)))
      PROVE  ArithInv'
  <2>1. m \in Word \ {0, 1}
    BY ArithAssumption
  <2>2. ModExpD(number, b, m) = RepeatedMod(number % m, b, m) /\ ModExpD(number, b, m) \in Word
    BY <1>4, <2>1, ModExpDExact
  <2> QED BY <1>2, <1>4, <2>2
<1> QED BY <1>1, <1>3, <1>4 DEF RaiseTo

\* Shifts.
LEMMA ShiftInv ==
  ASSUME number \in Word, Shift
  PROVE  ArithInv'
<1>1. PICK s \in 0 .. W - 1 : \/ InPlace("LShiftEq", s, LShift(number, s))
                              \/ InPlace("RShiftEq", s, RShift(number, s))
  BY DEF Shift
<1> DEFINE p == 2^s
<1>2. p \in Nat \ {0}
  <2>1. s \in 0 .. W
    BY WordAssumption
  <2> QED BY <2>1, PowersOfTwo
<1>3. Wrap(number * p) \in Word
  <2>1. number * p \in Int
    BY <1>2, WordSize
  <2> QED BY ONLY <2>1, WrapWord
<1>4. number \div p \in Word
  <2>1. number \in Nat /\ number + 1 \in Nat /\ number < (number + 1) * p
    <3>1. number \in Nat /\ 1 \in Int /\ p \in Int /\ 1 <= p /\ number + 1 \in Nat
      BY <1>2, WordSize
    <3> HIDE DEF p
    <3>2. 1 * (number + 1) <= p * (number + 1) /\ p * (number + 1) = (number + 1) * p
      BY ONLY <3>1, Monotone
    <3> QED BY <3>1, <3>2
  <2> HIDE DEF p
  <2>2. number \div p \in Nat /\ number \div p < number + 1
    BY ONLY <1>2, <2>1, DivBelow
  <2> QED BY <2>1, <2>2, WordSize
<1>5. number' \in Word /\ call'.op \in {"LShiftEq", "RShiftEq"} /\ call'.threw = FALSE
  <2>1. CASE InPlace("LShiftEq", s, LShift(number, s))
    <3>1. /\ call'.op = "LShiftEq" /\ call'.threw = FALSE /\ number' = Wrap(number * p)
      BY <2>1, Recorded DEF InPlace, LShift, Returns, p
    <3> QED BY <1>3, <3>1
  <2>2. CASE InPlace("RShiftEq", s, RShift(number, s))
    <3>1. /\ call'.op = "RShiftEq" /\ call'.threw = FALSE /\ number' = number \div p
      BY <2>2, Recorded DEF InPlace, RShift, Returns, p
    <3> QED BY <1>4, <3>1
  <2> QED BY <1>1, <2>1, <2>2
<1> QED BY <1>5, OtherOperations, NoPower, ArithInvParts

\* Strings.
LEMMA ParseInv ==
  ASSUME number \in Word, NEW str \in Seq(Int), Parse(str)
  PROVE  ArithInv'
<1>1. CASE InPlace("SetValue", str, SetValue(str))
  <2>1. /\ call'.op = "SetValue" /\ call'.on = number /\ call'.threw = SetValue(str).threw
        /\ number' = SetValue(str).result
    BY <1>1, Recorded DEF InPlace
  <2>2. SetValue(str) \in Outcomes(Word) /\ (SetValue(str).threw => SetValue(str).result = number)
    BY SetValueKeeps
  <2>3. number' \in Word /\ call'.threw \in BOOLEAN /\ (call'.threw => number' = call'.on)
    BY <2>1, <2>2 DEF Outcomes
  <2>4. ThrowsRecoverable'
    BY <2>1, <2>3 DEF ThrowsRecoverable, Called
  <2> QED BY <2>1, <2>3, <2>4, OtherOperations, NoPower, ArithInvParts
<1>2. CASE Const("FromBinaryString", str, FromBinaryString(str))
  <2> DEFINE out == FromBinaryString(str)
             spelled == \A i \in DOMAIN str : str[i] \in {0, 1}
  <2>1. /\ call'.op = "FromBinaryString" /\ call'.by = str /\ number' = number
        /\ call'.result = out.result /\ call'.threw = out.threw
    BY <1>2, Recorded DEF Const
  <2>2. DOMAIN str = 1 .. Len(str) /\ Len(str) \in Nat /\ W \in Nat
    BY WordAssumption
  <2>3. /\ out.threw \in BOOLEAN
        /\ out.threw <=> (~spelled \/ Len(str) > W)
        /\ ~out.threw => \A i \in DOMAIN str : (out.result \div 2^(Len(str) - i)) % 2 = str[i]
    <3>1. CASE Len(str) <= W
      <4>1. /\ out \in Outcomes(Nat)
            /\ out.threw <=> \E i \in 1 .. Len(str) : str[i] \notin {0, 1}
            /\ ~out.threw =>
                 \A i \in 1 .. Len(str) : (out.result \div 2^(Len(str) - i)) % 2 = str[i]
        BY <3>1, FromBinaryExact
      <4>2. out.threw \in BOOLEAN
        BY <4>1 DEF Outcomes
      <4> HIDE DEF out
      <4> QED BY <2>2, <3>1, <4>1, <4>2
    <3>2. CASE ~(Len(str) <= W)
      <4>1. out.threw /\ out.threw \in BOOLEAN /\ Len(str) > W
        <5>1. Len(str) > W
          BY <2>2, <3>2
        <5>2. out.threw = TRUE
          BY <5>1 DEF FromBinaryString, Throws
        <5> HIDE DEF out
        <5> QED BY ONLY <5>1, <5>2, Zenon
      <4> HIDE DEF out, spelled
      <4> QED BY ONLY <4>1, Zenon
    <3> QED BY <3>1, <3>2
  <2> HIDE DEF out
  <2>4. BinaryExact'
    <3>1. SUFFICES (/\ call'.threw = (~spelled \/ Len(str) > W)
                    /\ ~call'.threw =>
                         \A i \in DOMAIN str :
                           (call'.result \div 2^(Len(str) - i)) % 2 = str[i])
      BY <2>1 DEF BinaryExact, Called
    <3>2. (~spelled \/ Len(str) > W) \in BOOLEAN
      OBVIOUS
    <3> HIDE DEF spelled
    <3> QED BY <2>1, <2>3, <3>2
  <2> QED BY <2>1, <2>3, <2>4, OtherOperations, NoPower, ArithInvParts
<1> QED BY <1>1, <1>2 DEF Parse

\* The invariant is inductive.
LEMMA ArithInvInductive ==
  /\ ArithInit => ArithInv
  /\ ArithInv /\ [ArithNext]_arithVars => ArithInv'
<1>1. ASSUME call = NoCall, number \in Word PROVE ArithInv
  <2>1. call.op = "none" /\ call.threw = FALSE
    BY <1>1 DEF NoCall
  <2>2. SumsChecked /\ ThrowsRecoverable /\ RoundsToNearest /\ BinaryExact
    BY <2>1 DEF SumsChecked, ThrowsRecoverable, RoundsToNearest, BinaryExact, Called
  <2>3. PowersExact
    BY <2>1 DEF PowersExact, Called, Repeated
  <2>4. SchoolbookExact
    <3>1. ASSUME NEW b \in Numbers PROVE MultDSchool(number, b) = MultD(number, b)
      BY <1>1, ArithAssumption, SchoolbookIsProduct
    <3> QED BY <3>1 DEF SchoolbookExact
  <2> QED BY <1>1, <2>1, <2>2, <2>3, <2>4 DEF ArithInv, ArithTypeOK, ChecksHold, PlainExact
<1>2. ArithInit => ArithInv
  BY <1>1, ArithAssumption DEF ArithInit
<1>3. ASSUME ArithInv, [ArithNext]_arithVars PROVE ArithInv'
  <2>1. number \in Word
    BY <1>3 DEF ArithInv, ArithTypeOK
  <2>2. CASE Call
    <3>1. CASE \E b \in Numbers : Sum(b) \/ Difference(b) \/ Multiple(b) \/ Quotient(b)
      <4>1. PICK b \in Word : Sum(b) \/ Difference(b) \/ Multiple(b) \/ Quotient(b)
        BY <3>1, ArithAssumption
      <4> QED BY <2>1, <4>1, SumInv, DifferenceInv, MultipleInv, QuotientInv
    <3>2. CASE \E p \in Exponents : RaiseTo(p)
      BY <2>1, <3>2, ArithAssumption, PowerInv
    <3>3. CASE Shift
      BY <2>1, <3>3, ShiftInv
    <3>4. CASE \E str \in Strings : Parse(str)
      BY <2>1, <3>4, ArithAssumption, ParseInv
    <3> QED BY <2>2, <3>1, <3>2, <3>3, <3>4 DEF Call
  <2>3. CASE ReturnToCaller
    <3>1. call' = NoCall /\ number' \in Word
      BY <2>1, <2>3 DEF ReturnToCaller
    <3>2. call'.op = "none" /\ call'.threw = FALSE
      BY <3>1 DEF NoCall
    <3> QED BY <3>1, <3>2, OtherOperations, NoPower, ArithInvParts
  <2>4. CASE UNCHANGED arithVars
    BY <1>3, <2>4 DEF arithVars, ArithInv, ArithTypeOK, ChecksHold, PlainExact, SumsChecked,
         ThrowsRecoverable, RoundsToNearest, PowersExact, SchoolbookExact, BinaryExact, Called,
         Repeated
  <2> QED BY <1>3, <2>2, <2>3, <2>4 DEF ArithNext
<1> QED BY <1>2, <1>3

\* A number used for plain arithmetic is a word at all times.
THEOREM ArithTypeCorrect == ArithSpec => []ArithTypeOK
<1>1. ArithInv => ArithTypeOK
  BY DEF ArithInv
<1> QED BY <1>1, ArithInvInductive, PTL DEF ArithSpec

\* For words of any even length, a checked sum or difference throws exactly when
\* the result does not fit, and what a throw left can be undone.
THEOREM ArithChecksHold == ArithSpec => []ChecksHold
<1>1. ArithInv => ChecksHold
  BY DEF ArithInv
<1> QED BY <1>1, ArithInvInductive, PTL DEF ArithSpec

\* For words of any even length, quotients are nearest, powers by squaring are
\* powers, products from half words are products and binary strings are read.
THEOREM ArithPlainExact == ArithSpec => []PlainExact
<1>1. ArithInv => PlainExact
  BY DEF ArithInv
<1> QED BY <1>1, ArithInvInductive, PTL DEF ArithSpec
=============================================================================
