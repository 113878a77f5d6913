--------------------------- MODULE HexlPolyProofs ---------------------------
(***************************************************************************)
(* HexlPolyImpl implements the arithmetic of Z_q[X]/(X^N + 1), for every   *)
(* power of two N, every modulus, root of unity and operand that           *)
(* PolyAssumption admits, and every chain of calls.                        *)
(*                                                                         *)
(* Values stand for an element x in a format: as coefficients they are     *)
(* congruent to x entry by entry, as evaluations they are congruent to the *)
(* products of x with the rows of the forward transform.  They need not be *)
(* reduced, and some operations leave the modulus itself for a zero.       *)
(*                                                                         *)
(* A transform is a product with a matrix of powers of the root.  The rows *)
(* of the two transforms are orthogonal, because powers of the root cancel *)
(* in a sum over all its multiples (half of them are the others negated),  *)
(* so that one transform undoes the other and a format changes nothing.    *)
(* Evaluation is linear; it takes products modulo X^N + 1 to products of   *)
(* values because X^N is -1 at every point; and it takes X -> X^k to the   *)
(* permutation of the points that the code looks up, whose bit reversals   *)
(* undo each other.                                                        *)
(*                                                                         *)
(* With these, each call is one lemma: what it leaves stands for what      *)
(* PolyRing says it should, and no value exceeds the modulus.              *)
(*                                                                         *)
(* The queries: digits of a coefficient times the powers of the base make  *)
(* up the coefficient, window by window, and the product is linear; the    *)
(* centred size of a coefficient is its distance to a multiple of the      *)
(* modulus; and an inverse is one value by value.                          *)
(***************************************************************************)
EXTENDS HexlPoly, NativeWordProofs

-----------------------------------------------------------------------------
(* The constants.                                                          *)

\* The ring dimension, the moduli and the roots.
LEMMA RingFacts ==
  /\ N \in Nat \ {0, 1} /\ 2 * N \in Nat \ {0} /\ Index = 0 .. N - 1 /\ R!Degrees = Index
  /\ 2^W \in Nat \ {0}
  /\ \A p \in Params :
       /\ p.modulus \in Nat \ {0, 1} /\ 4 * p.modulus < 2^W
       /\ p.root \in 0 .. p.modulus - 1 /\ Power(p.root, N, p.modulus) = p.modulus - 1
       /\ InverseOf(N, p.modulus) \in 0 .. p.modulus - 1
       /\ (N * InverseOf(N, p.modulus)) % p.modulus = 1
<1>1. N \in Nat \ {0, 1} /\ 2 * N \in Nat \ {0}
  <2>1. PICK l \in 1 .. W - 1 : N = 2^l
    BY PolyAssumption
  <2>2. 2^l = 2 * 2^(l - 1) /\ 2^(l - 1) \in Nat \ {0}
    <3>1. l \in 1 .. W /\ l - 1 \in 0 .. W
      BY PowersOfTwo
    <3> QED BY ONLY <3>1, PowersOfTwo
  <2> DEFINE h == 2^(l - 1)
  <2>3. N = 2 * h /\ h \in Nat \ {0}
    BY <2>1, <2>2
  <2> HIDE DEF h
  <2> QED BY <2>3
<1>2. 2^MaxBits \in Nat \ {0} /\ 4 * 2^MaxBits <= 2^W
  <2>1. /\ MaxBits \in 0 .. W /\ MaxBits + 1 \in 1 .. W /\ MaxBits + 2 \in 1 .. W /\ MaxBits + 2 \in 0 .. W
        /\ W \in 0 .. W /\ MaxBits + 1 - 1 = MaxBits /\ MaxBits + 2 - 1 = MaxBits + 1
    BY PolyAssumption, WordAssumption
  <2>2. 2^(MaxBits + 1) = 2 * 2^MaxBits /\ 2^(MaxBits + 2) = 2 * 2^(MaxBits + 1)
    BY ONLY <2>1, PowersOfTwo
  <2>3. 2^MaxBits \in Nat \ {0} /\ 2^(MaxBits + 2) <= 2^W /\ 2^W \in Nat
    BY ONLY <2>1, PowersOfTwo
  <2> DEFINE a == 2^MaxBits
             b == 2^(MaxBits + 1)
             c == 2^(MaxBits + 2)
  <2>4. a \in Nat \ {0} /\ b = 2 * a /\ c = 2 * b /\ c <= 2^W
    BY <2>2, <2>3
  <2> HIDE DEF a, b, c
  <2>5. a \in Nat \ {0} /\ 4 * a <= 2^W
    BY <2>3, <2>4
  <2> QED BY <2>5 DEF a
<1>3. ASSUME NEW p \in Params
      PROVE  /\ p.modulus \in Nat \ {0, 1} /\ 4 * p.modulus < 2^W
             /\ p.root \in 0 .. p.modulus - 1 /\ Power(p.root, N, p.modulus) = p.modulus - 1
             /\ InverseOf(N, p.modulus) \in 0 .. p.modulus - 1
             /\ (N * InverseOf(N, p.modulus)) % p.modulus = 1
  <2>1. /\ p.modulus \in 2 .. 2^MaxBits - 1 /\ HasInverse(N, p.modulus)
        /\ p.root \in 0 .. p.modulus - 1 /\ Power(p.root, N, p.modulus) = p.modulus - 1
    BY PolyAssumption
  <2>2. /\ InverseOf(N, p.modulus) \in 0 .. p.modulus - 1
        /\ (N * InverseOf(N, p.modulus)) % p.modulus = 1
    BY <2>1 DEF HasInverse, InverseOf
  <2>3. 2^W \in Nat \ {0}
    BY WordSize
  <2>4. p.modulus \in Nat \ {0, 1} /\ 4 * p.modulus < 2^W
    BY ONLY <1>2, <2>1, <2>3
  <2> QED BY ONLY <2>1, <2>2, <2>4
<1>4. Index = 0 .. N - 1 /\ R!Degrees = Index
  BY DEF Index, R!Degrees
<1> QED BY <1>1, <1>3, <1>4, WordSize

-----------------------------------------------------------------------------
(* Powers of the root, with any integer for an exponent.                   *)

\* Powers of the root are residues, add their exponents, repeat after 2N and
\* change sign after N.
LEMMA RootPowers ==
  ASSUME NEW p \in Params
  PROVE  /\ \A e \in Int : RootPower(p, e) \in 0 .. p.modulus - 1
         /\ RootPower(p, 0) = 1
         /\ \A e, k, f \in Int : f = e + k * (2 * N) => RootPower(p, f) = RootPower(p, e)
         /\ \A a, b, c \in Int :
              c = a + b => Congruent(RootPower(p, c), RootPower(p, a) * RootPower(p, b), p.modulus)
         /\ \A a, c \in Int : c = a + N => Congruent(RootPower(p, c), -RootPower(p, a), p.modulus)
<1> DEFINE M == p.modulus
           r == p.root
           D == 2 * N
<1>1. M \in Nat \ {0, 1} /\ r \in 0 .. M - 1 /\ Power(r, N, M) = M - 1 /\ N \in Nat \ {0, 1} /\ D \in Nat \ {0}
      /\ r \in Nat
  BY RingFacts
<1>2. \A e \in Int : RootPower(p, e) = Power(r, e % D, M) /\ e % D \in 0 .. D - 1
  <2>1. \A e \in Int : RootPower(p, e) = Power(r, e % D, M)
    BY DEF RootPower
  <2> HIDE DEF M, r, D
  <2>2. \A e \in Int : e % D \in 0 .. D - 1
    BY ONLY <1>1, Remainders
  <2> QED BY ONLY <2>1, <2>2
<1> HIDE DEF M, r, D
<1>3. /\ Power(r, 0, M) = 1 /\ \A n \in Nat : Power(r, n, M) \in 0 .. M - 1
      /\ \A i, j \in Nat : Power(r, i + j, M) = (Power(r, i, M) * Power(r, j, M)) % M
  BY ONLY <1>1, PowerSteps, PowerSum
<1>4. \A e \in Int : RootPower(p, e) \in 0 .. M - 1
  <2>1. \A e \in 0 .. D - 1 : e \in Nat
    BY ONLY <1>1
  <2> QED BY ONLY <1>2, <1>3, <2>1, Zenon
<1>5. RootPower(p, 0) = 1
  <2>1. 0 % D = 0
    BY ONLY <1>1, Remainders, 0 \in 0 .. D - 1
  <2> QED BY ONLY <1>2, <1>3, <2>1
<1>6. ASSUME NEW e \in Int, NEW k \in Int, NEW f \in Int, f = e + k * D
      PROVE  RootPower(p, f) = RootPower(p, e)
  <2>1. Congruent(e + k * D, e, D)
    BY ONLY <1>1, CongruentMultiple, e \in Int, k \in Int
  <2>2. f % D = e % D
    BY ONLY <1>6, <2>1 DEF Congruent
  <2> QED BY ONLY <1>2, <2>2, e \in Int, f \in Int
<1>7. Power(r, D, M) = 1
  <2>1. Power(r, N + N, M) = ((M - 1) * (M - 1)) % M
    BY ONLY <1>1, <1>3
  <2>2. (M - 1) * (M - 1) = (M - 2) * M + 1 /\ N + N = D /\ M - 2 \in Int /\ 1 \in 0 .. M - 1
        /\ (M - 1) * (M - 1) \in Int
    BY <1>1 DEF D
  <2>3. ((M - 1) * (M - 1)) % M = 1
    BY ONLY <1>1, <2>2, DivUnique
  <2> QED BY ONLY <2>1, <2>2, <2>3
<1>8. ASSUME NEW a \in Int, NEW b \in Int, NEW c \in Int, c = a + b
      PROVE  Congruent(RootPower(p, c), RootPower(p, a) * RootPower(p, b), M)
  <2> DEFINE x == a % D
             y == b % D
             k == a \div D
             j == b \div D
             P(n) == Power(r, n, M)
  <2>1. x \in 0 .. D - 1 /\ y \in 0 .. D - 1 /\ k \in Int /\ j \in Int /\ a = k * D + x /\ b = j * D + y
    BY ONLY <1>1, IntSplit, a \in Int, b \in Int
  <2>2. RootPower(p, a) = P(x) /\ RootPower(p, b) = P(y)
    BY <1>2
  <2> HIDE DEF x, y, k, j
  <2>3. RootPower(p, c) = RootPower(p, x + y)
    <3>1. (k + j) * D = k * D + j * D /\ k + j \in Int /\ x + y \in Int /\ k * D \in Int /\ j * D \in Int
      BY <1>1, <2>1
    <3>2. c = (x + y) + (k + j) * D
      BY ONLY <2>1, <3>1, <1>1, <1>8
    <3> QED BY ONLY <1>6, <3>1, <3>2
  <2>4. P(x + y) = (P(x) * P(y)) % M /\ P(x) * P(y) \in Int /\ P(x + y) \in 0 .. M - 1
    <3>1. x \in Nat /\ y \in Nat /\ x + y \in Nat
      BY <1>1, <2>1
    <3>2. P(x) \in 0 .. M - 1 /\ P(y) \in 0 .. M - 1 /\ P(x + y) = (P(x) * P(y)) % M
          /\ P(x + y) \in 0 .. M - 1
      BY ONLY <1>3, <3>1
    <3> HIDE DEF P
    <3>3. P(x) * P(y) \in Int
      BY ONLY <1>1, <3>2
    <3> QED BY ONLY <3>2, <3>3
  <2> DEFINE z == (x + y) % D
  <2>5. CASE x + y < D
    <3>1. z = x + y
      BY ONLY <1>1, <2>1, <2>5, Remainders, x + y \in 0 .. D - 1
    <3>2. RootPower(p, x + y) = (P(x) * P(y)) % M
      BY <1>2, <2>1, <2>4, <3>1
    <3> QED BY ONLY <1>1, <2>2, <2>3, <2>4, <3>2, CongruentRelation
  <2>6. CASE ~(x + y < D)
    <3> DEFINE w == x + y - D
    <3>1. w \in 0 .. D - 1 /\ x + y = w + 1 * D /\ x + y = w + D /\ w \in Nat /\ D \in Nat /\ w \in Int
      BY <1>1, <2>1, <2>6
    <3> HIDE DEF w
    <3>2. RootPower(p, x + y) = RootPower(p, w) /\ w % D = w
      <4>1. x + y \in Int /\ 1 \in Int /\ w \in Int /\ x + y = w + 1 * D
        BY <3>1
      <4>2. w % D = w
        BY ONLY <1>1, <3>1, Remainders
      <4> QED BY ONLY <1>6, <4>1, <4>2
    <3>3. RootPower(p, w) = P(w) /\ P(w) \in 0 .. M - 1
      BY <1>2, <1>3, <3>1, <3>2
    <3>4. P(w + D) = (P(w) * P(D)) % M
      BY <1>3, <3>1
    <3>5. (P(w) * 1) % M = P(w)
      <4> DEFINE v == P(w)
      <4>1. v \in 0 .. M - 1
        BY <3>3
      <4> HIDE DEF v
      <4>2. v * 1 = v /\ v % M = v
        BY ONLY <4>1, <1>1, Residues, v \in Nat, v < M, v * 1 = v
      <4> QED BY <4>2 DEF v
    <3>6. P(x + y) = P(w)
      BY <1>7, <3>1, <3>4, <3>5
    <3>7. RootPower(p, c) = (P(x) * P(y)) % M
      BY ONLY <2>3, <2>4, <3>2, <3>3, <3>6
    <3> QED BY ONLY <1>1, <2>2, <2>4, <3>7, CongruentRelation
  <2> QED BY <2>5, <2>6
<1>9. ASSUME NEW a \in Int, NEW c \in Int, c = a + N
      PROVE  Congruent(RootPower(p, c), -RootPower(p, a), M)
  <2> DEFINE v == RootPower(p, a)
  <2>1. N % D = N
    BY ONLY <1>1, Remainders, N \in 0 .. D - 1 DEF D
  <2>2. RootPower(p, N) = M - 1
    BY ONLY <1>1, <1>2, <2>1, N \in Int
  <2>3. Congruent(RootPower(p, c), v * (M - 1), M) /\ v \in Int
    <3>1. N \in Int /\ c = a + N
      BY <1>1, <1>9
    <3>2. Congruent(RootPower(p, c), RootPower(p, a) * RootPower(p, N), M)
      BY ONLY <1>8, <3>1, a \in Int, c \in Int
    <3>3. v \in Int
      BY ONLY <1>1, <1>4, a \in Int
    <3> QED BY <2>2, <3>2, <3>3
  <2> HIDE DEF v
  <2>4. v * (M - 1) = -v + v * M /\ -v \in Int
    BY ONLY <2>3, <1>1
  <2>5. Congruent(v * (M - 1), -v, M)
    BY ONLY <1>1, <2>3, <2>4, CongruentMultiple
  <2>6. Congruent(RootPower(p, c), -v, M)
    BY ONLY <1>1, <2>3, <2>5, CongruentRelation
  <2> QED BY <2>6 DEF v
<1> QED BY <1>4, <1>5, <1>6, <1>8, <1>9 DEF M, D

-----------------------------------------------------------------------------
(* Sums of powers of the root.                                             *)

\* The terms of a sum over n steps of an exponent c.
Steady(p, c, n, t) == \A j \in 0 .. n - 1 : t[j] = RootPower(p, c * j)

Multiple(c, d) == \E m \in Int : c = m * d

\* One halving of the sum of the powers of a root of unity: the second half
\* of the terms repeats the first or takes it away.
LEMMA HalvedSum ==
  ASSUME NEW p \in Params, NEW h \in Nat \ {0}, NEW c \in Int, NEW m \in Int, c * h = m * N,
         NEW t, Steady(p, c, 2 * h, t)
  PROVE  /\ \A i \in 0 .. 2 * h - 1 : t[i] \in Int
         /\ m % 2 = 0 => Total(t, 2 * h) = 2 * Total(t, h)
         /\ m % 2 = 1 => Congruent(Total(t, 2 * h), 0, p.modulus)
<1> DEFINE M == p.modulus
           e == m \div 2
           u == [i \in 0 .. h - 1 |-> t[i] + t[h + i]]
<1>1. M \in Nat \ {0, 1} /\ N \in Nat \ {0, 1}
  BY RingFacts
<1>2. e \in Int /\ (m % 2 = 0 => m = e * 2) /\ (m % 2 = 1 => m = e * 2 + 1)
  BY ONLY IntSplit, 2 \in Nat \ {0}, m \in Int
<1> HIDE DEF M, e
<1>3. \A x \in Int : RootPower(p, x) \in 0 .. M - 1
  BY RootPowers DEF M
<1>4. \A i \in 0 .. 2 * h - 1 : t[i] = RootPower(p, c * i) /\ t[i] \in 0 .. M - 1
  <2>1. \A i \in 0 .. 2 * h - 1 : c * i \in Int
    OBVIOUS
  <2> QED BY ONLY <1>3, <2>1, Steady(p, c, 2 * h, t) DEF Steady
<1>5. \A i \in 0 .. 2 * h - 1 : t[i] \in Int
  BY ONLY <1>1, <1>4
<1>6. \A i \in 0 .. h - 1 : u[i] = t[i] + t[h + i]
  OBVIOUS
<1> HIDE DEF u
<1>7. Total(t, 2 * h) = Total(u, h)
  BY ONLY <1>5, <1>6, TotalFolds, h \in Nat
<1>8. ASSUME NEW i \in 0 .. h - 1
      PROVE  /\ i \in 0 .. 2 * h - 1 /\ h + i \in 0 .. 2 * h - 1 /\ t[i] \in Int /\ t[h + i] \in Int
             /\ c * i \in Int /\ c * (h + i) \in Int /\ c * (h + i) = m * N + c * i
  <2>1. i \in 0 .. 2 * h - 1 /\ h + i \in 0 .. 2 * h - 1
    OBVIOUS
  <2>2. c * (h + i) = c * h + c * i /\ c * i \in Int /\ c * (h + i) \in Int
    OBVIOUS
  <2> QED BY <1>5, <2>1, <2>2
<1>9. ASSUME m % 2 = 0 PROVE Total(t, 2 * h) = 2 * Total(t, h)
  <2>1. ASSUME NEW i \in 0 .. h - 1 PROVE t[i] \in Int /\ u[i] = 2 * t[i]
    <3>1. c * (h + i) = c * i + e * (2 * N)
      <4>1. m * N = e * (2 * N)
        BY ONLY <1>1, <1>2, <1>9
      <4>2. m * N \in Int /\ e * (2 * N) \in Int
        BY <1>1, <1>2
      <4> QED BY ONLY <1>8, <4>1, <4>2
    <3>2. RootPower(p, c * (h + i)) = RootPower(p, c * i)
      BY ONLY <1>2, <1>8, <3>1, RootPowers, p \in Params
    <3>3. t[h + i] = t[i]
      BY ONLY <1>4, <1>8, <3>2
    <3> QED BY ONLY <1>6, <1>8, <3>3
  <2> QED BY ONLY <1>7, <2>1, TotalTimes, h \in Nat, 2 \in Int
<1>10. ASSUME m % 2 = 1 PROVE Congruent(Total(t, 2 * h), 0, M)
  <2> DEFINE z == [i \in 0 .. h - 1 |-> 0]
  <2>1. ASSUME NEW i \in 0 .. h - 1 PROVE u[i] \in Int /\ Congruent(u[i], 0, M)
    <3> DEFINE x == c * i
               y == x + N
    <3>1. c * (h + i) = y + e * (2 * N) /\ y \in Int /\ x \in Int
      <4>1. m * N = e * (2 * N) + N
        <5>1. (e * 2 + 1) * N = e * (2 * N) + N
          BY ONLY <1>1, <1>2
        <5> QED BY <1>2, <1>10, <5>1
      <4>2. m * N \in Int /\ e * (2 * N) \in Int
        BY <1>1, <1>2
      <4> QED BY ONLY <1>1, <1>8, <4>1, <4>2
    <3>2. RootPower(p, c * (h + i)) = RootPower(p, y)
      BY ONLY <1>2, <1>8, <3>1, RootPowers, p \in Params
    <3>3. Congruent(RootPower(p, y), -RootPower(p, x), M)
      <4>1. y = x + N
        OBVIOUS
      <4> HIDE DEF x, y
      <4> QED BY ONLY <3>1, <4>1, RootPowers, p \in Params DEF M
    <3>4. Congruent(t[h + i], -t[i], M)
      BY ONLY <1>4, <1>8, <3>2, <3>3
    <3> DEFINE v == t[i]
    <3>5. v \in Int /\ -v \in Int /\ t[h + i] \in Int
      BY <1>8
    <3>6. Congruent(v + t[h + i], v + -v, M)
      <4>1. Congruent(v, v, M)
        BY DEF Congruent
      <4> HIDE DEF v
      <4>2. Congruent(t[h + i], -v, M)
        BY <3>4 DEF v
      <4>3. M \in Nat \ {0}
        BY <1>1
      <4> QED BY ONLY <3>5, <4>1, <4>2, <4>3, CongruentSum
    <3> HIDE DEF v
    <3>7. v + -v = 0
      BY ONLY <3>5
    <3> QED BY <1>6, <1>8, <3>6, <3>7 DEF v
  <2>2. \A i \in 0 .. h - 1 : z[i] = 0 /\ z[i] \in Int
    OBVIOUS
  <2> HIDE DEF z
  <2>3. Total(z, h) = 0
    BY ONLY <2>2, TotalZero, h \in Nat
  <2>4. \A i \in 0 .. h - 1 : u[i] \in Int /\ z[i] \in Int /\ Congruent(u[i], z[i], M)
    BY ONLY <2>1, <2>2
  <2>5. Congruent(Total(u, h), Total(z, h), M)
    BY ONLY <1>1, <2>4, TotalCongruent, h \in Nat, M \in Nat \ {0}
  <2> QED BY ONLY <1>7, <2>3, <2>5
<1> QED BY <1>5, <1>9, <1>10 DEF M

\* The powers of a root of unity other than one add up to nothing.
LEMMA PowersCancel ==
  ASSUME NEW p \in Params
  PROVE  \A l \in 0 .. W : \A c \in Int : \A t :
           Multiple(c * 2^l, 2 * N) /\ ~Multiple(c, 2 * N) /\ Steady(p, c, 2^l, t) =>
             Congruent(Total(t, 2^l), 0, p.modulus)
<1> DEFINE M == p.modulus
           Cancels(l) == \A c \in Int : \A t :
             Multiple(c * 2^l, 2 * N) /\ ~Multiple(c, 2 * N) /\ Steady(p, c, 2^l, t) =>
               Congruent(Total(t, 2^l), 0, M)
           Q == {l \in Nat : l <= W => Cancels(l)}
<1>1. M \in Nat \ {0, 1} /\ N \in Nat \ {0, 1}
  BY RingFacts
<1>2. 0 \in Q
  <2>1. 2^0 = 1 /\ \A c \in Int : c * 1 = c
    BY PowersOfTwo
  <2>2. \A c \in Int : c * 2^0 = c
    BY <2>1
  <2> QED BY <2>2
<1>3. ASSUME NEW l \in Nat, l \in Q PROVE l + 1 \in Q
  <2>1. SUFFICES ASSUME l + 1 <= W PROVE Cancels(l + 1)
    OBVIOUS
  <2> DEFINE h == 2^l
  <2>2. 2^(l + 1) = 2 * h /\ h \in Nat \ {0} /\ Cancels(l)
    <3>1. l + 1 \in 1 .. W /\ l \in 0 .. W /\ l + 1 - 1 = l /\ l <= W
      BY <2>1, WordAssumption
    <3>2. Cancels(l)
      BY <1>3, <3>1
    <3> HIDE DEF Cancels
    <3> QED BY ONLY <3>1, <3>2, PowersOfTwo
  <2>3. SUFFICES ASSUME NEW c \in Int, NEW t, Multiple(c * (2 * h), 2 * N), ~Multiple(c, 2 * N),
                        Steady(p, c, 2 * h, t)
                 PROVE  Congruent(Total(t, 2 * h), 0, M)
    BY <2>2
  <2>4. \A s : Multiple(c * h, 2 * N) /\ Steady(p, c, h, s) => Congruent(Total(s, h), 0, M)
    BY <2>2, <2>3
  <2> HIDE DEF h, Cancels
  <2>5. PICK m \in Int : c * (2 * h) = m * (2 * N)
    BY <2>3 DEF Multiple
  <2>6. c * h = m * N
    <3>1. 2 * (c * h) = 2 * (m * N) /\ c * h \in Int /\ m * N \in Int
      BY ONLY <1>1, <2>2, <2>5, c \in Int, m \in Int
    <3> QED BY ONLY <3>1
  <2>7. /\ \A i \in 0 .. 2 * h - 1 : t[i] \in Int
        /\ m % 2 = 0 => Total(t, 2 * h) = 2 * Total(t, h)
        /\ m % 2 = 1 => Congruent(Total(t, 2 * h), 0, M)
    BY ONLY <2>2, <2>3, <2>6, HalvedSum, p \in Params, c \in Int, m \in Int DEF M
  <2>8. CASE m % 2 = 0
    <3> DEFINE e == m \div 2
               s == Total(t, h)
    <3>1. e \in Int /\ m = e * 2
      BY ONLY IntSplit, 2 \in Nat \ {0}, m \in Int, <2>8
    <3> HIDE DEF e
    <3>2. c * h = e * (2 * N)
      BY ONLY <1>1, <2>6, <3>1
    <3>3. Multiple(c * h, 2 * N)
      BY <3>1, <3>2 DEF Multiple
    <3>4. Steady(p, c, h, t)
      <4>1. \A j \in 0 .. h - 1 : j \in 0 .. 2 * h - 1
        BY <2>2
      <4> QED BY ONLY <2>3, <4>1 DEF Steady
    <3>5. Congruent(s, 0, M)
      BY <2>4, <3>3, <3>4
    <3>6. s \in Int
      <4>1. h \in 0 .. h /\ \A i \in 0 .. h - 1 : t[i] \in Int
        BY ONLY <2>2, <2>7
      <4> QED BY ONLY <2>2, <4>1, TotalSteps
    <3> HIDE DEF s
    <3>7. Congruent(s + s, 0 + 0, M)
      BY ONLY <1>1, <3>5, <3>6, CongruentSum, 0 \in Int, M \in Nat \ {0}
    <3>8. s + s = 2 * s /\ 0 + 0 = 0
      BY ONLY <3>6
    <3> QED BY <2>7, <2>8, <3>7, <3>8 DEF s
  <2>9. CASE m % 2 = 1
    BY ONLY <2>7, <2>9
  <2>10. m % 2 \in {0, 1}
    BY ONLY IntSplit, 2 \in Nat \ {0}, m \in Int
  <2> QED BY ONLY <2>8, <2>9, <2>10
<1>4. Nat \subseteq Q
  <2> HIDE DEF Q
  <2> QED BY ONLY <1>2, <1>3, Induction
<1>5. ASSUME NEW l \in 0 .. W PROVE Cancels(l)
  BY <1>4
<1> QED BY <1>5

\* The sum of the 2d-th powers of all the powers of the root squared.
LEMMA OrthogonalSum ==
  ASSUME NEW p \in Params, NEW d \in Int, NEW t, Steady(p, 2 * d, N, t)
  PROVE  /\ \A j \in 0 .. N - 1 : t[j] \in Int
         /\ d = 0 => Total(t, N) = N
         /\ d # 0 /\ -N < d /\ d < N => Congruent(Total(t, N), 0, p.modulus)
<1>1. N \in Nat \ {0, 1} /\ p.modulus \in Nat \ {0, 1}
  BY RingFacts
<1>2. \A j \in 0 .. N - 1 : t[j] = RootPower(p, (2 * d) * j) /\ t[j] \in 0 .. p.modulus - 1
  <2>1. \A j \in 0 .. N - 1 : (2 * d) * j \in Int
    OBVIOUS
  <2>2. \A x \in Int : RootPower(p, x) \in 0 .. p.modulus - 1
    BY RootPowers
  <2> QED BY ONLY <2>1, <2>2, Steady(p, 2 * d, N, t) DEF Steady
<1>3. \A j \in 0 .. N - 1 : t[j] \in Int
  BY ONLY <1>1, <1>2
<1>4. ASSUME d = 0 PROVE Total(t, N) = N
  <2> DEFINE o == [k \in 0 .. N |-> k]
  <2>1. ASSUME NEW j \in 0 .. N - 1 PROVE t[j] = 1
    <3>1. (2 * d) * j = 0
      BY <1>4
    <3>2. RootPower(p, 0) = 1
      BY RootPowers
    <3>3. t[j] = RootPower(p, (2 * d) * j)
      BY <1>2
    <3> QED BY ONLY <3>1, <3>2, <3>3
  <2>2. /\ o[0] = 0 /\ o[N] = N /\ o \in [0 .. N -> Int]
        /\ \A i \in 1 .. N : o[i] = o[i - 1] + t[i - 1]
    <3>1. \A i \in 1 .. N : i - 1 \in 0 .. N - 1 /\ i \in 0 .. N /\ i - 1 \in 0 .. N /\ i - 1 + 1 = i
      BY <1>1
    <3>2. \A i \in 1 .. N : t[i - 1] = 1
      BY <2>1, <3>1
    <3> QED BY <1>1, <3>1, <3>2
  <2> HIDE DEF o
  <2>3. PartialSums(t, N, o)
    BY ONLY <2>2 DEF PartialSums
  <2> QED BY ONLY <1>1, <2>2, <2>3, TotalIsLast
<1>5. ASSUME d # 0, -N < d, d < N PROVE Congruent(Total(t, N), 0, p.modulus)
  <2>1. PICK l \in 1 .. W - 1 : N = 2^l
    BY PolyAssumption
  <2> DEFINE c == 2 * d
  <2>2. c \in Int /\ c * N = d * (2 * N)
    BY <1>1
  <2>3. ~Multiple(c, 2 * N)
    <3> SUFFICES ASSUME NEW m \in Int, c = m * (2 * N) PROVE FALSE
      BY DEF Multiple
    <3>1. d = m * N
      BY ONLY c = m * (2 * N), <1>1, d \in Int, m \in Int
    <3>2. m # 0
      BY <1>1, <1>5, <3>1
    <3>3. m >= 1 => N <= m * N
      <4> SUFFICES ASSUME 1 <= m PROVE 1 * N <= m * N
        BY <1>1
      <4> QED BY ONLY <1>1, m \in Int, 1 \in Int, N \in Nat, 1 <= m, Monotone
    <3>4. m <= -1 => m * N <= -N
      <4> SUFFICES ASSUME m <= -1 PROVE m * N <= (-1) * N
        BY <1>1
      <4> QED BY ONLY <1>1, m \in Int, -1 \in Int, N \in Nat, m <= -1, Monotone
    <3> QED BY ONLY <1>1, <1>5, <3>1, <3>2, <3>3, <3>4, m \in Int, d \in Int
  <2>4. Multiple(c * 2^l, 2 * N) /\ Steady(p, c, 2^l, t) /\ l \in 0 .. W
    BY <2>1, <2>2, WordAssumption DEF Multiple
  <2> HIDE DEF c
  <2>5. Congruent(Total(t, 2^l), 0, p.modulus)
    BY ONLY <2>2, <2>3, <2>4, PowersCancel, p \in Params
  <2> QED BY ONLY <2>1, <2>5
<1> QED BY <1>3, <1>4, <1>5

\* The length of a number is the exponent of the power of two above it.
LEMMA LengthUnique ==
  ASSUME NEW x \in Nat, NEW l \in 1 .. W, 2^(l - 1) <= x, x < 2^l
  PROVE  GetMSB(x) = l
<1> DEFINE k == GetMSB(x)
           Fits(n) == n \in 0 .. W /\ x < 2^n /\ (n = 0 \/ 2^(n - 1) <= x)
<1>1. W \in Nat /\ 2^0 = 1 /\ \A i \in 0 .. W : 2^i \in Nat \ {0}
  BY PowersOfTwo
<1>2. Fits(l)
  BY <1>1
<1>3. Fits(k)
  <2>1. k = CHOOSE n \in 0 .. W : x < 2^n /\ (n = 0 \/ 2^(n - 1) <= x)
    BY DEF GetMSB
  <2>2. \E n \in 0 .. W : x < 2^n /\ (n = 0 \/ 2^(n - 1) <= x)
    BY <1>2
  <2> HIDE DEF k
  <2> QED BY <2>1, <2>2
<1> HIDE DEF k
<1>4. \A i, j \in 0 .. W : i <= j => 2^i <= 2^j
  <2> SUFFICES ASSUME NEW i \in 0 .. W, NEW j \in 0 .. W, i <= j PROVE 2^i <= 2^j
    OBVIOUS
  <2> DEFINE d == j - i
  <2>1. d \in 0 .. 2 * W /\ i \in 0 .. 2 * W /\ i + d = j /\ i + d <= 2 * W
    BY <1>1
  <2> HIDE DEF d
  <2>2. 2^(i + d) = 2^i * 2^d /\ 2^i \in Nat \ {0} /\ 2^d \in Nat \ {0}
    BY <2>1, PowerAssumption
  <2>3. 1 * 2^i <= 2^d * 2^i /\ 2^d * 2^i = 2^i * 2^d
    BY <2>2, Monotone
  <2> QED BY <2>1, <2>2, <2>3
<1>5. CASE k < l
  <2>1. k \in 0 .. W /\ l - 1 \in 0 .. W /\ k <= l - 1 /\ x < 2^k
    BY <1>1, <1>3, <1>5
  <2>2. 2^k <= 2^(l - 1) /\ 2^k \in Nat /\ 2^(l - 1) \in Nat
    BY <1>1, <1>4, <2>1
  <2> QED BY <2>1, <2>2
<1>6. CASE k > l
  <2>1. k \in 0 .. W /\ k - 1 \in 0 .. W /\ l \in 0 .. W /\ l <= k - 1 /\ 2^(k - 1) <= x
    BY <1>1, <1>3, <1>6
  <2>2. 2^l <= 2^(k - 1) /\ 2^(k - 1) \in Nat /\ 2^l \in Nat
    BY <1>1, <1>4, <2>1
  <2> QED BY <2>1, <2>2
<1> QED BY <1>3, <1>5, <1>6 DEF k

\* The low bits of a number, reversed, as the folds of the transforms and of
\* the automorphisms have it.
ReversalFold(i, l) ==
  FoldLeft(LAMBDA acc, b : 2 * acc + ((i \div 2^b) % 2), 0, [b \in 1 .. l |-> b - 1])

\* They are the last of the reversals of its parts.
LEMMA ReversalUnrolls ==
  ASSUME NEW i \in Nat, NEW l \in 1 .. W
  PROVE  \E f : Reverses(i, l, f) /\ ReversalFold(i, l) = f[l]
<1> DEFINE A == Nat
           s == [b \in 1 .. l |-> b - 1]
           Bit(acc, b) == 2 * acc + ((i \div 2^b) % 2)
           F == [p \in (1 .. l) \X A |-> Bit(p[2], s[p[1]])]
           Good(h) == h = [j \in SUBSET (1 .. l) |->
                             IF j = {} THEN 0 ELSE Bit(h[j \ {Max(j)}], s[Max(j)])]
           iter == CHOOSE h : Good(h)
<1>1. l \in Nat /\ W \in Nat /\ i \in Nat /\ \A k \in 1 .. l : s[k] = k - 1 /\ k - 1 \in 0 .. W
  BY PowersOfTwo
<1>2. ReversalFold(i, l) = iter[1 .. l]
  BY DEF ReversalFold, FoldLeft, MapThenFoldSet
<1>3. \A acc \in Nat, k \in 1 .. l : Bit(acc, s[k]) \in Nat /\ Bit(acc, s[k]) = Bit(acc, k - 1)
  <2>1. ASSUME NEW k \in 1 .. l PROVE (i \div 2^(k - 1)) % 2 \in Nat
    <3>1. 2^(k - 1) \in Nat \ {0}
      BY <1>1, PowersOfTwo
    <3>2. i \div 2^(k - 1) \in Nat
      BY <1>1, <3>1, DivNat
    <3> QED BY <3>2, DivNat, 2 \in Nat \ {0}
  <2> QED BY <1>1, <2>1
<1>4. Steps(l, A, F) /\ \A k \in 1 .. l, acc \in A : F[<<k, acc>>] = Bit(acc, s[k])
  <2>1. \A p \in (1 .. l) \X A : p[1] \in 1 .. l /\ p[2] \in Nat
    OBVIOUS
  <2> HIDE DEF s, Bit
  <2> QED BY <1>3, <2>1 DEF Steps
<1>5. 0 \in A
  OBVIOUS
<1>6. \A j \in SUBSET (1 .. l) : j # {} => Max(j) \in 1 .. l /\ j \ {Max(j)} \in SUBSET (1 .. l)
  BY <1>1, MaxOf
<1> HIDE DEF A, s, F, Bit
<1>7. PICK h : h \in [SUBSET (1 .. l) -> A] /\ Folds(l, A, 0, F, h)
  BY <1>1, <1>4, <1>5, FoldExists
<1>8. Good(h)
  BY <1>4, <1>6, <1>7 DEF Folds
<1>9. Good(iter)
  BY <1>8
<1> HIDE DEF iter
<1>10. Folds(l, A, 0, F, iter)
  BY <1>4, <1>6, <1>9 DEF Folds
<1> HIDE DEF Good
<1>11. PICK f : Unrolls(l, A, 0, F, f) /\ f[l] = iter[1 .. l]
  BY <1>1, <1>4, <1>5, <1>10, FoldUnroll
<1>12. \A k \in 1 .. l : f[k - 1] \in A
  BY <1>1, <1>11 DEF Unrolls
<1>13. Reverses(i, l, f)
  BY <1>3, <1>4, <1>11, <1>12 DEF A, Unrolls, Reverses, Bit
<1> QED BY <1>2, <1>11, <1>13

\* Dividing twice.
LEMMA DivTwice ==
  ASSUME NEW x \in Nat, NEW d \in Nat \ {0}
  PROVE  (x \div d) \div 2 = x \div (2 * d) /\ ((x \div d) % 2) \in {0, 1}
         /\ x \div d = 2 * (x \div (2 * d)) + ((x \div d) % 2)
<1> DEFINE y == x \div d
           r == x % d
           s == y \div 2
           b == y % 2
           D == 2 * d
<1>1. y \in Nat /\ r \in 0 .. d - 1 /\ x = d * y + r
  BY ONLY DivNat, x \in Nat, d \in Nat \ {0}
<1> HIDE DEF y, r
<1>2. s \in Nat /\ b \in {0, 1} /\ y = 2 * s + b
  BY ONLY DivNat, <1>1, 2 \in Nat \ {0}, 2 - 1 = 1
<1> HIDE DEF s, b
<1>3. x = s * D + (d * b + r) /\ d * b + r \in 0 .. D - 1 /\ D \in Nat \ {0}
  <2>1. CASE b = 0
    <3>1. x = d * (2 * s) + r /\ d * b = 0
      BY ONLY <1>1, <1>2, <2>1, d \in Nat
    <3>2. d * (2 * s) = s * D
      BY <1>2
    <3> QED BY <1>1, <3>1, <3>2
  <2>2. CASE b = 1
    <3>1. x = d * (2 * s + 1) + r /\ d * b = d
      BY ONLY <1>1, <1>2, <2>2, d \in Nat
    <3>2. d * (2 * s + 1) = s * D + d /\ s * D \in Int
      BY <1>2
    <3> QED BY <1>1, <3>1, <3>2
  <2> QED BY <1>2, <2>1, <2>2
<1> HIDE DEF D
<1>4. x \div D = s
  BY ONLY <1>2, <1>3, DivUnique, x \in Int, s \in Int
<1>5. s = x \div (2 * d)
  BY ONLY <1>4 DEF D
<1>6. y \div 2 = x \div (2 * d) /\ y % 2 \in {0, 1} /\ y = 2 * (x \div (2 * d)) + (y % 2)
  BY ONLY <1>2, <1>5 DEF s, b
<1> QED BY ONLY <1>6 DEF y

\* Reversed twice, a number of l bits is itself again.
LEMMA ReversedTwice ==
  ASSUME NEW l \in 1 .. W, NEW i \in 0 .. 2^l - 1, NEW f, Reverses(i, l, f), NEW g, Reverses(f[l], l, g)
  PROVE  g[l] = i
<1>1. W \in Nat /\ l \in Nat /\ 2^0 = 1 /\ (\A k \in 0 .. W : 2^k \in Nat \ {0}) /\ i \in Nat
      /\ \A k \in 1 .. W : 2^k = 2 * 2^(k - 1)
  BY PowersOfTwo
<1>2. /\ \A k \in 0 .. l : f[k] \in Nat
      /\ f[0] = 0 /\ \A k \in 1 .. l : f[k] = 2 * f[k - 1] + ((i \div 2^(k - 1)) % 2)
      /\ g[0] = 0 /\ \A k \in 1 .. l : g[k] = 2 * g[k - 1] + ((f[l] \div 2^(k - 1)) % 2)
  BY DEF Reverses
<1>3. ASSUME NEW k \in 1 .. l
      PROVE  f[k] \div 2 = f[k - 1] /\ f[k] % 2 = (i \div 2^(k - 1)) % 2 /\ (i \div 2^(k - 1)) % 2 \in {0, 1}
  <2> DEFINE b == (i \div 2^(k - 1)) % 2
             y == f[k - 1]
  <2>1. b \in {0, 1}
    <3>1. 2^(k - 1) \in Nat \ {0}
      BY <1>1
    <3> QED BY ONLY <1>1, <3>1, DivTwice
  <2>2. f[k] = 2 * y + b /\ y \in Nat
    BY <1>2
  <2> HIDE DEF b, y
  <2>3. (2 * y + b) \div 2 = y /\ (2 * y + b) % 2 = b
    <3>1. 2 * y + b \in Int /\ b \in 0 .. 2 - 1 /\ 2 \in Nat \ {0} /\ y \in Int /\ 2 * y + b = y * 2 + b
      BY <2>1, <2>2
    <3> QED BY ONLY <3>1, DivUnique
  <2> QED BY <2>1, <2>2, <2>3 DEF b, y
<1> DEFINE Q == {k \in Nat : k <= l => f[l] \div 2^k = f[l - k]}
           P == {k \in Nat : k <= l => g[k] = i \div 2^(l - k)}
<1>4. 0 \in Q
  <2>1. f[l] \in Nat /\ l - 0 = l
    BY <1>1, <1>2
  <2> QED BY <1>1, <2>1
<1>5. ASSUME NEW k \in Nat, k \in Q PROVE k + 1 \in Q
  <2>1. SUFFICES ASSUME k + 1 <= l PROVE f[l] \div 2^(k + 1) = f[l - (k + 1)]
    OBVIOUS
  <2>2. /\ k \in 0 .. W /\ k + 1 \in 1 .. W /\ k + 1 - 1 = k /\ l - k \in 1 .. l /\ l - k - 1 = l - (k + 1)
        /\ f[l] \div 2^k = f[l - k] /\ f[l] \in Nat
    BY <1>1, <1>2, <1>5, <2>1
  <2>3. 2^k \in Nat \ {0} /\ 2^(k + 1) = 2 * 2^k
    BY ONLY <1>1, <2>2
  <2>4. (f[l] \div 2^k) \div 2 = f[l] \div (2 * 2^k)
    BY ONLY <2>2, <2>3, DivTwice
  <2>5. f[l - k] \div 2 = f[l - k - 1]
    BY ONLY <1>3, <2>2
  <2> QED BY ONLY <2>2, <2>3, <2>4, <2>5
<1>6. Nat \subseteq Q
  <2> HIDE DEF Q
  <2> QED BY ONLY <1>4, <1>5, Induction
<1>7. \A k \in 0 .. l : f[l] \div 2^k = f[l - k]
  BY <1>6
<1>8. 0 \in P
  <2>1. i \div 2^l = 0
    <3> DEFINE d == 2^l
    <3>1. d \in Nat \ {0} /\ i = 0 * d + i /\ i \in 0 .. d - 1
      BY <1>1
    <3> HIDE DEF d
    <3>2. i \div d = 0
      BY ONLY <3>1, DivUnique, i \in Int, 0 \in Int
    <3> QED BY <3>2 DEF d
  <2> QED BY <1>1, <1>2, <2>1
<1>9. ASSUME NEW k \in Nat, k \in P PROVE k + 1 \in P
  <2>1. SUFFICES ASSUME k + 1 <= l PROVE g[k + 1] = i \div 2^(l - (k + 1))
    OBVIOUS
  <2>2. /\ k \in 0 .. l /\ k + 1 \in 1 .. l /\ k + 1 - 1 = k /\ l - k \in 1 .. l /\ l - k - 1 = l - (k + 1)
        /\ l - (k + 1) \in 0 .. W /\ l - k \in 1 .. W
        /\ g[k] = i \div 2^(l - k)
    BY <1>1, <1>9, <2>1
  <2>3. g[k + 1] = 2 * g[k] + ((f[l] \div 2^k) % 2) /\ f[l] \div 2^k = f[l - k]
    <3>1. g[k + 1] = 2 * g[k + 1 - 1] + ((f[l] \div 2^(k + 1 - 1)) % 2)
      BY ONLY <1>2, <2>2
    <3>2. f[l] \div 2^k = f[l - k]
      BY ONLY <1>7, <2>2
    <3> QED BY ONLY <2>2, <3>1, <3>2
  <2>4. f[l - k] % 2 = (i \div 2^(l - (k + 1))) % 2
    BY ONLY <1>3, <2>2
  <2> DEFINE d == 2^(l - (k + 1))
  <2>5. d \in Nat \ {0} /\ 2^(l - k) = 2 * d
    BY ONLY <1>1, <2>2
  <2> HIDE DEF d
  <2>6. i \div d = 2 * (i \div (2 * d)) + ((i \div d) % 2)
    BY ONLY <1>1, <2>5, DivTwice
  <2> QED BY <2>2, <2>3, <2>4, <2>5, <2>6 DEF d
<1>10. Nat \subseteq P
  <2> HIDE DEF P
  <2> QED BY ONLY <1>8, <1>9, Induction
<1>11. g[l] = i \div 2^0
  <2>1. l \in P
    <3> HIDE DEF P
    <3> QED BY ONLY <1>1, <1>10
  <2>2. l - l = 0 /\ l <= l
    BY ONLY <1>1
  <2>3. g[l] = i \div 2^(l - l)
    BY <2>1, <2>2
  <2> QED BY ONLY <2>2, <2>3
<1> QED BY <1>1, <1>11

-----------------------------------------------------------------------------
(* Reversed bits.                                                          *)

\* Reversing the bits of an index gives an index, and reversing them again
\* gives it back.
LEMMA ReversalInvolutive ==
  \A i \in Index : ReverseBits(i) \in Index /\ ReverseBits(ReverseBits(i)) = i
<1>1. PICK l \in 1 .. W - 1 : N = 2^l
  BY PolyAssumption
<1>2. l \in 1 .. W /\ l + 1 \in 1 .. W /\ l + 1 - 1 = l /\ l \in 0 .. W
  BY WordAssumption
<1>3. 2^l \in Nat \ {0} /\ 2^(l + 1) = 2 * 2^l
  BY ONLY <1>2, PowersOfTwo
<1>4. GetMSB(N) = l + 1
  <2> DEFINE x == 2^l
  <2>1. x \in Nat /\ x <= x /\ x < 2 * x
    BY <1>3
  <2> HIDE DEF x
  <2>2. N \in Nat /\ 2^(l + 1 - 1) <= N /\ N < 2^(l + 1)
    BY <1>1, <1>2, <1>3, <2>1 DEF x
  <2> QED BY ONLY <1>2, <2>2, LengthUnique
<1>5. \A i : ReverseBits(i) = ReversalFold(i, l)
  <2>1. GetMSB(N) - 1 = l
    BY <1>2, <1>4
  <2> QED BY <2>1 DEF ReverseBits, ReversalFold
<1>6. Index = 0 .. 2^l - 1 /\ \A i \in Index : i \in Nat
  BY <1>1 DEF Index
<1>7. ASSUME NEW i \in Index PROVE \E f : Reverses(i, l, f) /\ ReverseBits(i) = f[l] /\ f[l] \in Index
  <2>1. PICK f : Reverses(i, l, f) /\ ReversalFold(i, l) = f[l]
    BY ONLY <1>2, <1>6, ReversalUnrolls
  <2>2. f[l] \in 0 .. 2^l - 1
    <3>1. l \in 0 .. l
      BY <1>2
    <3> QED BY ONLY <1>2, <1>6, <2>1, <3>1, ReversalBounded
  <2> QED BY <1>5, <1>6, <2>1, <2>2
<1>8. ASSUME NEW i \in Index PROVE ReverseBits(i) \in Index /\ ReverseBits(ReverseBits(i)) = i
  <2>1. PICK f : Reverses(i, l, f) /\ ReverseBits(i) = f[l] /\ f[l] \in Index
    BY <1>7
  <2>2. PICK g : Reverses(f[l], l, g) /\ ReverseBits(f[l]) = g[l]
    BY <1>7, <2>1
  <2>3. g[l] = i
    BY ONLY <1>2, <1>6, <2>1, <2>2, ReversedTwice
  <2> QED BY <2>1, <2>2, <2>3
<1> QED BY <1>8

-----------------------------------------------------------------------------
(* Sums of products over the indices.                                      *)

Vector(x) == \A j \in Index : x[j] \in Int
Same(x, y, M) == \A j \in Index : Congruent(x[j], y[j], M)

Dot(x, a) == Total([j \in Index |-> x[j] * a[j]], N)

\* They are integers, and congruent if the factors are.
LEMMA DotCongruent ==
  ASSUME NEW M \in Nat \ {0}, NEW x, NEW y, NEW a, NEW b, Vector(x), Vector(y), Vector(a), Vector(b),
         Same(x, y, M), Same(a, b, M)
  PROVE  Dot(x, a) \in Int /\ Congruent(Dot(x, a), Dot(y, b), M)
<1> DEFINE t == [j \in Index |-> x[j] * a[j]]
           u == [j \in Index |-> y[j] * b[j]]
<1>1. N \in Nat /\ Index = 0 .. N - 1 /\ N \in 0 .. N
  BY RingFacts
<1>2. ASSUME NEW j \in 0 .. N - 1
      PROVE  t[j] \in Int /\ u[j] \in Int /\ Congruent(t[j], u[j], M)
  <2>1. x[j] \in Int /\ y[j] \in Int /\ a[j] \in Int /\ b[j] \in Int
        /\ Congruent(x[j], y[j], M) /\ Congruent(a[j], b[j], M)
    BY <1>1 DEF Vector, Same
  <2>2. t[j] = x[j] * a[j] /\ u[j] = y[j] * b[j]
    BY <1>1
  <2> HIDE DEF t, u
  <2>3. x[j] * a[j] \in Int /\ y[j] * b[j] \in Int
    BY ONLY <2>1, ProductInteger
  <2>4. Congruent(x[j] * a[j], y[j] * b[j], M)
    BY ONLY <2>1, CongruentProduct, M \in Nat \ {0}
  <2> QED BY ONLY <2>2, <2>3, <2>4
<1> HIDE DEF t, u
<1>3. Congruent(Total(t, N), Total(u, N), M)
  BY ONLY <1>1, <1>2, TotalCongruent, M \in Nat \ {0}
<1>4. Total(t, N) \in Int
  BY ONLY <1>1, <1>2, TotalSteps
<1> QED BY <1>3, <1>4 DEF Dot, t, u

\* Equal factors give equal sums.
LEMMA DotSame ==
  ASSUME NEW x, NEW y, NEW a, NEW b, Vector(x), Vector(a),
         \A j \in Index : y[j] = x[j] /\ b[j] = a[j]
  PROVE  Dot(x, a) \in Int /\ Dot(y, b) = Dot(x, a)
<1> DEFINE t == [j \in Index |-> x[j] * a[j]]
           u == [j \in Index |-> y[j] * b[j]]
<1>1. N \in Nat /\ Index = 0 .. N - 1 /\ N \in 0 .. N
  BY RingFacts
<1>2. ASSUME NEW j \in 0 .. N - 1 PROVE t[j] \in Int /\ u[j] = t[j]
  <2>1. x[j] \in Int /\ a[j] \in Int /\ y[j] = x[j] /\ b[j] = a[j]
    BY <1>1 DEF Vector
  <2>2. t[j] = x[j] * a[j] /\ u[j] = y[j] * b[j]
    BY <1>1
  <2> HIDE DEF t, u
  <2> QED BY ONLY <2>1, <2>2, ProductInteger
<1> HIDE DEF t, u
<1>3. Total(u, N) = Total(t, N)
  BY ONLY <1>1, <1>2, TotalSame
<1>4. Total(t, N) \in Int
  BY ONLY <1>1, <1>2, TotalSteps
<1> QED BY <1>3, <1>4 DEF Dot, t, u

\* They are linear.
LEMMA DotAdds ==
  ASSUME NEW x, NEW y, NEW h, NEW a, Vector(x), Vector(y), Vector(a), \A j \in Index : h[j] = x[j] + y[j]
  PROVE  Dot(h, a) = Dot(x, a) + Dot(y, a)
<1> DEFINE t == [j \in Index |-> x[j] * a[j]]
           u == [j \in Index |-> y[j] * a[j]]
           v == [j \in Index |-> h[j] * a[j]]
<1>1. N \in Nat /\ Index = 0 .. N - 1
  BY RingFacts
<1>2. ASSUME NEW j \in 0 .. N - 1 PROVE t[j] \in Int /\ u[j] \in Int /\ v[j] = t[j] + u[j]
  <2>1. x[j] \in Int /\ a[j] \in Int /\ y[j] \in Int /\ h[j] = x[j] + y[j]
    BY <1>1 DEF Vector
  <2>2. t[j] = x[j] * a[j] /\ u[j] = y[j] * a[j] /\ v[j] = h[j] * a[j]
    BY <1>1
  <2> HIDE DEF t, u, v
  <2>3. (x[j] + y[j]) * a[j] = x[j] * a[j] + y[j] * a[j]
    BY ONLY <2>1
  <2> QED BY ONLY <2>1, <2>2, <2>3, ProductInteger
<1> HIDE DEF t, u, v
<1>3. Total(v, N) = Total(t, N) + Total(u, N)
  BY ONLY <1>1, <1>2, TotalAdds
<1> QED BY <1>3 DEF Dot, t, u, v

\* The sum of products of a multiple is the multiple of the sum.
LEMMA DotTimes ==
  ASSUME NEW c \in Int, NEW x, NEW h, NEW a, Vector(x), Vector(a), \A j \in Index : h[j] = c * x[j]
  PROVE  Dot(h, a) = c * Dot(x, a)
<1> DEFINE t == [j \in Index |-> x[j] * a[j]]
           v == [j \in Index |-> h[j] * a[j]]
<1>1. N \in Nat /\ Index = 0 .. N - 1
  BY RingFacts
<1>2. ASSUME NEW j \in 0 .. N - 1 PROVE t[j] \in Int /\ v[j] = c * t[j]
  <2>1. x[j] \in Int /\ a[j] \in Int /\ h[j] = c * x[j]
    BY <1>1 DEF Vector
  <2>2. t[j] = x[j] * a[j] /\ v[j] = h[j] * a[j]
    BY <1>1
  <2> HIDE DEF t, v
  <2>3. (c * x[j]) * a[j] = c * (x[j] * a[j])
    BY ONLY <2>1, Reorder, c \in Int
  <2> QED BY ONLY <2>1, <2>2, <2>3, ProductInteger
<1> HIDE DEF t, v
<1>3. Total(v, N) = c * Total(t, N)
  BY ONLY <1>1, <1>2, TotalTimes, c \in Int
<1> QED BY <1>3 DEF Dot, t, v

\* With a single entry that is not zero there is a single product.
LEMMA DotUnit ==
  ASSUME NEW k \in Index, NEW x, NEW a, Vector(x), Vector(a), \A j \in Index : j # k => x[j] = 0
  PROVE  Dot(x, a) = x[k] * a[k]
<1> DEFINE t == [j \in Index |-> x[j] * a[j]]
<1>1. N \in Nat /\ Index = 0 .. N - 1
  BY RingFacts
<1>2. ASSUME NEW j \in 0 .. N - 1 PROVE t[j] = x[j] * a[j] /\ x[j] \in Int /\ a[j] \in Int
  BY <1>1 DEF Vector
<1>3. k \in 0 .. N - 1 /\ t[k] \in Int
  BY <1>1, <1>2, ProductInteger
<1>4. ASSUME NEW j \in 0 .. N - 1, j # k PROVE t[j] = 0
  <2>1. x[j] = 0
    BY <1>1, <1>4
  <2>2. 0 * a[j] = 0
    <3>1. a[j] \in Int
      BY <1>2
    <3> QED BY ONLY <3>1
  <2> QED BY <1>2, <2>1, <2>2
<1> HIDE DEF t
<1>5. Total(t, N) = t[k]
  BY ONLY <1>1, <1>3, <1>4, TotalSingle
<1> QED BY <1>2, <1>3, <1>5 DEF Dot, t

\* The products with rows, combined, are products with combined rows.
Combines(A, b, c) == \A j \in Index : c[j] = Dot([i \in Index |-> A[i][j]], b)
Products(x, A, y) == \A i \in Index : y[i] = Dot(x, A[i])

\* A product of a vector with a matrix, and of that with a vector: the rows
\* may be combined first.
LEMMA DotDot ==
  ASSUME NEW A, \A i \in Index : Vector(A[i]), NEW b, Vector(b), NEW c, Combines(A, b, c),
         NEW x, Vector(x), NEW y, Products(x, A, y)
  PROVE  Vector(y) /\ Vector(c) /\ Dot(y, b) = Dot(x, c)
<1> DEFINE f == [i \in Index |-> [j \in Index |-> (x[j] * A[i][j]) * b[i]]]
           g == [j \in Index |-> [i \in Index |-> (x[j] * A[i][j]) * b[i]]]
           r == [i \in Index |-> y[i] * b[i]]
           s == [j \in Index |-> x[j] * c[j]]
<1>1. N \in Nat /\ Index = 0 .. N - 1
  BY RingFacts
<1>2. \A i, j \in Index : A[i][j] \in Int /\ b[i] \in Int /\ x[j] \in Int
  BY DEF Vector
<1>3. \A i, j \in Index : f[i][j] = (x[j] * A[i][j]) * b[i] /\ g[j][i] = f[i][j]
  OBVIOUS
<1>4. \A i, j \in Index : f[i][j] \in Int
  BY ONLY <1>2, <1>3, ProductInteger
<1>5. \A i \in Index : r[i] = y[i] * b[i] /\ s[i] = x[i] * c[i]
  OBVIOUS
<1> HIDE DEF f, g, r, s
<1>6. Transposed(f, g, N, N)
  BY ONLY <1>1, <1>3, <1>4 DEF Transposed
<1>7. ASSUME NEW i \in Index PROVE y[i] \in Int /\ r[i] = Total(f[i], N)
  <2> DEFINE t == [j \in Index |-> x[j] * A[i][j]]
  <2>1. \A j \in Index : t[j] = x[j] * A[i][j]
    OBVIOUS
  <2>2. y[i] = Total(t, N)
    BY DEF Products, Dot
  <2> HIDE DEF t
  <2>3. ASSUME NEW j \in Index PROVE t[j] \in Int /\ f[i][j] = b[i] * t[j]
    <3>1. t[j] \in Int /\ b[i] \in Int /\ f[i][j] = t[j] * b[i]
      BY ONLY <1>2, <1>3, <2>1, ProductInteger, i \in Index, j \in Index
    <3> QED BY ONLY <3>1
  <2>4. \A j \in 0 .. N - 1 : t[j] \in Int /\ f[i][j] = b[i] * t[j]
    BY <1>1, <2>3
  <2>5. b[i] \in Int
    BY <1>2
  <2>6. Total(f[i], N) = b[i] * Total(t, N)
    BY ONLY <1>1, <2>4, <2>5, TotalTimes
  <2>7. Total(t, N) \in Int
    <3>1. N \in 0 .. N /\ \A j \in 0 .. N - 1 : t[j] \in Int
      BY <1>1, <2>4
    <3> QED BY ONLY <1>1, <3>1, TotalSteps
  <2>8. b[i] * Total(t, N) = Total(t, N) * b[i]
    BY ONLY <2>5, <2>7
  <2> QED BY <1>5, <2>2, <2>6, <2>7, <2>8
<1>8. ASSUME NEW j \in Index PROVE c[j] \in Int /\ s[j] = Total(g[j], N)
  <2> DEFINE u == [i \in Index |-> A[i][j]]
             t == [i \in Index |-> u[i] * b[i]]
  <2>1. \A i \in Index : t[i] = A[i][j] * b[i]
    OBVIOUS
  <2>2. c[j] = Total(t, N)
    BY DEF Combines, Dot
  <2> HIDE DEF t
  <2>3. ASSUME NEW i \in Index PROVE t[i] \in Int /\ g[j][i] = x[j] * t[i]
    <3>1. A[i][j] \in Int /\ b[i] \in Int /\ x[j] \in Int
      BY <1>2
    <3>2. (x[j] * A[i][j]) * b[i] = x[j] * (A[i][j] * b[i]) /\ A[i][j] * b[i] \in Int
      BY ONLY <3>1, Reorder, ProductInteger
    <3> QED BY <1>3, <2>1, <3>2
  <2>4. \A i \in 0 .. N - 1 : t[i] \in Int /\ g[j][i] = x[j] * t[i]
    BY <1>1, <2>3
  <2>5. x[j] \in Int
    BY <1>2
  <2>6. Total(g[j], N) = x[j] * Total(t, N)
    BY ONLY <1>1, <2>4, <2>5, TotalTimes
  <2>7. Total(t, N) \in Int
    <3>1. N \in 0 .. N /\ \A i \in 0 .. N - 1 : t[i] \in Int
      BY <1>1, <2>4
    <3> QED BY ONLY <1>1, <3>1, TotalSteps
  <2> QED BY <1>5, <2>2, <2>6, <2>7
<1>9. Sums(r, f, N, N) /\ Sums(s, g, N, N)
  BY ONLY <1>1, <1>7, <1>8 DEF Sums
<1>10. Total(r, N) = Total(s, N)
  BY ONLY <1>1, <1>6, <1>9, TotalSwaps
<1> QED BY <1>7, <1>8, <1>10 DEF Vector, Dot, r, s

\* Rows that combine to a multiple of a unit vector give the entry back.
LEMMA DotInverts ==
  ASSUME NEW M \in Nat \ {0}, NEW n \in Int, NEW k \in Index,
         NEW A, \A i \in Index : Vector(A[i]), NEW b, Vector(b), NEW c, Combines(A, b, c),
         \A j \in Index : Congruent(c[j], IF j = k THEN n ELSE 0, M),
         NEW x, Vector(x), NEW y, Vector(y), NEW z, Products(x, A, z), Same(y, z, M)
  PROVE  Dot(y, b) \in Int /\ Congruent(Dot(y, b), n * x[k], M)
<1> DEFINE u == [j \in Index |-> IF j = k THEN n ELSE 0]
<1>1. Vector(z) /\ Vector(c) /\ Dot(z, b) = Dot(x, c)
  BY DotDot
<1>2. Same(b, b, M) /\ Same(x, x, M)
  BY DEF Same, Congruent
<1>3. Dot(y, b) \in Int /\ Congruent(Dot(y, b), Dot(z, b), M)
  BY ONLY <1>1, <1>2, DotCongruent, M \in Nat \ {0}, Vector(y), Vector(b), Same(y, z, M)
<1>4. Vector(u) /\ u[k] = n /\ (\A j \in Index : j # k => u[j] = 0) /\ Same(c, u, M)
  BY DEF Vector, Same
<1> HIDE DEF u
<1>5. Congruent(Dot(x, c), Dot(x, u), M)
  BY ONLY <1>1, <1>2, <1>4, DotCongruent, M \in Nat \ {0}, Vector(x)
<1>6. Dot(u, x) = n * x[k] /\ Dot(u, x) = Dot(x, u)
  <2>1. Dot(u, x) = u[k] * x[k]
    BY ONLY <1>4, DotUnit, k \in Index, Vector(x)
  <2> DEFINE s == [j \in Index |-> u[j] * x[j]]
             t == [j \in Index |-> x[j] * u[j]]
  <2>2. ASSUME NEW j \in Index PROVE s[j] = t[j]
    BY <1>4 DEF Vector
  <2>3. s = t
    BY <2>2
  <2> QED BY <1>4, <2>1, <2>3 DEF Dot
<1> QED BY ONLY <1>1, <1>3, <1>5, <1>6, CongruentRelation, M \in Nat \ {0}

-----------------------------------------------------------------------------
(* The transforms undo each other.                                         *)

Point(i) == 2 * ReverseBits(i) + 1

Forward(p, i)  == [j \in Index |-> RootPower(p, Point(i) * j)]
Backward(p, j) == [i \in Index |-> RootPower(p, ((2 * N - 1) * j) * Point(i))]

\* The transforms are products with these rows.
LEMMA TransformsAreProducts ==
  ASSUME NEW p \in Params
  PROVE  /\ \A i \in Index : Vector(Forward(p, i)) /\ Vector(Backward(p, i)) /\ Point(i) \in Nat
         /\ \A x : ForwardTransform(x, p) = [i \in Index |-> Dot(x, Forward(p, i)) % p.modulus]
         /\ \A x : InverseTransform(x, p) =
                     [j \in Index |-> (InverseOf(N, p.modulus) * Dot(x, Backward(p, j))) % p.modulus]
<1>1. N \in Nat \ {0, 1} /\ Index = 0 .. N - 1
  BY RingFacts
<1>2. \A i \in Index : ReverseBits(i) \in Index /\ Point(i) \in Nat
  BY <1>1, ReversalInvolutive DEF Point
<1>3. ASSUME NEW i \in Index PROVE Vector(Forward(p, i)) /\ Vector(Backward(p, i))
  <2>1. \A e \in Int : RootPower(p, e) \in Int
    BY RootPowers, RingFacts
  <2>2. \A j \in Index : Point(i) * j \in Int /\ ((2 * N - 1) * i) * Point(j) \in Int
    <3>1. i \in Int /\ 2 * N - 1 \in Int /\ Point(i) \in Int /\ \A j \in Index : j \in Int /\ Point(j) \in Int
      BY <1>1, <1>2
    <3> QED BY ONLY <3>1, ProductInteger
  <2> QED BY <2>1, <2>2 DEF Vector, Forward, Backward
<1>4. ASSUME NEW x, NEW i \in Index
      PROVE  Dot(x, Forward(p, i)) = R!Total([j \in Index |-> x[j] * RootPower(p, Point(i) * j)])
  <2> DEFINE t == [j \in Index |-> x[j] * RootPower(p, Point(i) * j)]
             u == [j \in Index |-> x[j] * Forward(p, i)[j]]
  <2>1. t = u
    BY DEF Forward
  <2> HIDE DEF t
  <2>2. R!Total(t) = Total(t, N)
    BY DEF R!Total, Total
  <2> QED BY <2>1, <2>2 DEF Dot, t
<1>5. ASSUME NEW x, NEW j \in Index
      PROVE  Dot(x, Backward(p, j)) =
               R!Total([i \in Index |-> x[i] * RootPower(p, ((2 * N - 1) * j) * Point(i))])
  <2> DEFINE t == [i \in Index |-> x[i] * RootPower(p, ((2 * N - 1) * j) * Point(i))]
             u == [i \in Index |-> x[i] * Backward(p, j)[i]]
  <2>1. t = u
    BY DEF Backward
  <2> HIDE DEF t
  <2>2. R!Total(t) = Total(t, N)
    BY DEF R!Total, Total
  <2> QED BY <2>1, <2>2 DEF Dot, t
<1>6. \A x : ForwardTransform(x, p) = [i \in Index |-> Dot(x, Forward(p, i)) % p.modulus]
  BY <1>4 DEF ForwardTransform, Point
<1>7. \A x : InverseTransform(x, p) =
               [j \in Index |-> (InverseOf(N, p.modulus) * Dot(x, Backward(p, j))) % p.modulus]
  BY <1>5 DEF InverseTransform, Point
<1> QED BY ONLY <1>2, <1>3, <1>6, <1>7

\* The rows of the forward transform, combined by those of the inverse.
LEMMA ForwardOrthogonal ==
  ASSUME NEW p \in Params, NEW k \in Index, NEW j \in Index
  PROVE  Congruent(Dot([i \in Index |-> Forward(p, i)[j]], Backward(p, k)), IF j = k THEN N ELSE 0, p.modulus)
<1> DEFINE M == p.modulus
           d == j - k
           rv == [i \in Index |-> ReverseBits(i)]
           t == [s \in Index |-> RootPower(p, (2 * d) * s)]
           u == [i \in Index |-> t[rv[i]]]
           w == RootPower(p, d)
           v == [i \in Index |-> Forward(p, i)[j] * Backward(p, k)[i]]
<1>1. N \in Nat \ {0, 1} /\ Index = 0 .. N - 1 /\ M \in Nat \ {0, 1} /\ N \in 0 .. N
  BY RingFacts
<1>2. d \in Int /\ -N < d /\ d < N /\ (d = 0 <=> j = k)
  BY <1>1
<1>3. \A e \in Int : RootPower(p, e) \in Int
  BY RootPowers, RingFacts
<1>4. w \in Int /\ (d = 0 => w = 1)
  BY <1>2, <1>3, RootPowers
<1>5. Steady(p, 2 * d, N, t)
  BY <1>1 DEF Steady
<1>6. \A i \in Index : rv[i] \in 0 .. N - 1 /\ rv[rv[i]] = i
  BY <1>1, ReversalInvolutive
<1>7. \A i \in 0 .. N - 1 : u[i] = t[rv[i]] /\ u[i] = RootPower(p, (2 * d) * ReverseBits(i))
  <2>1. \A i \in Index : u[i] = t[rv[i]] /\ ReverseBits(i) \in Index
    BY ReversalInvolutive
  <2> QED BY <1>1, <2>1
<1>8. \A i \in Index : v[i] = RootPower(p, Point(i) * j) * RootPower(p, ((2 * N - 1) * k) * Point(i))
  BY DEF Forward, Backward
<1>9. Dot([i \in Index |-> Forward(p, i)[j]], Backward(p, k)) = Total(v, N)
  <2>1. [i \in Index |-> [n \in Index |-> Forward(p, n)[j]][i] * Backward(p, k)[i]] = v
    OBVIOUS
  <2> HIDE DEF v
  <2> QED BY <2>1 DEF Dot
<1> HIDE DEF M, t, u, v, w, rv
<1>10. /\ \A i \in 0 .. N - 1 : t[i] \in Int
       /\ d = 0 => Total(t, N) = N
       /\ d # 0 => Congruent(Total(t, N), 0, M)
  BY <1>2, <1>5, OrthogonalSum DEF M
<1>11. Total(u, N) = Total(t, N)
  <2>1. \A i \in 0 .. N - 1 : rv[i] \in 0 .. N - 1 /\ rv[rv[i]] = i
    BY ONLY <1>1, <1>6
  <2>2. \A i \in 0 .. N - 1 : u[i] = t[rv[i]]
    BY ONLY <1>7
  <2>3. N \in Nat
    BY <1>1
  <2> QED BY ONLY <1>10, <2>1, <2>2, <2>3, TotalPermuted
<1>12. ASSUME NEW i \in 0 .. N - 1
       PROVE  v[i] \in Int /\ u[i] \in Int /\ Congruent(v[i], w * u[i], M)
  <2> DEFINE e == Point(i)
             r == ReverseBits(i)
             a == e * j
             b == ((2 * N - 1) * k) * e
             c == e * d
             g == (2 * d) * r
  <2>1. r \in Nat /\ e = 2 * r + 1 /\ e \in Int /\ r \in Int
    BY <1>1, ReversalInvolutive DEF Point
  <2> HIDE DEF e, r
  <2>2. a \in Int /\ b \in Int /\ c \in Int /\ g \in Int /\ k * e \in Int
    BY <1>1, <1>2, <2>1
  <2>3. a + b = c + (k * e) * (2 * N)
    <3>1. c = a - k * e
      <4>1. j \in Int /\ k \in Int
        BY <1>1
      <4>2. e * (j - k) = e * j - k * e
        BY ONLY <2>1, <4>1
      <4> QED BY <4>1, <4>2
    <3>2. b = (k * e) * (2 * N) - k * e
      <4>1. ((2 * N - 1) * k) * e = (2 * N - 1) * (k * e)
        <5>1. 2 * N - 1 \in Int /\ k \in Int
          BY <1>1
        <5> QED BY ONLY <2>1, <5>1, Reorder
      <4> DEFINE z == k * e
      <4>2. z \in Int
        BY <2>2
      <4> HIDE DEF z
      <4>3. (2 * N - 1) * z = z * (2 * N) - z
        BY ONLY <1>1, <4>2
      <4> QED BY <4>1, <4>3 DEF z
    <3>3. (k * e) * (2 * N) \in Int
      BY <1>1, <2>2
    <3> HIDE DEF a, b, c
    <3> QED BY ONLY <2>2, <3>1, <3>2, <3>3
  <2>4. c = d + g
    <3>1. (2 * r + 1) * d = d + (2 * d) * r
      BY ONLY <1>2, <2>1
    <3> QED BY <2>1, <3>1
  <2>5. v[i] = RootPower(p, a) * RootPower(p, b) /\ u[i] = RootPower(p, g)
    <3>1. i \in Index
      BY <1>1
    <3> QED BY <1>7, <1>8, <3>1 DEF e, r
  <2> HIDE DEF a, b, c, g
  <2>6. Congruent(RootPower(p, a + b), v[i], M) /\ RootPower(p, a + b) = RootPower(p, c)
    <3>1. a + b \in Int
      BY <2>2
    <3>2. Congruent(RootPower(p, a + b), RootPower(p, a) * RootPower(p, b), M)
      BY ONLY <2>2, <3>1, RootPowers, p \in Params DEF M
    <3>3. RootPower(p, a + b) = RootPower(p, c)
      BY ONLY <2>2, <2>3, <3>1, RootPowers, p \in Params
    <3> QED BY ONLY <2>5, <3>2, <3>3
  <2>7. Congruent(RootPower(p, c), w * u[i], M)
    <3>1. Congruent(RootPower(p, c), RootPower(p, d) * RootPower(p, g), M)
      BY ONLY <1>2, <2>2, <2>4, RootPowers, p \in Params DEF M
    <3> QED BY ONLY <2>5, <3>1 DEF w
  <2>8. v[i] \in Int /\ u[i] \in Int
    <3>1. RootPower(p, a) \in Int /\ RootPower(p, b) \in Int /\ RootPower(p, g) \in Int
      BY ONLY <1>3, <2>2
    <3> QED BY ONLY <2>5, <3>1, ProductInteger
  <2> QED BY ONLY <1>1, <2>6, <2>7, <2>8, CongruentRelation
<1>13. Congruent(Total(v, N), w * Total(u, N), M)
  BY ONLY <1>1, <1>4, <1>12, TotalScales, N \in Nat, M \in Nat \ {0}
<1>14. CASE j = k
  <2>1. Total(u, N) = N /\ w = 1
    BY <1>2, <1>4, <1>10, <1>11, <1>14
  <2>2. 1 * N = N
    BY ONLY <1>1
  <2>3. Congruent(Total(v, N), N, M)
    BY ONLY <1>13, <2>1, <2>2
  <2> QED BY <1>9, <1>14, <2>3 DEF M
<1>15. CASE j # k
  <2> DEFINE S == Total(u, N)
  <2>1. Congruent(S, 0, M) /\ S \in Int
    <3>1. \A i \in 0 .. N - 1 : u[i] \in Int
      BY <1>12
    <3>2. S \in Int
      BY ONLY <1>1, <3>1, TotalSteps, N \in Nat
    <3> QED BY <1>2, <1>10, <1>11, <1>15, <3>2
  <2> HIDE DEF S
  <2>2. Congruent(w, w, M)
    BY DEF Congruent
  <2>3. Congruent(w * S, w * 0, M)
    BY ONLY <1>1, <1>4, <2>1, <2>2, CongruentProduct, 0 \in Int, M \in Nat \ {0}
  <2>4. w * 0 = 0
    BY ONLY <1>4
  <2>5. Congruent(Total(v, N), w * S, M)
    BY <1>13 DEF S
  <2>6. Congruent(Total(v, N), 0, M)
    BY ONLY <1>1, <2>3, <2>4, <2>5, CongruentRelation, M \in Nat \ {0}
  <2> QED BY <1>9, <1>15, <2>6 DEF M
<1> QED BY <1>14, <1>15

\* The rows of the inverse transform, combined by those of the forward one.
LEMMA BackwardOrthogonal ==
  ASSUME NEW p \in Params, NEW k \in Index, NEW i \in Index
  PROVE  Congruent(Dot([j \in Index |-> Backward(p, j)[i]], Forward(p, k)), IF i = k THEN N ELSE 0, p.modulus)
<1> DEFINE M == p.modulus
           rk == ReverseBits(k)
           ri == ReverseBits(i)
           d == rk - ri
           t == [s \in Index |-> RootPower(p, (2 * d) * s)]
           v == [j \in Index |-> Backward(p, j)[i] * Forward(p, k)[j]]
<1>1. N \in Nat \ {0, 1} /\ Index = 0 .. N - 1 /\ M \in Nat \ {0, 1} /\ N \in 0 .. N
  BY RingFacts
<1>2. /\ rk \in Index /\ ri \in Index /\ (rk = ri => i = k)
      /\ Point(k) = 2 * rk + 1 /\ Point(i) = 2 * ri + 1
  BY ReversalInvolutive DEF Point
<1>3. \A e \in Int : RootPower(p, e) \in Int
  BY RootPowers, RingFacts
<1>4. \A j \in Index : v[j] = RootPower(p, ((2 * N - 1) * j) * Point(i)) * RootPower(p, Point(k) * j)
  BY DEF Forward, Backward
<1>5. Dot([j \in Index |-> Backward(p, j)[i]], Forward(p, k)) = Total(v, N)
  <2>1. [j \in Index |-> [n \in Index |-> Backward(p, n)[i]][j] * Forward(p, k)[j]] = v
    OBVIOUS
  <2> HIDE DEF v
  <2>2. Dot([j \in Index |-> Backward(p, j)[i]], Forward(p, k)) =
          Total([j \in Index |-> [n \in Index |-> Backward(p, n)[i]][j] * Forward(p, k)[j]], N)
    BY DEF Dot
  <2> QED BY ONLY <2>1, <2>2
<1> HIDE DEF rk, ri
<1>6. d \in Int /\ -N < d /\ d < N /\ (d = 0 => i = k) /\ rk \in Int /\ ri \in Int
  BY ONLY <1>1, <1>2
<1>7. i = k => d = 0
  <2>1. i = k => rk = ri
    BY DEF rk, ri
  <2> QED BY ONLY <1>6, <2>1
<1>8. Steady(p, 2 * d, N, t) /\ \A j \in Index : t[j] = RootPower(p, (2 * d) * j)
  BY <1>1 DEF Steady
<1> HIDE DEF M, t, v
<1>9. ASSUME NEW j \in 0 .. N - 1 PROVE v[j] \in Int /\ t[j] \in Int /\ Congruent(v[j], t[j], M)
  <2> DEFINE a == ((2 * N - 1) * j) * Point(i)
             b == Point(k) * j
             c == (2 * d) * j
             z == j * Point(i)
  <2>1. j \in Int /\ j \in Index
    BY <1>1
  <2>2. a \in Int /\ b \in Int /\ c \in Int /\ z \in Int
    BY <1>1, <1>2, <1>6, <2>1
  <2>3. a + b = c + z * (2 * N)
    <3>1. a = (2 * N - 1) * z
      <4>1. 2 * N - 1 \in Int /\ Point(i) \in Int
        BY <1>1, <1>2, <1>6
      <4> QED BY ONLY <2>1, <4>1, Reorder
    <3>2. b = c + z
      <4>1. (2 * rk + 1) * j = (2 * (rk - ri)) * j + j * (2 * ri + 1)
        BY ONLY <1>6, <2>1
      <4> QED BY <1>2, <4>1
    <3> HIDE DEF a, b, c, z
    <3>3. (2 * N - 1) * z = z * (2 * N) - z /\ z * (2 * N) \in Int
      BY ONLY <1>1, <2>2
    <3> QED BY ONLY <2>2, <3>1, <3>2, <3>3
  <2>4. v[j] = RootPower(p, a) * RootPower(p, b) /\ t[j] = RootPower(p, c)
    BY <1>4, <1>8, <2>1
  <2> HIDE DEF a, b, c, z
  <2>5. a + b \in Int
    BY <2>2
  <2>6. Congruent(RootPower(p, a + b), RootPower(p, a) * RootPower(p, b), M)
    BY ONLY <2>2, <2>5, RootPowers, p \in Params DEF M
  <2>7. RootPower(p, a + b) = RootPower(p, c)
    BY ONLY <2>2, <2>3, <2>5, RootPowers, p \in Params
  <2>8. v[j] \in Int /\ t[j] \in Int
    <3>1. RootPower(p, a) \in Int /\ RootPower(p, b) \in Int /\ RootPower(p, c) \in Int
      BY ONLY <1>3, <2>2
    <3> QED BY ONLY <2>4, <3>1, ProductInteger
  <2> QED BY ONLY <1>1, <2>4, <2>6, <2>7, <2>8, CongruentRelation
<1>10. Congruent(Total(v, N), Total(t, N), M)
  BY ONLY <1>1, <1>9, TotalCongruent, N \in Nat, M \in Nat \ {0}
<1>11. /\ d = 0 => Total(t, N) = N
       /\ d # 0 => Congruent(Total(t, N), 0, M)
  BY <1>6, <1>8, OrthogonalSum DEF M
<1>12. CASE i = k
  BY <1>5, <1>7, <1>10, <1>11, <1>12 DEF M
<1>13. CASE i # k
  <2>1. Congruent(Total(t, N), 0, M)
    BY ONLY <1>6, <1>11, <1>13
  <2>2. Congruent(Total(v, N), 0, M)
    BY ONLY <1>1, <1>10, <2>1, CongruentRelation, M \in Nat \ {0}
  <2> QED BY <1>5, <1>13, <2>2 DEF M
<1> QED BY <1>12, <1>13

\* The values are the evaluations of the polynomial, up to multiples of the
\* modulus.
Evaluates(p, x, y) == \A i \in Index : Congruent(y[i], Dot(x, Forward(p, i)), p.modulus)

\* The forward transform evaluates.
LEMMA ForwardEvaluates ==
  ASSUME NEW p \in Params, NEW x, Vector(x)
  PROVE  /\ ForwardTransform(x, p) \in [Index -> 0 .. p.modulus - 1]
         /\ Evaluates(p, x, ForwardTransform(x, p))
<1> DEFINE M == p.modulus
<1>1. M \in Nat \ {0}
  BY RingFacts
<1>2. ASSUME NEW i \in Index PROVE Dot(x, Forward(p, i)) \in Int
  BY <1>2, TransformsAreProducts, DotSame
<1>3. ForwardTransform(x, p) = [i \in Index |-> Dot(x, Forward(p, i)) % M]
  BY TransformsAreProducts
<1> HIDE DEF M
<1>4. \A i \in Index : /\ Dot(x, Forward(p, i)) % M \in 0 .. M - 1
                       /\ Congruent(Dot(x, Forward(p, i)) % M, Dot(x, Forward(p, i)), M)
  BY ONLY <1>1, <1>2, CongruentRelation
<1> QED BY <1>3, <1>4 DEF Evaluates, M

\* The inverse transform finds the polynomial that has been evaluated.
LEMMA InverseRecovers ==
  ASSUME NEW p \in Params, NEW x, Vector(x), NEW y, Vector(y), Evaluates(p, x, y)
  PROVE  InverseTransform(y, p) = [j \in Index |-> x[j] % p.modulus]
<1> DEFINE M == p.modulus
           c == InverseOf(N, M)
           A == [i \in Index |-> Forward(p, i)]
           z == [i \in Index |-> Dot(x, Forward(p, i))]
<1>1. M \in Nat \ {0, 1} /\ M \in Nat \ {0} /\ N \in Int /\ c \in 0 .. M - 1 /\ (N * c) % M = 1
  BY RingFacts
<1>2. Products(x, A, z) /\ Same(y, z, M) /\ \A i \in Index : Vector(A[i]) /\ A[i] = Forward(p, i)
  BY TransformsAreProducts DEF Products, Same, Evaluates
<1> HIDE DEF M, z
<1>3. ASSUME NEW k \in Index PROVE (c * Dot(y, Backward(p, k))) % M = x[k] % M
  <2> DEFINE b == Backward(p, k)
             e == [j \in Index |-> Dot([i \in Index |-> Forward(p, i)[j]], b)]
             D == Dot(y, b)
             s == x[k]
  <2>1. Vector(b)
    BY TransformsAreProducts
  <2>2. \A j \in Index : Congruent(e[j], IF j = k THEN N ELSE 0, M)
    BY ForwardOrthogonal DEF M
  <2>3. Combines(A, b, e)
    <3>1. ASSUME NEW j \in Index PROVE [i \in Index |-> A[i][j]] = [i \in Index |-> Forward(p, i)[j]]
      OBVIOUS
    <3> QED BY <3>1 DEF Combines
  <2> HIDE DEF e, b, A
  <2>4. D \in Int /\ Congruent(D, N * s, M)
    BY ONLY <1>1, <1>2, <2>1, <2>2, <2>3, DotInverts, Vector(x), Vector(y), k \in Index
  <2>5. s \in Int
    BY DEF Vector
  <2> HIDE DEF D, s, c
  <2>6. Congruent(c * D, c * (N * s), M)
    <3>1. N * s \in Int /\ c \in Int /\ Congruent(c, c, M)
      BY <1>1, <2>5 DEF Congruent
    <3> QED BY ONLY <1>1, <2>4, <3>1, CongruentProduct
  <2>7. Congruent(c * (N * s), s, M)
    <3>1. c * (N * s) = (N * c) * s
      BY ONLY <1>1, <2>5, Reorder, c \in Int
    <3>2. Congruent(N * c, 1, M) /\ N * c \in Int
      <4>1. 1 % M = 1
        BY ONLY <1>1, Remainders, 1 \in 0 .. M - 1
      <4> QED BY <1>1, <4>1 DEF Congruent
    <3>3. Congruent((N * c) * s, 1 * s, M)
      <4>1. Congruent(s, s, M)
        BY DEF Congruent
      <4> QED BY ONLY <1>1, <2>5, <3>2, <4>1, CongruentProduct, 1 \in Int
    <3>4. 1 * s = s
      BY ONLY <2>5
    <3> QED BY ONLY <3>1, <3>3, <3>4
  <2>8. Congruent(c * D, s, M)
    BY ONLY <1>1, <2>6, <2>7, CongruentRelation
  <2> QED BY <2>8 DEF Congruent, D, s, b
<1>4. InverseTransform(y, p) = [j \in Index |-> (c * Dot(y, Backward(p, j))) % M]
  BY TransformsAreProducts DEF M
<1> HIDE DEF c
<1> QED BY <1>3, <1>4 DEF M

\* What the inverse transform finds evaluates to the values.
LEMMA InverseEvaluates ==
  ASSUME NEW p \in Params, NEW y, Vector(y)
  PROVE  /\ InverseTransform(y, p) \in [Index -> 0 .. p.modulus - 1]
         /\ Evaluates(p, InverseTransform(y, p), y)
<1> DEFINE M == p.modulus
           c == InverseOf(N, M)
           A == [j \in Index |-> Backward(p, j)]
           z == [j \in Index |-> Dot(y, Backward(p, j))]
           w == [j \in Index |-> c * z[j]]
           v == InverseTransform(y, p)
<1>1. M \in Nat \ {0, 1} /\ M \in Nat \ {0} /\ N \in Int /\ c \in 0 .. M - 1 /\ (N * c) % M = 1
  BY RingFacts
<1>2. Products(y, A, z) /\ \A j \in Index : Vector(A[j]) /\ A[j] = Backward(p, j) /\ z[j] \in Int
  <2>1. \A j \in Index : Vector(Backward(p, j))
    BY TransformsAreProducts
  <2>2. ASSUME NEW j \in Index PROVE Dot(y, Backward(p, j)) \in Int
    BY <2>1, DotSame
  <2> QED BY <2>1, <2>2 DEF Products
<1>3. v = [j \in Index |-> (c * z[j]) % M]
  BY TransformsAreProducts
<1> HIDE DEF M, z, v, c
<1>4. Vector(z) /\ Vector(w) /\ \A j \in Index : w[j] = c * z[j]
  BY <1>1, <1>2, ProductInteger DEF Vector
<1>5. v \in [Index -> 0 .. M - 1] /\ Vector(v) /\ Same(v, w, M)
  <2>1. \A j \in Index : w[j] \in Int /\ v[j] = w[j] % M
    BY <1>3, <1>4 DEF Vector
  <2>2. ASSUME NEW j \in Index PROVE v[j] \in 0 .. M - 1 /\ Congruent(v[j], w[j], M)
    <3>1. w[j] \in Int /\ v[j] = w[j] % M
      BY <2>1
    <3>2. w[j] % M \in 0 .. M - 1 /\ Congruent(w[j] % M, w[j], M)
      BY ONLY <1>1, <3>1, CongruentRelation
    <3> QED BY ONLY <3>1, <3>2
  <2> QED BY <1>1, <1>3, <2>2 DEF Vector, Same
<1> HIDE DEF w
<1>6. ASSUME NEW k \in Index PROVE Congruent(y[k], Dot(v, Forward(p, k)), M)
  <2> DEFINE b == Forward(p, k)
             e == [i \in Index |-> Dot([j \in Index |-> Backward(p, j)[i]], b)]
             D == Dot(z, b)
             s == y[k]
  <2>1. Vector(b)
    BY TransformsAreProducts
  <2>2. \A i \in Index : Congruent(e[i], IF i = k THEN N ELSE 0, M)
    BY BackwardOrthogonal DEF M
  <2>3. Combines(A, b, e)
    <3>1. ASSUME NEW i \in Index PROVE [j \in Index |-> A[j][i]] = [j \in Index |-> Backward(p, j)[i]]
      OBVIOUS
    <3> QED BY <3>1 DEF Combines
  <2>4. Same(z, z, M) /\ Same(b, b, M)
    BY DEF Same, Congruent
  <2> HIDE DEF e, b, A
  <2>5. D \in Int /\ Congruent(D, N * s, M)
    BY ONLY <1>1, <1>2, <1>4, <2>1, <2>2, <2>3, <2>4, DotInverts, Vector(y), k \in Index
  <2>6. s \in Int
    BY DEF Vector
  <2>7. Congruent(Dot(v, b), Dot(w, b), M)
    BY ONLY <1>1, <1>4, <1>5, <2>1, <2>4, DotCongruent
  <2>8. Dot(w, b) = c * D
    BY ONLY <1>1, <1>4, <2>1, DotTimes, c \in Int
  <2> HIDE DEF D, s
  <2>9. Congruent(c * D, c * (N * s), M)
    <3>1. N * s \in Int /\ c \in Int /\ Congruent(c, c, M)
      BY <1>1, <2>6 DEF Congruent
    <3> QED BY ONLY <1>1, <2>5, <3>1, CongruentProduct
  <2>10. Congruent(c * (N * s), s, M)
    <3>1. c * (N * s) = (N * c) * s
      BY ONLY <1>1, <2>6, Reorder, c \in Int
    <3>2. Congruent(N * c, 1, M) /\ N * c \in Int
      <4>1. 1 % M = 1
        BY ONLY <1>1, Remainders, 1 \in 0 .. M - 1
      <4> QED BY <1>1, <4>1 DEF Congruent
    <3>3. Congruent((N * c) * s, 1 * s, M)
      <4>1. Congruent(s, s, M)
        BY DEF Congruent
      <4> QED BY ONLY <1>1, <2>6, <3>2, <4>1, CongruentProduct, 1 \in Int
    <3>4. 1 * s = s
      BY ONLY <2>6
    <3> QED BY ONLY <3>1, <3>3, <3>4
  <2>11. Congruent(s, Dot(v, b), M)
    BY ONLY <1>1, <2>7, <2>8, <2>9, <2>10, CongruentRelation
  <2> QED BY <2>11 DEF s, b
<1> QED BY <1>5, <1>6 DEF Evaluates, M, v

-----------------------------------------------------------------------------
(* Evaluation is a homomorphism of rings.                                  *)

\* Polynomials and values can be exchanged for congruent ones.
LEMMA EvaluatesSame ==
  ASSUME NEW p \in Params, NEW x, NEW y, NEW v, NEW w, Vector(x), Vector(v), Evaluates(p, x, y),
         Same(v, x, p.modulus), Same(w, y, p.modulus)
  PROVE  Evaluates(p, v, w)
<1> DEFINE M == p.modulus
<1>1. M \in Nat \ {0}
  BY RingFacts
<1>2. ASSUME NEW i \in Index PROVE Congruent(w[i], Dot(v, Forward(p, i)), M)
  <2> DEFINE a == Forward(p, i)
  <2>1. Vector(a) /\ Same(a, a, M)
    BY TransformsAreProducts DEF Same, Congruent
  <2>2. Congruent(w[i], y[i], M) /\ Congruent(y[i], Dot(x, a), M)
    BY DEF Same, Evaluates
  <2> HIDE DEF a
  <2>3. Congruent(Dot(v, a), Dot(x, a), M)
    BY <1>1, <2>1, DotCongruent
  <2>4. Congruent(w[i], Dot(v, a), M)
    <3> HIDE DEF M
    <3> QED BY ONLY <1>1, <2>2, <2>3, CongruentRelation
  <2> QED BY <2>4 DEF a
<1> QED BY <1>2 DEF Evaluates

\* Sums, differences and multiples.
LEMMA EvaluatesPlus ==
  ASSUME NEW p \in Params, NEW x, NEW y, NEW v, NEW w, Vector(x), Vector(v), Vector(y), Vector(w),
         Evaluates(p, x, y), Evaluates(p, v, w),
         NEW h, \A i \in Index : Congruent(h[i], y[i] + w[i], p.modulus)
  PROVE  Vector(R!Plus(x, v)) /\ Evaluates(p, R!Plus(x, v), h)
<1> DEFINE M == p.modulus
           s == R!Plus(x, v)
<1>1. M \in Nat \ {0} /\ R!Degrees = Index
  BY RingFacts
<1>2. \A j \in Index : s[j] = x[j] + v[j]
  BY <1>1 DEF R!Plus
<1> HIDE DEF s
<1>3. Vector(s)
  BY <1>2 DEF Vector
<1>4. ASSUME NEW i \in Index PROVE Congruent(h[i], Dot(s, Forward(p, i)), M)
  <2> DEFINE a == Forward(p, i)
             X == Dot(x, a)
             V == Dot(v, a)
  <2>1. Vector(a)
    BY TransformsAreProducts
  <2>2. Congruent(h[i], y[i] + w[i], M) /\ Congruent(y[i], X, M) /\ Congruent(w[i], V, M)
        /\ y[i] \in Int /\ w[i] \in Int
    BY DEF Evaluates, Vector
  <2> HIDE DEF a, M
  <2>3. Dot(s, a) = X + V /\ X \in Int /\ V \in Int
    BY <1>2, <2>1, DotAdds, DotSame
  <2> HIDE DEF X, V
  <2>4. Congruent(y[i] + w[i], X + V, M)
    BY ONLY <1>1, <2>2, <2>3, CongruentSum
  <2>5. Congruent(h[i], Dot(s, a), M)
    BY ONLY <1>1, <2>2, <2>3, <2>4, CongruentRelation
  <2> QED BY <2>5 DEF a
<1> QED BY <1>3, <1>4 DEF Evaluates, s

\* A multiple of a polynomial has the multiples of the values.
LEMMA EvaluatesScaled ==
  ASSUME NEW p \in Params, NEW b \in Int, NEW x, NEW y, Vector(x), Vector(y), Evaluates(p, x, y),
         NEW h, \A i \in Index : Congruent(h[i], y[i] * b, p.modulus)
  PROVE  Vector(R!Scaled(x, b)) /\ Evaluates(p, R!Scaled(x, b), h)
<1> DEFINE M == p.modulus
           s == R!Scaled(x, b)
<1>1. M \in Nat \ {0} /\ R!Degrees = Index
  BY RingFacts
<1>2. ASSUME NEW j \in Index PROVE s[j] = b * x[j] /\ s[j] \in Int
  <2>1. s[j] = x[j] * b /\ x[j] \in Int
    BY <1>1 DEF R!Scaled, Vector
  <2> HIDE DEF s
  <2>2. x[j] * b = b * x[j] /\ x[j] * b \in Int
    BY ONLY <2>1, b \in Int
  <2> QED BY ONLY <2>1, <2>2
<1> HIDE DEF s
<1>3. Vector(s)
  BY <1>2 DEF Vector
<1>4. ASSUME NEW i \in Index PROVE Congruent(h[i], Dot(s, Forward(p, i)), M)
  <2> DEFINE a == Forward(p, i)
             X == Dot(x, a)
  <2>1. Vector(a)
    BY TransformsAreProducts
  <2>2. Congruent(h[i], y[i] * b, M) /\ Congruent(y[i], X, M) /\ y[i] \in Int
    BY DEF Evaluates, Vector
  <2> HIDE DEF a, M
  <2>3. Dot(s, a) = b * X /\ X \in Int
    BY <1>2, <2>1, DotTimes, DotSame
  <2> HIDE DEF X
  <2>4. Congruent(b, b, M)
    BY DEF Congruent
  <2>5. Congruent(y[i] * b, X * b, M)
    BY ONLY <1>1, <2>2, <2>3, <2>4, CongruentProduct, b \in Int
  <2>6. X * b = b * X
    BY ONLY <2>3, b \in Int
  <2>7. Congruent(h[i], Dot(s, a), M)
    BY ONLY <1>1, <2>2, <2>3, <2>5, <2>6, CongruentRelation
  <2> QED BY <2>7 DEF a
<1> QED BY <1>3, <1>4 DEF Evaluates, s

\* A difference of polynomials has the differences of the values.
LEMMA EvaluatesMinus ==
  ASSUME NEW p \in Params, NEW x, NEW y, NEW v, NEW w, Vector(x), Vector(v), Vector(y), Vector(w),
         Evaluates(p, x, y), Evaluates(p, v, w),
         NEW h, \A i \in Index : Congruent(h[i], y[i] - w[i], p.modulus)
  PROVE  Vector(R!Minus(x, v)) /\ Evaluates(p, R!Minus(x, v), h)
<1> DEFINE M == p.modulus
           n == [i \in Index |-> w[i] * (-1)]
           s == R!Scaled(v, -1)
<1>1. M \in Nat \ {0} /\ R!Degrees = Index
  BY RingFacts
<1>2. ASSUME NEW i \in Index PROVE n[i] = -w[i] /\ n[i] \in Int /\ s[i] = -v[i] /\ y[i] + n[i] = y[i] - w[i]
                                   /\ x[i] + s[i] = x[i] - v[i]
  <2>1. w[i] \in Int /\ v[i] \in Int /\ y[i] \in Int /\ x[i] \in Int
    BY DEF Vector
  <2>2. n[i] = w[i] * (-1) /\ s[i] = v[i] * (-1)
    BY <1>1 DEF R!Scaled
  <2> QED BY ONLY <2>1, <2>2
<1>3. Vector(s) /\ Evaluates(p, s, n)
  <2>1. \A i \in Index : Congruent(n[i], w[i] * (-1), M)
    BY DEF Congruent
  <2> QED BY <2>1, EvaluatesScaled, -1 \in Int
<1>4. R!Minus(x, v) = R!Plus(x, s)
  BY <1>1, <1>2 DEF R!Minus, R!Plus
<1>5. Vector(n) /\ \A i \in Index : Congruent(h[i], y[i] + n[i], M)
  BY <1>2 DEF Vector
<1> HIDE DEF n, s
<1> QED BY <1>3, <1>4, <1>5, EvaluatesPlus

\* A constant has one value everywhere.
LEMMA EvaluatesConstant ==
  ASSUME NEW p \in Params, NEW b \in Int, NEW h, \A i \in Index : Congruent(h[i], b, p.modulus)
  PROVE  Vector(R!Constant(b)) /\ Evaluates(p, R!Constant(b), h)
<1> DEFINE s == R!Constant(b)
<1>1. 0 \in Index /\ R!Degrees = Index
  BY RingFacts
<1>2. \A j \in Index : s[j] = IF j = 0 THEN b ELSE 0
  BY <1>1 DEF R!Constant
<1> HIDE DEF s
<1>3. Vector(s) /\ s[0] = b /\ \A j \in Index : j # 0 => s[j] = 0
  BY <1>1, <1>2 DEF Vector
<1>4. ASSUME NEW i \in Index PROVE Dot(s, Forward(p, i)) = b
  <2> DEFINE a == Forward(p, i)
  <2>1. Vector(a) /\ Point(i) \in Nat
    BY TransformsAreProducts
  <2>2. a[0] = 1
    <3>1. a[0] = RootPower(p, Point(i) * 0)
      BY <1>1 DEF Forward
    <3>2. Point(i) * 0 = 0
      BY ONLY <2>1
    <3>3. RootPower(p, 0) = 1
      BY RootPowers
    <3> QED BY ONLY <3>1, <3>2, <3>3
  <2> HIDE DEF a
  <2>3. Dot(s, a) = s[0] * a[0]
    BY ONLY <1>1, <1>3, <2>1, DotUnit
  <2>4. b * 1 = b
    OBVIOUS
  <2> QED BY <1>3, <2>2, <2>3, <2>4 DEF a
<1> QED BY <1>3, <1>4 DEF Evaluates, s

\* The powers of one of the points.
At(p, i, n) == RootPower(p, Point(i) * n)

\* They are the row of the transform, add their exponents, and change sign
\* after every N of them.
LEMMA PointPowers ==
  ASSUME NEW p \in Params, NEW i \in Index
  PROVE  /\ \A n \in Int : At(p, i, n) \in Int
         /\ \A n \in Index : Forward(p, i)[n] = At(p, i, n)
         /\ \A a, b, c \in Int : c = a + b => Congruent(At(p, i, c), At(p, i, a) * At(p, i, b), p.modulus)
         /\ \A a, c, m \in Int :
              c = a + m * N => Congruent(At(p, i, c), IF m % 2 = 1 THEN -At(p, i, a) ELSE At(p, i, a), p.modulus)
<1> DEFINE M == p.modulus
           e == Point(i)
           r == ReverseBits(i)
           P(n) == RootPower(p, n)
<1>1. N \in Nat \ {0, 1} /\ M \in Nat \ {0, 1} /\ M \in Nat \ {0} /\ r \in Int /\ e = 2 * r + 1 /\ e \in Int
  BY RingFacts, ReversalInvolutive DEF Point
<1>2. \A n \in Int : P(n) \in Int
  BY RootPowers, RingFacts
<1>3. \A n : At(p, i, n) = P(e * n)
  BY DEF At
<1>4. \A n \in Index : Forward(p, i)[n] = At(p, i, n)
  BY DEF Forward, At
<1> HIDE DEF e, r
<1>5. \A n \in Int : At(p, i, n) \in Int
  BY ONLY <1>1, <1>2, <1>3, ProductInteger
<1>6. ASSUME NEW a \in Int, NEW b \in Int, NEW c \in Int, c = a + b
      PROVE  Congruent(At(p, i, c), At(p, i, a) * At(p, i, b), M)
  <2>1. e * c = e * a + e * b /\ e * a \in Int /\ e * b \in Int /\ e * c \in Int
    BY <1>1, <1>6
  <2>2. Congruent(P(e * c), P(e * a) * P(e * b), M)
    BY ONLY <2>1, RootPowers, p \in Params DEF M
  <2> QED BY ONLY <1>3, <2>2
<1>7. ASSUME NEW a \in Int, NEW c \in Int, NEW m \in Int, c = a + m * N
      PROVE  Congruent(At(p, i, c), IF m % 2 = 1 THEN -At(p, i, a) ELSE At(p, i, a), M)
  <2> DEFINE t == m \div 2
             x == e * a
             y == e * c
             k == e * t
  <2>1. t \in Int /\ m = t * 2 + (m % 2) /\ m % 2 \in {0, 1}
    BY ONLY IntSplit, 2 \in Nat \ {0}, m \in Int
  <2>2. x \in Int /\ y \in Int /\ k \in Int /\ At(p, i, a) = P(x) /\ At(p, i, c) = P(y)
    BY <1>1, <1>3, <2>1
  <2>3. y = x + e * (m * N)
    BY <1>1, <1>7
  <2> HIDE DEF t
  <2>4. CASE m % 2 = 0
    <3>1. e * (m * N) = k * (2 * N)
      <4>1. m * N = t * (2 * N)
        BY ONLY <1>1, <2>1, <2>4
      <4>2. e * (t * (2 * N)) = (e * t) * (2 * N)
        BY ONLY <1>1, <2>1, Reorder, 2 * N \in Int
      <4> QED BY <4>1, <4>2
    <3> HIDE DEF x, y, k
    <3>2. P(y) = P(x)
      BY ONLY <2>2, <2>3, <3>1, RootPowers, p \in Params
    <3> QED BY <2>2, <2>4, <3>2 DEF Congruent
  <2>5. CASE m % 2 = 1
    <3> DEFINE z == x + N
               j == k + r
    <3>1. e * (m * N) = N + j * (2 * N) /\ j \in Int
      <4>1. m * N = t * (2 * N) + N /\ t * (2 * N) \in Int
        <5>1. (t * 2 + 1) * N = t * (2 * N) + N
          BY ONLY <1>1, <2>1
        <5> QED BY <1>1, <2>1, <2>5, <5>1
      <4>2. e * (t * (2 * N)) = (e * t) * (2 * N)
        BY ONLY <1>1, <2>1, Reorder, 2 * N \in Int
      <4>3. e * N = N + r * (2 * N)
        <5>1. (2 * r + 1) * N = N + r * (2 * N)
          BY ONLY <1>1
        <5> QED BY <1>1, <5>1
      <4>4. e * (t * (2 * N) + N) = e * (t * (2 * N)) + e * N
        BY ONLY <1>1, <4>1
      <4>5. (k + r) * (2 * N) = k * (2 * N) + r * (2 * N) /\ k * (2 * N) \in Int /\ r * (2 * N) \in Int
        <5> HIDE DEF k
        <5> QED BY ONLY <1>1, <2>2
      <4> QED BY <1>1, <2>2, <4>1, <4>2, <4>3, <4>4, <4>5
    <3>2. z \in Int /\ z = x + N
      BY <1>1, <2>2
    <3> HIDE DEF x, y, k, z, j
    <3>3. y = z + j * (2 * N)
      <4>1. j * (2 * N) \in Int
        BY <1>1, <3>1
      <4> QED BY ONLY <1>1, <2>2, <2>3, <3>1, <3>2, <4>1
    <3>4. P(y) = P(z)
      BY ONLY <2>2, <3>1, <3>2, <3>3, RootPowers, p \in Params
    <3>5. Congruent(P(z), -P(x), M)
      BY ONLY <2>2, <3>2, RootPowers, p \in Params DEF M
    <3> QED BY <2>2, <2>5, <3>4, <3>5
  <2> QED BY <2>1, <2>4, <2>5
<1> QED BY ONLY <1>4, <1>5, <1>6, <1>7 DEF M

\* A product, term by term: the one with x[j] of the coefficient of X^n.
Term(x, y, n, j) == IF j <= n THEN x[j] * y[n - j] ELSE -(x[j] * y[N + n - j])

\* The product modulo X^N + 1 has the sums of these terms for coefficients:
\* what passes X^N comes back with its sign changed.
LEMMA ProductTerms ==
  ASSUME NEW x, NEW y, Vector(x), Vector(y)
  PROVE  /\ \A n, j \in Index : Term(x, y, n, j) \in Int
         /\ \A n \in Index : R!Times(x, y)[n] = Total([j \in Index |-> Term(x, y, n, j)], N)
         /\ Vector(R!Times(x, y))
<1>1. N \in Nat /\ Index = 0 .. N - 1 /\ R!Degrees = Index
  BY RingFacts
<1>2. ASSUME NEW n \in Index, NEW j \in Index PROVE Term(x, y, n, j) \in Int
  <2>1. CASE j <= n
    <3>1. n - j \in Index
      BY <1>1, <2>1
    <3>2. x[j] \in Int /\ y[n - j] \in Int
      BY <3>1 DEF Vector
    <3>3. x[j] * y[n - j] \in Int
      BY ONLY <3>2, ProductInteger
    <3> QED BY <2>1, <3>3 DEF Term
  <2>2. CASE ~(j <= n)
    <3>1. N + n - j \in Index
      BY <1>1, <2>2
    <3>2. x[j] \in Int /\ y[N + n - j] \in Int
      BY <3>1 DEF Vector
    <3>3. x[j] * y[N + n - j] \in Int
      BY ONLY <3>2, ProductInteger
    <3>4. -(x[j] * y[N + n - j]) \in Int
      BY ONLY <3>3
    <3> QED BY <2>2, <3>4 DEF Term
  <2> QED BY <2>1, <2>2
<1>3. ASSUME NEW n \in Index PROVE R!Times(x, y)[n] = Total([j \in Index |-> Term(x, y, n, j)], N)
  <2> DEFINE t == [j \in Index |-> IF j <= n THEN x[j] * y[n - j] ELSE -(x[j] * y[N + n - j])]
  <2>1. R!Times(x, y)[n] = R!Total(t)
    BY <1>1 DEF R!Times
  <2>2. t = [j \in Index |-> Term(x, y, n, j)]
    BY DEF Term
  <2> HIDE DEF t
  <2>3. R!Total(t) = Total(t, N)
    BY DEF R!Total, Total
  <2> QED BY ONLY <2>1, <2>2, <2>3
<1>4. ASSUME NEW n \in Index PROVE R!Times(x, y)[n] \in Int
  <2> DEFINE t == [j \in Index |-> Term(x, y, n, j)]
  <2>1. N \in 0 .. N /\ \A j \in 0 .. N - 1 : t[j] \in Int
    BY <1>1, <1>2
  <2> HIDE DEF t
  <2>2. Total(t, N) \in Int
    BY ONLY <1>1, <2>1, TotalSteps
  <2> QED BY <1>3, <2>2 DEF t
<1> QED BY <1>2, <1>3, <1>4 DEF Vector

\* The terms with x[j], evaluated at a point, add up to that of x[j] * X^j
\* times the value of y.
LEMMA EvaluatedTerms ==
  ASSUME NEW p \in Params, NEW i \in Index, NEW j \in Index, NEW x, NEW y, Vector(x), Vector(y),
         NEW u, \A n \in Index : u[n] = Term(x, y, n, j) * At(p, i, n)
  PROVE  Congruent(Total(u, N), (x[j] * At(p, i, j)) * Dot(y, Forward(p, i)), p.modulus)
<1> DEFINE M == p.modulus
           A(n) == At(p, i, n)
           c == x[j] * A(j)
           t == [m \in Index |-> y[m] * Forward(p, i)[m]]
           s == [n \in Index |-> IF j <= n THEN n - j ELSE N + n - j]
           v == [m \in Index |-> IF m + j < N THEN m + j ELSE m + j - N]
           w == [n \in Index |-> t[s[n]]]
<1>1. N \in Nat \ {0, 1} /\ Index = 0 .. N - 1 /\ M \in Nat \ {0, 1} /\ M \in Nat \ {0} /\ N \in Nat
  BY RingFacts
<1>2. /\ \A n \in Int : A(n) \in Int
      /\ \A a, b, d \in Int : d = a + b => Congruent(A(d), A(a) * A(b), M)
      /\ \A a, d, m \in Int : d = a + m * N => Congruent(A(d), IF m % 2 = 1 THEN -A(a) ELSE A(a), M)
  BY PointPowers
<1>3. \A m \in Index : t[m] = y[m] * A(m) /\ y[m] \in Int /\ A(m) \in Int /\ m \in Int
  <2>1. \A m \in Index : t[m] = y[m] * Forward(p, i)[m]
    OBVIOUS
  <2>2. \A m \in Index : Forward(p, i)[m] = A(m) /\ m \in Int
    BY <1>1, PointPowers
  <2> QED BY <1>2, <2>1, <2>2 DEF Vector
<1>4. \A n \in 0 .. N - 1 : /\ s[n] \in 0 .. N - 1 /\ v[n] \in 0 .. N - 1
                            /\ s[n] = IF j <= n THEN n - j ELSE N + n - j
                            /\ v[n] = IF n + j < N THEN n + j ELSE n + j - N
  BY <1>1
<1>5. w = [n \in Index |-> t[s[n]]]
  OBVIOUS
<1>6. Dot(y, Forward(p, i)) = Total(t, N)
  BY DEF Dot
<1>7. x[j] \in Int /\ j \in Int /\ A(j) \in Int /\ c \in Int
  <2>1. x[j] \in Int /\ j \in Int
    BY <1>1 DEF Vector
  <2>2. A(j) \in Int
    BY <1>2, <2>1
  <2> HIDE DEF A
  <2> QED BY <2>1, <2>2, ProductInteger
<1>8. c = x[j] * A(j)
  OBVIOUS
<1> HIDE DEF A, M, t, s, v, w, c
<1>9. \A n \in 0 .. N - 1 : s[v[n]] = n /\ v[s[n]] = n
  <2> SUFFICES ASSUME NEW n \in 0 .. N - 1 PROVE s[v[n]] = n /\ v[s[n]] = n
    OBVIOUS
  <2>1. j \in 0 .. N - 1
    BY <1>1
  <2>2. s[v[n]] = n
    <3>1. v[n] \in 0 .. N - 1 /\ v[n] = IF n + j < N THEN n + j ELSE n + j - N
      BY ONLY <1>4, n \in 0 .. N - 1
    <3>2. s[v[n]] = IF j <= v[n] THEN v[n] - j ELSE N + v[n] - j
      BY ONLY <1>4, <3>1
    <3> QED BY ONLY <1>1, <2>1, <3>1, <3>2, n \in 0 .. N - 1
  <2>3. v[s[n]] = n
    <3>1. s[n] \in 0 .. N - 1 /\ s[n] = IF j <= n THEN n - j ELSE N + n - j
      BY ONLY <1>4, n \in 0 .. N - 1
    <3>2. v[s[n]] = IF s[n] + j < N THEN s[n] + j ELSE s[n] + j - N
      BY ONLY <1>4, <3>1
    <3> QED BY ONLY <1>1, <2>1, <3>1, <3>2, n \in 0 .. N - 1
  <2> QED BY ONLY <2>2, <2>3
<1>10. \A m \in 0 .. N - 1 : t[m] \in Int
  BY ONLY <1>1, <1>3, ProductInteger
<1>11. \A n \in 0 .. N - 1 : w[n] = t[s[n]]
  BY <1>1, <1>5
<1>12. Total(w, N) = Total(t, N)
  <2>1. \A n \in 0 .. N - 1 : s[n] \in 0 .. N - 1 /\ v[n] \in 0 .. N - 1 /\ s[v[n]] = n /\ v[s[n]] = n
    BY ONLY <1>4, <1>9
  <2>2. N \in Nat
    BY ONLY <1>1
  <2> QED BY ONLY <1>10, <1>11, <2>1, <2>2, TotalPermuted
<1>13. ASSUME NEW n \in 0 .. N - 1
       PROVE  u[n] \in Int /\ w[n] \in Int /\ Congruent(u[n], c * w[n], M)
  <2> DEFINE m == s[n]
             yv == y[m]
             xv == x[j]
  <2>1. n \in Index /\ m \in Index /\ n \in Int /\ m \in Int
    BY <1>1, <1>4
  <2>2. w[n] = yv * A(m) /\ yv \in Int /\ A(m) \in Int /\ xv \in Int /\ A(n) \in Int
    BY <1>2, <1>3, <1>7, <1>11, <2>1
  <2>3. w[n] \in Int /\ xv * yv \in Int
    BY ONLY <2>2, ProductInteger
  <2>4. (xv * yv) * (A(j) * A(m)) = c * w[n] /\ A(j) * A(m) \in Int
    <3>1. A(j) * A(m) \in Int
      BY ONLY <1>7, <2>2, ProductInteger
    <3> DEFINE aj == A(j)
               am == A(m)
    <3>2. aj \in Int /\ am \in Int
      BY <1>7, <2>2
    <3> HIDE DEF aj, am, yv, xv
    <3>3. (xv * yv) * (aj * am) = (xv * aj) * (yv * am)
      BY ONLY <2>2, <3>2
    <3> QED BY <1>8, <2>2, <3>1, <3>3 DEF aj, am, xv
  <2>5. u[n] = Term(x, y, n, j) * A(n) /\ u[n] \in Int
    <3>1. Term(x, y, n, j) \in Int
      BY <2>1, ProductTerms
    <3>2. u[n] = Term(x, y, n, j) * A(n)
      BY <2>1 DEF A
    <3> QED BY ONLY <2>2, <3>1, <3>2, ProductInteger
  <2>6. CASE j <= n
    <3>1. m = n - j /\ n = j + m
      BY <1>4, <1>7, <2>1, <2>6
    <3>2. Term(x, y, n, j) = xv * yv
      BY <2>6, <3>1 DEF Term
    <3> HIDE DEF m, xv, yv
    <3>3. Congruent(A(n), A(j) * A(m), M)
      BY ONLY <1>2, <1>7, <2>1, <3>1
    <3>4. Congruent(xv * yv, xv * yv, M)
      BY DEF Congruent
    <3>5. Congruent((xv * yv) * A(n), (xv * yv) * (A(j) * A(m)), M)
      BY ONLY <1>1, <2>2, <2>3, <2>4, <3>3, <3>4, CongruentProduct
    <3> QED BY ONLY <2>3, <2>4, <2>5, <3>2, <3>5
  <2>7. CASE ~(j <= n)
    <3>1. m = N + n - j /\ n = (j + m) + (-1) * N /\ j + m \in Int
      BY <1>1, <1>4, <1>7, <2>1, <2>7
    <3>2. Term(x, y, n, j) = -(xv * yv)
      BY <2>7, <3>1 DEF Term
    <3> HIDE DEF m, xv, yv
    <3> DEFINE d == j + m
    <3>3. Congruent(A(d), A(j) * A(m), M) /\ A(d) \in Int /\ d \in Int
      BY <1>2, <1>7, <2>1, <3>1
    <3>4. (-1) % 2 = 1 /\ -1 \in Int
      <4>1. -1 \in Int /\ 2 \in Nat \ {0} /\ 1 \in 0 .. 2 - 1 /\ -1 = (-1) * 2 + 1
        OBVIOUS
      <4> QED BY ONLY <4>1, DivUnique
    <3>5. Congruent(A(n), -A(d), M)
      BY ONLY <1>2, <2>1, <3>1, <3>3, <3>4
    <3> HIDE DEF d
    <3>6. Congruent(A(n) * (-1), (-A(d)) * (-1), M)
      <4>1. Congruent(-1, -1, M) /\ -A(d) \in Int
        BY <3>3 DEF Congruent
      <4> QED BY ONLY <1>1, <2>2, <3>3, <3>4, <3>5, <4>1, CongruentProduct
    <3>7. A(n) * (-1) = -A(n) /\ (-A(d)) * (-1) = A(d) /\ -A(n) \in Int
      BY ONLY <2>2, <3>3
    <3>8. Congruent(-A(n), A(j) * A(m), M)
      BY ONLY <1>1, <3>3, <3>6, <3>7, CongruentRelation
    <3>9. Congruent(xv * yv, xv * yv, M)
      BY DEF Congruent
    <3>10. Congruent((xv * yv) * (-A(n)), (xv * yv) * (A(j) * A(m)), M)
      BY ONLY <1>1, <2>2, <2>3, <2>4, <3>7, <3>8, <3>9, CongruentProduct
    <3>11. (xv * yv) * (-A(n)) = (-(xv * yv)) * A(n)
      <4> DEFINE z == xv * yv
                 an == A(n)
      <4>1. z \in Int /\ an \in Int
        BY <2>2, <2>3
      <4> HIDE DEF z, an
      <4>2. z * (-an) = (-z) * an
        BY ONLY <4>1
      <4> QED BY <4>2 DEF z, an
    <3> QED BY ONLY <2>3, <2>4, <2>5, <3>2, <3>10, <3>11
  <2> QED BY <2>6, <2>7
<1>14. Congruent(Total(u, N), c * Total(w, N), M)
  BY ONLY <1>1, <1>7, <1>13, TotalScales
<1> QED BY <1>6, <1>8, <1>12, <1>14 DEF A, M

\* The product of polynomials has the products of the values.
LEMMA EvaluatesTimes ==
  ASSUME NEW p \in Params, NEW x, NEW y, NEW v, NEW w, Vector(x), Vector(y), Vector(v), Vector(w),
         Evaluates(p, x, v), Evaluates(p, y, w),
         NEW h, \A i \in Index : Congruent(h[i], v[i] * w[i], p.modulus)
  PROVE  Vector(R!Times(x, y)) /\ Evaluates(p, R!Times(x, y), h)
<1> DEFINE M == p.modulus
           T == R!Times(x, y)
<1>1. N \in Nat /\ Index = 0 .. N - 1 /\ M \in Nat \ {0, 1} /\ M \in Nat \ {0} /\ N \in 0 .. N
  BY RingFacts
<1>2. /\ \A n, j \in Index : Term(x, y, n, j) \in Int
      /\ \A n \in Index : T[n] = Total([j \in Index |-> Term(x, y, n, j)], N)
      /\ Vector(T)
  BY ProductTerms
<1> HIDE DEF T
<1>3. ASSUME NEW i \in Index PROVE Congruent(h[i], Dot(T, Forward(p, i)), M)
  <2> DEFINE A(n) == At(p, i, n)
             f == [n \in Index |-> [j \in Index |-> Term(x, y, n, j) * A(n)]]
             g == [j \in Index |-> [n \in Index |-> Term(x, y, n, j) * A(n)]]
             r == [n \in Index |-> T[n] * A(n)]
             s == [j \in Index |-> Total(g[j], N)]
             X == Dot(x, Forward(p, i))
             Y == Dot(y, Forward(p, i))
             c == [j \in Index |-> x[j] * Forward(p, i)[j]]
  <2>1. \A n \in Index : A(n) \in Int /\ Forward(p, i)[n] = A(n)
    <3>1. \A n \in Index : n \in Int
      BY <1>1
    <3> QED BY <3>1, PointPowers
  <2>2. Vector(Forward(p, i)) /\ X \in Int /\ Y \in Int
    BY TransformsAreProducts, DotSame
  <2>3. Dot(T, Forward(p, i)) = Total(r, N)
    <3> DEFINE r2 == [n \in Index |-> T[n] * Forward(p, i)[n]]
    <3>1. r2 = r
      BY <2>1
    <3>2. Dot(T, Forward(p, i)) = Total(r2, N)
      BY DEF Dot
    <3> QED BY ONLY <3>1, <3>2
  <2>4. X = Total(c, N)
    BY DEF Dot
  <2>5. \A n, j \in Index : f[n][j] = Term(x, y, n, j) * A(n) /\ g[j][n] = f[n][j]
    OBVIOUS
  <2>6. \A n \in Index : r[n] = T[n] * A(n) /\ s[n] = Total(g[n], N) /\ c[n] = x[n] * Forward(p, i)[n]
    OBVIOUS
  <2>7. \A j \in Index : g[j] = [n \in Index |-> Term(x, y, n, j) * A(n)]
    OBVIOUS
  <2> HIDE DEF A, f, g, r, s, c, X, Y
  <2>8. \A n, j \in Index : f[n][j] \in Int
    BY ONLY <1>2, <2>1, <2>5, ProductInteger
  <2>9. Transposed(f, g, N, N)
    BY ONLY <1>1, <2>5, <2>8 DEF Transposed
  <2>10. Sums(s, g, N, N)
    BY ONLY <1>1, <2>6 DEF Sums
  <2>11. Sums(r, f, N, N)
    <3> SUFFICES ASSUME NEW n \in Index PROVE r[n] = Total(f[n], N)
      BY <1>1 DEF Sums
    <3> DEFINE t == [j \in Index |-> Term(x, y, n, j)]
    <3>1. \A j \in Index : t[j] = Term(x, y, n, j)
      OBVIOUS
    <3>2. T[n] = Total(t, N)
      BY <1>2
    <3> HIDE DEF t
    <3>3. ASSUME NEW j \in Index PROVE t[j] \in Int /\ f[n][j] = A(n) * t[j]
      <4>1. t[j] \in Int /\ A(n) \in Int /\ f[n][j] = t[j] * A(n)
        BY <1>2, <2>1, <2>5, <3>1
      <4> QED BY ONLY <4>1
    <3>4. \A j \in 0 .. N - 1 : t[j] \in Int /\ f[n][j] = A(n) * t[j]
      BY <1>1, <3>3
    <3>5. A(n) \in Int
      BY <2>1
    <3>6. Total(f[n], N) = A(n) * Total(t, N)
      BY ONLY <1>1, <3>4, <3>5, TotalTimes
    <3>7. Total(t, N) \in Int
      BY ONLY <1>1, <3>4, TotalInteger
    <3>8. A(n) * Total(t, N) = Total(t, N) * A(n)
      BY ONLY <3>5, <3>7
    <3> QED BY <2>6, <3>2, <3>6, <3>8
  <2>12. Total(r, N) = Total(s, N)
    BY ONLY <1>1, <2>9, <2>10, <2>11, TotalSwaps
  <2>13. ASSUME NEW j \in Index PROVE s[j] \in Int /\ c[j] \in Int /\ Congruent(s[j], Y * c[j], M)
    <3>1. \A n \in 0 .. N - 1 : g[j][n] \in Int
      BY <1>1, <2>5, <2>8
    <3>2. Total(g[j], N) \in Int
      BY ONLY <1>1, <3>1, TotalSteps
    <3>3. \A n \in Index : g[j][n] = Term(x, y, n, j) * At(p, i, n)
      BY <2>7 DEF A
    <3>4. Congruent(Total(g[j], N), (x[j] * At(p, i, j)) * Dot(y, Forward(p, i)), M)
      BY <3>3, EvaluatedTerms
    <3>5. x[j] * At(p, i, j) = c[j] /\ c[j] \in Int
      <4>1. x[j] \in Int /\ A(j) \in Int /\ c[j] = x[j] * A(j)
        BY <2>1, <2>6 DEF Vector
      <4>2. x[j] * A(j) \in Int
        BY ONLY <4>1, ProductInteger
      <4> QED BY <4>1, <4>2 DEF A
    <3>6. c[j] * Y = Y * c[j]
      BY ONLY <2>2, <3>5
    <3> QED BY <2>6, <3>2, <3>4, <3>5, <3>6 DEF Y
  <2>14. \A j \in 0 .. N - 1 : s[j] \in Int /\ c[j] \in Int /\ Congruent(s[j], Y * c[j], M)
    BY <1>1, <2>13
  <2>15. Congruent(Total(s, N), Y * X, M)
    BY ONLY <1>1, <2>2, <2>4, <2>14, TotalScales
  <2>16. Congruent(v[i] * w[i], X * Y, M)
    <3>1. v[i] \in Int /\ w[i] \in Int /\ Congruent(v[i], X, M) /\ Congruent(w[i], Y, M)
      BY DEF Vector, Evaluates, X, Y
    <3> QED BY ONLY <1>1, <2>2, <3>1, CongruentProduct
  <2>17. X * Y = Y * X
    BY ONLY <2>2
  <2>18. Congruent(h[i], v[i] * w[i], M)
    OBVIOUS
  <2> HIDE DEF M
  <2> QED BY ONLY <1>1, <2>3, <2>12, <2>15, <2>16, <2>17, <2>18, CongruentRelation
<1> QED BY <1>2, <1>3 DEF Evaluates, T

-----------------------------------------------------------------------------
(* Odd multiples of the indices.                                           *)

\* An odd number has an inverse modulo every power of two.
LEMMA OddInvertible ==
  ASSUME NEW k \in Nat, k % 2 = 1
  PROVE  \A l \in 0 .. W : \E m, t \in Int : k * m = 1 + t * 2^l
<1> DEFINE Q == {l \in Nat : l <= W => \E m, t \in Int : k * m = 1 + t * 2^l}
<1>1. 0 \in Q
  <2>1. k * 1 = 1 + (k - 1) * 1 /\ k - 1 \in Int /\ 2^0 = 1
    BY PowersOfTwo
  <2> QED BY <2>1
<1>2. ASSUME NEW l \in Nat, l \in Q PROVE l + 1 \in Q
  <2>1. SUFFICES ASSUME l + 1 <= W PROVE \E m, t \in Int : k * m = 1 + t * 2^(l + 1)
    OBVIOUS
  <2>2. /\ l \in 0 .. W /\ l + 1 \in 1 .. W /\ l + 1 - 1 = l
        /\ \E m, t \in Int : k * m = 1 + t * 2^l
    <3>1. l <= W => \E m, t \in Int : k * m = 1 + t * 2^l
      BY <1>2
    <3>2. l \in Nat /\ W \in Nat
      BY <1>2, WordAssumption
    <3>3. l <= W /\ l \in 0 .. W /\ l + 1 \in 1 .. W /\ l + 1 - 1 = l
      BY ONLY <2>1, <3>2
    <3> QED BY ONLY <3>1, <3>3
  <2> DEFINE d == 2^l
  <2>3. d \in Nat \ {0} /\ 2^(l + 1) = 2 * d
    BY ONLY <2>2, PowersOfTwo
  <2>4. PICK m \in Int, t \in Int : k * m = 1 + t * d
    BY <2>2
  <2> HIDE DEF d
  <2>5. SUFFICES \E n, s \in Int : k * n = 1 + s * (2 * d)
    BY <2>3
  <2>6. t \div 2 \in Int /\ t = (t \div 2) * 2 + (t % 2) /\ t % 2 \in {0, 1}
    BY ONLY IntSplit, 2 \in Nat \ {0}, t \in Int
  <2>7. k \div 2 \in Int /\ k = (k \div 2) * 2 + 1
    BY ONLY IntSplit, 2 \in Nat \ {0}, k \in Int, k % 2 = 1
  <2> DEFINE a == t \div 2
             b == k \div 2
  <2>8. a \in Int /\ b \in Int /\ k = b * 2 + 1
    BY <2>6, <2>7
  <2>9. CASE t % 2 = 0
    <3>1. t = a * 2
      BY <2>6, <2>9
    <3> HIDE DEF a, b
    <3>2. t * d = a * (2 * d)
      BY ONLY <2>3, <2>8, <3>1
    <3> QED BY <2>4, <2>8, <3>2
  <2>10. CASE t % 2 = 1
    <3>1. t = a * 2 + 1
      BY <2>6, <2>10
    <3> HIDE DEF a, b
    <3> DEFINE n == m + d
               s == a + b + 1
    <3>2. n \in Int /\ s \in Int /\ k \in Int /\ m \in Int
      BY <2>3, <2>8
    <3>3. k * n = k * m + k * d
      BY ONLY <2>3, <3>2
    <3>4. k * d = (b * 2 + 1) * d /\ k * m = 1 + (a * 2 + 1) * d
      BY ONLY <2>4, <2>8, <3>1
    <3>5. (a * 2 + 1) * d + (b * 2 + 1) * d = s * (2 * d)
      BY ONLY <2>3, <2>8
    <3>6. (a * 2 + 1) * d \in Int /\ (b * 2 + 1) * d \in Int
      BY ONLY <2>3, <2>8, ProductInteger
    <3>7. k * n = 1 + s * (2 * d)
      <4> HIDE DEF n, s
      <4> QED BY ONLY <3>3, <3>4, <3>5, <3>6
    <3> QED BY <3>2, <3>7
  <2> QED BY <2>6, <2>9, <2>10
<1>3. Nat \subseteq Q
  <2> HIDE DEF Q
  <2> QED BY ONLY <1>1, <1>2, Induction
<1> QED BY <1>3

\* The index whose odd multiple is a given one.
From(k, i) == CHOOSE j \in Index : (k * j) % N = i

\* Multiplying by an odd number permutes the indices.
LEMMA OddPermutes ==
  ASSUME NEW k \in Nat, k % 2 = 1
  PROVE  /\ \A i \in Index : From(k, i) \in Index /\ (k * From(k, i)) % N = i
         /\ \A j \in Index : (k * j) % N \in Index /\ From(k, (k * j) % N) = j
<1>1. N \in Nat \ {0} /\ Index = 0 .. N - 1
  BY RingFacts
<1>2. PICK m \in Int, t \in Int : k * m = 1 + t * N
  <2>1. PICK l \in 1 .. W - 1 : N = 2^l
    BY PolyAssumption
  <2>2. l \in 0 .. W
    BY WordAssumption
  <2> QED BY <2>1, <2>2, OddInvertible
<1>3. ASSUME NEW j \in Int PROVE Congruent((k * m) * j, j, N)
  <2>1. (1 + t * N) * j = j + (t * j) * N /\ t * j \in Int
    <3>1. (t * N) * j = (t * j) * N /\ t * N \in Int
      BY ONLY <1>1, j \in Int, t \in Int, Reorder, N \in Int, ProductInteger
    <3>2. (1 + t * N) * j = j + (t * N) * j
      BY ONLY <3>1, j \in Int
    <3> QED BY <3>1, <3>2
  <2>2. Congruent(j + (t * j) * N, j, N)
    BY ONLY <1>1, <2>1, CongruentMultiple, j \in Int
  <2> QED BY <1>2, <2>1, <2>2
<1>4. ASSUME NEW i \in Index PROVE \E j \in Index : (k * j) % N = i
  <2> DEFINE j == (m * i) % N
  <2>1. i \in Int /\ m * i \in Int /\ k \in Int /\ i % N = i
    <3>1. i \in 0 .. N - 1 /\ i \in Int /\ k \in Int /\ m \in Int
      BY <1>1
    <3>2. i % N = i
      BY ONLY <1>1, <3>1, Remainders
    <3> QED BY ONLY <3>1, <3>2, ProductInteger
  <2>2. j \in Index /\ Congruent(j, m * i, N) /\ j \in Int
    <3>1. j \in 0 .. N - 1 /\ Congruent(j, m * i, N)
      BY ONLY <1>1, <2>1, CongruentRelation
    <3> QED BY <1>1, <3>1
  <2> HIDE DEF j
  <2>3. Congruent(k * j, k * (m * i), N)
    <3>1. Congruent(k, k, N)
      BY DEF Congruent
    <3> QED BY ONLY <1>1, <2>1, <2>2, <3>1, CongruentProduct
  <2>4. k * (m * i) = (k * m) * i
    BY ONLY <2>1, Reorder, m \in Int
  <2>5. Congruent(k * j, i, N)
    BY ONLY <1>1, <1>3, <2>1, <2>3, <2>4, CongruentRelation
  <2> QED BY <2>1, <2>2, <2>5 DEF Congruent
<1>5. ASSUME NEW i \in Index PROVE From(k, i) \in Index /\ (k * From(k, i)) % N = i
  BY <1>4 DEF From
<1>6. ASSUME NEW j \in Index, NEW n \in Index, (k * j) % N = (k * n) % N PROVE j = n
  <2>1. j \in Int /\ n \in Int /\ k \in Int /\ k * j \in Int /\ k * n \in Int
    BY <1>1
  <2>2. Congruent(k * j, k * n, N)
    BY <1>6 DEF Congruent
  <2>3. Congruent((k * j) * m, (k * n) * m, N)
    <3>1. Congruent(m, m, N)
      BY DEF Congruent
    <3> QED BY ONLY <1>1, <2>1, <2>2, <3>1, CongruentProduct, m \in Int
  <2>4. (k * j) * m = (k * m) * j /\ (k * n) * m = (k * m) * n
    BY ONLY <2>1, Reorder, m \in Int
  <2>5. Congruent(j, n, N)
    BY ONLY <1>1, <1>3, <2>1, <2>3, <2>4, CongruentRelation
  <2>6. j \in 0 .. N - 1 /\ n \in 0 .. N - 1
    BY <1>1
  <2>7. j % N = j /\ n % N = n
    BY ONLY <1>1, <2>1, <2>6, Remainders
  <2> QED BY ONLY <2>5, <2>7 DEF Congruent
<1>7. ASSUME NEW j \in Index PROVE (k * j) % N \in Index /\ From(k, (k * j) % N) = j
  <2>1. (k * j) % N \in Index
    <3>1. j \in Int /\ k \in Int
      BY <1>1
    <3>2. k * j \in Int
      BY ONLY <3>1, ProductInteger
    <3> QED BY ONLY <1>1, <3>2, Remainders
  <2> DEFINE i == (k * j) % N
             n == From(k, i)
  <2>2. n \in Index /\ (k * n) % N = i
    BY <1>5, <2>1
  <2>3. (k * j) % N = (k * n) % N
    BY <2>2
  <2> HIDE DEF n
  <2>4. j = n
    BY ONLY <1>6, <2>2, <2>3, j \in Index
  <2> QED BY <2>1, <2>4 DEF n
<1> QED BY <1>5, <1>7

\* A polynomial at X^k, for odd k, has the values at the k-th powers of the
\* points: those of another point each, found as the code finds it.
LEMMA AtPowerEntries ==
  ASSUME NEW k \in Nat, k % 2 = 1, NEW x, Vector(x)
  PROVE  /\ Vector(R!AtPower(x, k))
         /\ \A n \in Index : R!AtPower(x, k)[n] = IF ((k * From(k, n)) \div N) % 2 = 1 THEN -x[From(k, n)] ELSE x[From(k, n)]
<1>1. R!Degrees = Index
  BY RingFacts
<1>2. \A n \in Index : R!AtPower(x, k)[n] = IF ((k * From(k, n)) \div N) % 2 = 1 THEN -x[From(k, n)] ELSE x[From(k, n)]
  BY <1>1 DEF R!AtPower, From
<1>3. \A n \in Index : x[From(k, n)] \in Int
  BY OddPermutes DEF Vector
<1>4. Vector(R!AtPower(x, k))
  BY <1>2, <1>3 DEF Vector
<1> QED BY <1>2, <1>4

\* The point whose values stand at an odd power of another, in bit-reversed
\* order.
Source(k, i) == ((k * (2 * ReverseBits(i) + 1)) \div 2) % N

\* It is among the points, and its powers are those of the k-th power of the
\* point: the exponents differ by a multiple of 2N.
LEMMA PowerOfPoint ==
  ASSUME NEW p \in Params, NEW i \in Index, NEW k \in Nat, k % 2 = 1
  PROVE  /\ Source(k, i) \in Index /\ ReverseBits(Source(k, i)) \in Index
         /\ \A j \in Index : Forward(p, ReverseBits(Source(k, i)))[j] = At(p, i, k * j)
<1> DEFINE s == Source(k, i)
           e == Point(i)
           r == ReverseBits(i)
           b == k \div 2
           g == k * r + b
           z == g \div N
           o == Point(ReverseBits(s))
<1>1. N \in Nat \ {0} /\ 2 * N \in Nat /\ Index = 0 .. N - 1 /\ r \in Index
  BY RingFacts, ReversalInvolutive
<1>2. b \in Int /\ k = b * 2 + 1
  BY ONLY IntSplit, 2 \in Nat \ {0}, k \in Int, k % 2 = 1
<1>3. r \in Int /\ k * r \in Int /\ g \in Int
  <2>1. r \in Int /\ k \in Int
    BY <1>1
  <2> HIDE DEF r, b
  <2> QED BY ONLY <1>2, <2>1, ProductInteger
<1>4. k * (2 * r + 1) = g * 2 + 1
  <2> HIDE DEF r, b
  <2>1. k * (2 * r + 1) = 2 * (k * r) + k
    BY ONLY <1>3, k \in Int
  <2> QED BY ONLY <1>2, <1>3, <2>1
<1>5. (k * (2 * r + 1)) \div 2 = g
  <2>1. k * (2 * r + 1) \in Int
    BY <1>3, <1>4
  <2> HIDE DEF g, r
  <2> QED BY ONLY <1>3, <1>4, <2>1, DivUnique, 2 \in Nat \ {0}, 1 \in 0 .. 2 - 1
<1>6. s = g % N
  BY <1>5 DEF Source
<1> HIDE DEF s
<1>7. s \in Index /\ z \in Int /\ g = z * N + s
  <2> HIDE DEF g
  <2> QED BY <1>1, <1>3, <1>6, IntSplit
<1>8. ReverseBits(s) \in Index /\ o = 2 * s + 1 /\ s \in Int /\ o \in Int
  <2>1. ReverseBits(s) \in Index /\ ReverseBits(ReverseBits(s)) = s
    BY ONLY <1>7, ReversalInvolutive
  <2>2. o = 2 * s + 1
    BY <2>1 DEF Point
  <2>3. s \in Int
    BY <1>1, <1>7
  <2> HIDE DEF o
  <2> QED BY ONLY <2>1, <2>2, <2>3
<1>9. e = 2 * r + 1 /\ e \in Int
  BY <1>3 DEF Point
<1>10. k * e = o + z * (2 * N)
  <2> HIDE DEF g, o, e, r, z
  <2>1. k * e = (z * N + s) * 2 + 1
    BY <1>4, <1>7, <1>9
  <2>2. (z * N + s) * 2 + 1 = (2 * s + 1) + z * (2 * N)
    BY ONLY <1>1, <1>7, <1>8
  <2> QED BY <1>8, <2>1, <2>2
<1>11. ASSUME NEW j \in Index PROVE Forward(p, ReverseBits(s))[j] = At(p, i, k * j)
  <2>1. j \in Int
    BY <1>1
  <2>2. Forward(p, ReverseBits(s))[j] = RootPower(p, o * j) /\ At(p, i, k * j) = RootPower(p, e * (k * j))
    BY DEF Forward, At
  <2> HIDE DEF o, e, z, g
  <2>3. o * j \in Int /\ e * (k * j) \in Int /\ z * j \in Int /\ k * e \in Int
    BY ONLY <1>7, <1>8, <1>9, <2>1, k \in Int, ProductInteger
  <2>4. e * (k * j) = (k * e) * j
    BY ONLY <1>9, <2>1, k \in Int, Reorder
  <2>5. (k * e) * j = o * j + (z * (2 * N)) * j
    <3>1. z * (2 * N) \in Int
      BY ONLY <1>1, <1>7, ProductInteger
    <3> QED BY ONLY <1>8, <1>10, <2>1, <3>1
  <2>6. (z * (2 * N)) * j = (z * j) * (2 * N)
    BY ONLY <1>1, <1>7, <2>1, Reorder
  <2>7. e * (k * j) = o * j + (z * j) * (2 * N)
    BY ONLY <2>4, <2>5, <2>6
  <2>8. RootPower(p, e * (k * j)) = RootPower(p, o * j)
    BY ONLY <2>3, <2>7, RootPowers, p \in Params
  <2> QED BY <2>2, <2>8
<1> QED BY <1>7, <1>8, <1>11 DEF s

\* The automorphism X -> X^k permutes the evaluations, as the code's
\* precomputed table does, bit reversals and all.
LEMMA EvaluatesAtPower ==
  ASSUME NEW p \in Params, NEW k \in Nat, k % 2 = 1, NEW x, NEW y, Vector(x), Vector(y), Evaluates(p, x, y),
         NEW h, \A i \in Index : h[i] = y[ReverseBits(Source(k, i))]
  PROVE  Evaluates(p, R!AtPower(x, k), h)
<1> DEFINE M == p.modulus
           T == R!AtPower(x, k)
<1>1. N \in Nat /\ Index = 0 .. N - 1 /\ M \in Nat \ {0} /\ N \in 0 .. N
  BY RingFacts
<1>2. /\ Vector(T)
      /\ \A n \in Index : T[n] = IF ((k * From(k, n)) \div N) % 2 = 1 THEN -x[From(k, n)] ELSE x[From(k, n)]
  BY AtPowerEntries
<1> HIDE DEF T
<1>3. ASSUME NEW i \in Index PROVE Congruent(h[i], Dot(T, Forward(p, i)), M)
  <2> DEFINE c == ReverseBits(Source(k, i))
             t == [j \in Index |-> x[j] * Forward(p, c)[j]]
             u == [n \in Index |-> t[From(k, n)]]
             r == [n \in Index |-> T[n] * Forward(p, i)[n]]
             f == [n \in Index |-> From(k, n)]
             g == [j \in Index |-> (k * j) % N]
  <2>1. c \in Index /\ \A j \in Index : Forward(p, c)[j] = At(p, i, k * j)
    BY PowerOfPoint
  <2>2. h[i] = y[c]
    OBVIOUS
  <2> HIDE DEF c
  <2>3. Congruent(y[c], Dot(x, Forward(p, c)), M)
    BY <2>1 DEF Evaluates
  <2>4. Dot(x, Forward(p, c)) = Total(t, N) /\ Dot(T, Forward(p, i)) = Total(r, N)
    BY DEF Dot
  <2>5. ASSUME NEW j \in Index PROVE t[j] \in Int /\ t[j] = x[j] * At(p, i, k * j) /\ At(p, i, k * j) \in Int /\ x[j] \in Int
    <3>1. j \in Int /\ k \in Int /\ x[j] \in Int
      BY <1>1 DEF Vector
    <3>2. k * j \in Int
      BY ONLY <3>1, ProductInteger
    <3>3. At(p, i, k * j) \in Int
      BY <3>2, PointPowers
    <3>4. t[j] = x[j] * At(p, i, k * j)
      BY <2>1
    <3> QED BY ONLY <3>1, <3>3, <3>4, ProductInteger
  <2>6. \A n \in Index : u[n] = t[f[n]] /\ f[n] = From(k, n) /\ g[n] = (k * n) % N
                         /\ r[n] = T[n] * Forward(p, i)[n]
    OBVIOUS
  <2> HIDE DEF t, u, r, f, g
  <2>7. \A n \in Index : f[n] \in Index /\ g[n] \in Index /\ f[g[n]] = n /\ g[f[n]] = n
    BY <2>6, OddPermutes
  <2>8. Total(u, N) = Total(t, N)
    <3>1. \A n \in 0 .. N - 1 : t[n] \in Int
      BY <1>1, <2>5
    <3>2. \A n \in 0 .. N - 1 : f[n] \in 0 .. N - 1 /\ g[n] \in 0 .. N - 1 /\ f[g[n]] = n /\ g[f[n]] = n
      BY <1>1, <2>7
    <3>3. \A n \in 0 .. N - 1 : u[n] = t[f[n]]
      BY <1>1, <2>6
    <3>4. N \in Nat
      BY <1>1
    <3> QED BY ONLY <3>1, <3>2, <3>3, <3>4, TotalPermuted
  <2>9. ASSUME NEW n \in Index PROVE r[n] \in Int /\ u[n] \in Int /\ Congruent(u[n], r[n], M)
    <3> DEFINE j == From(k, n)
               m == (k * j) \div N
               A == At(p, i, n)
               B == At(p, i, k * j)
               sA == IF m % 2 = 1 THEN -A ELSE A
    <3>1. j \in Index /\ (k * j) % N = n
      BY OddPermutes
    <3> HIDE DEF j
    <3>2. j \in Int /\ k \in Int /\ n \in Int /\ N \in Nat \ {0}
      BY <1>1, <3>1
    <3>3. k * j \in Int
      BY ONLY <3>2, ProductInteger
    <3>4. m \in Int /\ k * j = m * N + n
      BY ONLY <3>1, <3>2, <3>3, IntSplit
    <3>5. k * j = n + m * N
      <4> HIDE DEF m
      <4>1. m * N \in Int
        BY ONLY <3>2, <3>4, ProductInteger
      <4> QED BY ONLY <3>2, <3>4, <4>1
    <3>6. Congruent(B, sA, M)
      <4> HIDE DEF m
      <4> QED BY <3>2, <3>3, <3>4, <3>5, PointPowers
    <3>7. A \in Int /\ sA \in Int /\ B \in Int /\ x[j] \in Int /\ u[n] = x[j] * B /\ u[n] \in Int
      <4>1. A \in Int
        BY <3>2, PointPowers
      <4>2. B \in Int /\ x[j] \in Int /\ t[j] = x[j] * B /\ t[j] \in Int
        BY <2>5, <3>1
      <4>3. u[n] = t[j]
        BY <2>6 DEF j
      <4> HIDE DEF A, B, m
      <4>4. sA \in Int
        BY ONLY <4>1
      <4> QED BY ONLY <4>1, <4>2, <4>3, <4>4
    <3>8. r[n] = T[n] * A
      BY <2>6, <3>2, PointPowers
    <3>9. T[n] = IF m % 2 = 1 THEN -x[j] ELSE x[j]
      BY <1>2 DEF j
    <3> HIDE DEF m, A, B
    <3>10. r[n] = x[j] * sA
      BY <3>7, <3>8, <3>9
    <3> HIDE DEF sA
    <3>11. Congruent(x[j] * B, x[j] * sA, M)
      <4>1. Congruent(x[j], x[j], M)
        BY DEF Congruent
      <4> HIDE DEF M
      <4> QED BY ONLY <1>1, <3>6, <3>7, <4>1, CongruentProduct
    <3>12. x[j] * sA \in Int
      BY ONLY <3>7, ProductInteger
    <3> QED BY <3>7, <3>10, <3>11, <3>12
  <2>10. Congruent(Total(u, N), Total(r, N), M)
    <3>1. \A n \in 0 .. N - 1 : u[n] \in Int /\ r[n] \in Int /\ Congruent(u[n], r[n], M)
      BY <1>1, <2>9
    <3> HIDE DEF M
    <3> QED BY ONLY <1>1, <3>1, TotalCongruent
  <2> HIDE DEF M
  <2> QED BY ONLY <1>1, <2>2, <2>3, <2>4, <2>8, <2>10, CongruentRelation
<1> QED BY <1>3 DEF Evaluates, T

-----------------------------------------------------------------------------
(* Values and the element they stand for, in either format.                *)

Stands(f, p, x, v) == IF f = COEFFICIENT THEN Same(v, x, p.modulus) ELSE Evaluates(p, x, v)

ElementOf(f, p, v) ==
  IF f = COEFFICIENT THEN R!Modulo(v, p.modulus) ELSE InverseTransform(R!Modulo(v, p.modulus), p)

\* Residues are integers below the modulus, and congruent to what they are of.
LEMMA ModuloSame ==
  ASSUME NEW M \in Nat \ {0}, NEW v, Vector(v)
  PROVE  /\ R!Modulo(v, M) \in [Index -> 0 .. M - 1] /\ Vector(R!Modulo(v, M))
         /\ \A i \in Index : R!Modulo(v, M)[i] = v[i] % M
         /\ Same(R!Modulo(v, M), v, M) /\ Same(v, R!Modulo(v, M), M)
<1>1. R!Modulo(v, M) = [i \in Index |-> v[i] % M]
  BY RingFacts DEF R!Modulo
<1>2. ASSUME NEW i \in Index PROVE v[i] % M \in 0 .. M - 1 /\ Congruent(v[i] % M, v[i], M) /\ Congruent(v[i], v[i] % M, M)
  <2>1. v[i] \in Int
    BY DEF Vector
  <2> QED BY ONLY <2>1, M \in Nat \ {0}, CongruentRelation
<1>3. \A i \in Index : v[i] % M \in Int
  BY <1>2
<1> QED BY <1>1, <1>2, <1>3 DEF Vector, Same

\* Vectors that agree modulo M have the same residues.
LEMMA SameModulo ==
  ASSUME NEW M \in Nat \ {0}, NEW v, NEW w, Same(v, w, M)
  PROVE  R!Modulo(v, M) = R!Modulo(w, M)
BY RingFacts DEF R!Modulo, Same, Congruent

\* A vector of residues is what it is modulo M.
LEMMA ModuloFixed ==
  ASSUME NEW M \in Nat \ {0}, NEW v \in [Index -> 0 .. M - 1]
  PROVE  R!Modulo(v, M) = v
<1>1. R!Modulo(v, M) = [i \in Index |-> v[i] % M]
  BY RingFacts DEF R!Modulo
<1>2. ASSUME NEW i \in Index PROVE v[i] % M = v[i]
  <2>1. v[i] \in 0 .. M - 1
    OBVIOUS
  <2> QED BY ONLY <2>1, M \in Nat \ {0}, Remainders
<1> QED BY <1>1, <1>2

\* The element that values stand for is a residue, and the only one.
LEMMA ElementStands ==
  ASSUME NEW f, NEW p \in Params, NEW v, Vector(v)
  PROVE  /\ ElementOf(f, p, v) \in [Index -> 0 .. p.modulus - 1] /\ Vector(ElementOf(f, p, v))
         /\ Stands(f, p, ElementOf(f, p, v), v)
         /\ \A x : Vector(x) /\ Stands(f, p, x, v) => ElementOf(f, p, v) = R!Modulo(x, p.modulus)
<1> DEFINE M == p.modulus
           r == R!Modulo(v, M)
           e == ElementOf(f, p, v)
<1>1. M \in Nat \ {0}
  BY RingFacts
<1>2. r \in [Index -> 0 .. M - 1] /\ Vector(r) /\ Same(r, v, M) /\ Same(v, r, M)
  BY <1>1, ModuloSame
<1>3. CASE f = COEFFICIENT
  <2>1. e = r
    BY <1>3 DEF ElementOf
  <2>2. ASSUME NEW x, Stands(f, p, x, v) PROVE R!Modulo(v, M) = R!Modulo(x, M)
    BY <1>1, <1>3, <2>2, SameModulo DEF Stands
  <2> QED BY <1>2, <1>3, <2>1, <2>2 DEF Stands
<1>4. CASE f # COEFFICIENT
  <2>1. e = InverseTransform(r, p)
    BY <1>4 DEF ElementOf
  <2>2. e \in [Index -> 0 .. M - 1] /\ Evaluates(p, e, r)
    BY <1>2, <2>1, InverseEvaluates
  <2>3. Vector(e)
    BY <1>1, <2>2 DEF Vector
  <2>4. Same(e, e, M)
    BY DEF Same, Congruent
  <2> HIDE DEF e, r
  <2>5. Evaluates(p, e, v)
    BY <1>2, <2>2, <2>3, <2>4, EvaluatesSame
  <2>6. ASSUME NEW x, Vector(x), Evaluates(p, x, v) PROVE e = R!Modulo(x, M)
    <3>1. Same(x, x, M)
      BY DEF Same, Congruent
    <3>2. Evaluates(p, x, r)
      BY <1>2, <2>6, <3>1, EvaluatesSame
    <3>3. InverseTransform(r, p) = [j \in Index |-> x[j] % M]
      BY <1>2, <2>6, <3>2, InverseRecovers
    <3> QED BY <2>1, <3>3, RingFacts DEF R!Modulo
  <2> QED BY <1>4, <2>2, <2>3, <2>5, <2>6 DEF Stands, e
<1> QED BY <1>3, <1>4

\* The operand's values stand for the operand.
LEMMA InStands ==
  ASSUME NEW f, NEW p \in Params, NEW v, Vector(v)
  PROVE  /\ In(v, f, p) \in [Index -> 0 .. p.modulus - 1] /\ Vector(In(v, f, p))
         /\ Stands(f, p, v, In(v, f, p))
<1> DEFINE M == p.modulus
           r == R!Modulo(v, M)
           e == In(v, f, p)
<1>1. M \in Nat \ {0}
  BY RingFacts
<1>2. r \in [Index -> 0 .. M - 1] /\ Vector(r) /\ Same(r, v, M) /\ Same(v, r, M)
  BY <1>1, ModuloSame
<1>3. CASE f = COEFFICIENT
  BY <1>2, <1>3 DEF In, Stands
<1>4. CASE f # COEFFICIENT
  <2>1. e = ForwardTransform(r, p)
    BY <1>4 DEF In
  <2>2. e \in [Index -> 0 .. M - 1] /\ Evaluates(p, r, e)
    BY <1>2, <2>1, ForwardEvaluates
  <2>3. Vector(e)
    BY <1>1, <2>2 DEF Vector
  <2>4. Same(e, e, M)
    BY DEF Same, Congruent
  <2> HIDE DEF e, r
  <2>5. Evaluates(p, v, e)
    BY <1>2, <2>2, <2>3, <2>4, EvaluatesSame
  <2> QED BY <1>4, <2>2, <2>3, <2>5 DEF Stands, e
<1> QED BY <1>3, <1>4

\* Values that agree stand for the same.
LEMMA StandsSame ==
  ASSUME NEW f, NEW p \in Params, NEW x, NEW y, NEW v, NEW w, Vector(x), Vector(v), Stands(f, p, x, y),
         Same(v, x, p.modulus), Same(w, y, p.modulus)
  PROVE  Stands(f, p, v, w)
<1>1. CASE f = COEFFICIENT
  BY <1>1 DEF Stands, Same, Congruent
<1>2. CASE f # COEFFICIENT
  BY <1>2, EvaluatesSame DEF Stands
<1> QED BY <1>1, <1>2

\* Sums, differences and multiples of values stand for those of the elements.
LEMMA StandsSums ==
  ASSUME NEW f, NEW p \in Params, NEW x, NEW y, NEW v, NEW w, Vector(x), Vector(v), Vector(y), Vector(w),
         Stands(f, p, x, y), Stands(f, p, v, w),
         NEW h
  PROVE  /\ Vector(R!Plus(x, v)) /\ Vector(R!Minus(x, v))
         /\ (\A i \in Index : Congruent(h[i], y[i] + w[i], p.modulus)) => Stands(f, p, R!Plus(x, v), h)
         /\ (\A i \in Index : Congruent(h[i], y[i] - w[i], p.modulus)) => Stands(f, p, R!Minus(x, v), h)
<1> DEFINE M == p.modulus
<1>1. /\ \A i \in Index : R!Plus(x, v)[i] = x[i] + v[i] /\ R!Minus(x, v)[i] = x[i] - v[i]
      /\ M \in Nat \ {0}
  BY RingFacts DEF R!Plus, R!Minus
<1>2. \A i \in Index : x[i] \in Int /\ v[i] \in Int /\ y[i] \in Int /\ w[i] \in Int
  BY DEF Vector
<1>3. Vector(R!Plus(x, v)) /\ Vector(R!Minus(x, v))
  BY <1>1, <1>2 DEF Vector
<1>4. CASE f = COEFFICIENT
  <2>1. ASSUME NEW i \in Index
        PROVE  /\ Congruent(y[i] + w[i], R!Plus(x, v)[i], M)
               /\ Congruent(y[i] - w[i], R!Minus(x, v)[i], M)
    <3>1. Congruent(y[i], x[i], M) /\ Congruent(w[i], v[i], M)
      BY <1>4 DEF Stands, Same
    <3>2. x[i] \in Int /\ v[i] \in Int /\ y[i] \in Int /\ w[i] \in Int
      BY <1>2
    <3>3. Congruent(y[i] + w[i], x[i] + v[i], M) /\ Congruent(y[i] - w[i], x[i] - v[i], M)
      BY ONLY <1>1, <3>1, <3>2, CongruentParts
    <3> QED BY <1>1, <3>3
  <2> QED BY <1>3, <1>4, <2>1 DEF Stands, Same, Congruent
<1>5. CASE f # COEFFICIENT
  <2>1. Evaluates(p, x, y) /\ Evaluates(p, v, w)
    BY <1>5 DEF Stands
  <2>2. ASSUME \A i \in Index : Congruent(h[i], y[i] + w[i], M) PROVE Evaluates(p, R!Plus(x, v), h)
    BY <2>1, <2>2, EvaluatesPlus
  <2>3. ASSUME \A i \in Index : Congruent(h[i], y[i] - w[i], M) PROVE Evaluates(p, R!Minus(x, v), h)
    BY <2>1, <2>3, EvaluatesMinus
  <2> QED BY <1>3, <1>5, <2>2, <2>3 DEF Stands
<1> QED BY <1>4, <1>5

\* Multiples of values stand for the multiple of the element.
LEMMA StandsScaled ==
  ASSUME NEW f, NEW p \in Params, NEW b \in Int, NEW x, NEW y, Vector(x), Vector(y), Stands(f, p, x, y),
         NEW h, \A i \in Index : Congruent(h[i], y[i] * b, p.modulus)
  PROVE  Vector(R!Scaled(x, b)) /\ Stands(f, p, R!Scaled(x, b), h)
<1> DEFINE M == p.modulus
<1>1. (\A i \in Index : R!Scaled(x, b)[i] = x[i] * b) /\ M \in Nat \ {0}
  BY RingFacts DEF R!Scaled
<1>2. ASSUME NEW i \in Index PROVE x[i] \in Int /\ y[i] \in Int /\ R!Scaled(x, b)[i] \in Int
  <2>1. x[i] \in Int /\ y[i] \in Int
    BY DEF Vector
  <2>2. x[i] * b \in Int
    BY ONLY <2>1, b \in Int, ProductInteger
  <2> QED BY <1>1, <2>1, <2>2
<1>3. Vector(R!Scaled(x, b))
  BY <1>2 DEF Vector
<1>4. CASE f = COEFFICIENT
  <2>1. ASSUME NEW i \in Index PROVE Congruent(y[i] * b, x[i] * b, M)
    <3>1. Congruent(y[i], x[i], M) /\ Congruent(b, b, M)
      BY <1>4 DEF Stands, Same, Congruent
    <3> QED BY ONLY <1>1, <1>2, <3>1, b \in Int, CongruentProduct
  <2> QED BY <1>1, <1>3, <1>4, <2>1 DEF Stands, Same, Congruent
<1>5. CASE f # COEFFICIENT
  <2>1. Evaluates(p, x, y)
    BY <1>5 DEF Stands
  <2>2. Evaluates(p, R!Scaled(x, b), h)
    BY <2>1, EvaluatesScaled
  <2> QED BY <1>3, <1>5, <2>2 DEF Stands
<1> QED BY <1>4, <1>5

-----------------------------------------------------------------------------
(* The invariant, and what a state stands for.                             *)

\* There are no values, or as many as the ring has, up to the modulus.
PolyInv ==
  /\ format \in {COEFFICIENT, EVALUATION}
  /\ params \in Params
  /\ values = Null \/ values \in [Index -> 0 .. q]

\* Moduli leave room for sums.
LEMMA ModuliRoomy == \A p \in Params : Roomy(p.modulus)
BY RingFacts DEF Roomy

\* The empty vector is not a vector of the ring's length.
LEMMA NotNull ==
  ASSUME NEW M, NEW h \in [Index -> 0 .. M]
  PROVE  h # Null /\ (M \in Int => Vector(h))
<1>1. DOMAIN h = Index /\ 0 \in Index
  BY RingFacts
<1>2. DOMAIN <<>> = {}
  OBVIOUS
<1> QED BY <1>1, <1>2 DEF Null, Vector

\* The two instances of the ring's definitions agree.
LEMMA OneRing ==
  /\ \A x, m : Ring!Modulo(x, m) = R!Modulo(x, m) /\ Ring!Centred(x, m) = R!Centred(x, m)
  /\ \A x, y : /\ Ring!Plus(x, y) = R!Plus(x, y) /\ Ring!Minus(x, y) = R!Minus(x, y)
               /\ Ring!Times(x, y) = R!Times(x, y) /\ Ring!Scaled(x, y) = R!Scaled(x, y)
               /\ Ring!AtPower(x, y) = R!AtPower(x, y) /\ Ring!Sparse(x, y) = R!Sparse(x, y)
  /\ \A b : Ring!Constant(b) = R!Constant(b) /\ Ring!Ring(b) = R!Ring(b)
  /\ \A x, y, a, b : Ring!Nearest(x, y, a, b) <=> R!Nearest(x, y, a, b)
<1>1. Ring!Degrees = R!Degrees
  BY DEF Ring!Degrees, R!Degrees
<1>2. \A t : Ring!Total(t) = R!Total(t)
  BY DEF Ring!Total, R!Total
<1>3. \A x, m : Ring!Modulo(x, m) = R!Modulo(x, m) /\ Ring!Centred(x, m) = R!Centred(x, m)
  BY <1>1 DEF Ring!Modulo, R!Modulo, Ring!Centred, R!Centred
<1>4. \A x, y : /\ Ring!Plus(x, y) = R!Plus(x, y) /\ Ring!Minus(x, y) = R!Minus(x, y)
                /\ Ring!Scaled(x, y) = R!Scaled(x, y) /\ Ring!Sparse(x, y) = R!Sparse(x, y)
  BY <1>1 DEF Ring!Plus, R!Plus, Ring!Minus, R!Minus, Ring!Scaled, R!Scaled, Ring!Sparse, R!Sparse
<1>5. \A x, y : Ring!Times(x, y) = R!Times(x, y)
  BY <1>1, <1>2 DEF Ring!Times, R!Times
<1>6. \A x, y : Ring!AtPower(x, y) = R!AtPower(x, y)
  BY <1>1 DEF Ring!AtPower, R!AtPower
<1>7. \A b : Ring!Constant(b) = R!Constant(b) /\ Ring!Ring(b) = R!Ring(b)
  BY <1>1 DEF Ring!Constant, R!Constant, Ring!Ring, R!Ring
<1>8. \A x, y, a, b : Ring!Nearest(x, y, a, b) <=> R!Nearest(x, y, a, b)
  BY <1>1 DEF Ring!Nearest, R!Nearest
<1> QED BY <1>3, <1>4, <1>5, <1>6, <1>7, <1>8

\* Zeros stand for zero, in either format.
LEMMA ZerosStand ==
  ASSUME NEW f, NEW p \in Params
  PROVE  /\ Vector(Zeros) /\ Zeros \in [Index -> 0 .. p.modulus] /\ Stands(f, p, Zeros, Zeros)
         /\ R!Modulo(Zeros, p.modulus) = Zeros /\ Zeros \in [Index -> 0 .. p.modulus - 1]
<1> DEFINE M == p.modulus
<1>1. M \in Nat \ {0} /\ R!Degrees = Index
  BY RingFacts
<1>2. Zeros = R!Constant(0)
  BY <1>1 DEF Zeros, R!Constant
<1>3. Vector(Zeros) /\ Zeros \in [Index -> 0 .. M] /\ Zeros \in [Index -> 0 .. M - 1] /\ \A i \in Index : Zeros[i] = 0
  BY <1>1 DEF Vector, Zeros
<1>4. R!Modulo(Zeros, M) = Zeros
  BY <1>1, <1>3, ModuloFixed
<1>5. Evaluates(p, Zeros, Zeros)
  <2>1. \A i \in Index : Congruent(Zeros[i], 0, M)
    BY <1>3 DEF Congruent
  <2> QED BY <1>2, <2>1, EvaluatesConstant
<1>6. Same(Zeros, Zeros, M)
  BY DEF Same, Congruent
<1> QED BY <1>3, <1>4, <1>5, <1>6 DEF Stands

\* The element there is: a residue that the values stand for.
LEMMA CurrentElement ==
  ASSUME PolyInv
  PROVE  /\ q \in Nat \ {0, 1} /\ Roomy(q) /\ params \in Params /\ format \in {COEFFICIENT, EVALUATION}
         /\ OrZeros \in [Index -> 0 .. q] /\ Vector(OrZeros)
         /\ values # Null => OrZeros = values
         /\ Element \in [Index -> 0 .. q - 1] /\ Vector(Element) /\ Stands(format, params, Element, OrZeros)
         /\ Element = ElementOf(format, params, OrZeros)
<1>1. params \in Params /\ format \in {COEFFICIENT, EVALUATION} /\ q = params.modulus
  BY DEF PolyInv, q
<1>2. q \in Nat \ {0, 1} /\ Roomy(q) /\ q \in Int
  BY <1>1, RingFacts, ModuliRoomy
<1>3. OrZeros \in [Index -> 0 .. q] /\ (values # Null => OrZeros = values)
  BY <1>1, ZerosStand DEF OrZeros, PolyInv
<1>4. Vector(OrZeros)
  BY <1>2, <1>3, NotNull
<1>5. Element = ElementOf(format, params, OrZeros)
  <2>1. CASE values = Null
    <3>1. Element = Zeros /\ OrZeros = Zeros
      BY <2>1 DEF Element, OrZeros
    <3>2. ElementOf(format, params, Zeros) = R!Modulo(Zeros, q)
      <4>1. Vector(Zeros) /\ Stands(format, params, Zeros, Zeros)
        BY <1>1, ZerosStand
      <4> HIDE DEF Zeros
      <4> QED BY ONLY <1>1, <4>1, ElementStands
    <3> QED BY <1>1, <3>1, <3>2, ZerosStand
  <2>2. CASE values # Null
    BY <1>1, <1>3, <2>2 DEF Element, ElementOf
  <2> QED BY <2>1, <2>2
<1>6. /\ Element \in [Index -> 0 .. q - 1] /\ Vector(Element)
      /\ Stands(format, params, Element, OrZeros)
  BY <1>1, <1>4, <1>5, ElementStands
<1> QED BY <1>1, <1>2, <1>3, <1>4, <1>5, <1>6

\* A step to values that stand for x reaches the residue of x.
LEMMA StepTo ==
  ASSUME NEW f \in {COEFFICIENT, EVALUATION}, NEW p \in Params, NEW h \in [Index -> 0 .. p.modulus],
         format' = f, params' = p, values' = h
  PROVE  /\ PolyInv' /\ q' = p.modulus /\ Vector(h)
         /\ Element' \in [Index -> 0 .. p.modulus - 1] /\ Vector(Element') /\ Stands(f, p, Element', h)
         /\ \A x : Vector(x) /\ Stands(f, p, x, h) => Element' = Ring!Modulo(x, p.modulus)
<1>1. PolyInv' /\ q' = p.modulus
  BY DEF PolyInv, q
<1>2. h # Null /\ Vector(h)
  <2>1. p.modulus \in Int
    BY RingFacts
  <2> QED BY ONLY <2>1, NotNull, h \in [Index -> 0 .. p.modulus]
<1>3. Element' = ElementOf(f, p, h)
  BY <1>1, <1>2 DEF Element, ElementOf
<1> QED BY <1>1, <1>2, <1>3, ElementStands, OneRing

-----------------------------------------------------------------------------
(* Sums and products with another polynomial.                              *)

\* Values that are given, in the same ring and format.
LEMMA GivenStep ==
  ASSUME PolyInv, NEW h \in [Index -> 0 .. q], Given(h)
  PROVE  /\ PolyInv' /\ q' = q
         /\ Element' \in [Index -> 0 .. q - 1] /\ Vector(Element') /\ Stands(format, params, Element', h)
         /\ \A x : Vector(x) /\ Stands(format, params, x, h) => Element' = Ring!Modulo(x, q)
<1>1. format' = format /\ params' = params /\ values' = h /\ q = params.modulus
  BY DEF Given, q
<1>2. format \in {COEFFICIENT, EVALUATION} /\ params \in Params
  BY CurrentElement
<1>3. h \in [Index -> 0 .. params.modulus]
  BY <1>1
<1> QED BY ONLY <1>1, <1>2, <1>3, StepTo

\* A sum with a polynomial, an empty one too, is the sum in the ring.
LEMMA PlusPolyStep ==
  ASSUME PolyInv, NEW v \in Operands, PlusPoly(v)
  PROVE  PolyInv' /\ Ring!Next
<1> DEFINE y == In(v, format, params)
           h == [i \in Index |-> ModAddFast(OrZeros[i], y[i], q)]
<1>1. Given(h) /\ Called("Plus", v)
  BY DEF PlusPoly
<1>2. Vector(v)
  BY RingFacts, PolyAssumption DEF Vector
<1>3. y \in [Index -> 0 .. q - 1] /\ Vector(y) /\ Stands(format, params, v, y)
  BY <1>2, CurrentElement, InStands DEF q
<1>4. \A i \in Index : h[i] = ModAddFast(OrZeros[i], y[i], q)
  OBVIOUS
<1>5. ASSUME NEW i \in Index PROVE h[i] \in 0 .. q /\ Congruent(h[i], OrZeros[i] + y[i], q)
  <2>1. OrZeros[i] \in 0 .. q /\ y[i] \in 0 .. q - 1 /\ Roomy(q)
    BY <1>3, CurrentElement
  <2> QED BY ONLY <1>4, <2>1, SumEntries, i \in Index
<1>6. h \in [Index -> 0 .. q]
  BY <1>5
<1> HIDE DEF h, y
<1>7. Vector(R!Plus(Element, v)) /\ Stands(format, params, R!Plus(Element, v), h)
  BY <1>2, <1>3, <1>5, CurrentElement, StandsSums DEF q
<1>8. PolyInv' /\ q' = q /\ Element' = Ring!Modulo(Ring!Plus(Element, v), q)
  BY <1>1, <1>6, <1>7, GivenStep, OneRing
<1>9. call'.op = "Plus" /\ call'.arg = v
  BY <1>1 DEF Called
<1> QED BY <1>8, <1>9 DEF Ring!Next, Ring!Solves, Ring!Is, Ring!Becomes, Ring!Arg

\* A difference from a polynomial is the difference in the ring.
LEMMA MinusPolyStep ==
  ASSUME PolyInv, NEW v \in Operands, MinusPoly(v)
  PROVE  PolyInv' /\ Ring!Next
<1> DEFINE y == In(v, format, params)
           h == [i \in Index |-> ModSubFast(OrZeros[i], y[i], q)]
<1>1. Given(h) /\ Called("Minus", v)
  BY DEF MinusPoly
<1>2. Vector(v)
  BY RingFacts, PolyAssumption DEF Vector
<1>3. y \in [Index -> 0 .. q - 1] /\ Vector(y) /\ Stands(format, params, v, y)
  BY <1>2, CurrentElement, InStands DEF q
<1>4. \A i \in Index : h[i] = ModSubFast(OrZeros[i], y[i], q)
  OBVIOUS
<1>5. ASSUME NEW i \in Index PROVE h[i] \in 0 .. q /\ Congruent(h[i], OrZeros[i] - y[i], q)
  <2>1. OrZeros[i] \in 0 .. q /\ y[i] \in 0 .. q - 1 /\ Roomy(q)
    BY <1>3, CurrentElement
  <2> QED BY ONLY <1>4, <2>1, SumEntries, i \in Index
<1>6. h \in [Index -> 0 .. q]
  BY <1>5
<1> HIDE DEF h, y
<1>7. Vector(R!Minus(Element, v)) /\ Stands(format, params, R!Minus(Element, v), h)
  BY <1>2, <1>3, <1>5, CurrentElement, StandsSums DEF q
<1>8. PolyInv' /\ q' = q /\ Element' = Ring!Modulo(Ring!Minus(Element, v), q)
  BY <1>1, <1>6, <1>7, GivenStep, OneRing
<1>9. call'.op = "Minus" /\ call'.arg = v
  BY <1>1 DEF Called
<1> QED BY <1>8, <1>9 DEF Ring!Next, Ring!Solves, Ring!Is, Ring!Becomes, Ring!Arg

\* A product of evaluations is the product in the ring.
LEMMA TimesPolyStep ==
  ASSUME PolyInv, NEW v \in Operands, TimesPoly(v)
  PROVE  PolyInv' /\ Ring!Next
<1> DEFINE y == In(v, format, params)
           h == IF NotEmpty THEN [i \in Index |-> EltwiseMultMod(values[i], y[i], q)] ELSE Zeros
<1>1. Given(h) /\ Called("Times", v) /\ format = EVALUATION /\ format # COEFFICIENT
  BY DEF TimesPoly, EVALUATION, COEFFICIENT
<1>2. Vector(v)
  BY RingFacts, PolyAssumption DEF Vector
<1>3. y \in [Index -> 0 .. q - 1] /\ Vector(y) /\ Stands(format, params, v, y)
  BY <1>2, CurrentElement, InStands DEF q
<1>4. ASSUME NEW i \in Index PROVE h[i] \in 0 .. q /\ Congruent(h[i], OrZeros[i] * y[i], q)
  <2>1. y[i] \in Int /\ Roomy(q) /\ q \in Nat \ {0} /\ OrZeros[i] \in Int
    BY <1>3, CurrentElement DEF Vector
  <2>2. CASE values = Null
    <3>1. h[i] = 0 /\ OrZeros[i] = 0
      BY <2>2 DEF NotEmpty, OrZeros, Zeros
    <3> HIDE DEF h, y
    <3>2. OrZeros[i] * y[i] = h[i]
      BY <2>1, <3>1
    <3> QED BY <2>1, <3>1, <3>2 DEF Congruent
  <2>3. CASE values # Null
    <3>1. h[i] = EltwiseMultMod(OrZeros[i], y[i], q)
      BY <2>3 DEF NotEmpty, OrZeros
    <3> HIDE DEF h, y
    <3> QED BY ONLY <2>1, <3>1, ProductEntries
  <2> QED BY <2>2, <2>3
<1>5. h \in [Index -> 0 .. q]
  <2>1. h = [i \in Index |-> h[i]]
    BY DEF Zeros
  <2> HIDE DEF h
  <2> QED BY <1>4, <2>1
<1> HIDE DEF h, y
<1>6. Vector(R!Times(Element, v)) /\ Stands(format, params, R!Times(Element, v), h)
  <2>1. Vector(OrZeros) /\ Vector(Element) /\ params \in Params
        /\ Evaluates(params, Element, OrZeros) /\ Evaluates(params, v, y)
    BY <1>1, <1>3, CurrentElement DEF Stands
  <2> QED BY <1>1, <1>2, <1>3, <1>4, <2>1, EvaluatesTimes DEF Stands, q
<1>7. PolyInv' /\ q' = q /\ Element' = Ring!Modulo(Ring!Times(Element, v), q)
  BY <1>1, <1>5, <1>6, GivenStep, OneRing
<1>8. call'.op = "Times" /\ call'.arg = v
  BY <1>1 DEF Called
<1> QED BY <1>7, <1>8 DEF Ring!Next, Ring!Solves, Ring!Is, Ring!Becomes, Ring!Arg

\* A multiple that is added without checks is added in the ring.
LEMMA MultAccStep ==
  ASSUME PolyInv, NEW v \in Operands, NEW b \in Nat, MultAccEqNoCheck(v, b)
  PROVE  PolyInv' /\ Ring!Next
<1> DEFINE y == In(v, format, params)
           g == [i \in Index |-> ModMulFastConst(y[i], b % q, q, PrepModMulConst(b % q, q))]
           h == [i \in Index |-> ModAddFast(values[i], g[i], q)]
<1>1. values' = h /\ UNCHANGED <<format, params>> /\ Called("MultAcc", [by |-> v, factor |-> b]) /\ values # Null
  BY DEF MultAccEqNoCheck, EntriesAt, NotEmpty
<1>2. Vector(v)
  BY RingFacts, PolyAssumption DEF Vector
<1>3. y \in [Index -> 0 .. q - 1] /\ Vector(y) /\ Stands(format, params, v, y)
  BY <1>2, CurrentElement, InStands DEF q
<1>4. q \in Nat \ {0, 1} /\ Roomy(q) /\ q \in Nat \ {0} /\ 4 * q < 2^W
  BY CurrentElement DEF Roomy
<1>5. b % q \in 0 .. q - 1 /\ Congruent(b % q, b, q) /\ b % q \in Int /\ b \in Int
  <2>1. b \in Int
    OBVIOUS
  <2>2. b % q \in 0 .. q - 1 /\ Congruent(b % q, b, q)
    BY ONLY <1>4, <2>1, CongruentRelation
  <2> QED BY <2>1, <2>2
<1>6. ASSUME NEW i \in Index PROVE g[i] \in 0 .. q - 1 /\ Congruent(g[i], y[i] * b, q)
  <2>1. y[i] \in 0 .. q - 1 /\ y[i] \in Int
    BY <1>3 DEF Vector
  <2>2. y[i] \in Word
    BY <1>4, <2>1, RoomyFacts
  <2>3. g[i] = (y[i] * (b % q)) % q
    BY <1>4, <1>5, <2>2, ShoupFits
  <2> HIDE DEF g, y
  <2> DEFINE z == b % q
  <2>4. z \in Int /\ Congruent(z, b, q) /\ g[i] = (y[i] * z) % q /\ Congruent(y[i], y[i], q)
    BY <1>5, <2>3 DEF Congruent
  <2> HIDE DEF z
  <2>5. y[i] * z \in Int /\ Congruent(y[i] * z, y[i] * b, q)
    BY ONLY <1>4, <1>5, <2>1, <2>4, ProductInteger, CongruentProduct
  <2>6. (y[i] * z) % q \in 0 .. q - 1 /\ Congruent((y[i] * z) % q, y[i] * z, q)
    BY ONLY <1>4, <2>5, CongruentRelation
  <2> QED BY ONLY <1>4, <2>4, <2>5, <2>6, CongruentRelation
<1>7. \A i \in Index : h[i] = ModAddFast(OrZeros[i], g[i], q)
  BY <1>1 DEF OrZeros
<1>8. h = [i \in Index |-> h[i]]
  OBVIOUS
<1> HIDE DEF g, h, y
<1>9. ASSUME NEW i \in Index PROVE h[i] \in 0 .. q /\ Congruent(h[i], OrZeros[i] + g[i], q) /\ g[i] \in Int
  <2>1. OrZeros[i] \in 0 .. q /\ g[i] \in 0 .. q - 1 /\ Roomy(q)
    BY <1>6, CurrentElement
  <2>2. g[i] \in Int
    BY <2>1
  <2> QED BY ONLY <1>7, <2>1, <2>2, SumEntries, i \in Index
<1>10. h \in [Index -> 0 .. q] /\ Vector(g)
  BY <1>8, <1>9 DEF Vector
<1>11. Vector(R!Scaled(v, b)) /\ Stands(format, params, R!Scaled(v, b), g)
  BY <1>2, <1>3, <1>5, <1>6, CurrentElement, StandsScaled DEF q
<1>12. Vector(R!Plus(Element, R!Scaled(v, b))) /\ Stands(format, params, R!Plus(Element, R!Scaled(v, b)), h)
  BY <1>9, <1>10, <1>11, CurrentElement, StandsSums DEF q
<1>13. PolyInv' /\ q' = q /\ Element' = Ring!Modulo(Ring!Plus(Element, Ring!Scaled(v, b)), q)
  BY <1>1, <1>10, <1>12, GivenStep, OneRing DEF Given
<1>14. call'.op = "MultAcc" /\ call'.arg.by = v /\ call'.arg.factor = b
  BY <1>1 DEF Called
<1> QED BY <1>13, <1>14 DEF Ring!Next, Ring!Solves, Ring!Is, Ring!Becomes, Ring!Arg

-----------------------------------------------------------------------------
(* Integers.                                                               *)

\* Entries that are given one by one.
LEMMA EntriesStep ==
  ASSUME PolyInv, values # Null, NEW h, h = [i \in Index |-> h[i]], values' = h, UNCHANGED <<format, params>>,
         \A i \in Index : h[i] \in 0 .. q
  PROVE  Given(h) /\ h \in [Index -> 0 .. q]
BY DEF Given

\* Values of a constant.
LEMMA ConstantStands ==
  ASSUME NEW f \in {COEFFICIENT, EVALUATION}, NEW p \in Params, NEW b \in Int, NEW w,
         \A i \in Index : Congruent(w[i], IF f = COEFFICIENT THEN R!Constant(b)[i] ELSE b, p.modulus)
  PROVE  Vector(R!Constant(b)) /\ Stands(f, p, R!Constant(b), w)
<1>1. Vector(R!Constant(b))
  BY RingFacts DEF R!Constant, Vector
<1>2. CASE f = COEFFICIENT
  BY <1>1, <1>2 DEF Stands, Same
<1>3. CASE f # COEFFICIENT
  <2>1. \A i \in Index : Congruent(w[i], b, p.modulus)
    BY <1>3
  <2> QED BY <1>1, <1>3, <2>1, EvaluatesConstant DEF Stands
<1> QED BY <1>2, <1>3

\* Values taken from 0 are those of the negated element.
LEMMA NegateStep ==
  ASSUME PolyInv, Negate
  PROVE  PolyInv' /\ Ring!Next
<1> DEFINE h == [i \in Index |-> ModSubFast(0, values[i], q)]
<1>1. values' = h /\ UNCHANGED <<format, params>> /\ Called("TimesInt", -1) /\ values # Null /\ OrZeros = values
  BY CurrentElement DEF Negate, Entrywise, NotEmpty
<1>2. ASSUME NEW i \in Index PROVE h[i] \in 0 .. q /\ Congruent(h[i], OrZeros[i] * (-1), q)
  <2>1. OrZeros[i] \in 0 .. q /\ Roomy(q) /\ q \in Nat \ {0} /\ 0 \in 0 .. q - 1
    BY CurrentElement
  <2>2. h[i] = ModSubFast(0, OrZeros[i], q)
    BY <1>1
  <2> HIDE DEF h
  <2>3. h[i] \in 0 .. q /\ Congruent(h[i], -OrZeros[i], q)
    BY ONLY <2>1, <2>2, SumEntries
  <2>4. OrZeros[i] * (-1) = -OrZeros[i]
    BY ONLY <2>1
  <2> QED BY <2>3, <2>4
<1>3. h = [i \in Index |-> h[i]]
  OBVIOUS
<1> HIDE DEF h
<1>4. Given(h) /\ h \in [Index -> 0 .. q]
  BY <1>1, <1>2, <1>3, EntriesStep
<1>5. Vector(R!Scaled(Element, -1)) /\ Stands(format, params, R!Scaled(Element, -1), h)
  BY <1>2, CurrentElement, StandsScaled, -1 \in Int DEF q
<1>6. PolyInv' /\ q' = q /\ Element' = Ring!Modulo(Ring!Scaled(Element, -1), q)
  BY <1>4, <1>5, GivenStep, OneRing
<1>7. call'.op = "TimesInt" /\ call'.arg = -1
  BY <1>1 DEF Called
<1> QED BY <1>6, <1>7 DEF Ring!Next, Ring!Solves, Ring!Is, Ring!Becomes, Ring!Arg

\* A constant added or subtracted, in the format there is.
LEMMA ConstantStep ==
  ASSUME PolyInv, values # Null, NEW b \in Int, NEW h, h = [i \in Index |-> h[i]], values' = h, UNCHANGED <<format, params>>,
         NEW w, Vector(w),
         \A i \in Index : Congruent(w[i], IF format = COEFFICIENT THEN R!Constant(b)[i] ELSE b, q),
         \A i \in Index : h[i] \in 0 .. q
  PROVE  /\ (\A i \in Index : Congruent(h[i], OrZeros[i] + w[i], q)) =>
              PolyInv' /\ q' = q /\ Element' = Ring!Modulo(Ring!Plus(Element, Ring!Constant(b)), q)
         /\ (\A i \in Index : Congruent(h[i], OrZeros[i] - w[i], q)) =>
              PolyInv' /\ q' = q /\ Element' = Ring!Modulo(Ring!Minus(Element, Ring!Constant(b)), q)
<1>1. Given(h) /\ h \in [Index -> 0 .. q]
  BY EntriesStep
<1> DEFINE c == R!Constant(b)
<1>2. Vector(c) /\ Stands(format, params, c, w)
  BY CurrentElement, ConstantStands DEF q
<1> HIDE DEF c
<1>3. /\ Vector(R!Plus(Element, c)) /\ Vector(R!Minus(Element, c))
      /\ (\A i \in Index : Congruent(h[i], OrZeros[i] + w[i], q)) => Stands(format, params, R!Plus(Element, c), h)
      /\ (\A i \in Index : Congruent(h[i], OrZeros[i] - w[i], q)) => Stands(format, params, R!Minus(Element, c), h)
  BY <1>2, CurrentElement, StandsSums DEF q
<1>4. Ring!Constant(b) = c /\ Ring!Plus(Element, c) = R!Plus(Element, c) /\ Ring!Minus(Element, c) = R!Minus(Element, c)
  BY OneRing DEF c
<1> QED BY <1>1, <1>3, <1>4, GivenStep

\* An integer added to the first coefficient, or to every evaluation, is the
\* same constant of the ring.
LEMMA PlusIntStep ==
  ASSUME PolyInv, NEW b \in Int, PlusInt(b)
  PROVE  PolyInv' /\ Ring!Next
<1> DEFINE w == [i \in Index |-> IF format = COEFFICIENT /\ i # 0 THEN 0 ELSE b % q]
           h == [i \in Index |-> IF format = COEFFICIENT
                                 THEN IF i = 0 THEN ModAdd(values[i], b, q) ELSE values[i]
                                 ELSE ModAddFast(values[i], b % q, q)]
<1>1. values' = h /\ UNCHANGED <<format, params>> /\ Called("Plus", R!Constant(b)) /\ values # Null /\ OrZeros = values
  <2>1. NotEmpty /\ Called("Plus", R!Constant(b))
    BY DEF PlusInt, EntriesAt, Entrywise
  <2>2. CASE format = COEFFICIENT
    BY <2>1, <2>2, CurrentElement DEF PlusInt, EntriesAt, Entrywise, NotEmpty
  <2>3. CASE format # COEFFICIENT
    BY <2>1, <2>3, CurrentElement DEF PlusInt, EntriesAt, Entrywise, NotEmpty
  <2> QED BY <2>2, <2>3
<1>2. q \in Nat \ {0} /\ Roomy(q) /\ 0 \in 0 .. q - 1
  BY CurrentElement
<1>3. b % q \in 0 .. q - 1 /\ Congruent(b % q, b, q) /\ b % q \in Int
  <2>1. b % q \in 0 .. q - 1 /\ Congruent(b % q, b, q)
    BY ONLY <1>2, b \in Int, CongruentRelation
  <2> QED BY <2>1
<1>4. \A i \in Index : w[i] = IF format = COEFFICIENT /\ i # 0 THEN 0 ELSE b % q
  OBVIOUS
<1> HIDE DEF w
<1>5. Vector(w) /\ \A i \in Index : Congruent(w[i], IF format = COEFFICIENT THEN R!Constant(b)[i] ELSE b, q)
  <2>1. \A i \in Index : R!Constant(b)[i] = IF i = 0 THEN b ELSE 0
    BY RingFacts DEF R!Constant
  <2>2. Congruent(0, 0, q)
    BY DEF Congruent
  <2> QED BY <1>3, <1>4, <2>1, <2>2 DEF Vector
<1>6. ASSUME NEW i \in Index PROVE h[i] \in 0 .. q /\ Congruent(h[i], OrZeros[i] + w[i], q)
  <2>1. OrZeros[i] \in 0 .. q /\ OrZeros[i] \in Int /\ OrZeros[i] = values[i]
    BY <1>1, CurrentElement DEF Vector
  <2>2. CASE format = COEFFICIENT /\ i # 0
    <3>1. h[i] = OrZeros[i] /\ w[i] = 0
      BY <1>4, <2>1, <2>2
    <3> HIDE DEF h
    <3> QED BY <2>1, <3>1 DEF Congruent
  <2>3. CASE format = COEFFICIENT /\ i = 0
    <3> DEFINE x == OrZeros[i] % q
               y == b % q
    <3>1. h[i] = ModAddFast(x, y, q) /\ w[i] = y
      BY <1>4, <2>1, <2>3 DEF ModAdd
    <3>2. x \in 0 .. q - 1 /\ Congruent(x, OrZeros[i], q)
      BY ONLY <1>2, <2>1, CongruentRelation
    <3>3. x \in 0 .. q /\ y \in 0 .. q - 1 /\ x \in Int /\ y \in Int
      BY <1>2, <1>3, <3>2
    <3> HIDE DEF x, y, h
    <3>4. h[i] \in 0 .. q /\ Congruent(h[i], x + y, q)
      BY ONLY <1>2, <3>1, <3>3, SumEntries
    <3>5. Congruent(x + y, OrZeros[i] + y, q)
      <4>1. Congruent(y, y, q)
        BY DEF Congruent
      <4> QED BY ONLY <1>2, <2>1, <3>2, <3>3, <4>1, CongruentSum
    <3> QED BY ONLY <1>2, <3>1, <3>4, <3>5, CongruentRelation
  <2>4. CASE format # COEFFICIENT
    <3>1. h[i] = ModAddFast(OrZeros[i], b % q, q) /\ w[i] = b % q
      BY <1>4, <2>1, <2>4
    <3> HIDE DEF h
    <3> QED BY ONLY <1>2, <1>3, <2>1, <3>1, SumEntries
  <2> QED BY <2>2, <2>3, <2>4
<1>7. h = [i \in Index |-> h[i]]
  OBVIOUS
<1> HIDE DEF h
<1>8. PolyInv' /\ q' = q /\ Element' = Ring!Modulo(Ring!Plus(Element, Ring!Constant(b)), q)
  BY <1>1, <1>5, <1>6, <1>7, ConstantStep
<1>9. call'.op = "Plus" /\ call'.arg = Ring!Constant(b)
  BY <1>1, OneRing DEF Called
<1> QED BY <1>8, <1>9 DEF Ring!Next, Ring!Solves, Ring!Is, Ring!Becomes, Ring!Arg

\* An integer taken from every evaluation is the constant taken from the
\* element.
LEMMA MinusIntStep ==
  ASSUME PolyInv, NEW b \in Int, MinusInt(b)
  PROVE  PolyInv' /\ Ring!Next
<1> DEFINE w == [i \in Index |-> b % q]
           h == [i \in Index |-> ModSubFast(values[i], b % q, q)]
<1>1. /\ values' = h /\ UNCHANGED <<format, params>> /\ Called("Minus", R!Constant(b)) /\ values # Null
      /\ OrZeros = values /\ format # COEFFICIENT
  BY CurrentElement DEF MinusInt, Entrywise, NotEmpty, COEFFICIENT, EVALUATION
<1>2. q \in Nat \ {0} /\ Roomy(q)
  BY CurrentElement
<1>3. b % q \in 0 .. q - 1 /\ Congruent(b % q, b, q) /\ b % q \in Int
  <2>1. b % q \in 0 .. q - 1 /\ Congruent(b % q, b, q)
    BY ONLY <1>2, b \in Int, CongruentRelation
  <2> QED BY <2>1
<1>4. Vector(w) /\ \A i \in Index : Congruent(w[i], IF format = COEFFICIENT THEN R!Constant(b)[i] ELSE b, q)
  BY <1>1, <1>3 DEF Vector
<1>5. ASSUME NEW i \in Index PROVE h[i] \in 0 .. q /\ Congruent(h[i], OrZeros[i] - w[i], q)
  <2>1. OrZeros[i] \in 0 .. q
    BY CurrentElement
  <2>2. h[i] = ModSubFast(OrZeros[i], b % q, q) /\ w[i] = b % q
    BY <1>1
  <2> HIDE DEF h, w
  <2> QED BY ONLY <1>2, <1>3, <2>1, <2>2, SumEntries
<1>6. h = [i \in Index |-> h[i]]
  OBVIOUS
<1> HIDE DEF h, w
<1>7. PolyInv' /\ q' = q /\ Element' = Ring!Modulo(Ring!Minus(Element, Ring!Constant(b)), q)
  BY <1>1, <1>4, <1>5, <1>6, ConstantStep
<1>8. call'.op = "Minus" /\ call'.arg = Ring!Constant(b)
  BY <1>1, OneRing DEF Called
<1> QED BY <1>7, <1>8 DEF Ring!Next, Ring!Solves, Ring!Is, Ring!Becomes, Ring!Arg

\* One added to every evaluation adds the one of the ring.
LEMMA AddOneStep ==
  ASSUME PolyInv, AddILElementOne
  PROVE  PolyInv' /\ Ring!Next
<1> DEFINE w == [i \in Index |-> 1]
           h == [i \in Index |-> ModAddFast(values[i], 1, q)]
<1>1. /\ values' = h /\ UNCHANGED <<format, params>> /\ Called("Plus", R!Constant(1)) /\ values # Null
      /\ OrZeros = values /\ format # COEFFICIENT
  BY CurrentElement DEF AddILElementOne, Entrywise, NotEmpty, COEFFICIENT, EVALUATION
<1>2. q \in Nat \ {0} /\ Roomy(q) /\ 1 \in 0 .. q - 1
  BY CurrentElement
<1>3. Vector(w) /\ \A i \in Index : Congruent(w[i], IF format = COEFFICIENT THEN R!Constant(1)[i] ELSE 1, q)
  BY <1>1 DEF Vector, Congruent
<1>4. ASSUME NEW i \in Index PROVE h[i] \in 0 .. q /\ Congruent(h[i], OrZeros[i] + w[i], q)
  <2>1. OrZeros[i] \in 0 .. q
    BY CurrentElement
  <2>2. h[i] = ModAddFast(OrZeros[i], 1, q) /\ w[i] = 1
    BY <1>1
  <2> HIDE DEF h, w
  <2> QED BY ONLY <1>2, <2>1, <2>2, SumEntries
<1>5. h = [i \in Index |-> h[i]]
  OBVIOUS
<1> HIDE DEF h, w
<1>6. PolyInv' /\ q' = q /\ Element' = Ring!Modulo(Ring!Plus(Element, Ring!Constant(1)), q)
  BY <1>1, <1>3, <1>4, <1>5, ConstantStep, 1 \in Int
<1>7. call'.op = "Plus" /\ call'.arg = Ring!Constant(1)
  BY <1>1, OneRing DEF Called
<1> QED BY <1>6, <1>7 DEF Ring!Next, Ring!Solves, Ring!Is, Ring!Becomes, Ring!Arg

\* A factor of either sign is taken for its residue.
LEMMA SignedFactorCongruent ==
  ASSUME Roomy(q), NEW b \in Int
  PROVE  SignedFactor(b) \in Int /\ Congruent(SignedFactor(b), b, q)
<1> DEFINE s == IF b < 0 THEN -b ELSE b
           r == IF s > q THEN s % q ELSE s
<1>1. q \in Nat \ {0}
  BY RoomyFacts
<1>2. SignedFactor(b) = IF b < 0 THEN q - r ELSE r
  BY DEF SignedFactor
<1>3. s \in Int
  OBVIOUS
<1> HIDE DEF s
<1>4. s % q \in 0 .. q - 1 /\ Congruent(s % q, s, q) /\ Congruent(s, s, q)
  BY ONLY <1>1, <1>3, CongruentRelation
<1>5. r \in Int /\ Congruent(r, s, q)
  BY <1>1, <1>3, <1>4
<1> HIDE DEF r
<1>6. CASE b < 0
  <2>1. SignedFactor(b) = q - r /\ s = -b
    BY <1>2, <1>6 DEF s
  <2>2. Congruent(q, 0, q)
    BY RoomyFacts
  <2>3. Congruent(q - r, 0 - s, q)
    BY ONLY <1>1, <1>3, <1>5, <2>2, CongruentDifference, 0 \in Int
  <2>4. 0 - s = b /\ q - r \in Int
    BY <1>1, <1>5, <2>1
  <2> QED BY <2>1, <2>3, <2>4
<1>7. CASE ~(b < 0)
  BY <1>2, <1>5, <1>7 DEF s
<1> QED BY <1>6, <1>7

\* A factor, signed or above the modulus, multiplies the element.
LEMMA TimesIntStep ==
  ASSUME PolyInv, NEW b \in Int, TimesInt(b)
  PROVE  PolyInv' /\ Ring!Next
<1> DEFINE s == SignedFactor(b)
           h == [i \in Index |-> EltwiseFMAMod(values[i], s % q, q)]
<1>1. values' = h /\ UNCHANGED <<format, params>> /\ Called("TimesInt", b) /\ values # Null /\ OrZeros = values
  BY CurrentElement DEF TimesInt, Entrywise, NotEmpty
<1>2. q \in Nat \ {0} /\ Roomy(q)
  BY CurrentElement
<1>3. s \in Int /\ Congruent(s, b, q)
  BY <1>2, SignedFactorCongruent
<1>4. h = [i \in Index |-> h[i]]
  OBVIOUS
<1> HIDE DEF s
<1>5. ASSUME NEW i \in Index PROVE h[i] \in 0 .. q /\ Congruent(h[i], OrZeros[i] * b, q)
  <2>1. OrZeros[i] \in Int
    BY CurrentElement DEF Vector
  <2>2. h[i] = EltwiseFMAMod(OrZeros[i], s % q, q)
    BY <1>1
  <2> HIDE DEF h
  <2>3. h[i] \in 0 .. q /\ Congruent(h[i], OrZeros[i] * s, q)
    BY ONLY <1>2, <1>3, <2>1, <2>2, ProductEntries
  <2>4. Congruent(OrZeros[i] * s, OrZeros[i] * b, q)
    <3>1. Congruent(OrZeros[i], OrZeros[i], q)
      BY DEF Congruent
    <3> QED BY ONLY <1>2, <1>3, <2>1, <3>1, CongruentProduct, b \in Int
  <2> QED BY ONLY <1>2, <2>3, <2>4, CongruentRelation
<1> HIDE DEF h
<1>6. Given(h) /\ h \in [Index -> 0 .. q]
  BY <1>1, <1>4, <1>5, EntriesStep
<1>7. Vector(R!Scaled(Element, b)) /\ Stands(format, params, R!Scaled(Element, b), h)
  BY <1>5, CurrentElement, StandsScaled DEF q
<1>8. PolyInv' /\ q' = q /\ Element' = Ring!Modulo(Ring!Scaled(Element, b), q)
  BY <1>6, <1>7, GivenStep, OneRing
<1>9. call'.op = "TimesInt" /\ call'.arg = b
  BY <1>1 DEF Called
<1> QED BY <1>8, <1>9 DEF Ring!Next, Ring!Solves, Ring!Is, Ring!Becomes, Ring!Arg

-----------------------------------------------------------------------------
(* Automorphisms and functions of single entries.                          *)

\* The two branches of the automorphism do the same to the element, and a
\* zero that is negated into the modulus stands for zero.
LEMMA AutomorphismStep ==
  ASSUME PolyInv, NEW k \in Nat, k % 2 = 1, AutomorphismTransform(k)
  PROVE  PolyInv' /\ Ring!Next
<1> DEFINE h == IF format = EVALUATION THEN Permuted(k) ELSE Negacyclic(k)
<1>1. Given(h) /\ Called("AtPower", k) /\ values # Null /\ OrZeros = values
  BY CurrentElement DEF AutomorphismTransform, NotEmpty
<1>2. q \in Nat \ {0} /\ Roomy(q) /\ Vector(Element) /\ Vector(values) /\ values \in [Index -> 0 .. q] /\ params \in Params
  BY <1>1, CurrentElement
<1>3. Vector(R!AtPower(Element, k))
  BY <1>2, AtPowerEntries
<1>4. h \in [Index -> 0 .. q] /\ Stands(format, params, R!AtPower(Element, k), h)
  <2>1. CASE format = EVALUATION
    <3>1. ASSUME NEW i \in Index
          PROVE  /\ h[i] = values[ReverseBits(Source(k, i))]
                 /\ ReverseBits(Source(k, i)) \in Index
      <4>1. ReverseBits(i) \in Index
        BY ReversalInvolutive
      <4>2. ReverseBits(Source(k, i)) \in Index
        BY <1>2, PowerOfPoint
      <4> QED BY <2>1, <4>1, <4>2 DEF Permuted, Source
    <3>2. h = [i \in Index |-> h[i]]
      BY <2>1 DEF Permuted
    <3> HIDE DEF h
    <3>3. h \in [Index -> 0 .. q]
      BY <1>2, <3>1, <3>2
    <3>4. Evaluates(params, Element, values) /\ format # COEFFICIENT
      BY <1>1, <2>1, CurrentElement DEF Stands, EVALUATION, COEFFICIENT
    <3>5. Evaluates(params, R!AtPower(Element, k), h)
      BY <1>2, <3>1, <3>4, EvaluatesAtPower
    <3> QED BY <3>3, <3>4, <3>5 DEF Stands
  <2>2. CASE format # EVALUATION
    <3>1. format = COEFFICIENT
      BY <2>2, CurrentElement
    <3>2. ASSUME NEW i \in Index
          PROVE  h[i] = IF ((k * From(k, i)) \div N) % 2 = 1 THEN Wrap(q - values[From(k, i)]) ELSE values[From(k, i)]
      BY <2>2 DEF Negacyclic, From
    <3>3. h = [i \in Index |-> h[i]]
      BY <2>2 DEF Negacyclic
    <3> HIDE DEF h
    <3>4. ASSUME NEW i \in Index PROVE h[i] \in 0 .. q /\ Congruent(h[i], R!AtPower(Element, k)[i], q)
      <4> DEFINE j == From(k, i)
                 e == Element[j]
                 x == values[j]
      <4>1. R!AtPower(Element, k)[i] = IF ((k * j) \div N) % 2 = 1 THEN -e ELSE e
        BY <1>2, AtPowerEntries
      <4>2. j \in Index
        BY OddPermutes
      <4>3. x \in 0 .. q /\ x \in Int /\ e \in Int /\ Congruent(x, e, q)
        BY <1>1, <1>2, <3>1, <4>2, CurrentElement DEF Vector, Stands, Same, q
      <4>4. h[i] = IF ((k * j) \div N) % 2 = 1 THEN Wrap(q - x) ELSE x
        BY <3>2
      <4> HIDE DEF j, e, x
      <4>5. q - x \in 0 .. q /\ q - x \in 0 .. 4 * q /\ q - x \in Int
        BY <1>2, <4>3
      <4>6. Wrap(q - x) = q - x
        BY <1>2, <4>5, RoomyFacts
      <4>7. Congruent(q - x, 0 - e, q)
        <5>1. Congruent(q, 0, q)
          BY <1>2, RoomyFacts
        <5> QED BY ONLY <1>2, <4>3, <5>1, CongruentDifference, 0 \in Int
      <4>8. 0 - e = -e
        BY <4>3
      <4> QED BY <4>1, <4>3, <4>4, <4>5, <4>6, <4>7, <4>8
    <3> QED BY <3>1, <3>3, <3>4 DEF Stands, Same, q
  <2> QED BY <2>1, <2>2
<1> HIDE DEF h
<1>5. PolyInv' /\ q' = q /\ Element' = Ring!Modulo(Ring!AtPower(Element, k), q)
  BY <1>1, <1>3, <1>4, GivenStep, OneRing
<1>6. call'.op = "AtPower" /\ call'.arg = k
  BY <1>1 DEF Called
<1> QED BY <1>5, <1>6 DEF Ring!Next, Ring!Solves, Ring!Is, Ring!Becomes, Ring!Arg

\* The inverse of every value gives the inverse of the element.
LEMMA InverseStep ==
  ASSUME PolyInv, MultiplicativeInverse
  PROVE  PolyInv' /\ Ring!Next
<1> DEFINE h == [i \in Index |-> InverseOf(values[i], q)]
           ones == [i \in Index |-> 1]
           T == R!Times(Element, Element')
<1>1. /\ values' = h /\ UNCHANGED <<format, params>> /\ Called("Inverse", 0) /\ values # Null /\ OrZeros = values
      /\ format # COEFFICIENT /\ \A i \in Index : HasInverse(values[i], q)
  BY CurrentElement DEF MultiplicativeInverse, Entrywise, NotEmpty, COEFFICIENT, EVALUATION
<1>2. q \in Nat \ {0} /\ q \in Nat \ {0, 1} /\ Roomy(q) /\ params \in Params /\ Vector(Element) /\ Vector(values)
  BY <1>1, CurrentElement
<1>3. ASSUME NEW i \in Index PROVE h[i] \in 0 .. q - 1 /\ (values[i] * h[i]) % q = 1 /\ h[i] \in 0 .. q
  <2>1. \E y \in 0 .. q - 1 : (values[i] * y) % q = 1
    BY <1>1 DEF HasInverse
  <2>2. InverseOf(values[i], q) \in 0 .. q - 1 /\ (values[i] * InverseOf(values[i], q)) % q = 1
    BY <2>1 DEF InverseOf
  <2> QED BY <1>2, <2>2
<1>4. h = [i \in Index |-> h[i]]
  OBVIOUS
<1> HIDE DEF h
<1>5. Given(h) /\ h \in [Index -> 0 .. q] /\ Vector(h)
  <2>1. Vector(h)
    BY <1>3 DEF Vector
  <2> QED BY <1>1, <1>3, <1>4, <2>1, EntriesStep
<1>6. PolyInv' /\ q' = q /\ Element' \in [Index -> 0 .. q - 1] /\ Vector(Element') /\ Stands(format, params, Element', h)
  BY <1>5, GivenStep
<1>7. Vector(T) /\ Evaluates(params, T, ones)
  <2>1. Evaluates(params, Element, values) /\ Evaluates(params, Element', h)
    BY <1>1, <1>6, CurrentElement DEF Stands
  <2>2. \A i \in Index : Congruent(ones[i], values[i] * h[i], params.modulus)
    <3>1. 1 % q = 1
      <4>1. 1 \in 0 .. q - 1
        BY <1>2
      <4> QED BY <1>2, <4>1, Remainders
    <3> QED BY <1>3, <3>1 DEF Congruent, q
  <2> HIDE DEF ones
  <2> QED BY <1>2, <1>5, <1>6, <2>1, <2>2, EvaluatesTimes
<1>8. Vector(R!Constant(1)) /\ Evaluates(params, R!Constant(1), ones) /\ Vector(ones)
  <2>1. \A i \in Index : Congruent(ones[i], 1, params.modulus)
    BY DEF Congruent
  <2>2. Vector(ones)
    BY DEF Vector
  <2> HIDE DEF ones
  <2> QED BY <1>2, <2>1, <2>2, EvaluatesConstant, 1 \in Int
<1>9. R!Modulo(T, q) = R!Modulo(R!Constant(1), q)
  <2>1. Stands(format, params, T, ones) /\ Stands(format, params, R!Constant(1), ones)
    BY <1>1, <1>7, <1>8 DEF Stands
  <2> HIDE DEF ones, T
  <2>2. ElementOf(format, params, ones) = R!Modulo(T, q) /\ ElementOf(format, params, ones) = R!Modulo(R!Constant(1), q)
    BY <1>2, <1>7, <1>8, <2>1, ElementStands DEF q
  <2> QED BY <2>2
<1>10. R!Modulo(R!Constant(1), q) = R!Constant(1)
  <2>1. R!Constant(1) \in [Index -> 0 .. q - 1]
    BY <1>2, RingFacts DEF R!Constant
  <2> QED BY <1>2, <2>1, ModuloFixed
<1>11. Ring!Modulo(Ring!Times(Element, Element'), q) = Ring!Constant(1)
  BY <1>9, <1>10, OneRing
<1>12. Element' \in Ring!Ring(q)
  BY <1>6, RingFacts, OneRing DEF R!Ring
<1>13. call'.op = "Inverse"
  BY <1>1 DEF Called
<1> QED BY <1>6, <1>11, <1>12, <1>13 DEF Ring!Next, Ring!Solves, Ring!Is, Ring!Becomes, Ring!Arg

\* Coefficients set to zero are those of the sparse element.
LEMMA SparseStep ==
  ASSUME PolyInv, NEW w \in 1 .. N, MakeSparse(w)
  PROVE  PolyInv' /\ Ring!Next
<1> DEFINE h == [i \in Index |-> IF i % w # 0 THEN 0 ELSE values[i]]
<1>1. /\ values' = h /\ UNCHANGED <<format, params>> /\ Called("Sparse", w) /\ values # Null /\ OrZeros = values
      /\ format = COEFFICIENT
  BY CurrentElement DEF MakeSparse, EntriesAt, NotEmpty
<1>2. q \in Nat \ {0} /\ params \in Params /\ Vector(Element) /\ values \in [Index -> 0 .. q]
  BY <1>1, CurrentElement
<1>3. \A i \in Index : R!Sparse(Element, w)[i] = IF i % w = 0 THEN Element[i] ELSE 0
  BY RingFacts DEF R!Sparse
<1>4. ASSUME NEW i \in Index
      PROVE  h[i] \in 0 .. q /\ Congruent(h[i], R!Sparse(Element, w)[i], q) /\ R!Sparse(Element, w)[i] \in Int
  <2>1. Congruent(values[i], Element[i], q) /\ values[i] \in 0 .. q /\ Element[i] \in Int /\ 0 \in 0 .. q
    BY <1>1, <1>2, CurrentElement DEF Vector, Stands, Same, q
  <2>2. Congruent(0, 0, q)
    BY DEF Congruent
  <2> QED BY <1>3, <2>1, <2>2
<1>5. h = [i \in Index |-> h[i]]
  OBVIOUS
<1> HIDE DEF h
<1>6. Given(h) /\ h \in [Index -> 0 .. q]
  BY <1>1, <1>4, <1>5, EntriesStep
<1>7. Vector(R!Sparse(Element, w)) /\ Stands(format, params, R!Sparse(Element, w), h)
  BY <1>1, <1>4 DEF Vector, Stands, Same, q
<1>8. PolyInv' /\ q' = q /\ Element' = Ring!Modulo(Ring!Sparse(Element, w), q)
  BY <1>6, <1>7, GivenStep, OneRing
<1>9. call'.op = "Sparse" /\ call'.arg = w
  BY <1>1 DEF Called
<1> QED BY <1>8, <1>9 DEF Ring!Next, Ring!Solves, Ring!Is, Ring!Becomes, Ring!Arg

\* The centred coefficients are those of the entries.
LEMMA CentredEntries ==
  ASSUME NEW M, Roomy(M), NEW h \in [Index -> 0 .. M]
  PROVE  \A i \in Index : R!Centred(R!Modulo(h, M), M)[i] = Centre(h[i], M) /\ R!Modulo(h, M)[i] = h[i] % M
<1>1. \A i \in Index : R!Modulo(h, M)[i] = h[i] % M
  BY RingFacts DEF R!Modulo
<1>2. \A i \in Index : R!Centred(R!Modulo(h, M), M)[i] =
                         IF R!Modulo(h, M)[i] > M \div 2 THEN R!Modulo(h, M)[i] - M ELSE R!Modulo(h, M)[i]
  BY RingFacts DEF R!Centred
<1>3. ASSUME NEW i \in Index PROVE R!Centred(R!Modulo(h, M), M)[i] = Centre(h[i], M)
  <2>1. R!Centred(R!Modulo(h, M), M)[i] = IF h[i] % M > M \div 2 THEN (h[i] % M) - M ELSE h[i] % M
    BY <1>1, <1>2
  <2>2. h[i] \in 0 .. M
    OBVIOUS
  <2> QED BY ONLY <2>1, <2>2, CentreOfEntry, Roomy(M)
<1> QED BY <1>1, <1>3

\* Coefficients: the element is what the entries are modulo q.
LEMMA CoefficientElement ==
  ASSUME PolyInv, values # Null, format = COEFFICIENT
  PROVE  /\ values \in [Index -> 0 .. q] /\ Roomy(q) /\ params \in Params
         /\ Element = R!Modulo(values, q)
         /\ \A i \in Index : Ring!Lifted[i] = Centre(values[i], q) /\ Centre(values[i], q) \in Int
                             /\ values[i] \in 0 .. q /\ Element[i] = values[i] % q
<1>1. OrZeros = values /\ values \in [Index -> 0 .. q] /\ Roomy(q) /\ params \in Params
      /\ Element = ElementOf(format, params, OrZeros)
  BY CurrentElement
<1>2. Element = R!Modulo(values, q)
  BY <1>1 DEF ElementOf, q
<1>3. Ring!Lifted = R!Centred(R!Modulo(values, q), q)
  BY <1>2, OneRing DEF Ring!Lifted
<1>4. ASSUME NEW i \in Index PROVE Centre(values[i], q) \in Int /\ values[i] \in 0 .. q
  <2>1. values[i] \in 0 .. q
    BY <1>1
  <2> QED BY ONLY <1>1, <2>1, CentreOfEntry
<1> QED BY <1>1, <1>2, <1>3, <1>4, CentredEntries

\* Coefficients that are given.
LEMMA CoefficientsGiven ==
  ASSUME PolyInv, format = COEFFICIENT, NEW h \in [Index -> 0 .. q], Given(h)
  PROVE  /\ PolyInv' /\ q' = q /\ Element' \in Ring!Ring(q) /\ Element' = R!Modulo(h, q)
         /\ \A i \in Index : Ring!Centred(Element', q)[i] = Centre(h[i], q)
<1>1. Roomy(q) /\ q \in Int
  BY CurrentElement
<1>2. Vector(h)
  BY ONLY <1>1, NotNull, h \in [Index -> 0 .. q]
<1>3. Stands(format, params, h, h)
  BY DEF Stands, Same, Congruent
<1>4. PolyInv' /\ q' = q /\ Element' = R!Modulo(h, q) /\ Element' \in [Index -> 0 .. q - 1]
  BY <1>2, <1>3, GivenStep, OneRing
<1>5. Element' \in Ring!Ring(q)
  BY <1>4, RingFacts, OneRing DEF R!Ring
<1>6. Ring!Centred(Element', q) = R!Centred(R!Modulo(h, q), q)
  BY <1>4, OneRing
<1> QED BY <1>1, <1>4, <1>5, <1>6, CentredEntries

\* A reduction of the coefficients reduces the centred element.
LEMMA ModStep ==
  ASSUME PolyInv, NEW m \in Int, m > 1, Mod(m)
  PROVE  PolyInv' /\ Ring!Next
<1> DEFINE h == [i \in Index |-> ModEntry(values[i], q, m)]
<1>1. /\ values' = h /\ UNCHANGED <<format, params>> /\ Called("Mod", m) /\ values # Null
      /\ format = COEFFICIENT /\ m < q /\ q % 2 = 1
  BY DEF Mod, Entrywise, NotEmpty
<1>2. m \in Nat \ {0, 1} /\ Roomy(q)
  BY <1>1, CoefficientElement
<1>3. ASSUME NEW i \in Index PROVE h[i] = Ring!Lifted[i] % m /\ h[i] \in 0 .. q
  <2>1. h[i] = ModEntry(values[i], q, m)
    OBVIOUS
  <2> HIDE DEF h
  <2>2. Ring!Lifted[i] = Centre(values[i], q) /\ values[i] \in 0 .. q
    BY <1>1, CoefficientElement
  <2> QED BY ONLY <1>1, <1>2, <2>1, <2>2, ModEntries
<1>4. h = [i \in Index |-> h[i]]
  OBVIOUS
<1> HIDE DEF h
<1>5. Given(h) /\ h \in [Index -> 0 .. q]
  BY <1>1, <1>3, <1>4, EntriesStep
<1>6. h = R!Modulo(Ring!Lifted, m)
  BY <1>3, <1>4, RingFacts DEF R!Modulo
<1>7. PolyInv' /\ q' = q /\ Element' = Ring!Modulo(Ring!Modulo(Ring!Lifted, m), q)
  BY <1>1, <1>5, <1>6, CoefficientsGiven, OneRing
<1>8. call'.op = "Mod" /\ call'.arg = m
  BY <1>1 DEF Called
<1> QED BY <1>7, <1>8 DEF Ring!Next, Ring!Solves, Ring!Is, Ring!Becomes, Ring!Arg

\* Entries that are near the quotients make an element that is.
LEMMA RoundedStep ==
  ASSUME PolyInv, values # Null, format = COEFFICIENT, NEW p, NEW d,
         NEW h, h = [i \in Index |-> h[i]], values' = h, UNCHANGED <<format, params>>, Called("Round", [p |-> p, q |-> d]),
         \A i \in Index : h[i] \in 0 .. q /\ 2 * (Centre(h[i], q) * d - Centre(values[i], q) * p) \in -d .. d
  PROVE  PolyInv' /\ Ring!Next
<1>1. Given(h) /\ h \in [Index -> 0 .. q]
  BY EntriesStep
<1>2. /\ PolyInv' /\ q' = q /\ Element' \in Ring!Ring(q)
      /\ \A i \in Index : Ring!Centred(Element', q)[i] = Centre(h[i], q)
  BY <1>1, CoefficientsGiven
<1>3. \A i \in Index : Ring!Lifted[i] = Centre(values[i], q)
  BY CoefficientElement
<1>4. R!Nearest(Ring!Centred(Element', q), Ring!Lifted, p, d)
  BY <1>2, <1>3, RingFacts DEF R!Nearest
<1>5. Ring!Nearest(Ring!Centred(Element', q), Ring!Lifted, p, d)
  BY <1>4, OneRing
<1>6. call'.op = "Round" /\ call'.arg.p = p /\ call'.arg.q = d
  BY DEF Called
<1> QED BY <1>2, <1>5, <1>6 DEF Ring!Next, Ring!Solves, Ring!Is, Ring!Becomes, Ring!Arg

\* A division of the coefficients ends nearest to the quotients.
LEMMA DivideStep ==
  ASSUME PolyInv, NEW d \in Scalars, DivideAndRound(d)
  PROVE  PolyInv' /\ Ring!Next
<1> DEFINE h == [i \in Index |-> DivideEntry(values[i], q, d)]
<1>1. /\ values' = h /\ UNCHANGED <<format, params>> /\ Called("Round", [p |-> 1, q |-> d]) /\ values # Null
      /\ format = COEFFICIENT /\ d > 0
  BY DEF DivideAndRound, Entrywise, NotEmpty
<1>2. d \in Word /\ d # 0
  BY <1>1, PolyAssumption, WordSize
<1>3. ASSUME NEW i \in Index
      PROVE  h[i] \in 0 .. q /\ 2 * (Centre(h[i], q) * d - Centre(values[i], q) * 1) \in -d .. d
  <2>1. h[i] = DivideEntry(values[i], q, d)
    OBVIOUS
  <2> HIDE DEF h
  <2>2. Roomy(q) /\ values[i] \in 0 .. q
    BY <1>1, CoefficientElement
  <2> QED BY ONLY <1>2, <2>1, <2>2, DivideEntries
<1>4. h = [i \in Index |-> h[i]]
  OBVIOUS
<1> HIDE DEF h
<1> QED BY <1>1, <1>3, <1>4, RoundedStep

\* A product with a fraction, rounded in doubles, ends nearest to the
\* products.
LEMMA MultiplyStep ==
  ASSUME PolyInv, NEW p \in Scalars, NEW d \in Scalars, MultiplyAndRound(p, d)
  PROVE  PolyInv' /\ Ring!Next
<1> DEFINE r == [i \in Index |-> MultiplyEntry(values[i], q, p, d)]
           h == values'
<1>1. /\ UNCHANGED <<format, params>> /\ Called("Round", [p |-> p, q |-> d]) /\ values # Null
      /\ format = COEFFICIENT /\ 0 < p /\ p < d
      /\ h \in {v \in [Index -> UNION Range(r)] : \A i \in Index : v[i] \in r[i]}
  BY DEF MultiplyAndRound, NotEmpty
<1>2. d \in Nat \ {0} /\ p \in 0 .. d
  BY <1>1, PolyAssumption, WordSize
<1>3. h = [i \in Index |-> h[i]] /\ \A i \in Index : h[i] \in MultiplyEntry(values[i], q, p, d)
  BY <1>1
<1>4. ASSUME NEW i \in Index
      PROVE  h[i] \in 0 .. q /\ 2 * (Centre(h[i], q) * d - Centre(values[i], q) * p) \in -d .. d
  <2>1. Roomy(q) /\ values[i] \in 0 .. q /\ h[i] \in MultiplyEntry(values[i], q, p, d)
    BY <1>1, <1>3, CoefficientElement
  <2> QED BY ONLY <1>2, <2>1, MultiplyEntries
<1> QED BY <1>1, <1>3, <1>4, RoundedStep

-----------------------------------------------------------------------------
(* Changes of the modulus and of the format.                               *)

\* A switch of modulus keeps the centred element, into a larger modulus or a
\* smaller one.
LEMMA SwitchModulusStep ==
  ASSUME PolyInv, NEW p \in Params, SwitchModulus(p)
  PROVE  PolyInv' /\ Ring!Next
<1> DEFINE n == p.modulus
           h == [i \in Index |-> SwitchEntry(values[i], q, n)]
<1>1. values' = h /\ params' = p /\ format' = format /\ Called("Switch", n) /\ values # Null /\ format = COEFFICIENT
  BY DEF SwitchModulus, NotEmpty
<1>2. Roomy(q) /\ Roomy(n) /\ \A i \in Index : values[i] \in 0 .. q /\ Ring!Lifted[i] = Centre(values[i], q) /\ Centre(values[i], q) \in Int
  BY <1>1, CoefficientElement, ModuliRoomy
<1>3. ASSUME NEW i \in Index PROVE h[i] \in 0 .. n /\ Congruent(h[i], Ring!Lifted[i], n)
  <2>1. h[i] = SwitchEntry(values[i], q, n)
    OBVIOUS
  <2> HIDE DEF h, n
  <2> QED BY ONLY <1>2, <2>1, SwitchEntries, i \in Index
<1>4. h = [i \in Index |-> h[i]]
  OBVIOUS
<1> HIDE DEF h
<1>5. h \in [Index -> 0 .. p.modulus]
  BY <1>3, <1>4
<1>6. Vector(Ring!Lifted) /\ Stands(COEFFICIENT, p, Ring!Lifted, h)
  BY <1>2, <1>3 DEF Vector, Stands, Same
<1>7. PolyInv' /\ q' = n /\ Element' = Ring!Modulo(Ring!Lifted, n)
  <2>1. format' = COEFFICIENT /\ COEFFICIENT \in {COEFFICIENT, EVALUATION}
    BY <1>1
  <2> QED BY <1>1, <1>5, <1>6, <2>1, StepTo
<1>8. call'.op = "Switch" /\ call'.arg = n
  BY <1>1 DEF Called
<1> QED BY <1>7, <1>8 DEF Ring!Next, Ring!Solves, Ring!Is, Ring!Moves, Ring!Arg

\* A lazy switch reduces the coefficients modulo the new modulus.
LEMMA LazySwitchStep ==
  ASSUME PolyInv, NEW p \in Params, LazySwitchModulus(p)
  PROVE  PolyInv' /\ Ring!Next
<1> DEFINE n == p.modulus
           h == [i \in Index |-> EltwiseReduceMod(values[i], n)]
<1>1. /\ values' = h /\ params' = p /\ format' = format /\ Called("Reduce", n) /\ values # Null /\ format = COEFFICIENT
      /\ \A i \in DOMAIN values : values[i] < q
  BY DEF LazySwitchModulus, NotEmpty
<1>2. /\ q \in Nat \ {0} /\ n \in Nat \ {0} /\ Vector(Element)
      /\ \A i \in Index : values[i] \in 0 .. q /\ values[i] < q /\ Element[i] = values[i] % q
  <2>1. DOMAIN values = Index
    BY <1>1, CoefficientElement
  <2> QED BY <1>1, <2>1, CoefficientElement, CurrentElement, RingFacts
<1>3. ASSUME NEW i \in Index PROVE h[i] \in 0 .. n /\ Congruent(h[i], Element[i], n)
  <2>1. values[i] \in 0 .. q - 1
    BY <1>2
  <2>2. Element[i] = values[i] /\ values[i] \in Int
    <3>1. values[i] % q = values[i]
      BY ONLY <1>2, <2>1, Remainders
    <3> QED BY <1>2, <2>1, <3>1
  <2>3. values[i] % n \in 0 .. n - 1 /\ Congruent(values[i] % n, values[i], n)
    BY ONLY <1>2, <2>2, CongruentRelation
  <2>4. values[i] % n \in 0 .. n
    BY <1>2, <2>3
  <2>5. h[i] = values[i] % n
    BY DEF EltwiseReduceMod
  <2> QED BY <2>2, <2>3, <2>4, <2>5
<1>4. h = [i \in Index |-> h[i]]
  OBVIOUS
<1> HIDE DEF h
<1>5. h \in [Index -> 0 .. p.modulus]
  BY <1>3, <1>4
<1>6. Stands(COEFFICIENT, p, Element, h)
  BY <1>3 DEF Stands, Same
<1>7. PolyInv' /\ q' = n /\ Element' = Ring!Modulo(Element, n)
  <2>1. format' = COEFFICIENT /\ COEFFICIENT \in {COEFFICIENT, EVALUATION}
    BY <1>1
  <2> QED BY <1>1, <1>2, <1>5, <1>6, <2>1, StepTo
<1>8. call'.op = "Reduce" /\ call'.arg = n
  BY <1>1 DEF Called
<1> QED BY <1>7, <1>8 DEF Ring!Next, Ring!Solves, Ring!Is, Ring!Moves, Ring!Arg

\* The transforms there and back leave the element what it is.
LEMMA TransformedStep ==
  ASSUME PolyInv, SwitchFormat, Exact
  PROVE  PolyInv' /\ Ring!Next
<1> DEFINE f == IF format = COEFFICIENT THEN EVALUATION ELSE COEFFICIENT
           h == IF format = COEFFICIENT THEN ForwardTransform(values, params) ELSE InverseTransform(values, params)
<1>1. /\ params \in Params /\ q \in Nat \ {0, 1} /\ OrZeros = values /\ values \in [Index -> 0 .. q] /\ Vector(values)
      /\ Element \in [Index -> 0 .. q - 1] /\ Vector(Element) /\ Stands(format, params, Element, values)
  BY CurrentElement DEF SwitchFormat, NotEmpty
<1>2. format' = f /\ params' = params /\ values' = h /\ Called("Keep", 0) /\ q = params.modulus
  BY DEF SwitchFormat, q
<1>3. h \in [Index -> 0 .. q - 1] /\ Stands(f, params, Element, h)
  <2>1. CASE format = COEFFICIENT
    <3>1. h \in [Index -> 0 .. q - 1] /\ Evaluates(params, values, h)
      BY <1>1, <1>2, <2>1, ForwardEvaluates
    <3>2. f # COEFFICIENT
      BY <2>1 DEF EVALUATION, COEFFICIENT
    <3> HIDE DEF h, f
    <3>3. Same(Element, values, params.modulus) /\ Same(h, h, params.modulus)
      BY <1>1, <2>1 DEF Stands, Same, Congruent
    <3>4. Evaluates(params, Element, h)
      BY <1>1, <3>1, <3>3, EvaluatesSame
    <3> QED BY <3>1, <3>2, <3>4 DEF Stands
  <2>2. CASE format # COEFFICIENT
    <3>1. h \in [Index -> 0 .. q - 1] /\ Evaluates(params, h, values) /\ f = COEFFICIENT
      BY <1>1, <1>2, <2>2, InverseEvaluates
    <3> HIDE DEF h, f
    <3>2. Vector(h)
      BY <1>1, <3>1 DEF Vector
    <3>3. Stands(format, params, h, values)
      BY <2>2, <3>1 DEF Stands
    <3>4. R!Modulo(Element, params.modulus) = R!Modulo(h, params.modulus)
      <4>1. ElementOf(format, params, values) = R!Modulo(h, params.modulus)
        BY ONLY <1>1, <3>2, <3>3, ElementStands
      <4>2. ElementOf(format, params, values) = R!Modulo(Element, params.modulus)
        BY ONLY <1>1, ElementStands
      <4> QED BY <4>1, <4>2
    <3>5. \A i \in Index : R!Modulo(Element, params.modulus)[i] = Element[i] % params.modulus
                          /\ R!Modulo(h, params.modulus)[i] = h[i] % params.modulus
      BY RingFacts DEF R!Modulo
    <3>6. Same(h, Element, params.modulus)
      BY <3>4, <3>5 DEF Same, Congruent
    <3> QED BY <3>1, <3>6 DEF Stands
  <2> QED BY <2>1, <2>2
<1>4. h \in [Index -> 0 .. params.modulus] /\ f \in {COEFFICIENT, EVALUATION}
  <2>1. \A x \in 0 .. q - 1 : x \in 0 .. q
    BY <1>1
  <2>2. h \in [Index -> 0 .. q]
    <3> HIDE DEF h
    <3> QED BY <1>3, <2>1
  <2> QED BY <1>2, <2>2
<1> HIDE DEF h, f
<1>5. PolyInv' /\ q' = q /\ Element' = Ring!Modulo(Element, q)
  BY <1>1, <1>2, <1>3, <1>4, StepTo
<1>6. Ring!Modulo(Element, q) = Element
  BY <1>1, ModuloFixed, OneRing
<1>7. call'.op = "Keep"
  BY <1>2 DEF Called
<1> QED BY <1>5, <1>6, <1>7 DEF Ring!Next, Ring!Solves, Ring!Is

\* When the transform throws, the values stay and stand for some element in
\* the format that has been set.
LEMMA SwitchFormatStep ==
  ASSUME PolyInv, SwitchFormat
  PROVE  PolyInv' /\ Ring!Next
<1>1. CASE Exact
  BY <1>1, TransformedStep
<1>2. CASE ~Exact
  <2> DEFINE f == IF format = COEFFICIENT THEN EVALUATION ELSE COEFFICIENT
  <2>1. format' = f /\ params' = params /\ values' = values /\ Called("Spoil", 0) /\ q = params.modulus
    BY <1>2 DEF SwitchFormat, q
  <2>2. f \in {COEFFICIENT, EVALUATION} /\ params \in Params /\ values \in [Index -> 0 .. params.modulus]
    BY <2>1, CurrentElement DEF SwitchFormat, NotEmpty
  <2> HIDE DEF f
  <2>3. PolyInv' /\ q' = q /\ Element' \in [Index -> 0 .. q - 1]
    BY <2>1, <2>2, StepTo
  <2>4. Element' \in Ring!Ring(q)
    BY <2>3, OneRing, RingFacts DEF R!Ring
  <2>5. call'.op = "Spoil"
    BY <2>1 DEF Called
  <2> QED BY <2>3, <2>4, <2>5 DEF Ring!Next, Ring!Solves, Ring!Is
<1> QED BY <1>1, <1>2

-----------------------------------------------------------------------------
(* Assignments.                                                            *)

\* What is assigned is what the new values stand for.
LEMMA AssignedStep ==
  ASSUME NEW f \in {COEFFICIENT, EVALUATION}, NEW p \in Params, NEW h \in [Index -> 0 .. p.modulus],
         format' = f, params' = p, values' = h, NEW x, Vector(x), Stands(f, p, x, h), Called("Assign", x)
  PROVE  PolyInv' /\ Ring!Next
<1>1. PolyInv' /\ q' = p.modulus /\ Element' = Ring!Modulo(x, p.modulus)
  BY StepTo
<1>2. call'.op = "Assign" /\ call'.arg = x
  BY DEF Called
<1> QED BY <1>1, <1>2 DEF Ring!Next, Ring!Solves, Ring!Is, Ring!Moves, Ring!Arg

\* A polynomial that is assigned is the element.
LEMMA AssignPolyStep ==
  ASSUME NEW v \in Assigned, NEW f \in {COEFFICIENT, EVALUATION}, NEW p \in Params, AssignPoly(v, f, p)
  PROVE  PolyInv' /\ Ring!Next
<1> DEFINE h == In(v, f, p)
<1>1. format' = f /\ params' = p /\ values' = h /\ Called("Assign", v)
  BY DEF AssignPoly
<1>2. Vector(v) /\ p.modulus \in Nat \ {0}
  BY RingFacts, PolyAssumption DEF Vector
<1>3. h \in [Index -> 0 .. p.modulus - 1] /\ Stands(f, p, v, h)
  BY <1>2, InStands
<1> HIDE DEF h
<1>4. h \in [Index -> 0 .. p.modulus]
  <2>1. \A x \in 0 .. p.modulus - 1 : x \in 0 .. p.modulus
    BY <1>2
  <2> QED BY <1>3, <2>1
<1> QED BY <1>1, <1>2, <1>3, <1>4, AssignedStep

\* A polynomial that is assigned without values is zero.
LEMMA AssignEmptyStep ==
  ASSUME NEW f \in {COEFFICIENT, EVALUATION}, NEW p \in Params, AssignEmpty(f, p)
  PROVE  PolyInv' /\ Ring!Next
<1>1. format' = f /\ params' = p /\ values' = Null /\ call'.op = "Assign" /\ call'.arg = Zeros
  BY DEF AssignEmpty, Called
<1>2. PolyInv' /\ q' = p.modulus
  BY <1>1 DEF PolyInv, q
<1>3. Element' = Zeros
  BY <1>1 DEF Element, Zeros
<1>4. Ring!Modulo(Zeros, p.modulus) = Zeros
  BY ZerosStand, OneRing
<1> QED BY <1>1, <1>2, <1>3, <1>4 DEF Ring!Next, Ring!Solves, Ring!Is, Ring!Moves, Ring!Arg

\* Signed integers that are assigned are the element, in either format.
LEMMA AssignIntsStep ==
  ASSUME PolyInv, NEW v \in Assigned, AssignInts(v)
  PROVE  PolyInv' /\ Ring!Next
<1> DEFINE h == [i \in Index |-> IF v[i] < 0 THEN Wrap(q - (-v[i])) ELSE v[i]]
<1>1. /\ format' = COEFFICIENT /\ params' = params /\ values' = h /\ Called("Assign", v)
      /\ \A i \in Index : v[i] \in -q .. q
  BY DEF AssignInts
<1>2. params \in Params /\ Roomy(q) /\ q \in Nat \ {0} /\ q = params.modulus
  BY CurrentElement DEF q
<1>3. Vector(v)
  BY RingFacts, PolyAssumption DEF Vector
<1>4. ASSUME NEW i \in Index PROVE h[i] \in 0 .. q /\ Congruent(h[i], v[i], q)
  <2> DEFINE x == v[i]
  <2>1. x \in -q .. q /\ x \in Int /\ h[i] = IF x < 0 THEN Wrap(q - (-x)) ELSE x
    BY <1>1, <1>3 DEF Vector
  <2> HIDE DEF x, h
  <2>2. x < 0 => q - (-x) \in 0 .. q /\ q - (-x) \in 0 .. 4 * q /\ (q - (-x)) - x = q
    BY <1>2, <2>1
  <2>3. x < 0 => Wrap(q - (-x)) = q - (-x)
    BY <1>2, <2>2, RoomyFacts
  <2>4. h[i] \in 0 .. q /\ (h[i] - x = q \/ h[i] = x) /\ h[i] \in Int
    BY <1>2, <2>1, <2>2, <2>3
  <2>5. Congruent(h[i], x, q)
    BY ONLY <1>2, <2>1, <2>4, RoomyFacts
  <2> QED BY <2>4, <2>5 DEF x
<1>5. h = [i \in Index |-> h[i]]
  OBVIOUS
<1> HIDE DEF h
<1>6. h \in [Index -> 0 .. params.modulus] /\ Stands(COEFFICIENT, params, v, h)
  BY <1>2, <1>4, <1>5 DEF Stands, Same
<1> QED BY <1>1, <1>2, <1>3, <1>6, AssignedStep

\* A word that is assigned to every value stands for its element.
LEMMA AssignWordStep ==
  ASSUME PolyInv, NEW b \in Int, AssignWord(b)
  PROVE  PolyInv' /\ Ring!Next
<1> DEFINE h == [i \in Index |-> b]
<1>1. /\ format' = EVALUATION /\ params' = params /\ values' = h /\ Called("Assign", R!Constant(b))
      /\ b \in 0 .. q - 1
  BY DEF AssignWord
<1>2. params \in Params /\ q \in Nat \ {0} /\ q = params.modulus
  BY CurrentElement DEF q
<1>3. h \in [Index -> 0 .. params.modulus] /\ \A i \in Index : h[i] = b
  <2>1. b \in 0 .. q
    BY <1>1, <1>2
  <2> QED BY <1>2, <2>1
<1>4. EVALUATION # COEFFICIENT /\ EVALUATION \in {COEFFICIENT, EVALUATION}
  BY DEF EVALUATION, COEFFICIENT
<1> HIDE DEF h
<1>5. Vector(R!Constant(b)) /\ Stands(EVALUATION, params, R!Constant(b), h)
  <2>1. \A i \in Index : Congruent(h[i], IF EVALUATION = COEFFICIENT THEN R!Constant(b)[i] ELSE b, params.modulus)
    BY <1>3, <1>4 DEF Congruent
  <2> QED BY <1>2, <1>4, <2>1, ConstantStands
<1> QED BY <1>1, <1>2, <1>3, <1>4, <1>5, AssignedStep

\* Values that are given as they are.
LEMMA AssignedAsIs ==
  ASSUME PolyInv, NEW h, h = [i \in Index |-> h[i]], \A i \in Index : h[i] \in 0 .. q, Given(h), Called("Assign", Element')
  PROVE  PolyInv' /\ Ring!Next
<1>1. h \in [Index -> 0 .. q] /\ q \in Nat \ {0}
  BY CurrentElement
<1>2. PolyInv' /\ q' = q /\ Element' \in [Index -> 0 .. q - 1]
  BY <1>1, GivenStep
<1>3. Ring!Modulo(Element', q) = Element'
  BY <1>1, <1>2, ModuloFixed, OneRing
<1>4. call'.op = "Assign" /\ call'.arg = Element'
  BY DEF Called
<1> QED BY <1>2, <1>3, <1>4 DEF Ring!Next, Ring!Solves, Ring!Is, Ring!Moves, Ring!Arg

\* The largest value at every place stands for its element.
LEMMA SetValuesToMaxStep ==
  ASSUME PolyInv, SetValuesToMax
  PROVE  PolyInv' /\ Ring!Next
<1> DEFINE h == [i \in Index |-> q - 1]
<1>1. Given(h) /\ Called("Assign", Element')
  BY DEF SetValuesToMax
<1>2. h = [i \in Index |-> h[i]] /\ \A i \in Index : h[i] \in 0 .. q
  BY CurrentElement
<1> HIDE DEF h
<1> QED BY <1>1, <1>2, AssignedAsIs

\* A short list of integers gives the first values and zeros after them.
LEMMA AssignListStep ==
  ASSUME PolyInv, NEW l \in Lists, AssignList(l)
  PROVE  PolyInv' /\ Ring!Next
<1> DEFINE h == [i \in Index |-> IF i < Len(l) THEN l[i + 1] ELSE 0]
<1>1. Given(h) /\ Called("Assign", Element') /\ Range(l) \subseteq 0 .. q - 1
  BY DEF AssignList
<1>2. q \in Nat \ {0} /\ l \in Seq(Int) /\ Len(l) \in Nat /\ Index = 0 .. N - 1 /\ N \in Nat
  BY CurrentElement, PolyAssumption, RingFacts
<1>3. ASSUME NEW i \in Index PROVE h[i] \in 0 .. q
  <2>1. CASE i < Len(l)
    <3>1. i + 1 \in DOMAIN l
      BY <1>2, <2>1
    <3>2. l[i + 1] \in Range(l)
      BY <3>1 DEF Range
    <3>3. l[i + 1] \in 0 .. q - 1
      BY <1>1, <3>2
    <3> QED BY <1>2, <2>1, <3>3
  <2>2. CASE ~(i < Len(l))
    BY <1>2, <2>2
  <2> QED BY <2>1, <2>2
<1>4. h = [i \in Index |-> h[i]]
  OBVIOUS
<1> HIDE DEF h
<1> QED BY <1>1, <1>3, <1>4, AssignedAsIs

\* A list of numbers that are read gives the first values, a long one too.
LEMMA AssignStringsStep ==
  ASSUME PolyInv, NEW l \in Lists, AssignStrings(l)
  PROVE  PolyInv' /\ Ring!Next
<1> DEFINE h == [i \in Index |-> IF i < Len(l) THEN l[i + 1] % q ELSE 0]
<1>1. Given(h) /\ Called("Assign", Element')
  BY DEF AssignStrings
<1>2. q \in Nat \ {0} /\ l \in Seq(Int) /\ Len(l) \in Nat /\ Index = 0 .. N - 1 /\ N \in Nat
  BY CurrentElement, PolyAssumption, RingFacts
<1>3. ASSUME NEW i \in Index PROVE h[i] \in 0 .. q
  <2>1. CASE i < Len(l)
    <3>1. l[i + 1] \in Int
      BY <1>2, <2>1
    <3>2. l[i + 1] % q \in 0 .. q - 1
      BY ONLY <1>2, <3>1, Remainders
    <3>3. h[i] = l[i + 1] % q
      BY <2>1
    <3> HIDE DEF h
    <3> QED BY <1>2, <3>2, <3>3
  <2>2. CASE ~(i < Len(l))
    BY <1>2, <2>2
  <2> QED BY <2>1, <2>2
<1>4. h = [i \in Index |-> h[i]]
  OBVIOUS
<1> HIDE DEF h
<1> QED BY <1>1, <1>3, <1>4, AssignedAsIs

-----------------------------------------------------------------------------
(* Queries.                                                                *)

\* A set of naturals below a bound has a largest member, if it has any, and a
\* smallest.
LEMMA Extremes ==
  ASSUME NEW n \in Nat, NEW S \in SUBSET (0 .. n), S # {}
  PROVE  /\ Max(S) \in S /\ \A y \in S : y <= Max(S)
         /\ Min(S) \in S /\ \A y \in S : Min(S) <= y
<1> DEFINE Big(T)   == \E x \in T : \A y \in T : x >= y
           Small(T) == \E x \in T : \A y \in T : x =< y
           Q == {k \in Nat : \A T \in SUBSET (0 .. k) : T # {} => Big(T) /\ Small(T)}
<1>1. 0 \in Q
  <2>1. 0 .. 0 = {0}
    OBVIOUS
  <2>2. \A T \in SUBSET (0 .. 0) : T # {} => T = {0}
    BY <2>1
  <2>3. Big({0}) /\ Small({0})
    OBVIOUS
  <2> HIDE DEF Big, Small
  <2> QED BY <2>2, <2>3
<1>2. ASSUME NEW k \in Nat, k \in Q PROVE k + 1 \in Q
  <2> SUFFICES ASSUME NEW T \in SUBSET (0 .. k + 1), T # {} PROVE Big(T) /\ Small(T)
    OBVIOUS
  <2> DEFINE U == T \ {k + 1}
  <2>1. U \in SUBSET (0 .. k) /\ \A y \in T : y \in U \/ y = k + 1
    OBVIOUS
  <2>2. \A y \in U : y <= k + 1 /\ y \in Nat
    BY <2>1
  <2>3. CASE U = {}
    <3>1. T = {k + 1}
      BY <2>1, <2>3
    <3> QED BY <3>1
  <2>4. CASE U # {}
    <3>1. Big(U) /\ Small(U)
      BY <1>2, <2>1, <2>4
    <3>2. PICK u \in U : \A y \in U : u =< y
      BY <3>1
    <3>3. Small(T)
      <4>1. u \in T /\ \A y \in T : u =< y
        BY <2>1, <2>2, <3>2
      <4> QED BY <4>1
    <3>4. CASE k + 1 \in T
      <4>1. \A y \in T : k + 1 >= y
        BY <2>1, <2>2
      <4> QED BY <3>3, <3>4, <4>1
    <3>5. CASE k + 1 \notin T
      <4>1. U = T
        BY <3>5
      <4> QED BY <3>1, <4>1
    <3> QED BY <3>4, <3>5
  <2> QED BY <2>3, <2>4
<1>3. Nat \subseteq Q
  <2> HIDE DEF Q
  <2> QED BY ONLY <1>1, <1>2, Induction
<1>4. Big(S) /\ Small(S)
  BY <1>3
<1>5. Max(S) \in S /\ \A y \in S : Max(S) >= y
  BY <1>4 DEF Max
<1>6. Min(S) \in S /\ \A y \in S : Min(S) =< y
  BY <1>4 DEF Min
<1> QED BY <1>5, <1>6, S \in SUBSET (0 .. n)

\* The size of the centred residue of an entry.
LEMMA CentredSize ==
  ASSUME NEW M, Roomy(M), NEW x \in 0 .. M
  PROVE  LET c == Centre(x, M)
         IN  /\ (IF c < 0 THEN -c ELSE c) = IF x > Half(M) THEN M - x ELSE x
             /\ (IF c < 0 THEN -c ELSE c) \in 0 .. M
<1>1. M \in Nat /\ Half(M) \in Nat /\ Half(M) < M
  BY RoomyFacts, HalfFacts
<1> DEFINE h == Half(M)
<1> HIDE DEF h
<1>2. Centre(x, M) = IF x > h THEN x - M ELSE x
  BY DEF Centre, h
<1>3. h \in Nat /\ h < M
  BY <1>1 DEF h
<1> QED BY <1>1, <1>2, <1>3 DEF h

\* The norm that the two searches find, among the entries above half the
\* modulus and among the others, is the size of the largest centred coefficient.
LEMMA NormIsTrue == PolyInv => NormIsCentred
<1> DEFINE c      == R!Centred(Element, q)
           h      == Half(q)
           sz     == [i \in Index |-> IF c[i] < 0 THEN -c[i] ELSE c[i]]
           above  == {values[i] : i \in {j \in Index : values[j] > h}}
           below  == {values[i] : i \in {j \in Index : values[j] <= h}}
           minVal == q - Min(above \cup {q})
           maxVal == Max(below \cup {0})
           S      == {sz[i] : i \in Index}
<1> SUFFICES ASSUME PolyInv, values # Null, format = COEFFICIENT PROVE Norm = Max(S)
  BY DEF NormIsCentred, NotEmpty
<1>1. /\ values \in [Index -> 0 .. q] /\ Roomy(q) /\ Element = R!Modulo(values, q)
      /\ q \in Nat /\ h \in Nat /\ h < q /\ Index # {}
  <2>1. values \in [Index -> 0 .. q] /\ Roomy(q) /\ Element = R!Modulo(values, q)
    BY CoefficientElement
  <2>2. q \in Nat
    BY ONLY <2>1, RoomyFacts
  <2>3. Half(q) \in Nat /\ Half(q) < q
    BY ONLY <2>1, HalfFacts
  <2>4. 0 \in Index
    BY RingFacts
  <2> QED BY <2>1, <2>2, <2>3, <2>4
<1>2. Norm = IF minVal > maxVal THEN minVal ELSE maxVal
  BY DEF Norm
<1>3. ASSUME NEW i \in Index
      PROVE  /\ sz[i] \in 0 .. q /\ sz[i] = (IF values[i] > h THEN q - values[i] ELSE values[i])
             /\ values[i] \in 0 .. q
  <2>1. c[i] = Centre(values[i], q)
    BY <1>1, CentredEntries
  <2>2. values[i] \in 0 .. q
    BY <1>1
  <2> DEFINE e == Centre(values[i], q)
  <2>3. (IF e < 0 THEN -e ELSE e) = (IF values[i] > h THEN q - values[i] ELSE values[i])
        /\ (IF e < 0 THEN -e ELSE e) \in 0 .. q
    BY ONLY <1>1, <2>2, CentredSize
  <2>4. sz[i] = IF e < 0 THEN -e ELSE e
    BY <2>1
  <2> HIDE DEF sz, h, e
  <2> QED BY <2>2, <2>3, <2>4
<1> HIDE DEF c, sz, h
<1>4. S \in SUBSET (0 .. q) /\ S # {}
  BY <1>1, <1>3
<1>5. above \cup {q} \in SUBSET (0 .. q) /\ below \cup {0} \in SUBSET (0 .. q)
  BY <1>1, <1>3
<1> DEFINE lo == Min(above \cup {q})
           hi == Max(below \cup {0})
           top == Max(S)
<1>6. lo \in above \cup {q} /\ \A y \in above \cup {q} : lo <= y
  BY ONLY <1>1, <1>5, Extremes
<1>7. hi \in below \cup {0} /\ \A y \in below \cup {0} : y <= hi
  BY ONLY <1>1, <1>5, Extremes
<1>8. top \in S /\ \A y \in S : y <= top
  BY ONLY <1>1, <1>4, Extremes
<1>9. lo \in 0 .. q /\ hi \in 0 .. q /\ top \in 0 .. q
  BY <1>4, <1>5, <1>6, <1>7, <1>8
<1>10. Norm = IF q - lo > hi THEN q - lo ELSE hi
  BY <1>2
<1> HIDE DEF lo, hi, top
<1>11. top <= q - lo \/ top <= hi
  <2>1. PICK i \in Index : top = sz[i]
    BY <1>8
  <2>2. CASE values[i] > h
    <3>1. values[i] \in above
      BY <2>2
    <3>2. lo <= values[i] /\ top = q - values[i] /\ values[i] \in 0 .. q
      BY <1>3, <1>6, <2>1, <2>2, <3>1
    <3> QED BY <1>1, <1>9, <3>2
  <2>3. CASE ~ (values[i] > h)
    <3>1. values[i] \in 0 .. q /\ values[i] <= h
      BY <1>1, <1>3, <2>3
    <3>2. values[i] \in below
      BY <3>1
    <3> QED BY <1>3, <1>7, <2>1, <2>3, <3>2
  <2> QED BY <2>2, <2>3
<1>12. q - lo <= top
  <2>1. CASE lo = q
    BY <1>1, <1>9, <2>1
  <2>2. CASE lo \in above
    <3>1. PICK i \in Index : values[i] > h /\ lo = values[i]
      BY <2>2
    <3>2. sz[i] \in S /\ sz[i] = q - lo
      BY <1>3, <3>1
    <3> QED BY <1>8, <3>2
  <2> QED BY <1>6, <2>1, <2>2
<1>13. hi <= top
  <2>1. CASE hi = 0
    BY <1>9, <2>1
  <2>2. CASE hi \in below
    <3>1. PICK i \in Index : values[i] <= h /\ hi = values[i]
      BY <2>2
    <3>2. ~ (values[i] > h)
      BY <1>1, <1>3, <3>1
    <3>3. sz[i] \in S /\ sz[i] = hi
      BY <1>3, <3>1, <3>2
    <3> QED BY <1>8, <3>3
  <2> QED BY <1>7, <2>1, <2>2
<1>14. Norm = top
  BY ONLY <1>1, <1>9, <1>10, <1>11, <1>12, <1>13
<1> QED BY <1>14 DEF top

-----------------------------------------------------------------------------
(* Inverses.                                                               *)

\* In evaluation format, an element times another is one if and only if their
\* values are inverses, point by point.
LEMMA ProductIsOne ==
  ASSUME NEW p \in Params, NEW x, NEW y, NEW v, NEW w, Vector(x), Vector(y), Vector(v), Vector(w),
         Evaluates(p, x, v), Evaluates(p, y, w)
  PROVE  R!Modulo(R!Times(x, y), p.modulus) = R!Constant(1) <=> \A i \in Index : (v[i] * w[i]) % p.modulus = 1
<1> DEFINE M == p.modulus
           T == R!Times(x, y)
           C == R!Constant(1)
           h == [i \in Index |-> v[i] * w[i]]
           ones == [i \in Index |-> 1]
<1>1. M \in Nat \ {0} /\ M \in Nat \ {0, 1} /\ Index = 0 .. N - 1 /\ 1 % M = 1
  <2>1. M \in Nat \ {0, 1} /\ Index = 0 .. N - 1
    BY RingFacts
  <2>2. 1 \in Nat /\ 1 < M /\ M \in Nat \ {0}
    BY <2>1
  <2> QED BY ONLY <2>1, <2>2, Residues
<1>2. Vector(h) /\ \A i \in Index : h[i] = v[i] * w[i]
  <2>1. ASSUME NEW i \in Index PROVE v[i] * w[i] \in Int
    <3>1. v[i] \in Int /\ w[i] \in Int
      BY DEF Vector
    <3> QED BY ONLY <3>1, ProductInteger
  <2> QED BY <2>1 DEF Vector
<1>3. Vector(ones) /\ \A i \in Index : ones[i] = 1
  BY DEF Vector
<1> HIDE DEF h, ones
<1>4. Vector(T) /\ Evaluates(p, T, h)
  <2>1. \A i \in Index : Congruent(h[i], v[i] * w[i], p.modulus)
    BY <1>2 DEF Congruent
  <2> QED BY ONLY <2>1, EvaluatesTimes, p \in Params, Vector(x), Vector(y), Vector(v), Vector(w),
                  Evaluates(p, x, v), Evaluates(p, y, w)
<1>5. Vector(C) /\ Evaluates(p, C, ones)
  <2>1. \A i \in Index : Congruent(ones[i], 1, p.modulus)
    BY <1>3 DEF Congruent
  <2> QED BY ONLY <2>1, EvaluatesConstant, p \in Params, 1 \in Int
<1>6. R!Modulo(C, M) = C
  <2>1. C = [i \in Index |-> IF i = 0 THEN 1 ELSE 0]
    BY RingFacts DEF R!Constant
  <2>2. C \in [Index -> 0 .. M - 1]
    BY <1>1, <2>1
  <2> QED BY ONLY <1>1, <2>2, ModuloFixed
<1> HIDE DEF T, C
<1>7. ASSUME \A i \in Index : (v[i] * w[i]) % M = 1 PROVE R!Modulo(T, M) = C
  <2>1. \A i \in Index : Congruent(ones[i], h[i], M)
    BY <1>1, <1>2, <1>3, <1>7 DEF Congruent
  <2>2. Same(ones, h, p.modulus) /\ Same(T, T, p.modulus)
    BY <2>1 DEF Same, Congruent
  <2>3. Evaluates(p, T, ones)
    BY ONLY <1>4, <2>2, EvaluatesSame, p \in Params
  <2>4. Stands(EVALUATION, p, T, ones) /\ Stands(EVALUATION, p, C, ones)
    BY <1>5, <2>3 DEF Stands, COEFFICIENT, EVALUATION
  <2>5. ElementOf(EVALUATION, p, ones) = R!Modulo(T, p.modulus) /\ ElementOf(EVALUATION, p, ones) = R!Modulo(C, p.modulus)
    BY ONLY <1>3, <1>4, <1>5, <2>4, ElementStands, p \in Params
  <2> QED BY <1>6, <2>5
<1>8. ASSUME R!Modulo(T, M) = C, NEW i \in Index PROVE (v[i] * w[i]) % M = 1
  <2>1. Same(T, C, p.modulus)
    <3>1. Same(T, R!Modulo(T, M), M)
      BY ONLY <1>1, <1>4, ModuloSame
    <3> QED BY <3>1, <1>8
  <2>2. Same(ones, ones, p.modulus)
    BY DEF Same, Congruent
  <2>3. Evaluates(p, T, ones)
    BY ONLY <1>4, <1>5, <2>1, <2>2, EvaluatesSame, p \in Params
  <2>4. Congruent(h[i], Dot(T, Forward(p, i)), M) /\ Congruent(ones[i], Dot(T, Forward(p, i)), M)
    BY <1>4, <2>3 DEF Evaluates
  <2> QED BY <1>1, <1>2, <1>3, <2>4 DEF Congruent
<1> QED BY <1>7, <1>8 DEF T, C, M

\* Prime moduli: every residue but zero has an inverse.
PrimeModuli == \A p \in Params : \A n \in 1 .. p.modulus - 1 : HasInverse(n, p.modulus)

\* An element in evaluation format without a zero among its values has an
\* inverse, and one with a zero has none.
LEMMA InverseIsTrue == PrimeModuli /\ PolyInv => InverseExistsTruthful
<1> DEFINE Inverts(y) == R!Modulo(R!Times(Element, y), q) = R!Constant(1)
<1> SUFFICES ASSUME PrimeModuli, PolyInv, values # Null, format = EVALUATION, \A i \in Index : values[i] < q
             PROVE  InverseExists = \E y \in R!Ring(q) : Inverts(y)
  BY DEF InverseExistsTruthful, NotEmpty
<1>1. /\ q = params.modulus /\ q \in Nat \ {0} /\ params \in Params /\ Vector(Element) /\ Vector(values)
      /\ Evaluates(params, Element, values) /\ values \in [Index -> 0 .. q]
  <2>1. OrZeros = values /\ Stands(format, params, Element, OrZeros) /\ OrZeros \in [Index -> 0 .. q]
        /\ params \in Params /\ Vector(Element) /\ Vector(OrZeros) /\ q \in Nat \ {0, 1}
    BY CurrentElement
  <2>2. format # COEFFICIENT
    BY DEF COEFFICIENT, EVALUATION
  <2> QED BY <2>1, <2>2 DEF Stands, q
<1>2. ASSUME NEW y, NEW w, Vector(y), Vector(w), Evaluates(params, y, w)
      PROVE  Inverts(y) <=> \A i \in Index : (values[i] * w[i]) % q = 1
  BY ONLY <1>1, <1>2, ProductIsOne
<1> HIDE DEF Inverts
<1>3. ASSUME \A i \in Index : values[i] # 0 PROVE \E y \in R!Ring(q) : Inverts(y)
  <2> DEFINE w == [i \in Index |-> InverseOf(values[i], q)]
             y == ElementOf(EVALUATION, params, w)
  <2>1. ASSUME NEW i \in Index PROVE w[i] \in 0 .. q - 1 /\ (values[i] * w[i]) % q = 1
    <3>1. values[i] \in 1 .. q - 1
      <4>1. values[i] \in 0 .. q /\ values[i] < q /\ values[i] # 0
        BY <1>1, <1>3
      <4> QED BY <1>1, <4>1
    <3>2. \E u \in 0 .. q - 1 : (values[i] * u) % q = 1
      BY <1>1, <3>1 DEF PrimeModuli, HasInverse
    <3>3. InverseOf(values[i], q) \in 0 .. q - 1 /\ (values[i] * InverseOf(values[i], q)) % q = 1
      BY <3>2 DEF InverseOf
    <3> QED BY <3>3
  <2>2. Vector(w)
    BY <1>1, <2>1 DEF Vector
  <2> HIDE DEF w
  <2>3. y \in [Index -> 0 .. q - 1] /\ Vector(y) /\ Stands(EVALUATION, params, y, w)
    <3>1. y \in [Index -> 0 .. params.modulus - 1] /\ Vector(y) /\ Stands(EVALUATION, params, y, w)
      BY ONLY <1>1, <2>2, ElementStands
    <3> QED BY <1>1, <3>1
  <2> HIDE DEF y
  <2>4. Evaluates(params, y, w)
    BY <2>3 DEF Stands, COEFFICIENT, EVALUATION
  <2>5. Inverts(y)
    BY ONLY <1>2, <2>1, <2>2, <2>3, <2>4
  <2> QED BY <2>3, <2>5, RingFacts DEF R!Ring
<1>4. ASSUME NEW y \in R!Ring(q), Inverts(y), NEW i \in Index PROVE values[i] # 0
  <2>1. Vector(y)
    <3>1. y \in [Index -> 0 .. q - 1]
      BY RingFacts DEF R!Ring
    <3> QED BY <1>1, <3>1 DEF Vector
  <2> DEFINE w == ForwardTransform(y, params)
  <2>2. w \in [Index -> 0 .. params.modulus - 1] /\ Evaluates(params, y, w)
    BY ONLY <1>1, <2>1, ForwardEvaluates
  <2> HIDE DEF w
  <2>3. Vector(w)
    BY <1>1, <2>2 DEF Vector
  <2>4. (values[i] * w[i]) % q = 1
    BY ONLY <1>2, <1>4, <2>1, <2>2, <2>3
  <2>5. w[i] \in Int
    BY <2>3 DEF Vector
  <2>6. 0 * w[i] = 0 /\ 0 % q = 0
    BY <1>1, <2>5
  <2> QED BY <2>4, <2>6
<1>5. InverseExists \in BOOLEAN
  BY DEF InverseExists
<1> QED BY <1>3, <1>4, <1>5 DEF InverseExists

-----------------------------------------------------------------------------
(* Digits.                                                                 *)

\* Dividing by a product: one factor after the other, and the remainders.
LEMMA DivProduct ==
  ASSUME NEW x \in Nat, NEW d \in Nat \ {0}, NEW e \in Nat \ {0}
  PROVE  /\ d * e \in Nat \ {0} /\ x \div d \in Nat
         /\ (x \div d) \div e = x \div (d * e)
         /\ x % (d * e) = (x % d) + ((x \div d) % e) * d
<1> DEFINE y == x \div d
           r == x % d
           s == y \div e
           t == y % e
           D == d * e
<1>1. y \in Nat /\ r \in 0 .. d - 1 /\ x = d * y + r
  BY ONLY DivNat, x \in Nat, d \in Nat \ {0}
<1> HIDE DEF y, r
<1>2. s \in Nat /\ t \in 0 .. e - 1 /\ y = e * s + t
  BY ONLY DivNat, <1>1, e \in Nat \ {0}
<1> HIDE DEF s, t
<1>3. D \in Nat \ {0}
  OBVIOUS
<1>4. t * d <= (e - 1) * d /\ (e - 1) * d = D - d /\ t * d \in Nat
  <2>1. t \in Int /\ e - 1 \in Int /\ t <= e - 1 /\ d \in Nat
    BY <1>2
  <2>2. t * d <= (e - 1) * d
    BY ONLY <2>1, Monotone
  <2>3. (e - 1) * d = D - d
    OBVIOUS
  <2>4. t * d \in Nat
    BY <1>2
  <2> QED BY <2>2, <2>3, <2>4
<1>5. d * (e * s + t) = s * D + t * d
  BY ONLY <1>2, d \in Nat \ {0}, e \in Nat \ {0} DEF D
<1>6. s * D \in Nat
  BY <1>2, <1>3, ProductInteger
<1> DEFINE p == s * D
           u == t * d
           v == (e - 1) * d
<1>7. u \in Nat /\ u <= v /\ v = D - d
  BY <1>4
<1>8. x = d * y + r /\ d * y = p + u
  BY <1>1, <1>2, <1>5
<1>9. p \in Nat
  BY <1>6
<1> HIDE DEF D, p, u, v
<1>10. r + u \in 0 .. D - 1 /\ x = p + (r + u)
  <2> DEFINE w == d * y
  <2>1. w = p + u /\ x = w + r
    BY <1>8
  <2> HIDE DEF w
  <2> QED BY ONLY <1>1, <1>3, <1>7, <1>9, <2>1, d \in Nat \ {0}
<1>11. x % D = r + u /\ x \div D = s
  <2>1. x \in Int /\ D \in Nat \ {0} /\ s \in Int /\ r + u \in 0 .. D - 1 /\ x = s * D + (r + u)
    BY <1>2, <1>3, <1>10 DEF p
  <2> QED BY ONLY <2>1, DivUnique
<1> QED BY <1>1, <1>3, <1>11 DEF D, u, s, t, r, y

\* The bits of a digit, one after the other.
Gathers(x, start, l, f) ==
  /\ f[0] = {0}
  /\ \A k \in 1 .. l :
       f[k] = {d + b * 2^(k - 1) : d \in f[k - 1], b \in GetBitAtIndex(x, start + (k - 1))}

\* A digit is the last of the partial ones.
LEMMA DigitUnrolls ==
  ASSUME NEW x \in Nat, NEW i \in Nat \ {0}, NEW l \in 1 .. W, (i - 1) * l \in Nat
  PROVE  \E f : Gathers(x, 1 + (i - 1) * l, l, f) /\ GetDigitAtIndexForBase(x, i, l) = f[l]
<1> DEFINE A == SUBSET Int
           start == 1 + (i - 1) * l
           s == [k \in 1 .. l |-> k - 1]
           Bit(digits, k) == {d + b * 2^k : d \in digits, b \in GetBitAtIndex(x, start + k)}
           F == [p \in (1 .. l) \X A |-> Bit(p[2], s[p[1]])]
           Good(h) == h = [j \in SUBSET (1 .. l) |->
                             IF j = {} THEN {0} ELSE Bit(h[j \ {Max(j)}], s[Max(j)])]
           iter == CHOOSE h : Good(h)
<1>1. l \in Nat /\ W \in Nat /\ start \in Nat /\ \A k \in 1 .. l : s[k] = k - 1 /\ k - 1 \in 0 .. W
  BY PowersOfTwo
<1>2. GetDigitAtIndexForBase(x, i, l) = iter[1 .. l]
  BY DEF GetDigitAtIndexForBase, FoldLeft, MapThenFoldSet
<1>3. \A digits \in A, k \in 1 .. l : Bit(digits, s[k]) \in A /\ Bit(digits, s[k]) = Bit(digits, k - 1)
  <2>1. ASSUME NEW k \in 1 .. l PROVE 2^(k - 1) \in Int /\ GetBitAtIndex(x, start + (k - 1)) \subseteq Int
    <3>1. 2^(k - 1) \in Nat \ {0}
      BY <1>1, PowersOfTwo
    <3>2. start + (k - 1) \in Nat \ {0}
      BY <1>1
    <3>3. GetBitAtIndex(x, start + (k - 1)) \subseteq Int
      <4>1. \A y \in Int : y % 2 \in Int
        OBVIOUS
      <4>2. \A j : j \in 0 .. W => x \div 2^j \in Int
        <5> SUFFICES ASSUME NEW j \in 0 .. W PROVE x \div 2^j \in Int
          OBVIOUS
        <5>1. 2^j \in Nat \ {0}
          BY PowersOfTwo
        <5> QED BY ONLY <5>1, DivNat, x \in Nat
      <4> DEFINE n == start + (k - 1)
      <4>3. n <= W => n - 1 \in 0 .. W
        BY <1>1, <3>2
      <4>4. (n - 1) % W \in 0 .. W
        <5>1. n - 1 \in Nat /\ W \in Nat \ {0}
          BY <1>1, <3>2
        <5> HIDE DEF n
        <5>2. (n - 1) % W \in 0 .. W - 1
          BY ONLY <5>1, DivNat
        <5> QED BY <5>1, <5>2
      <4>5. 0 \in Int
        OBVIOUS
      <4> HIDE DEF n
      <4>6. GetBitAtIndex(x, n) = IF n <= W THEN {(x \div 2^(n - 1)) % 2} ELSE {0, (x \div 2^((n - 1) % W)) % 2}
        BY DEF GetBitAtIndex
      <4>7. GetBitAtIndex(x, n) \subseteq Int
        <5>1. n <= W => (x \div 2^(n - 1)) % 2 \in Int
          BY ONLY <4>1, <4>2, <4>3
        <5>2. (x \div 2^((n - 1) % W)) % 2 \in Int
          BY ONLY <4>1, <4>2, <4>4
        <5> QED BY ONLY <4>5, <4>6, <5>1, <5>2
      <4> QED BY <4>7 DEF n
    <3>4. 2^(k - 1) \in Int
      BY <3>1
    <3> QED BY <3>3, <3>4
  <2>2. ASSUME NEW digits \in SUBSET Int, NEW k \in 1 .. l PROVE Bit(digits, k - 1) \in SUBSET Int
    <3> DEFINE G == GetBitAtIndex(x, start + (k - 1))
               c == 2^(k - 1)
    <3>1. c \in Int /\ G \subseteq Int
      BY <2>1
    <3>2. Bit(digits, k - 1) = {d + b * c : d \in digits, b \in G}
      OBVIOUS
    <3> HIDE DEF G, c, Bit
    <3>3. \A d \in digits, b \in G : d + b * c \in Int
      BY <3>1, ProductInteger
    <3> QED BY <3>2, <3>3
  <2>3. \A k \in 1 .. l : s[k] = k - 1
    BY <1>1
  <2> HIDE DEF s, Bit
  <2> QED BY <2>2, <2>3
<1>4. Steps(l, A, F) /\ \A k \in 1 .. l, acc \in A : F[<<k, acc>>] = Bit(acc, s[k])
  <2>1. \A p \in (1 .. l) \X A : p[1] \in 1 .. l /\ p[2] \in A
    OBVIOUS
  <2> HIDE DEF s, Bit, A
  <2> QED BY <1>3, <2>1 DEF Steps
<1>5. {0} \in A
  OBVIOUS
<1>6. \A j \in SUBSET (1 .. l) : j # {} => Max(j) \in 1 .. l /\ j \ {Max(j)} \in SUBSET (1 .. l)
  BY <1>1, MaxOf
<1> HIDE DEF A, s, F, Bit
<1>7. PICK h : h \in [SUBSET (1 .. l) -> A] /\ Folds(l, A, {0}, F, h)
  BY <1>1, <1>4, <1>5, FoldExists
<1>8. Good(h)
  BY <1>4, <1>6, <1>7 DEF Folds
<1>9. Good(iter)
  BY <1>8
<1> HIDE DEF iter
<1>10. Folds(l, A, {0}, F, iter)
  BY <1>4, <1>6, <1>9 DEF Folds
<1> HIDE DEF Good
<1>11. PICK f : Unrolls(l, A, {0}, F, f) /\ f[l] = iter[1 .. l]
  BY <1>1, <1>4, <1>5, <1>10, FoldUnroll
<1>12. \A k \in 1 .. l : f[k - 1] \in A
  BY <1>1, <1>11 DEF Unrolls
<1>13. Gathers(x, start, l, f)
  <2>1. f[0] = {0} /\ \A k \in 1 .. l : f[k] = Bit(f[k - 1], k - 1)
    BY <1>3, <1>4, <1>11, <1>12 DEF Unrolls
  <2> QED BY <2>1 DEF Gathers, Bit
<1> QED BY <1>2, <1>11, <1>13

\* Places of digits that end within the word.
Fits(i, l) == i \in Nat \ {0} /\ l \in 1 .. W /\ i * l <= W

\* The exponents at such a place.
LEMMA PlaceOf ==
  ASSUME NEW i, NEW l, Fits(i, l)
  PROVE  /\ (i - 1) * l \in 0 .. W /\ (i - 1) * l + l = i * l /\ i * l \in 0 .. W
         /\ \A k \in 0 .. l : (i - 1) * l + k \in 0 .. W /\ 2^((i - 1) * l + k) = 2^((i - 1) * l) * 2^k
<1> DEFINE e == (i - 1) * l
<1>1. i \in Nat \ {0} /\ l \in 1 .. W /\ i * l <= W /\ W \in Nat
  BY PowersOfTwo DEF Fits
<1>2. e \in Nat /\ e + l = i * l /\ i * l \in Nat
  <2>1. e = i * l - l /\ i * l \in Int
    BY <1>1
  <2>2. e \in Nat
    BY <1>1
  <2> QED BY <1>1, <2>1, <2>2
<1> DEFINE E == i * l
<1>3. e \in 0 .. W /\ E \in 0 .. W /\ e + l = E
  BY <1>1, <1>2
<1> HIDE DEF e, E
<1>4. ASSUME NEW k \in 0 .. l PROVE e + k \in 0 .. W /\ 2^(e + k) = 2^e * 2^k
  <2>1. e \in 0 .. 2 * W /\ k \in 0 .. 2 * W /\ e + k \in 0 .. W /\ e + k <= 2 * W
    BY <1>1, <1>3
  <2> QED BY ONLY <2>1, PowerAssumption
<1> QED BY <1>3, <1>4 DEF e, E

\* A digit that ends within the word has one value: the bits at its place.
LEMMA DigitValue ==
  ASSUME NEW x \in Nat, NEW i, NEW l, Fits(i, l)
  PROVE  GetDigitAtIndexForBase(x, i, l) = {(x \div 2^((i - 1) * l)) % 2^l}
<1> DEFINE e == (i - 1) * l
           D == 2^e
           y == x \div D
<1>1. /\ i \in Nat \ {0} /\ l \in 1 .. W /\ l \in Nat /\ W \in Nat /\ e \in 0 .. W /\ e \in Nat
      /\ \A k \in 0 .. l : e + k \in 0 .. W /\ 2^(e + k) = D * 2^k
  <2>1. i \in Nat \ {0} /\ l \in 1 .. W /\ W \in Nat
    BY PowersOfTwo DEF Fits
  <2>2. e \in 0 .. W /\ \A k \in 0 .. l : e + k \in 0 .. W /\ 2^(e + k) = D * 2^k
    BY ONLY PlaceOf, Fits(i, l)
  <2> HIDE DEF e, D
  <2> QED BY <2>1, <2>2
<1>2. PICK f : Gathers(x, 1 + e, l, f) /\ GetDigitAtIndexForBase(x, i, l) = f[l]
  BY <1>1, DigitUnrolls
<1>3. D \in Nat \ {0} /\ \A k \in 0 .. l : 2^k \in Nat \ {0}
  BY <1>1, PowersOfTwo
<1>4. y \in Nat
  BY <1>3, DivNat
<1> HIDE DEF e, D, y
<1>5. ASSUME NEW k \in 1 .. l
      PROVE  GetBitAtIndex(x, (1 + e) + (k - 1)) = {(y \div 2^(k - 1)) % 2}
  <2>1. k - 1 \in 0 .. l /\ k \in 0 .. l /\ (1 + e) + (k - 1) = e + k /\ (e + k) - 1 = e + (k - 1)
    BY <1>1
  <2>2. e + k <= W /\ 2^(e + (k - 1)) = D * 2^(k - 1) /\ 2^(k - 1) \in Nat \ {0}
    BY <1>1, <1>3, <2>1
  <2>3. y \div 2^(k - 1) = x \div (D * 2^(k - 1))
    <3>1. (x \div D) \div 2^(k - 1) = x \div (D * 2^(k - 1))
      BY ONLY <1>3, <2>2, DivProduct, x \in Nat
    <3> QED BY <3>1 DEF y
  <2>4. GetBitAtIndex(x, e + k) = {(x \div 2^((e + k) - 1)) % 2}
    BY <2>2 DEF GetBitAtIndex
  <2> QED BY <2>1, <2>2, <2>3, <2>4
<1> DEFINE P == {k \in Nat : k <= l => f[k] = {y % 2^k}}
<1>6. 0 \in P
  <2>1. 2^0 = 1 /\ y % 1 = 0
    BY ONLY <1>4, PowersOfTwo, Residues, 1 \in Nat \ {0}
  <2> QED BY <1>2, <2>1 DEF Gathers
<1>7. ASSUME NEW k \in Nat, k \in P PROVE k + 1 \in P
  <2>1. SUFFICES ASSUME k + 1 <= l PROVE f[k + 1] = {y % 2^(k + 1)}
    OBVIOUS
  <2>2. k + 1 \in 1 .. l /\ k + 1 \in 1 .. W /\ (k + 1) - 1 = k /\ f[k] = {y % 2^k}
    BY <1>1, <1>7, <2>1
  <2>3. f[k + 1] = {d + b * 2^k : d \in f[k], b \in GetBitAtIndex(x, (1 + e) + k)}
    BY <1>2, <2>2 DEF Gathers
  <2>4. GetBitAtIndex(x, (1 + e) + k) = {(y \div 2^k) % 2}
    BY <1>5, <2>2
  <2>5. y % 2^(k + 1) = (y % 2^k) + ((y \div 2^k) % 2) * 2^k
    BY <1>4, <2>2, LowBits
  <2> DEFINE u == y % 2^k
             b == (y \div 2^k) % 2
  <2>6. f[k + 1] = {d + c * 2^k : d \in {u}, c \in {b}}
    BY <2>2, <2>3, <2>4
  <2>7. y % 2^(k + 1) = u + b * 2^k
    BY <2>5
  <2> HIDE DEF u, b
  <2> QED BY ONLY <2>6, <2>7
<1>8. Nat \subseteq P
  <2> HIDE DEF P
  <2> QED BY ONLY <1>6, <1>7, Induction
<1>9. f[l] = {y % 2^l}
  BY <1>1, <1>8
<1> QED BY <1>2, <1>9 DEF y, D, e

\* A number up to a digit is the number up to the digit before it and the
\* digit at its place.
LEMMA DigitAdds ==
  ASSUME NEW x \in Nat, NEW i, NEW l, Fits(i, l)
  PROVE  /\ (x \div 2^((i - 1) * l)) % 2^l \in Int /\ 2^((i - 1) * l) \in Nat \ {0}
         /\ x % 2^(i * l) \in Int /\ x % 2^((i - 1) * l) \in Int
         /\ x % 2^(i * l) = (x % 2^((i - 1) * l)) + ((x \div 2^((i - 1) * l)) % 2^l) * 2^((i - 1) * l)
<1> DEFINE e == (i - 1) * l
           E == i * l
<1>1. l \in 0 .. W /\ e \in 0 .. W /\ E \in 0 .. W /\ e + l = E /\ l \in 0 .. l
  BY PlaceOf, PowersOfTwo DEF Fits
<1>2. 2^(e + l) = 2^e * 2^l
  BY PlaceOf, <1>1
<1> HIDE DEF e, E
<1>3. 2^e \in Nat \ {0} /\ 2^l \in Nat \ {0} /\ 2^E \in Nat \ {0} /\ 2^E = 2^e * 2^l
  BY <1>1, <1>2, PowersOfTwo
<1> DEFINE d == 2^e
           m == 2^l
<1> HIDE DEF d, m
<1>4. d \in Nat \ {0} /\ m \in Nat \ {0}
  BY <1>3 DEF d, m
<1>5. x % (d * m) = (x % d) + ((x \div d) % m) * d /\ x \div d \in Nat /\ d * m \in Nat \ {0}
  BY ONLY <1>4, DivProduct, x \in Nat
<1>6. (x \div d) % m \in Int /\ x % d \in Int /\ x % (d * m) \in Int
  BY ONLY <1>4, <1>5, DivNat, x \in Nat
<1> QED BY <1>3, <1>5, <1>6 DEF d, m, e, E

\* The powers of the base are powers of two modulo M.
LEMMA PowerOfTwo ==
  ASSUME NEW M \in Nat \ {0, 1}, NEW e \in 0 .. W
  PROVE  Power(2, e, M) \in Int /\ 2^e \in Int /\ Congruent(Power(2, e, M), 2^e, M)
<1> DEFINE P == {k \in Nat : k <= W => Congruent(Power(2, k, M), 2^k, M)}
<1>1. M \in Nat \ {0} /\ W \in Nat /\ 2^0 = 1 /\ 2 \in Nat
      /\ (\A k \in 0 .. W : 2^k \in Nat \ {0}) /\ (\A k \in 1 .. W : 2^k = 2 * 2^(k - 1))
  BY PowersOfTwo
<1>2. /\ Power(2, 0, M) = 1
      /\ \A n \in Nat : Power(2, n, M) \in 0 .. M - 1
      /\ \A n \in Nat : Power(2, n + 1, M) = (Power(2, n, M) * 2) % M
  BY ONLY <1>1, PowerSteps, M \in Nat \ {0, 1}
<1>3. 0 \in P
  BY <1>1, <1>2 DEF Congruent
<1>4. ASSUME NEW k \in Nat, k \in P PROVE k + 1 \in P
  <2>1. SUFFICES ASSUME k + 1 <= W PROVE Congruent(Power(2, k + 1, M), 2^(k + 1), M)
    OBVIOUS
  <2>2. k \in 0 .. W /\ k + 1 \in 1 .. W /\ (k + 1) - 1 = k /\ Congruent(Power(2, k, M), 2^k, M)
    BY <1>1, <1>4, <2>1
  <2> DEFINE a == Power(2, k, M)
             b == 2^k
  <2>3. a \in Int /\ b \in Int /\ 2^(k + 1) = 2 * b /\ Power(2, k + 1, M) = (a * 2) % M
    BY <1>1, <1>2, <2>2
  <2>4. Congruent(a, b, M)
    BY <2>2
  <2> HIDE DEF a, b
  <2>5. Congruent(2, 2, M)
    BY DEF Congruent
  <2>6. Congruent(a * 2, b * 2, M)
    BY ONLY <1>1, <2>3, <2>4, <2>5, CongruentProduct, 2 \in Int
  <2>7. ((a * 2) % M) % M = (a * 2) % M /\ b * 2 = 2 * b
    BY <1>1, <2>3
  <2> QED BY <2>3, <2>6, <2>7 DEF Congruent
<1>5. Nat \subseteq P
  <2> HIDE DEF P
  <2> QED BY ONLY <1>3, <1>4, Induction
<1>6. e \in Nat /\ e <= W
  BY <1>1
<1>7. Congruent(Power(2, e, M), 2^e, M)
  BY <1>5, <1>6
<1>8. Power(2, e, M) \in Int /\ 2^e \in Int
  BY <1>1, <1>2, <1>6
<1> QED BY <1>7, <1>8

\* A polynomial is determined by its values.
LEMMA ValuesDetermine ==
  ASSUME NEW p \in Params, NEW x, NEW y, NEW h, Vector(x), Vector(y), Vector(h),
         Evaluates(p, x, h), Evaluates(p, y, h)
  PROVE  R!Modulo(x, p.modulus) = R!Modulo(y, p.modulus)
<1>1. Stands(EVALUATION, p, x, h) /\ Stands(EVALUATION, p, y, h)
  BY DEF Stands, COEFFICIENT, EVALUATION
<1>2. ElementOf(EVALUATION, p, h) = R!Modulo(x, p.modulus) /\ ElementOf(EVALUATION, p, h) = R!Modulo(y, p.modulus)
  BY ONLY <1>1, ElementStands, p \in Params, Vector(x), Vector(y), Vector(h)
<1> QED BY <1>2

\* Vectors with the same residues are the same modulo M.
LEMMA ModuloCongruent ==
  ASSUME NEW M \in Nat \ {0}, NEW x, NEW y, Vector(x), Vector(y), R!Modulo(x, M) = R!Modulo(y, M)
  PROVE  Same(x, y, M)
<1>1. \A i \in Index : R!Modulo(x, M)[i] = x[i] % M /\ R!Modulo(y, M)[i] = y[i] % M
  BY ModuloSame
<1> QED BY <1>1 DEF Same, Congruent

\* Entrywise sums, products and multiples are vectors.
LEMMA VectorOps ==
  ASSUME NEW x, NEW y, NEW b \in Int, Vector(x), Vector(y)
  PROVE  /\ Vector([i \in Index |-> x[i] + y[i]]) /\ Vector([i \in Index |-> x[i] * y[i]])
         /\ Vector([i \in Index |-> x[i] * b])
<1>1. ASSUME NEW i \in Index PROVE x[i] + y[i] \in Int /\ x[i] * y[i] \in Int /\ x[i] * b \in Int
  <2>1. x[i] \in Int /\ y[i] \in Int
    BY DEF Vector
  <2> QED BY ONLY <2>1, ProductInteger, b \in Int
<1> QED BY <1>1 DEF Vector

\* Products modulo X^N + 1 are linear: a multiple of one factor may be taken
\* out of the other.
LEMMA TimesLinear ==
  ASSUME NEW p \in Params, NEW a, NEW d, NEW v, NEW c, NEW b \in Int,
         Vector(a), Vector(d), Vector(v), Vector(c),
         \A j \in Index : Congruent(c[j], a[j] + d[j] * b, p.modulus)
  PROVE  /\ Vector(R!Times(a, v)) /\ Vector(R!Times(d, R!Scaled(v, b))) /\ Vector(R!Times(c, v))
         /\ Same(R!Plus(R!Times(a, v), R!Times(d, R!Scaled(v, b))), R!Times(c, v), p.modulus)
<1> DEFINE M  == p.modulus
           F(x) == ForwardTransform(x, p)
           ea == F(a)
           ed == F(d)
           ev == F(v)
           db == [i \in Index |-> ed[i] * b]
           vb == [i \in Index |-> ev[i] * b]
           ec == [i \in Index |-> ea[i] + db[i]]
           r1 == [i \in Index |-> ea[i] * ev[i]]
           r2 == [i \in Index |-> ed[i] * vb[i]]
           h  == [i \in Index |-> r1[i] + r2[i]]
<1>1. M \in Nat \ {0} /\ R!Degrees = Index
  BY RingFacts
<1>2. ASSUME NEW x, Vector(x) PROVE Vector(F(x)) /\ Evaluates(p, x, F(x)) /\ Stands(EVALUATION, p, x, F(x))
  <2>1. F(x) \in [Index -> 0 .. p.modulus - 1] /\ Evaluates(p, x, F(x))
    BY ONLY <1>2, ForwardEvaluates, p \in Params
  <2> QED BY <1>1, <2>1 DEF Vector, Stands, COEFFICIENT, EVALUATION
<1>3. /\ Vector(ea) /\ Evaluates(p, a, ea) /\ Stands(EVALUATION, p, a, ea)
      /\ Vector(ed) /\ Evaluates(p, d, ed) /\ Stands(EVALUATION, p, d, ed)
      /\ Vector(ev) /\ Evaluates(p, v, ev) /\ Stands(EVALUATION, p, v, ev)
  BY <1>2
<1> HIDE DEF F, ea, ed, ev
<1>4. Vector(db) /\ Vector(vb)
  BY ONLY <1>3, VectorOps, b \in Int
<1>5. Vector(R!Scaled(d, b)) /\ Stands(EVALUATION, p, R!Scaled(d, b), db)
  <2>1. \A i \in Index : Congruent(db[i], ed[i] * b, p.modulus)
    BY DEF Congruent
  <2> HIDE DEF db
  <2> QED BY ONLY <1>3, <2>1, StandsScaled, p \in Params, b \in Int, Vector(d)
<1>6. Vector(R!Scaled(v, b)) /\ Evaluates(p, R!Scaled(v, b), vb)
  <2>1. \A i \in Index : Congruent(vb[i], ev[i] * b, p.modulus)
    BY DEF Congruent
  <2> HIDE DEF vb
  <2>2. Vector(R!Scaled(v, b)) /\ Stands(EVALUATION, p, R!Scaled(v, b), vb)
    BY ONLY <1>3, <2>1, StandsScaled, p \in Params, b \in Int, Vector(v)
  <2> QED BY <2>2 DEF Stands, COEFFICIENT, EVALUATION
<1> HIDE DEF db, vb
<1>7. Vector(ec) /\ Vector(r1) /\ Vector(r2)
  BY ONLY <1>3, <1>4, VectorOps, b \in Int
<1>8. Vector(h)
  <2> HIDE DEF r1, r2
  <2> QED BY ONLY <1>7, VectorOps, b \in Int
<1>9. Evaluates(p, c, ec)
  <2>1. \A i \in Index : Congruent(ec[i], ea[i] + db[i], p.modulus)
    BY DEF Congruent
  <2> DEFINE s == R!Plus(a, R!Scaled(d, b))
  <2>2. Vector(s) /\ Stands(EVALUATION, p, s, ec)
    <3> HIDE DEF ec
    <3> QED BY ONLY <1>3, <1>4, <1>5, <2>1, StandsSums, p \in Params, Vector(a)
  <2>3. Same(c, s, M) /\ Same(ec, ec, M)
    <3>1. \A j \in Index : s[j] = a[j] + d[j] * b
      BY <1>1 DEF R!Plus, R!Scaled
    <3> QED BY <3>1 DEF Same, Congruent
  <2>4. Evaluates(p, s, ec)
    BY <2>2 DEF Stands, COEFFICIENT, EVALUATION
  <2> HIDE DEF ec, s
  <2> QED BY ONLY <2>2, <2>3, <2>4, EvaluatesSame, p \in Params, Vector(c)
<1>10. ASSUME NEW i \in Index PROVE h[i] = ec[i] * ev[i]
  <2>1. ea[i] \in Int /\ ed[i] \in Int /\ ev[i] \in Int
    BY <1>3 DEF Vector
  <2>2. h[i] = ea[i] * ev[i] + ed[i] * (ev[i] * b) /\ ec[i] = ea[i] + ed[i] * b
    BY DEF db, vb
  <2> DEFINE x == ea[i]
             y == ed[i]
             z == ev[i]
  <2> HIDE DEF x, y, z, h, ec
  <2>3. h[i] = x * z + y * (z * b) /\ ec[i] = x + y * b /\ x \in Int /\ y \in Int /\ z \in Int
    BY <2>1, <2>2 DEF x, y, z
  <2>4. (x + y * b) * z = x * z + y * (z * b)
    BY ONLY <2>3, b \in Int
  <2> QED BY <2>3, <2>4 DEF z
<1> HIDE DEF ec, r1, r2
<1>11. Vector(R!Times(c, v)) /\ Evaluates(p, R!Times(c, v), h)
  <2>1. \A i \in Index : Congruent(h[i], ec[i] * ev[i], p.modulus)
    BY <1>10 DEF Congruent
  <2> HIDE DEF h
  <2> QED BY ONLY <1>3, <1>7, <1>9, <2>1, EvaluatesTimes, p \in Params, Vector(c), Vector(v)
<1>12. Vector(R!Times(a, v)) /\ Evaluates(p, R!Times(a, v), r1)
  <2>1. \A i \in Index : Congruent(r1[i], ea[i] * ev[i], p.modulus)
    BY DEF Congruent, r1
  <2> QED BY ONLY <1>3, <2>1, EvaluatesTimes, p \in Params, Vector(a), Vector(v)
<1>13. Vector(R!Times(d, R!Scaled(v, b))) /\ Evaluates(p, R!Times(d, R!Scaled(v, b)), r2)
  <2>1. \A i \in Index : Congruent(r2[i], ed[i] * vb[i], p.modulus)
    BY DEF Congruent, r2
  <2> QED BY ONLY <1>3, <1>4, <1>6, <2>1, EvaluatesTimes, p \in Params, Vector(d)
<1> DEFINE A == R!Times(a, v)
           B == R!Times(d, R!Scaled(v, b))
           C == R!Times(c, v)
<1> HIDE DEF A, B, C
<1>14. Vector(A) /\ Vector(B) /\ Vector(C) /\ Evaluates(p, C, h)
       /\ Stands(EVALUATION, p, A, r1) /\ Stands(EVALUATION, p, B, r2)
  BY <1>11, <1>12, <1>13 DEF A, B, C, Stands, COEFFICIENT, EVALUATION
<1>15. Vector(R!Plus(A, B)) /\ Stands(EVALUATION, p, R!Plus(A, B), h)
  <2>1. \A i \in Index : Congruent(h[i], r1[i] + r2[i], p.modulus)
    BY DEF Congruent
  <2> HIDE DEF h
  <2> QED BY ONLY <1>7, <1>14, <2>1, StandsSums, p \in Params
<1> HIDE DEF h
<1>16. Evaluates(p, R!Plus(A, B), h)
  BY <1>15 DEF Stands, COEFFICIENT, EVALUATION
<1>17. R!Modulo(R!Plus(A, B), p.modulus) = R!Modulo(C, p.modulus)
  BY ONLY <1>8, <1>14, <1>15, <1>16, ValuesDetermine, p \in Params
<1>18. Same(R!Plus(A, B), C, M)
  BY <1>1, <1>14, <1>15, <1>17, ModuloCongruent
<1> QED BY <1>14, <1>18 DEF A, B, C

\* There are enough windows for the digits of every residue.
LEMMA WindowsCover ==
  ASSUME NEW M \in Word, M > 1, NEW l \in Nat \ {0}, NumWindows(M, l) * l <= W
  PROVE  NumWindows(M, l) \in Nat \ {0} /\ M < 2^(NumWindows(M, l) * l)
         /\ \A i \in 1 .. NumWindows(M, l) : Fits(i, l)
<1> DEFINE L == GetMSB(M)
           n == NumWindows(M, l)
           k == n * l
<1>1. L \in 0 .. W /\ M < 2^L /\ M \in Nat /\ W \in Nat
  BY Length, WordSize, PowersOfTwo
<1>2. L # 0
  <2>1. L = 0 => M < 1
    BY <1>1, PowersOfTwo
  <2> QED BY <1>1, <2>1
<1>3. n = IF L % l > 0 THEN (L \div l) + 1 ELSE L \div l
  BY DEF NumWindows, GetLengthForBase
<1> HIDE DEF L
<1>4. L \in Nat \ {0}
  BY <1>1, <1>2
<1>5. L \div l \in Nat /\ L % l \in 0 .. l - 1 /\ L = l * (L \div l) + (L % l)
  BY ONLY <1>4, DivNat, l \in Nat \ {0}
<1> DEFINE d == L \div l
           m == L % l
<1>6. d \in Nat /\ m \in 0 .. l - 1 /\ L = l * d + m /\ n = IF m > 0 THEN d + 1 ELSE d
  BY <1>3, <1>5
<1> HIDE DEF d, m, n
<1>7. n \in Nat \ {0} /\ L <= k
  <2>1. CASE m > 0
    <3>1. k = l * d + l
      BY <1>6, <2>1
    <3> DEFINE e == l * d
    <3>2. e \in Nat /\ k = e + l /\ L = e + m
      BY <1>6, <3>1
    <3> HIDE DEF e, k
    <3> QED BY <1>6, <2>1, <3>2
  <2>2. CASE m = 0
    <3>1. n = d /\ L = l * d /\ k = l * d
      BY <1>6, <2>2
    <3>2. d # 0
      BY <1>4, <1>6, <2>2
    <3> HIDE DEF k
    <3> QED BY <1>6, <3>1, <3>2
  <2> QED BY <1>6, <2>1, <2>2
<1>8. k <= W /\ k \in Nat /\ k \in 0 .. W
  <2>1. k <= W
    BY DEF n
  <2>2. k \in Nat
    BY <1>7
  <2> HIDE DEF k
  <2> QED BY <1>1, <2>1, <2>2
<1>9. 2^L <= 2^k
  <2> DEFINE e == k - L
  <2> HIDE DEF k
  <2>1. e \in 0 .. 2 * W /\ L \in 0 .. 2 * W /\ L + e = k /\ L + e <= 2 * W
    BY <1>1, <1>4, <1>7, <1>8
  <2> HIDE DEF e
  <2>2. 2^(L + e) = 2^L * 2^e /\ 2^L \in Nat \ {0} /\ 2^e \in Nat \ {0}
    BY <2>1, PowerAssumption
  <2>3. 1 * 2^L <= 2^e * 2^L /\ 2^e * 2^L = 2^L * 2^e
    BY <2>2, Monotone
  <2> QED BY <2>1, <2>2, <2>3
<1>10. M < 2^k
  <2>1. 2^L \in Nat /\ 2^k \in Nat
    BY <1>1, <1>8, PowersOfTwo
  <2> HIDE DEF k
  <2> QED BY <1>1, <1>9, <2>1
<1>11. ASSUME NEW i \in 1 .. n PROVE Fits(i, l)
  <2>1. i \in Nat \ {0} /\ i <= n
    BY <1>7
  <2>2. i * l <= n * l /\ 1 * l <= i * l /\ i * l \in Nat
    <3>1. 1 \in Int /\ 1 <= i /\ i \in Int /\ n \in Int /\ l \in Nat
      BY <1>7, <2>1
    <3> QED BY ONLY <2>1, <3>1, Monotone, ProductInteger
  <2> DEFINE e == i * l
  <2>3. e <= k /\ l <= e
    BY <2>2
  <2> HIDE DEF e, k
  <2>4. e <= W /\ l \in 1 .. W
    BY <1>1, <1>8, <2>2, <2>3 DEF e
  <2> QED BY <2>1, <2>4 DEF Fits, e
<1> QED BY <1>7, <1>10, <1>11 DEF n, k

\* The digits of a vector at a place, and what is below it.
DigitsAt(x, i, l) == [j \in Index |-> (x[j] \div 2^((i - 1) * l)) % 2^l]
Below(x, e)       == [j \in Index |-> x[j] % 2^e]

\* The chosen digits of a polynomial, and the sum that DigitsTimesPowers takes.
Chosen(i, l)   == [j \in Index |-> CHOOSE d \in Digits(i, l)[j] : TRUE]
PartOf(v, i, l) == R!Modulo(R!Times(Chosen(i, l), PowerOfBase(v, i, l)), q)
DigitSum(v, l, n) == FoldLeft(LAMBDA x, i : R!Plus(x, PartOf(v, i, l)), Zeros, [i \in 1 .. n |-> i])

\* Partial sums of products.
Gathered(v, l, n, f) ==
  /\ f[0] = Zeros
  /\ \A k \in 1 .. n : Vector(f[k - 1]) /\ f[k] = R!Plus(f[k - 1], PartOf(v, k, l))

\* The sum is the last of the partial ones.
LEMMA DigitSumUnrolls ==
  ASSUME NEW v, NEW l, NEW n \in Nat, \A i \in 1 .. n : Vector(PartOf(v, i, l))
  PROVE  \E f : Gathered(v, l, n, f) /\ DigitSum(v, l, n) = f[n]
<1> DEFINE A == [Index -> Int]
           s == [i \in 1 .. n |-> i]
           Bit(x, i) == R!Plus(x, PartOf(v, i, l))
           F == [p \in (1 .. n) \X A |-> Bit(p[2], s[p[1]])]
           Good(h) == h = [j \in SUBSET (1 .. n) |->
                             IF j = {} THEN Zeros ELSE Bit(h[j \ {Max(j)}], s[Max(j)])]
           iter == CHOOSE h : Good(h)
<1>1. \A k \in 1 .. n : s[k] = k
  OBVIOUS
<1>2. DigitSum(v, l, n) = iter[1 .. n]
  BY DEF DigitSum, FoldLeft, MapThenFoldSet
<1>3. \A x \in A, k \in 1 .. n : Bit(x, s[k]) \in A /\ Bit(x, s[k]) = Bit(x, k)
  <2>1. ASSUME NEW x \in A, NEW k \in 1 .. n PROVE Bit(x, k) \in A
    <3>1. Bit(x, k) = [i \in Index |-> x[i] + PartOf(v, k, l)[i]]
      BY RingFacts DEF R!Plus
    <3>2. \A i \in Index : x[i] \in Int /\ PartOf(v, k, l)[i] \in Int
      BY DEF Vector
    <3> HIDE DEF Bit
    <3> QED BY <3>1, <3>2
  <2> HIDE DEF s, Bit, A
  <2> QED BY <1>1, <2>1
<1>4. Steps(n, A, F) /\ \A k \in 1 .. n, acc \in A : F[<<k, acc>>] = Bit(acc, s[k])
  <2>1. \A p \in (1 .. n) \X A : p[1] \in 1 .. n /\ p[2] \in A
    OBVIOUS
  <2> HIDE DEF s, Bit, A
  <2> QED BY <1>3, <2>1 DEF Steps
<1>5. Zeros \in A
  BY DEF Zeros
<1>6. \A j \in SUBSET (1 .. n) : j # {} => Max(j) \in 1 .. n /\ j \ {Max(j)} \in SUBSET (1 .. n)
  BY MaxOf
<1> HIDE DEF A, s, F, Bit
<1>7. PICK h : h \in [SUBSET (1 .. n) -> A] /\ Folds(n, A, Zeros, F, h)
  BY <1>4, <1>5, FoldExists
<1>8. Good(h)
  BY <1>4, <1>6, <1>7 DEF Folds
<1>9. Good(iter)
  BY <1>8
<1> HIDE DEF iter
<1>10. Folds(n, A, Zeros, F, iter)
  BY <1>4, <1>6, <1>9 DEF Folds
<1> HIDE DEF Good
<1>11. PICK f : Unrolls(n, A, Zeros, F, f) /\ f[n] = iter[1 .. n]
  BY <1>4, <1>5, <1>10, FoldUnroll
<1>12. \A k \in 1 .. n : f[k - 1] \in A
  BY <1>11 DEF Unrolls
<1>13. Gathered(v, l, n, f)
  <2>1. f[0] = Zeros /\ \A k \in 1 .. n : f[k] = Bit(f[k - 1], k)
    <3>1. f[0] = Zeros /\ \A k \in 1 .. n : f[k] = F[<<k, f[k - 1]>>]
      BY <1>11 DEF Unrolls
    <3>2. \A k \in 1 .. n : F[<<k, f[k - 1]>>] = Bit(f[k - 1], k)
      BY ONLY <1>3, <1>4, <1>12
    <3> QED BY ONLY <3>1, <3>2
  <2>2. \A k \in 1 .. n : Vector(f[k - 1])
    BY <1>12 DEF A, Vector
  <2> QED BY <2>1, <2>2 DEF Gathered, Bit
<1> QED BY <1>2, <1>11, <1>13

\* The digits that are chosen are those at the place.
LEMMA ChosenDigits ==
  ASSUME PolyInv, NEW i, NEW l, Fits(i, l)
  PROVE  Chosen(i, l) = DigitsAt(Element, i, l) /\ Vector(DigitsAt(Element, i, l))
<1>1. \A j \in Index : Element[j] \in Nat
  <2>1. Element \in [Index -> 0 .. q - 1] /\ q \in Nat
    BY CurrentElement
  <2> QED BY <2>1
<1> DEFINE D(j) == (Element[j] \div 2^((i - 1) * l)) % 2^l
<1>2. ASSUME NEW j \in Index PROVE Digits(i, l)[j] = {D(j)} /\ D(j) \in Int
  <2>1. Element[j] \in Nat
    BY <1>1
  <2>2. GetDigitAtIndexForBase(Element[j], i, l) = {D(j)}
    BY ONLY <2>1, DigitValue, Fits(i, l)
  <2>3. D(j) \in Int
    BY ONLY <2>1, DigitAdds, Fits(i, l)
  <2>4. Digits(i, l)[j] = GetDigitAtIndexForBase(Element[j], i, l)
    BY DEF Digits
  <2> HIDE DEF D
  <2> QED BY <2>2, <2>3, <2>4
<1>3. DigitsAt(Element, i, l) = [j \in Index |-> D(j)]
  BY DEF DigitsAt
<1> HIDE DEF D
<1>4. \A j \in Index : (CHOOSE d \in Digits(i, l)[j] : TRUE) = D(j)
  <2>1. ASSUME NEW j \in Index PROVE (CHOOSE d \in {D(j)} : TRUE) = D(j)
    OBVIOUS
  <2> QED BY <1>2, <2>1
<1>5. Chosen(i, l) = [j \in Index |-> D(j)]
  BY <1>4 DEF Chosen
<1> QED BY <1>2, <1>3, <1>5 DEF Vector

\* One digit more: the sum of the products grows by the product with it.
LEMMA DigitStep ==
  ASSUME PolyInv, NEW v, Vector(v), NEW k, NEW l, Fits(k, l),
         NEW s, Vector(s), Same(s, R!Times(Below(Element, (k - 1) * l), v), q)
  PROVE  /\ Vector(PartOf(v, k, l)) /\ Vector(R!Plus(s, PartOf(v, k, l)))
         /\ Same(R!Plus(s, PartOf(v, k, l)), R!Times(Below(Element, k * l), v), q)
<1> DEFINE p == params
           e == (k - 1) * l
           a == Below(Element, e)
           c == Below(Element, k * l)
           d == DigitsAt(Element, k, l)
           b == Power(2, e, q)
           y == PartOf(v, k, l)
<1>1. /\ q = p.modulus /\ p \in Params /\ q \in Nat \ {0, 1} /\ q \in Nat \ {0}
      /\ \A j \in Index : Element[j] \in Nat
  <2>1. Element \in [Index -> 0 .. q - 1] /\ q \in Nat \ {0, 1} /\ params \in Params
    BY CurrentElement
  <2> QED BY <2>1 DEF q
<1>2. Chosen(k, l) = d /\ Vector(d)
  BY ChosenDigits
<1>3. e \in 0 .. W
  BY PlaceOf
<1>4. b \in Int /\ 2^e \in Int /\ Congruent(b, 2^e, q)
  <2> HIDE DEF e
  <2> QED BY ONLY <1>1, <1>3, PowerOfTwo
<1>5. ASSUME NEW j \in Index
      PROVE  /\ a[j] \in Int /\ c[j] \in Int /\ d[j] \in Int
             /\ c[j] = a[j] + d[j] * 2^e
  <2> DEFINE x == Element[j]
  <2>1. x \in Nat
    BY <1>1
  <2>2. a[j] = x % 2^e /\ c[j] = x % 2^(k * l) /\ d[j] = (x \div 2^e) % 2^l
    BY DEF Below, DigitsAt
  <2> HIDE DEF x, a, c, d
  <2>3. /\ (x \div 2^e) % 2^l \in Int /\ x % 2^(k * l) \in Int /\ x % 2^e \in Int
        /\ x % 2^(k * l) = (x % 2^e) + ((x \div 2^e) % 2^l) * 2^e
    BY ONLY <2>1, DigitAdds, Fits(k, l)
  <2> HIDE DEF e
  <2> QED BY ONLY <2>2, <2>3
<1>6. Vector(a) /\ Vector(c)
  BY <1>5 DEF Vector
<1> DEFINE g == 2^e
<1> HIDE DEF a, c, d, b, g
<1>7. \A j \in Index : Congruent(c[j], a[j] + d[j] * b, p.modulus)
  <2> SUFFICES ASSUME NEW j \in Index PROVE Congruent(c[j], a[j] + d[j] * b, q)
    BY <1>1
  <2>1. a[j] \in Int /\ d[j] \in Int /\ g \in Int /\ b \in Int /\ c[j] = a[j] + d[j] * g /\ Congruent(b, g, q)
    BY <1>4, <1>5 DEF g
  <2>2. Congruent(d[j] * b, d[j] * g, q)
    BY ONLY <1>1, <2>1, CongruentProduct, CongruentRelation
  <2>3. d[j] * b \in Int /\ d[j] * g \in Int
    BY ONLY <2>1, ProductInteger
  <2>4. Congruent(a[j] + d[j] * b, a[j] + d[j] * g, q)
    BY ONLY <1>1, <2>1, <2>2, <2>3, CongruentSum, CongruentRelation
  <2> QED BY <2>1, <2>4 DEF Congruent
<1> DEFINE A == R!Times(a, v)
           B == R!Times(d, R!Scaled(v, b))
           C == R!Times(c, v)
<1>8. Vector(A) /\ Vector(B) /\ Vector(C) /\ Same(R!Plus(A, B), C, q)
  <2>1. Vector(A) /\ Vector(B) /\ Vector(C) /\ Same(R!Plus(A, B), C, p.modulus)
    BY ONLY <1>1, <1>2, <1>4, <1>6, <1>7, TimesLinear, Vector(v)
  <2> HIDE DEF A, B, C, p
  <2> QED BY <1>1, <2>1
<1>9. y = R!Modulo(B, q)
  BY <1>2 DEF PartOf, PowerOfBase, b
<1>10. Same(s, A, q)
  BY DEF a
<1> HIDE DEF A, B, C, y
<1>11. Vector(y) /\ Same(y, B, q)
  BY ONLY <1>1, <1>8, <1>9, ModuloSame
<1>12. \A j \in Index : R!Plus(s, y)[j] = s[j] + y[j] /\ R!Plus(A, B)[j] = A[j] + B[j]
  BY RingFacts DEF R!Plus
<1>13. ASSUME NEW j \in Index
       PROVE  R!Plus(s, y)[j] \in Int /\ Congruent(R!Plus(s, y)[j], C[j], q)
  <2>1. s[j] \in Int /\ y[j] \in Int /\ A[j] \in Int /\ B[j] \in Int
    BY <1>8, <1>11 DEF Vector
  <2>2. Congruent(s[j], A[j], q) /\ Congruent(y[j], B[j], q)
    BY <1>10, <1>11 DEF Same
  <2>3. Congruent(s[j] + y[j], A[j] + B[j], q)
    BY ONLY <1>1, <2>1, <2>2, CongruentSum
  <2>4. Congruent(A[j] + B[j], C[j], q)
    BY <1>8, <1>12 DEF Same
  <2> QED BY <1>12, <2>1, <2>3, <2>4 DEF Congruent
<1>14. Vector(R!Plus(s, y)) /\ Same(R!Plus(s, y), C, q)
  BY <1>13 DEF Vector, Same
<1> QED BY <1>11, <1>14 DEF y, C, c

\* The digits of an element and the powers of the base times another make up
\* their product.
LEMMA DigitsAreTrue == PolyInv => DigitsTimesPowers
<1> SUFFICES ASSUME PolyInv, NEW l \in Lengths, NumDigits(l) * l <= W, NEW v \in Operands
             PROVE  R!Modulo(DigitSum(v, l, NumDigits(l)), q) = R!Modulo(R!Times(Element, v), q)
  BY Zenon DEF DigitsTimesPowers, DigitSum, PartOf, Chosen
<1> DEFINE n == NumDigits(l)
<1>1. /\ q \in Nat \ {0} /\ q \in Word /\ q > 1 /\ Element \in [Index -> 0 .. q - 1] /\ Vector(Element)
      /\ Vector(v) /\ l \in Nat \ {0} /\ Index = 0 .. N - 1
  <2>1. q \in Nat \ {0, 1} /\ Roomy(q) /\ Element \in [Index -> 0 .. q - 1] /\ Vector(Element)
    BY CurrentElement
  <2>2. q \in 0 .. q /\ 0 .. q \subseteq Word
    BY <2>1, RoomyFacts
  <2>3. v \in [0 .. N - 1 -> Int] /\ l \in Nat \ {0}
    BY PolyAssumption
  <2> QED BY <2>1, <2>2, <2>3, RingFacts DEF Vector
<1>2. n \in Nat \ {0} /\ q < 2^(n * l) /\ \A i \in 1 .. n : Fits(i, l)
  BY ONLY <1>1, WindowsCover, NumDigits(l) * l <= W DEF NumDigits
<1> HIDE DEF n
<1>3. ASSUME NEW i \in 1 .. n, NEW s, Vector(s), Same(s, R!Times(Below(Element, (i - 1) * l), v), q)
      PROVE  /\ Vector(PartOf(v, i, l)) /\ Vector(R!Plus(s, PartOf(v, i, l)))
             /\ Same(R!Plus(s, PartOf(v, i, l)), R!Times(Below(Element, i * l), v), q)
  BY ONLY <1>1, <1>2, <1>3, DigitStep, PolyInv
<1>4. \A i \in 1 .. n : Vector(PartOf(v, i, l))
  <2> SUFFICES ASSUME NEW i \in 1 .. n PROVE Vector(PartOf(v, i, l))
    OBVIOUS
  <2>1. Vector(R!Times(Chosen(i, l), PowerOfBase(v, i, l)))
    <3>1. Chosen(i, l) = DigitsAt(Element, i, l) /\ Vector(DigitsAt(Element, i, l))
      BY <1>2, ChosenDigits
    <3>2. Vector(Chosen(i, l)) /\ Vector(PowerOfBase(v, i, l))
      <4> DEFINE b == Power(2, (i - 1) * l, q)
      <4>1. b \in Int
        <5>1. (i - 1) * l \in 0 .. W
          BY <1>2, PlaceOf
        <5>2. q \in Nat \ {0, 1}
          BY <1>1
        <5> QED BY ONLY <5>1, <5>2, PowerOfTwo
      <4>2. PowerOfBase(v, i, l) = [j \in Index |-> v[j] * b]
        BY RingFacts DEF PowerOfBase, R!Scaled
      <4> HIDE DEF b
      <4>3. \A j \in Index : v[j] * b \in Int
        BY <1>1, <4>1, ProductInteger DEF Vector
      <4> QED BY <3>1, <4>2, <4>3 DEF Vector
    <3>3. \A x, y : Vector(x) /\ Vector(y) => Vector(R!Times(x, y))
      BY ONLY ProductTerms
    <3> QED BY ONLY <3>2, <3>3
  <2> QED BY <1>1, <2>1, ModuloSame DEF PartOf
<1>5. PICK f : Gathered(v, l, n, f) /\ DigitSum(v, l, n) = f[n]
  BY ONLY <1>2, <1>4, DigitSumUnrolls
<1> DEFINE P == {k \in Nat : k <= n => Vector(f[k]) /\ Same(f[k], R!Times(Below(Element, k * l), v), q)}
<1>6. 0 \in P
  <2>1. 0 * l = 0 /\ f[0] = Zeros
    BY <1>1, <1>5 DEF Gathered
  <2>2. \A j \in Index : Below(Element, 0)[j] = 0
    <3> SUFFICES ASSUME NEW j \in Index PROVE Element[j] % 2^0 = 0
      BY DEF Below
    <3>1. Element[j] \in Nat /\ 2^0 = 1
      BY <1>1, PowersOfTwo
    <3> QED BY <3>1
  <2>3. Same(Zeros, R!Times(Below(Element, 0), v), q)
    <3> DEFINE z == Below(Element, 0)
               T == R!Times(z, v)
               t(i) == [j \in Index |-> Term(z, v, i, j)]
    <3>1. Vector(z) /\ \A j \in Index : z[j] = 0
      BY <2>2 DEF Vector
    <3> HIDE DEF z
    <3>2. \A i \in Index : T[i] = Total(t(i), N)
      BY <1>1, <3>1, ProductTerms
    <3>3. ASSUME NEW i \in Index PROVE T[i] = 0
      <4>1. ASSUME NEW j \in 0 .. N - 1 PROVE t(i)[j] = 0
        <5>1. t(i)[j] = Term(z, v, i, j) /\ z[j] = 0 /\ j \in Index
          BY <1>1, <3>1
        <5>2. \A u \in Int : 0 * u = 0 /\ -(0 * u) = 0
          OBVIOUS
        <5>3. (j <= i => i - j \in Index) /\ (~ (j <= i) => N + i - j \in Index)
          BY <1>1, RingFacts
        <5>4. \A m \in Index : v[m] \in Int
          BY <1>1 DEF Vector
        <5>5. Term(z, v, i, j) = 0
          BY <5>1, <5>2, <5>3, <5>4 DEF Term
        <5> QED BY <5>1, <5>5
      <4> HIDE DEF t
      <4>2. N \in Nat
        BY RingFacts
      <4>3. Total(t(i), N) = 0
        BY ONLY <4>1, <4>2, TotalZero
      <4> QED BY <3>2, <4>3
    <3>4. \A j \in Index : Zeros[j] = 0
      BY DEF Zeros
    <3> HIDE DEF T
    <3>5. Same(Zeros, T, q)
      BY <3>3, <3>4 DEF Same, Congruent
    <3> QED BY <3>5 DEF T, z
  <2>4. Vector(Zeros)
    BY DEF Vector, Zeros
  <2> QED BY <2>1, <2>3, <2>4
<1>7. ASSUME NEW k \in Nat, k \in P PROVE k + 1 \in P
  <2>1. SUFFICES ASSUME k + 1 <= n
                 PROVE  Vector(f[k + 1]) /\ Same(f[k + 1], R!Times(Below(Element, (k + 1) * l), v), q)
    OBVIOUS
  <2>2. k + 1 \in 1 .. n /\ (k + 1) - 1 = k /\ Vector(f[k]) /\ Same(f[k], R!Times(Below(Element, k * l), v), q)
    BY <1>2, <1>7, <2>1
  <2>3. f[k + 1] = R!Plus(f[k], PartOf(v, k + 1, l))
    BY <1>5, <2>2 DEF Gathered
  <2>4. Same(f[k], R!Times(Below(Element, ((k + 1) - 1) * l), v), q)
    BY <2>2
  <2> QED BY ONLY <1>3, <2>2, <2>3, <2>4
<1>8. Nat \subseteq P
  <2> HIDE DEF P
  <2> QED BY ONLY <1>6, <1>7, Induction
<1>9. Vector(f[n]) /\ Same(f[n], R!Times(Below(Element, n * l), v), q)
  BY <1>2, <1>8
<1>10. Below(Element, n * l) = Element
  <2> DEFINE g == 2^(n * l)
  <2>1. g \in Nat \ {0} /\ q < g
    <3>1. n * l \in 0 .. W
      <4>1. n \in 1 .. n
        BY <1>2
      <4>2. Fits(n, l)
        BY <1>2, <4>1
      <4> QED BY ONLY <4>2, PlaceOf
    <3> QED BY <1>2, <3>1, PowersOfTwo
  <2> HIDE DEF g
  <2>2. ASSUME NEW j \in Index PROVE Element[j] % g = Element[j]
    <3>1. Element[j] \in Nat /\ Element[j] < g
      <4>1. Element[j] \in 0 .. q - 1
        BY <1>1
      <4> QED BY <1>1, <2>1, <4>1
    <3> QED BY ONLY <2>1, <3>1, Residues
  <2>3. Below(Element, n * l) = [j \in Index |-> Element[j] % g]
    BY DEF Below, g
  <2>4. Element = [j \in Index |-> Element[j]]
    BY <1>1
  <2> QED BY <2>2, <2>3, <2>4
<1>11. R!Modulo(f[n], q) = R!Modulo(R!Times(Element, v), q)
  BY ONLY <1>1, <1>9, <1>10, SameModulo
<1> QED BY <1>5, <1>11 DEF n

-----------------------------------------------------------------------------
(* The invariant and the refinement.                                       *)

\* Every call keeps the invariant and does to the element what the ring
\* allows.
LEMMA StepsImplementRing ==
  ASSUME PolyInv, [Next]_vars
  PROVE  PolyInv' /\ [Ring!Next]_(Ring!vars)
<1>1. Scalars \subseteq Int /\ (\A k \in Indices : k \in Nat /\ k % 2 = 1)
  <2>1. 1 - 2^(W - 1) \in Int /\ 2^W - 1 \in Int
    BY PowersOfTwo
  <2> QED BY <2>1, PolyAssumption
<1>2. CASE OnPolys
  <2>1. PICK v \in Operands :
          \/ PlusPoly(v) \/ MinusPoly(v) \/ TimesPoly(v)
          \/ \E b \in Scalars : b >= 0 /\ MultAccEqNoCheck(v, b)
    BY <1>2 DEF OnPolys
  <2>2. CASE PlusPoly(v)
    BY <2>2, PlusPolyStep
  <2>3. CASE MinusPoly(v)
    BY <2>3, MinusPolyStep
  <2>4. CASE TimesPoly(v)
    BY <2>4, TimesPolyStep
  <2>5. ASSUME NEW b \in Scalars, b >= 0, MultAccEqNoCheck(v, b) PROVE PolyInv' /\ Ring!Next
    <3>1. b \in Nat
      BY <1>1, <2>5
    <3> QED BY <2>5, <3>1, MultAccStep
  <2> QED BY <2>1, <2>2, <2>3, <2>4, <2>5
<1>3. CASE OnIntegers
  <2>1. ASSUME NEW b \in Scalars, PlusInt(b) \/ MinusInt(b) PROVE PolyInv' /\ Ring!Next
    <3>1. b \in Int
      BY <1>1
    <3> QED BY <2>1, <3>1, PlusIntStep, MinusIntStep
  <2>2. ASSUME NEW b \in Scalars, TimesInt(b) PROVE PolyInv' /\ Ring!Next
    <3>1. b \in Int
      BY <1>1
    <3> QED BY <2>2, <3>1, TimesIntStep
  <2> QED BY <1>3, <2>1, <2>2, NegateStep, AddOneStep DEF OnIntegers
<1>4. CASE OnEntries
  <2>1. ASSUME NEW k \in Indices, AutomorphismTransform(k) PROVE PolyInv' /\ Ring!Next
    <3>1. k \in Nat /\ k % 2 = 1
      BY <1>1
    <3> QED BY <2>1, <3>1, AutomorphismStep
  <2>2. ASSUME NEW m \in Scalars, m > 1, Mod(m) PROVE PolyInv' /\ Ring!Next
    <3>1. m \in Int
      BY <1>1
    <3> QED BY <2>2, <3>1, ModStep
  <2> QED BY <1>4, <2>1, <2>2, InverseStep, SparseStep, DivideStep, MultiplyStep DEF OnEntries
<1>5. CASE Changing
  BY <1>5, SwitchFormatStep, SwitchModulusStep, LazySwitchStep DEF Changing
<1>6. CASE Assigning
  <2>1. ASSUME NEW b \in Scalars, AssignWord(b) PROVE PolyInv' /\ Ring!Next
    <3>1. b \in Int
      BY <1>1
    <3> QED BY <2>1, <3>1, AssignWordStep
  <2> QED BY <1>6, <2>1, AssignEmptyStep, AssignPolyStep, AssignIntsStep, SetValuesToMaxStep, AssignListStep,
             AssignStringsStep DEF Assigning
<1>7. CASE UNCHANGED vars
  <2>1. format' = format /\ params' = params /\ values' = values /\ call' = call
    BY <1>7 DEF vars
  <2>2. PolyInv' /\ Element' = Element /\ q' = q
    BY <2>1 DEF PolyInv, Element, q
  <2> QED BY <2>1, <2>2 DEF Ring!vars
<1> QED BY <1>2, <1>3, <1>4, <1>5, <1>6, <1>7 DEF Next

\* What lies past the ring's values is a number of entries.
Counted == surplus \in Nat

LEMMA SurplusCounts == Spec => []Counted
<1>1. Init => Counted
  BY DEF Init, Counted
<1>2. Counted /\ [Next]_vars => Counted'
  <2> SUFFICES ASSUME surplus \in Nat, [Next]_vars PROVE surplus' \in Nat
    BY DEF Counted
  <2>1. CASE OnPolys
    <3>1. ASSUME NEW v, PlusPoly(v) \/ MinusPoly(v) \/ TimesPoly(v) PROVE surplus' \in {0, surplus}
      BY Zenon, <3>1 DEF PlusPoly, MinusPoly, TimesPoly
    <3>2. ASSUME NEW v, NEW b, MultAccEqNoCheck(v, b) PROVE surplus' = surplus
      BY Zenon, <3>2 DEF MultAccEqNoCheck, EntriesAt
    <3> QED BY <2>1, <3>1, <3>2 DEF OnPolys
  <2>2. CASE OnIntegers
    <3>1. ASSUME NEW b, PlusInt(b) PROVE surplus' = surplus
      BY Zenon, <3>1 DEF PlusInt, Entrywise, EntriesAt
    <3>2. ASSUME NEW b, MinusInt(b) \/ TimesInt(b) \/ Negate \/ AddILElementOne PROVE surplus' = surplus
      BY Zenon, <3>2 DEF MinusInt, TimesInt, Negate, AddILElementOne, Entrywise
    <3> QED BY <2>2, <3>1, <3>2 DEF OnIntegers
  <2>3. CASE OnEntries
    <3>1. ASSUME NEW k, AutomorphismTransform(k) PROVE surplus' = 0
      BY Zenon, <3>1 DEF AutomorphismTransform
    <3>2. ASSUME NEW d, MultiplicativeInverse \/ MakeSparse(d) \/ Mod(d) \/ DivideAndRound(d) PROVE surplus' = surplus
      BY Zenon, <3>2 DEF MultiplicativeInverse, MakeSparse, Mod, DivideAndRound, Entrywise, EntriesAt
    <3>3. ASSUME NEW p, NEW d, MultiplyAndRound(p, d) PROVE surplus' = surplus
      BY Zenon, <3>3 DEF MultiplyAndRound
    <3> QED BY <2>3, <3>1, <3>2, <3>3 DEF OnEntries
  <2>4. CASE Changing
    BY <2>4 DEF Changing, SwitchFormat, SwitchModulus, LazySwitchModulus
  <2>5. CASE Assigning
    <3>1. ASSUME NEW l \in Lists PROVE Grown(l) \in Nat
      <4>1. N \in Nat
        BY RingFacts
      <4>2. Lists \subseteq Seq(Int)
        BY PolyAssumption
      <4>3. Len(l) \in Nat
        BY ONLY <4>2, l \in Lists
      <4> QED BY <4>1, <4>3 DEF Grown
    <3>2. (\E l \in Lists : surplus' = Grown(l)) \/ surplus' \in {0, surplus}
      BY <2>5 DEF Assigning, AssignEmpty, AssignPoly, AssignInts, AssignWord, SetValuesToMax, AssignList, AssignStrings
    <3> QED BY <3>1, <3>2
  <2>6. CASE UNCHANGED vars
    BY <2>6 DEF vars
  <2> QED BY <2>1, <2>2, <2>3, <2>4, <2>5, <2>6 DEF Next
<1> QED BY <1>1, <1>2, PTL DEF Spec

\* The empty polynomial a behaviour starts with is zero.
LEMMA InitImplementsRing == Init => PolyInv /\ Ring!Init
<1> SUFFICES ASSUME Init PROVE PolyInv /\ Ring!Init
  OBVIOUS
<1>1. PolyInv /\ params \in Params /\ q = params.modulus
  BY DEF Init, PolyInv, q
<1>2. Element = Zeros
  BY DEF Init, Element
<1>3. Zeros \in [Index -> 0 .. params.modulus - 1]
  BY <1>1, ZerosStand
<1> QED BY <1>1, <1>2, <1>3, RingFacts, OneRing DEF Ring!Init, R!Ring

\* The invariant holds of every chain of calls.
LEMMA PolyInvariant == Spec => []PolyInv
<1>1. PolyInv /\ [Next]_vars => PolyInv'
  BY StepsImplementRing
<1> QED BY <1>1, InitImplementsRing, PTL DEF Spec

\* Whatever is called, the parameters are among those given, the format is
\* one of the two and the values are words.
THEOREM PolyTypeCorrect == Spec => []TypeOK
<1>1. PolyInv /\ Counted => TypeOK
  <2> SUFFICES ASSUME PolyInv, surplus \in Nat PROVE TypeOK
    BY DEF Counted
  <2>1. values # Null => \A i \in DOMAIN values : values[i] \in Word
    <3>1. 0 .. q \subseteq Word
      BY CurrentElement, RoomyFacts
    <3> QED BY <3>1 DEF PolyInv
  <2> QED BY <2>1 DEF TypeOK, PolyInv
<1> QED BY <1>1, PolyInvariant, SurplusCounts, PTL

\* No value of a polynomial ever exceeds the modulus, for any length, modulus
\* and word, whatever is called and in whichever order: not the modulus that a
\* rounding, a switch of the modulus or an automorphism leaves for a zero, not
\* what the sums, differences and transforms make of it, nor the values of a
\* vector that a list of strings has grown and a transform then refused.
THEOREM ValuesNeverExceed == Spec => []ValuesAtMostModulus
<1>1. PolyInv => ValuesAtMostModulus
  <2> SUFFICES ASSUME PolyInv PROVE ValuesAtMostModulus
    OBVIOUS
  <2>1. q \in Nat
    BY CurrentElement
  <2> QED BY <2>1 DEF PolyInv, ValuesAtMostModulus
<1> QED BY <1>1, PolyInvariant, PTL

\* Every member function of HexlPolyImpl does to the element of
\* Z_q[X]/(X^N + 1) what its name says, in either format, for any power of two
\* N, any moduli with a root of unity of order 2N that leave two bits of the
\* word free, any operands and any chain of calls, lists longer than the ring
\* too; only a change of format after one of these may leave another element.
THEOREM PolyImplementsRing == Spec => ImplementsRing
<1>1. PolyInv /\ [Next]_vars => [Ring!Next]_(Ring!vars)
  BY StepsImplementRing
<1> QED BY <1>1, InitImplementsRing, PolyInvariant, PTL DEF Spec, ImplementsRing, Ring!Spec

\* Whatever has been called, what is read off a polynomial is true of it, when
\* the moduli are primes, as the code picks them: Norm is the size of the
\* largest centred coefficient, an element has an inverse exactly if
\* InverseExists says so, and the digits of BaseDecompose times the powers of
\* PowersOfBase add up to the product, for every digit length that reads no bit
\* past the word.
THEOREM AnswersAlwaysTrue == PrimeModuli => (Spec => []QueriesTruthful)
<1> SUFFICES ASSUME PrimeModuli PROVE Spec => []QueriesTruthful
  OBVIOUS
<1>1. PolyInv => QueriesTruthful
  BY DigitsAreTrue, NormIsTrue, InverseIsTrue DEF QueriesTruthful
<1> QED BY <1>1, PolyInvariant, PTL
=============================================================================
