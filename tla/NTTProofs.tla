------------------------------ MODULE NTTProofs ------------------------------
(***************************************************************************)
(* Every stage of every butterfly network is exact, and every network ends *)
(* with the values or the coefficients it is named for, for every length   *)
(* N, every modulus, root and input that NTTAssumption admits.             *)
(*                                                                         *)
(* Forward: a block of a stage is the input modulo X^len - z, and a        *)
(* butterfly with a square root s of z turns it into the residues modulo   *)
(* X^(len/2) - s and X^(len/2) + s.  That the table entry of each block is *)
(* such a root is a fact about bit reversal: twice the reversal of 2y + e  *)
(* is the reversal of y plus e * N.                                        *)
(*                                                                         *)
(* Inverse: a block, as a polynomial, takes at each of its points (the     *)
(* powers that the reversals of its indices name) the same multiple of one *)
(* entry of the input.  A stage joins two blocks: at half of the points    *)
(* the differences cancel, at the other half the sums do.                  *)
(*                                                                         *)
(* Iterative: a block holds the values, at its points, of every (N/k)-th   *)
(* coefficient, and the two halves of a block are the odd and the even     *)
(* ones because its middle's reversal is one high bit more.  With the      *)
(* inverse table it holds coefficients for such values instead.            *)
(***************************************************************************)
EXTENDS NTT, NativeWordProofs

-----------------------------------------------------------------------------
(* The reversal of bits.                                                   *)

\* The length of an index.
LEMMA IndexLength ==
  \E l \in 1 .. W : N = 2^l /\ GetMSB(N - 1) = l /\ N \in Nat \ {0, 1}
<1>1. PICK l \in 1 .. W : N = 2^l
  BY NTTAssumption
<1>2. l - 1 \in Nat /\ W \in Nat /\ l \in 0 .. W /\ l - 1 \in 0 .. W
  BY PowersOfTwo
<1>3. N = 2 * 2^(l - 1) /\ 2^(l - 1) \in Nat \ {0} /\ N <= 2^W /\ N \in Nat
  BY <1>1, <1>2, PowersOfTwo
<1>4. N \in Nat \ {0, 1} /\ N - 1 \in Word
  BY <1>2, <1>3, WordSize
<1> DEFINE k == GetMSB(N - 1)
           Fits(n) == n \in 0 .. W /\ N - 1 < 2^n /\ (n = 0 \/ 2^(n - 1) <= N - 1)
<1>5. Fits(l)
  <2>1. 2^(l - 1) <= N - 1
    BY <1>3
  <2> QED BY <1>1, <1>2, <1>3, <2>1
<1>6. Fits(k)
  <2>1. k = CHOOSE n \in 0 .. W : N - 1 < 2^n /\ (n = 0 \/ 2^(n - 1) <= N - 1)
    BY DEF GetMSB
  <2>2. \E n \in 0 .. W : N - 1 < 2^n /\ (n = 0 \/ 2^(n - 1) <= N - 1)
    BY <1>5
  <2> HIDE DEF k
  <2> QED BY <2>1, <2>2
<1> HIDE DEF k
<1>7. \A i, j \in 0 .. W : i <= j => 2^i <= 2^j
  <2> SUFFICES ASSUME NEW i \in 0 .. W, NEW j \in 0 .. W, i <= j PROVE 2^i <= 2^j
    OBVIOUS
  <2> DEFINE d == j - i
  <2>1. d \in 0 .. W /\ d \in 0 .. 2 * W /\ i \in 0 .. 2 * W /\ i + d = j /\ i + d <= 2 * W
    BY <1>2
  <2> HIDE DEF d
  <2>2. 2^(i + d) = 2^i * 2^d /\ 2^i \in Nat \ {0} /\ 2^d \in Nat \ {0}
    BY <2>1, PowerAssumption
  <2>3. 1 * 2^i <= 2^d * 2^i /\ 2^d * 2^i = 2^i * 2^d
    BY <2>2, Monotone
  <2> QED BY <2>1, <2>2, <2>3
<1>8. k = l
  <2>1. CASE k < l
    <3>1. k \in 0 .. W /\ l - 1 \in 0 .. W /\ k <= l - 1 /\ N - 1 < 2^k
      BY <1>2, <1>6, <2>1
    <3>2. 2^k <= 2^(l - 1) /\ 2^k \in Nat
      BY <1>7, <3>1, PowersOfTwo
    <3> QED BY <1>3, <3>1, <3>2
  <2>2. CASE k > l
    <3>1. k \in 0 .. W /\ k - 1 \in 0 .. W /\ l <= k - 1 /\ 2^(k - 1) <= N - 1
      BY <1>2, <1>6, <2>2
    <3>2. 2^l <= 2^(k - 1) /\ 2^(k - 1) \in Nat
      BY <1>2, <1>7, <3>1, PowersOfTwo
    <3> QED BY <1>1, <1>3, <3>1, <3>2
  <2> QED BY <1>2, <1>6, <2>1, <2>2
<1> QED BY <1>1, <1>4, <1>8 DEF k

\* ReverseBits is the last of those.
LEMMA ReverseUnrolls ==
  ASSUME NEW i \in Index, GetMSB(N - 1) \in 1 .. W
  PROVE  \E f : Reverses(i, GetMSB(N - 1), f) /\ ReverseBits[i] = f[GetMSB(N - 1)]
<1> DEFINE A == Nat
           l == GetMSB(N - 1)
           s == [b \in 1 .. l |-> b - 1]
           Bit(acc, b) == 2 * acc + ((i \div 2^b) % 2)
           F == [p \in (1 .. l) \X A |-> Bit(p[2], s[p[1]])]
           Good(h) == h = [j \in SUBSET (1 .. l) |->
                             IF j = {} THEN 0 ELSE Bit(h[j \ {Max(j)}], s[Max(j)])]
           iter == CHOOSE h : Good(h)
<1>1. l \in Nat /\ W \in Nat /\ i \in Nat /\ \A k \in 1 .. l : s[k] = k - 1 /\ k - 1 \in 0 .. W
  BY IndexLength, PowersOfTwo DEF Index
<1>2. ReverseBits[i] = iter[1 .. l]
  BY DEF ReverseBits, FoldLeft, MapThenFoldSet
<1> l \in 1 .. W
  OBVIOUS
<1> HIDE DEF l
<1>3. \A acc \in Nat, k \in 1 .. l : Bit(acc, s[k]) \in Nat /\ Bit(acc, s[k]) = Bit(acc, k - 1)
  <2>1. ASSUME NEW k \in 1 .. l PROVE (i \div 2^(k - 1)) % 2 \in Nat
    <3>1. 2^(k - 1) \in Nat \ {0}
      BY <1>1, PowersOfTwo
    <3>2. i \div 2^(k - 1) \in Nat
      BY <1>1, <3>1, DivNat
    <3> QED BY <3>2, DivNat, 2 \in Nat \ {0}
  <2> QED BY <1>1, <2>1
<1>4. Steps(l, A, F) /\ \A k \in 1 .. l, acc \in A : F[<<k, acc>>] = Bit(acc, s[k])
  <2>1. \A p \in (1 .. l) \X A : p[1] \in 1 .. l /\ p[2] \in Nat
    OBVIOUS
  <2> HIDE DEF s, Bit
  <2> QED BY <1>3, <2>1 DEF Steps
<1>5. 0 \in A
  OBVIOUS
<1>6. \A j \in SUBSET (1 .. l) : j # {} => Max(j) \in 1 .. l /\ j \ {Max(j)} \in SUBSET (1 .. l)
  BY <1>1, MaxOf
<1> HIDE DEF A, s, F, Bit
<1>7. PICK h : h \in [SUBSET (1 .. l) -> A] /\ Folds(l, A, 0, F, h)
  BY <1>1, <1>4, <1>5, FoldExists
<1>8. Good(h)
  BY <1>4, <1>6, <1>7 DEF Folds
<1>9. Good(iter)
  BY <1>8
<1> HIDE DEF iter
<1>10. Folds(l, A, 0, F, iter)
  BY <1>4, <1>6, <1>9 DEF Folds
<1> HIDE DEF Good
<1>11. PICK f : Unrolls(l, A, 0, F, f) /\ f[l] = iter[1 .. l]
  BY <1>1, <1>4, <1>5, <1>10, FoldUnroll
<1>12. \A k \in 1 .. l : f[k - 1] \in A
  BY <1>1, <1>11 DEF Unrolls
<1>13. Reverses(i, l, f)
  BY <1>3, <1>4, <1>11, <1>12 DEF A, Unrolls, Reverses, Bit
<1> QED BY <1>2, <1>11, <1>13 DEF l

\* The reversal of an index is an index; its lowest bit becomes the highest.
LEMMA Reversal ==
  /\ \A i \in Index : ReverseBits[i] \in Index
  /\ ReverseBits[0] = 0
  /\ \A y \in Nat, e \in {0, 1} :
       2 * y + e \in Index => y \in Index /\ 2 * ReverseBits[2 * y + e] = e * N + ReverseBits[y]
<1>1. PICK l \in 1 .. W : N = 2^l /\ GetMSB(N - 1) = l /\ N \in Nat \ {0, 1}
  BY IndexLength
<1>2. l \in 0 .. l /\ l \in 1 .. l /\ l - 1 \in 0 .. l /\ l - 1 \in 0 .. W /\ l \in 0 .. W /\ W \in Nat
  BY PowersOfTwo
<1>3. N = 2 * 2^(l - 1) /\ 2^(l - 1) \in Nat \ {0}
  BY <1>1, <1>2, PowersOfTwo
<1>4. \A i \in Index : i \in Nat /\ \E f : Reverses(i, l, f) /\ ReverseBits[i] = f[l]
  BY <1>1, ReverseUnrolls DEF Index
<1>5. ASSUME NEW i \in Index PROVE ReverseBits[i] \in Index
  <2>1. PICK f : Reverses(i, l, f) /\ ReverseBits[i] = f[l]
    BY <1>4
  <2>2. f[l] \in 0 .. 2^l - 1
    BY <1>2, <1>4, <2>1, ReversalBounded
  <2> QED BY <1>1, <2>1, <2>2 DEF Index
<1>6. ASSUME NEW y \in Nat, NEW e \in {0, 1}, 2 * y + e \in Index
      PROVE  y \in Index /\ 2 * ReverseBits[2 * y + e] = e * N + ReverseBits[y]
  <2>1. y \in Index /\ y < 2^(l - 1)
    BY <1>1, <1>3, <1>6 DEF Index
  <2>2. PICK f : Reverses(y, l, f) /\ ReverseBits[y] = f[l]
    BY <1>4, <2>1
  <2>3. PICK g : Reverses(2 * y + e, l, g) /\ ReverseBits[2 * y + e] = g[l]
    BY <1>4, <1>6
  <2>4. g[l] = e * 2^(l - 1) + f[l - 1]
    BY <1>2, <2>2, <2>3, ReversalShifts
  <2>5. f[l] = 2 * f[l - 1] + ((y \div 2^(l - 1)) % 2) /\ f[l - 1] \in Nat
    BY <1>2, <2>2 DEF Reverses
  <2>6. y \div 2^(l - 1) = 0
    <3> DEFINE c == 2^(l - 1)
    <3>1. y = 0 * c + y /\ y \in 0 .. c - 1 /\ c \in Nat \ {0} /\ 0 \in Int /\ y \in Int
      BY <1>3, <2>1
    <3> HIDE DEF c
    <3>2. y \div c = 0
      BY ONLY <3>1, DivUnique
    <3> QED BY <3>2 DEF c
  <2> DEFINE b == (y \div 2^(l - 1)) % 2
  <2>7. b = 0
    <3>1. 0 % 2 = 0
      OBVIOUS
    <3> QED BY ONLY <2>6, <3>1, Zenon
  <2> HIDE DEF b
  <2>8. f[l] = 2 * f[l - 1]
    <3>1. f[l] = 2 * f[l - 1] + b
      BY <2>5 DEF b
    <3> QED BY ONLY <2>5, <2>7, <3>1
  <2> DEFINE c == 2^(l - 1)
  <2> HIDE DEF c
  <2>9. 2 * (e * c + f[l - 1]) = e * (2 * c) + 2 * f[l - 1]
    BY <1>3, <2>5 DEF c
  <2> QED BY <1>3, <2>1, <2>2, <2>3, <2>4, <2>8, <2>9 DEF c
<1>7. ReverseBits[0] = 0
  <2>1. 2 * 0 + 0 = 0 /\ 0 \in Index /\ 0 \in Nat
    BY <1>1 DEF Index
  <2>2. 2 * ReverseBits[2 * 0 + 0] = 0 * N + ReverseBits[0]
    BY <1>6, <2>1
  <2>3. ReverseBits[0] \in Nat
    BY <1>5, <2>1 DEF Index
  <2> QED BY <1>1, <2>1, <2>2, <2>3
<1> QED BY <1>5, <1>6, <1>7

-----------------------------------------------------------------------------
(* The tables of roots.                                                    *)

\* The modulus of the parameters is one for which the word arithmetic is exact.
LEMMA ParamsModulus ==
  ASSUME params \in Params
  PROVE  /\ q \in Nat \ {0, 1} /\ q \in Nat \ {0} /\ BarrettModulus(q) /\ 4 * q < 2^W
         /\ params.root \in Nat /\ Power(params.root, N, q) = q - 1
         /\ Inputs \subseteq [Index -> 0 .. q - 1] /\ HasInverse(N, q)
<1>1. /\ BarrettModulus(q) /\ params.root \in 0 .. q - 1 /\ Power(params.root, N, q) = q - 1
      /\ Inputs \subseteq [Index -> 0 .. q - 1] /\ HasInverse(N, q)
  BY NTTAssumption DEF q
<1>2. q \in Nat \ {0} /\ 4 * q < 2^W
  BY <1>1, ModulusPowers
<1>3. q # 1
  <2>1. GetMSB(q) - 1 \in 1 .. W /\ GetMSB(q) - 1 \in Nat /\ 2^(GetMSB(q) - 1) <= q
    BY <1>1, PowersOfTwo DEF BarrettModulus
  <2> DEFINE k == GetMSB(q) - 1
  <2>2. k - 1 \in 0 .. W
    BY <2>1, PowersOfTwo
  <2>3. 2^k = 2 * 2^(k - 1) /\ 2^(k - 1) \in Nat \ {0}
    BY <2>1, <2>2, PowersOfTwo
  <2> QED BY <1>2, <2>1, <2>3
<1> QED BY <1>1, <1>2, <1>3

\* The entries of the tables are residues, and powers of the root.
LEMMA RootsInTables ==
  ASSUME params \in Params
  PROVE  /\ \A e \in Nat : Root(e) \in 0 .. q - 1
         /\ \A e \in 0 .. 2 * N - 1 : Root(e) = Power(params.root, e, q)
         /\ \A i \in Index : RootTable(i) = Power(params.root, ReverseBits[i], q)
         /\ \A i \in Index : RootTable(i) \in 0 .. q - 1 /\ RootInverseTable(i) \in 0 .. q - 1
<1>1. q \in Nat \ {0, 1} /\ params.root \in Nat /\ N \in Nat \ {0, 1} /\ 2 * N \in Nat \ {0}
  BY ParamsModulus, IndexLength
<1>2. \A e \in Nat : e % (2 * N) \in 0 .. 2 * N - 1 /\ e % (2 * N) \in Nat
  BY <1>1, DivNat
<1>3. \A e \in Nat : Root(e) = Power(params.root, e % (2 * N), q)
  BY <1>2 DEF Root, RootPowers, q
<1>4. \A e \in Nat : Root(e) \in 0 .. q - 1
  <2> DEFINE r == params.root
  <2>1. r \in Nat /\ q \in Nat \ {0, 1}
    BY <1>1
  <2> HIDE DEF r
  <2>2. \A n \in Nat : Power(r, n, q) \in 0 .. q - 1
    BY ONLY <2>1, PowerSteps
  <2> QED BY <1>2, <1>3, <2>2 DEF r
<1>5. \A e \in 0 .. 2 * N - 1 : e % (2 * N) = e
  BY ONLY <1>1, Remainders
<1>6. \A e \in 0 .. 2 * N - 1 : Root(e) = Power(params.root, e, q)
  BY <1>3, <1>5
<1>7. \A i \in Index : ReverseBits[i] \in Nat /\ ReverseBits[i] \in 0 .. 2 * N - 1
  BY <1>1, Reversal DEF Index
<1>8. \A i \in Index : (2 * N - 1) * ReverseBits[i] \in Nat
  <2>1. 2 * N - 1 \in Nat
    BY <1>1
  <2> QED BY <1>7, <2>1, ProductInteger
<1> QED BY <1>4, <1>6, <1>7, <1>8 DEF RootTable, RootInverseTable

\* The table's entry at 2 * y + e is a square root of the one at y, or of minus
\* that one.
LEMMA RootSquares ==
  ASSUME params \in Params, NEW y \in Nat, NEW e \in {0, 1}, 2 * y + e \in Index
  PROVE  /\ y \in Index
         /\ Congruent(RootTable(2 * y + e) * RootTable(2 * y + e),
                      IF e = 0 THEN RootTable(y) ELSE q - RootTable(y), q)
<1> DEFINE r == params.root
           i == 2 * y + e
           s == RootTable(i)
           z == RootTable(y)
<1>1. q \in Nat \ {0, 1} /\ q \in Nat \ {0} /\ r \in Nat /\ Power(r, N, q) = q - 1 /\ N \in Nat
  BY ParamsModulus, IndexLength
<1>2. y \in Index /\ 2 * ReverseBits[i] = e * N + ReverseBits[y]
  BY Reversal
<1>3. ReverseBits[i] \in Nat /\ ReverseBits[y] \in Nat
  BY <1>2, Reversal DEF Index
<1>4. s = Power(r, ReverseBits[i], q) /\ z = Power(r, ReverseBits[y], q) /\ s \in 0 .. q - 1 /\ z \in 0 .. q - 1
  BY <1>2, RootsInTables
<1> DEFINE u == ReverseBits[i]
           v == ReverseBits[y]
<1> HIDE DEF u, v, s, z, r
<1>5. Power(r, u + u, q) = (s * s) % q
  <2>1. u \in Nat /\ s = Power(r, u, q)
    BY <1>3, <1>4 DEF u
  <2>2. Power(r, u + u, q) = (Power(r, u, q) * Power(r, u, q)) % q
    BY ONLY <1>1, <2>1, PowerSum
  <2> QED BY <2>1, <2>2
<1>6. Congruent(s * s, Power(r, u + u, q), q)
  <2>1. s * s \in Int
    BY <1>4
  <2>2. Congruent((s * s) % q, s * s, q)
    BY <1>1, <2>1, CongruentRelation
  <2> QED BY <1>1, <1>5, <2>2, CongruentRelation
<1>7. CASE e = 0
  <2>1. u + u = v
    BY <1>1, <1>2, <1>3, <1>7 DEF u, v
  <2>2. Congruent(s * s, z, q)
    BY <1>4, <1>6, <2>1 DEF v
  <2> QED BY <1>2, <1>7, <2>2 DEF s, z, i
<1>8. CASE e = 1
  <2>1. u + u = N + v
    BY <1>1, <1>2, <1>3, <1>8 DEF u, v
  <2>2. Power(r, N + v, q) = ((q - 1) * z) % q
    <3>1. v \in Nat /\ z = Power(r, v, q)
      BY <1>3, <1>4 DEF v
    <3>2. Power(r, N + v, q) = (Power(r, N, q) * Power(r, v, q)) % q
      BY ONLY <1>1, <3>1, PowerSum
    <3> QED BY <1>1, <3>1, <3>2
  <2> DEFINE p == (q - 1) * z
  <2>3. p \in Int /\ Congruent(p, q - z, q)
    <3>1. p \in Int
      BY <1>1, <1>4
    <3>2. Congruent((q - 1) * z, q - z, q)
      BY ONLY <1>1, <1>4, MinusOneTimes
    <3> QED BY <3>1, <3>2
  <2> HIDE DEF p
  <2>4. Congruent(p % q, p, q)
    BY <1>1, <2>3, CongruentRelation
  <2>5. Congruent(s * s, p % q, q)
    BY <1>6, <2>1, <2>2 DEF p
  <2>6. Congruent(s * s, q - z, q)
    BY <1>1, <2>3, <2>4, <2>5, CongruentRelation
  <2> QED BY <1>2, <1>8, <2>6 DEF s, z, i
<1> QED BY <1>7, <1>8

-----------------------------------------------------------------------------
(* The butterflies.                                                        *)

\* The sum and the difference written for clang, which compare first.
LEMMA ClangSums ==
  ASSUME NEW M \in Nat \ {0}, 4 * M < 2^W, NEW lo \in 0 .. M - 1, NEW f \in 0 .. M - 1
  PROVE  /\ Wrap(lo + Wrap(f - (IF f >= Wrap(M - lo) THEN M ELSE 0))) = (lo + f) % M
         /\ Wrap(Wrap(lo + (IF f > lo THEN M ELSE 0)) - f) = (lo - f) % M
<1> DEFINE U == 2^W
<1>1. U \in Nat \ {0} /\ 4 * M < U /\ Word = 0 .. U - 1 /\ \A x \in Word : Wrap(x) = x
  BY WordSize, WrapWord
<1> HIDE DEF U
<1>2. \A x \in Int : x \in -U .. -1 => Wrap(x) = x + U
  <2> SUFFICES ASSUME NEW x \in -U .. -1 PROVE Wrap(x) = x + U
    OBVIOUS
  <2> DEFINE d == x + U
             k == -1
  <2>1. x = k * U + d /\ d \in 0 .. U - 1 /\ x \in Int /\ k \in Int
    BY <1>1
  <2> HIDE DEF d, k
  <2>2. x % U = d
    BY ONLY <1>1, <2>1, DivUnique
  <2> QED BY <2>2 DEF Wrap, U, d
<1>3. \A x \in U .. 2 * U - 1 : Wrap(x) = x - U
  <2> SUFFICES ASSUME NEW x \in U .. 2 * U - 1 PROVE Wrap(x) = x - U
    OBVIOUS
  <2> DEFINE d == x - U
             k == 1
  <2>1. x = k * U + d /\ d \in 0 .. U - 1 /\ x \in Int /\ k \in Int
    BY <1>1
  <2> HIDE DEF d, k
  <2>2. x % U = d
    BY ONLY <1>1, <2>1, DivUnique
  <2> QED BY <2>2 DEF Wrap, U, d
<1>4. \A x \in 0 .. M - 1 : x % M = x
  BY ONLY Remainders, M \in Nat \ {0}
<1>5. \A x \in M .. 2 * M - 1 : x % M = x - M
  <2> SUFFICES ASSUME NEW x \in M .. 2 * M - 1 PROVE x % M = x - M
    OBVIOUS
  <2>1. x = 1 * M + (x - M) /\ x - M \in 0 .. M - 1 /\ x \in Int /\ 1 \in Int
    OBVIOUS
  <2> QED BY ONLY <2>1, DivUnique, M \in Nat \ {0}
<1>6. \A x \in -M .. -1 : x % M = x + M
  <2> SUFFICES ASSUME NEW x \in -M .. -1 PROVE x % M = x + M
    OBVIOUS
  <2>1. x = (-1) * M + (x + M) /\ x + M \in 0 .. M - 1 /\ x \in Int /\ -1 \in Int
    OBVIOUS
  <2> QED BY ONLY <2>1, DivUnique, M \in Nat \ {0}
<1>7. Wrap(M - lo) = M - lo
  <2>1. M - lo \in Word
    BY <1>1
  <2> QED BY <1>1, <2>1
<1>8. Wrap(lo + Wrap(f - (IF f >= M - lo THEN M ELSE 0))) = (lo + f) % M
  <2>1. CASE f >= M - lo
    <3>1. f - M \in -U .. -1 /\ f - M \in Int
      BY <1>1
    <3>2. Wrap(f - M) = (f - M) + U
      BY ONLY <1>2, <3>1
    <3>3. lo + ((f - M) + U) \in U .. 2 * U - 1
      BY <1>1, <2>1
    <3>4. Wrap(lo + ((f - M) + U)) = (lo + ((f - M) + U)) - U
      BY ONLY <1>3, <3>3
    <3>5. lo + f \in M .. 2 * M - 1
      BY <2>1
    <3>6. (lo + f) % M = (lo + f) - M
      BY ONLY <1>5, <3>5
    <3>7. (lo + ((f - M) + U)) - U = (lo + f) - M
      BY <1>1
    <3>8. (IF f >= M - lo THEN M ELSE 0) = M
      BY <2>1
    <3> QED BY ONLY <3>2, <3>4, <3>6, <3>7, <3>8
  <2>2. CASE ~(f >= M - lo)
    <3>1. f \in Word /\ lo + f \in Word /\ lo + f \in 0 .. M - 1
      BY <1>1, <2>2
    <3>2. Wrap(f) = f /\ Wrap(lo + f) = lo + f
      BY ONLY <1>1, <3>1
    <3>3. (lo + f) % M = lo + f
      BY ONLY <1>4, <3>1
    <3>4. f - (IF f >= M - lo THEN M ELSE 0) = f
      BY <2>2
    <3> QED BY ONLY <3>2, <3>3, <3>4
  <2> QED BY <2>1, <2>2
<1>9. Wrap(Wrap(lo + (IF f > lo THEN M ELSE 0)) - f) = (lo - f) % M
  <2>1. CASE f > lo
    <3>1. lo + M \in Word /\ (lo + M) - f \in Word /\ lo - f \in -M .. -1
      BY <1>1, <2>1
    <3>2. Wrap(lo + M) = lo + M /\ Wrap((lo + M) - f) = (lo + M) - f
      BY ONLY <1>1, <3>1
    <3>3. (lo - f) % M = (lo - f) + M
      BY ONLY <1>6, <3>1
    <3>4. (lo - f) + M = (lo + M) - f /\ (IF f > lo THEN M ELSE 0) = M
      BY <2>1
    <3> QED BY ONLY <3>2, <3>3, <3>4
  <2>2. CASE ~(f > lo)
    <3>1. lo \in Word /\ lo - f \in Word /\ lo - f \in 0 .. M - 1
      BY <1>1, <2>2
    <3>2. Wrap(lo) = lo /\ Wrap(lo - f) = lo - f
      BY ONLY <1>1, <3>1
    <3>3. (lo - f) % M = lo - f
      BY ONLY <1>4, <3>1
    <3>4. lo + (IF f > lo THEN M ELSE 0) = lo
      BY <2>2
    <3> QED BY ONLY <3>2, <3>3, <3>4
  <2> QED BY <2>1, <2>2
<1> QED BY <1>7, <1>8, <1>9

\* Every way of adding, subtracting and multiplying residues is exact.
LEMMA ButterflyParts ==
  ASSUME params \in Params, NEW x \in 0 .. q - 1, NEW y \in 0 .. q - 1
  PROVE  /\ SumOf(x, y) = (x + y) % q
         /\ DifferenceOf(x, y) = (x - y) % q
         /\ Product(x, y) = (x * y) % q
         /\ ModMulMu(x, y, q, ComputeMu(q)) = (x * y) % q
         /\ ModAddFast(x, y, q) = (x + y) % q
         /\ ModSubFast(x, y, q) = (x - y) % q
<1>1. q \in Nat \ {0} /\ BarrettModulus(q) /\ 4 * q < 2^W
  BY ParamsModulus
<1>2. ModAddFast(x, y, q) = (x + y) % q /\ ModSubFast(x, y, q) = (x - y) % q
  BY <1>1, SumsExact
<1>3. /\ Wrap(x + Wrap(y - (IF y >= Wrap(q - x) THEN q ELSE 0))) = (x + y) % q
      /\ Wrap(Wrap(x + (IF y > x THEN q ELSE 0)) - y) = (x - y) % q
  BY <1>1, ClangSums
<1>4. ModMulFastMu(x, y, q, ComputeMu(q)) = (x * y) % q
  BY <1>1, BarrettMulExact
<1>5. ModMulFastConst(x, y, q, PrepModMulConst(y, q)) = (x * y) % q
  <2>1. x \in Word
    BY <1>1, WordSize
  <2> QED BY <1>1, <2>1, ShoupMulExact
<1>6. Reduced(x, q, ComputeMu(q)) = x /\ Reduced(y, q, ComputeMu(q)) = y
  BY <1>1 DEF Reduced
<1>7. SumOf(x, y) = (x + y) % q /\ DifferenceOf(x, y) = (x - y) % q
  BY <1>2, <1>3 DEF SumOf, DifferenceOf
<1>8. Product(x, y) = (x * y) % q
  BY <1>4, <1>5 DEF Product
<1>9. ModMulMu(x, y, q, ComputeMu(q)) = (x * y) % q
  BY <1>4, <1>6 DEF ModMulMu
<1> QED BY <1>2, <1>7, <1>8, <1>9

\* A forward butterfly, with its shortcut for zero: x + w * y and x - w * y.
LEMMA ForwardButterflyExact ==
  ASSUME params \in Params, NEW x \in 0 .. q - 1, NEW y \in 0 .. q - 1, NEW w \in 0 .. q - 1
  PROVE  /\ ForwardButterfly(x, y, w)[1] \in 0 .. q - 1
         /\ ForwardButterfly(x, y, w)[2] \in 0 .. q - 1
         /\ Congruent(ForwardButterfly(x, y, w)[1], x + w * y, q)
         /\ Congruent(ForwardButterfly(x, y, w)[2], x + ((q - w) % q) * y, q)
<1> DEFINE f == Product(y, w)
           v == (q - w) % q
<1>1. q \in Nat \ {0} /\ q \in Nat \ {0, 1}
  BY ParamsModulus
<1>2. f = (y * w) % q
  BY ButterflyParts
<1>3. y * w \in Int /\ w * y \in Int /\ y * w = w * y /\ x \in Int /\ w \in Int /\ y \in Int
  BY <1>1
<1>4. f \in 0 .. q - 1 /\ Congruent(f, w * y, q) /\ f \in Int
  <2>1. (y * w) % q \in 0 .. q - 1 /\ Congruent((y * w) % q, y * w, q)
    BY ONLY <1>1, <1>3, CongruentRelation
  <2> QED BY <1>1, <1>2, <1>3, <2>1
<1>5. ForwardButterfly(x, y, w) = <<SumOf(x, f), DifferenceOf(x, f)>>
      \/ (y = 0 /\ ForwardButterfly(x, y, w) = <<x, x>>)
  BY DEF ForwardButterfly
<1>6. SumOf(x, f) = (x + f) % q /\ DifferenceOf(x, f) = (x - f) % q
  <2> HIDE DEF f
  <2> QED BY <1>4, ButterflyParts
<1>7. y = 0 => x = (x + f) % q /\ x = (x - f) % q
  <2>1. SUFFICES ASSUME y = 0 PROVE x = (x + f) % q /\ x = (x - f) % q
    OBVIOUS
  <2>2. y * w = 0 /\ 0 \in 0 .. q - 1
    BY <1>1, <2>1
  <2>3. \A a \in 0 .. q - 1 : a % q = a
    BY ONLY <1>1, Remainders
  <2>4. f = 0
    BY <1>2, <2>2, <2>3
  <2>5. x + f = x /\ x - f = x
    BY <1>1, <2>4
  <2> QED BY <2>3, <2>5
<1>8. /\ ForwardButterfly(x, y, w)[1] = (x + f) % q
      /\ ForwardButterfly(x, y, w)[2] = (x - f) % q
  <2> HIDE DEF f
  <2> QED BY <1>5, <1>6, <1>7
<1> HIDE DEF f
<1>9. x + f \in Int /\ x - f \in Int
  BY <1>3, <1>4
<1>10. /\ (x + f) % q \in 0 .. q - 1 /\ Congruent((x + f) % q, x + f, q)
       /\ (x - f) % q \in 0 .. q - 1 /\ Congruent((x - f) % q, x - f, q)
  BY ONLY <1>1, <1>9, CongruentRelation
<1>11. Congruent(x, x, q)
  BY <1>1, CongruentRelation
<1>12. Congruent(x + f, x + w * y, q) /\ Congruent(x - f, x - w * y, q)
  <2> DEFINE p == w * y
  <2>1. p \in Int /\ Congruent(f, p, q)
    BY <1>3, <1>4
  <2> HIDE DEF p
  <2>2. Congruent(x + f, x + p, q)
    BY ONLY <1>1, <1>3, <1>4, <1>11, <2>1, CongruentSum
  <2>3. Congruent(x - f, x - p, q)
    BY ONLY <1>1, <1>3, <1>4, <1>11, <2>1, CongruentDifference
  <2> QED BY <2>2, <2>3 DEF p
<1>13. v \in Int /\ Congruent(x + v * y, x - w * y, q)
  <2>1. v \in 0 .. q - 1 /\ Congruent(v, q - w, q)
    BY ONLY <1>1, MinusOneTimes, w \in 0 .. q - 1
  <2> DEFINE c == q - w
             p == w * y
             d == v * y
             e == c * y
             g == q * y
  <2>2. c \in Int /\ v \in Int
    BY <1>1, <1>3, <2>1
  <2> HIDE DEF v
  <2>3. d \in Int /\ e \in Int /\ p \in Int /\ g \in Int /\ e = g - p
    BY <1>1, <1>3, <2>2
  <2>4. Congruent(g, 0, q)
    <3>1. q = 1 * q + 0 /\ 0 \in 0 .. q - 1 /\ q \in Int /\ 1 \in Int
      BY <1>1
    <3>2. q % q = 0 /\ 0 % q = 0
      <4>1. q % q = 0
        BY ONLY <1>1, <3>1, DivUnique
      <4>2. \A a \in 0 .. q - 1 : a % q = a
        BY ONLY <1>1, Remainders
      <4> QED BY <3>1, <4>1, <4>2
    <3>3. Congruent(q, 0, q) /\ Congruent(y, y, q)
      BY <3>2 DEF Congruent
    <3>4. Congruent(q * y, 0 * y, q)
      BY ONLY <1>1, <1>3, <3>1, <3>3, CongruentProduct, 0 \in Int
    <3>5. 0 * y = 0
      BY <1>3
    <3> QED BY <3>4, <3>5
  <2>5. Congruent(v, c, q) /\ Congruent(y, y, q)
    BY <1>1, <2>1, CongruentRelation
  <2>6. Congruent(v * y, c * y, q)
    BY ONLY <1>1, <1>3, <2>2, <2>5, CongruentProduct
  <2>7. Congruent(d, e, q) /\ Congruent(p, p, q)
    BY <1>1, <2>6, CongruentRelation
  <2> HIDE DEF d, e, p, g, c
  <2>8. Congruent(g - p, 0 - p, q)
    BY ONLY <1>1, <2>3, <2>4, <2>7, CongruentDifference, 0 \in Int
  <2> DEFINE h == 0 - p
  <2>9. Congruent(d, h, q) /\ h \in Int /\ x + h = x - p
    BY <1>1, <1>3, <2>3, <2>7, <2>8, CongruentRelation
  <2> HIDE DEF h
  <2>10. Congruent(x + d, x + h, q)
    BY ONLY <1>1, <1>3, <1>11, <2>3, <2>9, CongruentSum
  <2> QED BY <2>2, <2>9, <2>10 DEF d, p
<1> HIDE DEF v
<1>14. v * y \in Int
  BY <1>3, <1>13
<1> DEFINE g1 == ForwardButterfly(x, y, w)[1]
           g2 == ForwardButterfly(x, y, w)[2]
           p1 == x + w * y
           p2 == x - w * y
           p3 == x + v * y
<1>15. Congruent(g1, x + f, q) /\ Congruent(x + f, p1, q) /\ Congruent(g2, x - f, q) /\ Congruent(x - f, p2, q)
       /\ Congruent(p3, p2, q)
  BY <1>8, <1>10, <1>12, <1>13
<1> HIDE DEF g1, g2, p1, p2, p3
<1>16. Congruent(g1, p1, q) /\ Congruent(g2, p3, q)
  BY ONLY <1>1, <1>15, CongruentRelation
<1> QED BY <1>8, <1>10, <1>16 DEF g1, g2, p1, p3, v

-----------------------------------------------------------------------------
(* The sums that a block holds.                                            *)

\* The sum in BlocksHoldResidues, with its bounds as arguments.
BlockSum(x, j, len, n, z, M) ==
  LET sum[i \in 0 .. n] == IF i = 0 THEN 0 ELSE sum[i - 1] + x[j + (i - 1) * len] * Power(z, i - 1, M)
  IN  sum[n]

\* The invariant in terms of it.
LEMMA BlocksAreSums ==
  BlocksHoldResidues <=>
    (kind.way = "forward" =>
      \A b \in 0 .. m - 1, j \in 0 .. (N \div m) - 1 :
        element[b * (N \div m) + j] = BlockSum(input, j, N \div m, m, BlockRoot(b), q) % q)
  BY DEF BlocksHoldResidues, SumUpTo, BlockSum

\* After a step.
LEMMA BlocksAreSumsAfter ==
  BlocksHoldResidues' <=>
    (kind'.way = "forward" =>
      \A b \in 0 .. m' - 1, j \in 0 .. (N \div m') - 1 :
        element'[b * (N \div m') + j] = BlockSum(input', j, N \div m', m', BlockRoot(b)', q') % q')
  BY DEF BlocksHoldResidues, SumUpTo, BlockSum

\* It is a total.
Terms(x, j, len, n, z, M) == [i \in 0 .. n - 1 |-> x[j + i * len] * Power(z, i, M)]

\* A sum over a block is the total of those terms.
LEMMA BlockSumIsTotal ==
  ASSUME NEW n \in Nat, NEW x, NEW j, NEW len, NEW z, NEW M,
         \A i \in 0 .. n - 1 : Terms(x, j, len, n, z, M)[i] \in Int
  PROVE  BlockSum(x, j, len, n, z, M) = Total(Terms(x, j, len, n, z, M), n)
<1> DEFINE t == Terms(x, j, len, n, z, M)
           Is(g) == g = [i \in 0 .. n |-> IF i = 0 THEN 0
                                          ELSE g[i - 1] + x[j + (i - 1) * len] * Power(z, i - 1, M)]
           sum == CHOOSE g : Is(g)
<1>1. \A i \in 1 .. n : i - 1 \in 0 .. n - 1 /\ t[i - 1] = x[j + (i - 1) * len] * Power(z, i - 1, M)
  BY DEF Terms
<1>2. \A i \in 0 .. n - 1 : t[i] \in Int
  OBVIOUS
<1> HIDE DEF t
<1>3. PICK ps : PartialSums(t, n, ps)
  BY <1>2, PartialSumsExist
<1>4. ps \in [0 .. n -> Int] /\ ps[0] = 0 /\ \A i \in 1 .. n : ps[i] = ps[i - 1] + t[i - 1]
  BY <1>3 DEF PartialSums
<1>5. Is([i \in 0 .. n |-> ps[i]])
  <2>1. \A i \in 0 .. n : i # 0 => i \in 1 .. n /\ i - 1 \in 0 .. n
    OBVIOUS
  <2> QED BY <1>1, <1>4, <2>1
<1>6. Is(sum)
  BY <1>5
<1>7. BlockSum(x, j, len, n, z, M) = sum[n]
  BY DEF BlockSum
<1> HIDE DEF sum
<1>8. sum[0] = 0 /\ \A i \in 1 .. n : sum[i] = sum[i - 1] + t[i - 1]
  <2>1. 0 \in 0 .. n /\ \A i \in 1 .. n : i \in 0 .. n /\ i # 0
    OBVIOUS
  <2> QED BY <1>1, <1>6, <2>1
<1>9. sum[n] = ps[n]
  <2>1. n \in 0 .. n
    OBVIOUS
  <2> HIDE DEF Is
  <2> QED BY ONLY <1>3, <1>8, <2>1, PartialSumsUnique, n \in Nat
<1>10. Total(t, n) = ps[n]
  BY <1>3, TotalIsLast
<1> QED BY <1>7, <1>9, <1>10 DEF t

\* With s a square root of z, a sum in powers of s is one in powers of z over
\* the even places, and s times one over the odd places.
LEMMA BlockSplits ==
  ASSUME NEW M \in Nat \ {0, 1}, NEW n \in Nat, NEW t \in Nat, NEW j \in Nat, NEW x,
         NEW s \in 0 .. M - 1, NEW z \in 0 .. M - 1, Congruent(s * s, z, M),
         \A i \in 0 .. 2 * n - 1 : x[j + i * t] \in Int
  PROVE  /\ BlockSum(x, j, t, 2 * n, s, M) \in Int
         /\ BlockSum(x, j, 2 * t, n, z, M) \in Int
         /\ BlockSum(x, j + t, 2 * t, n, z, M) \in Int
         /\ Congruent(BlockSum(x, j, t, 2 * n, s, M),
                      BlockSum(x, j, 2 * t, n, z, M) + s * BlockSum(x, j + t, 2 * t, n, z, M), M)
<1> DEFINE T == Terms(x, j, t, 2 * n, s, M)
           P == Terms(x, j, 2 * t, n, z, M)
           R == Terms(x, j + t, 2 * t, n, z, M)
<1>1. M \in Nat \ {0} /\ s \in Nat /\ z \in Nat /\ s \in Int /\ 2 * n \in Nat
  OBVIOUS
<1>2. \A k \in Nat : Power(s, k, M) \in Int /\ Power(z, k, M) \in Int
  <2>1. \A k \in Nat : Power(s, k, M) \in 0 .. M - 1
    BY ONLY <1>1, PowerSteps, M \in Nat \ {0, 1}
  <2>2. \A k \in Nat : Power(z, k, M) \in 0 .. M - 1
    BY ONLY <1>1, PowerSteps, M \in Nat \ {0, 1}
  <2> QED BY <2>1, <2>2
<1>3. ASSUME NEW i \in 0 .. n - 1
      PROVE  /\ 2 * i \in 0 .. 2 * n - 1 /\ 2 * i + 1 \in 0 .. 2 * n - 1
             /\ j + (2 * i) * t = j + i * (2 * t)
             /\ j + (2 * i + 1) * t = (j + t) + i * (2 * t)
             /\ x[j + i * (2 * t)] \in Int /\ x[(j + t) + i * (2 * t)] \in Int
  <2>1. 2 * i \in 0 .. 2 * n - 1 /\ 2 * i + 1 \in 0 .. 2 * n - 1
    OBVIOUS
  <2>2. j + (2 * i) * t = j + i * (2 * t)
    OBVIOUS
  <2>3. j + (2 * i + 1) * t = (j + t) + i * (2 * t)
    OBVIOUS
  <2>4. x[j + (2 * i) * t] \in Int /\ x[j + (2 * i + 1) * t] \in Int
    BY <2>1
  <2> QED BY <2>1, <2>2, <2>3, <2>4
<1>4. \A a, b \in Int : a * b \in Int
  BY ProductInteger
<1>5. \A i \in 0 .. 2 * n - 1 : x[j + i * t] * Power(s, i, M) \in Int /\ T[i] \in Int
  BY <1>2, <1>4 DEF Terms
<1>6. \A i \in 0 .. n - 1 : /\ x[j + i * (2 * t)] * Power(z, i, M) \in Int /\ P[i] \in Int
                            /\ x[(j + t) + i * (2 * t)] * Power(z, i, M) \in Int /\ R[i] \in Int
  BY <1>2, <1>3, <1>4 DEF Terms
<1>7. BlockSum(x, j, t, 2 * n, s, M) = Total(T, 2 * n)
  BY ONLY <1>1, <1>5, BlockSumIsTotal
<1>8. BlockSum(x, j, 2 * t, n, z, M) = Total(P, n)
  BY ONLY <1>6, BlockSumIsTotal, n \in Nat
<1>9. BlockSum(x, j + t, 2 * t, n, z, M) = Total(R, n)
  BY ONLY <1>6, BlockSumIsTotal, n \in Nat
<1>10. ASSUME NEW i \in 0 .. n - 1
       PROVE  Congruent(T[2 * i], P[i], M) /\ Congruent(T[2 * i + 1], s * R[i], M)
  <2> DEFINE a == x[j + i * (2 * t)]
             b == x[(j + t) + i * (2 * t)]
             u == Power(z, i, M)
             v == Power(s, 2 * i + 1, M)
             su == s * u
  <2>1. i \in Nat /\ a \in Int /\ b \in Int /\ u \in Int /\ v \in Int /\ su \in Int
    BY <1>2, <1>3, <1>4
  <2>2. Power(s, 2 * i, M) = u /\ Congruent(v, su, M)
    BY <2>1, PowersOfRoot
  <2>3. T[2 * i] = a * u /\ P[i] = a * u /\ T[2 * i + 1] = b * v /\ R[i] = b * u
    BY <1>3, <2>2 DEF Terms
  <2> HIDE DEF T, P, R, a, b, u, v
  <2>4. b * su = s * (b * u)
    BY <1>1, <2>1
  <2> HIDE DEF su
  <2>5. Congruent(b, b, M)
    BY <1>1, CongruentRelation
  <2>6. Congruent(b * v, b * su, M)
    BY ONLY <1>1, <2>1, <2>2, <2>5, CongruentProduct
  <2>7. Congruent(T[2 * i + 1], s * R[i], M)
    BY <2>3, <2>4, <2>6
  <2>8. Congruent(T[2 * i], P[i], M)
    BY <1>1, <2>3, CongruentRelation
  <2> QED BY <2>7, <2>8
<1> HIDE DEF T, P, R
<1>11. Congruent(Total(T, 2 * n), Total(P, n) + s * Total(R, n), M)
  BY ONLY <1>1, <1>5, <1>6, <1>10, TotalSplits, n \in Nat
<1>12. Total(T, 2 * n) \in Int
  <2>1. 2 * n \in 0 .. 2 * n
    BY <1>1
  <2>2. \A k \in 0 .. 2 * n : Total(T, k) \in Int
    BY ONLY <1>1, <1>5, TotalSteps
  <2> QED BY <2>1, <2>2
<1>13. Total(P, n) \in Int /\ Total(R, n) \in Int
  <2>1. n \in 0 .. n
    OBVIOUS
  <2>2. \A k \in 0 .. n : Total(P, k) \in Int
    BY ONLY <1>6, TotalSteps, n \in Nat
  <2>3. \A k \in 0 .. n : Total(R, k) \in Int
    BY ONLY <1>6, TotalSteps, n \in Nat
  <2> QED BY <2>1, <2>2, <2>3
<1> QED BY <1>7, <1>8, <1>9, <1>11, <1>12, <1>13
-----------------------------------------------------------------------------
(* The stages, and the entries that a stage pairs.                         *)

\* The numbers of blocks a stage can have: the powers of two that divide N.
Doublings == {k \in Nat : \E a \in 0 .. GetMSB(N - 1) : k = 2^a}

\* Each of them is 1 or twice another, and below N it leaves an even length.
LEMMA Halves ==
  /\ 1 \in Doublings /\ N \in Doublings
  /\ \A k \in Doublings :
       /\ k \in 1 .. N
       /\ k = 1 \/ \E h \in Doublings : k = 2 * h
       /\ k < N => /\ 2 * k \in Doublings
                   /\ \E t \in Nat \ {0} : N = k * (2 * t) /\ N \div k = 2 * t /\ N \div (2 * k) = t
<1>1. PICK l \in 1 .. W : N = 2^l /\ GetMSB(N - 1) = l /\ N \in Nat \ {0, 1}
  BY IndexLength
<1>2. /\ W \in Nat /\ l \in Nat /\ l \in 0 .. l /\ 0 \in 0 .. l /\ 2^0 = 1
      /\ \A a \in 0 .. l : a \in 0 .. W /\ l - a \in 0 .. l /\ l - a \in 0 .. W
      /\ \A a \in 1 .. l : a - 1 \in 0 .. l /\ a \in 1 .. W
      /\ \A a \in 0 .. l : a # l => a + 1 \in 0 .. l /\ a + 1 \in 1 .. W /\ (a + 1) - 1 = a /\ l - a \in 1 .. W
                                    /\ (l - a) - 1 \in 0 .. W
  BY PowersOfTwo
<1>3. \A k \in Nat : k \in Doublings <=> \E a \in 0 .. l : k = 2^a
  BY <1>1 DEF Doublings
<1>4. 1 \in Doublings /\ N \in Doublings
  BY <1>1, <1>2, <1>3
<1>5. \A a \in 0 .. W : 2^a \in Nat \ {0}
  BY PowersOfTwo
<1>6. ASSUME NEW a \in 0 .. l
      PROVE  N = 2^a * 2^(l - a)
  <2>1. a + (l - a) = l /\ a \in 0 .. 2 * W /\ l - a \in 0 .. 2 * W /\ l <= 2 * W
    BY <1>2
  <2> QED BY <1>1, <2>1, PowerAssumption
<1>7. ASSUME NEW k \in Doublings PROVE k \in 1 .. N
  <2>1. k \in Nat /\ \E a \in 0 .. l : k = 2^a
    BY <1>3 DEF Doublings
  <2>2. PICK a \in 0 .. l : k = 2^a
    BY <2>1
  <2> DEFINE c == 2^(l - a)
  <2>3. N = k * c /\ k \in Nat \ {0} /\ c \in Nat \ {0}
    BY <1>2, <1>5, <1>6, <2>2
  <2> HIDE DEF c
  <2>4. 1 * k <= c * k /\ c * k = k * c
    BY ONLY <2>3, Monotone, Reorder, 1 <= c, 1 \in Int
  <2> QED BY <2>3, <2>4, <1>1
<1>8. ASSUME NEW k \in Doublings PROVE k = 1 \/ \E h \in Doublings : k = 2 * h
  <2>1. k \in Nat /\ \E a \in 0 .. l : k = 2^a
    BY <1>3 DEF Doublings
  <2>2. PICK a \in 0 .. l : k = 2^a
    BY <2>1
  <2>3. CASE a = 0
    BY <1>2, <2>2, <2>3
  <2>4. CASE a # 0
    <3>1. a \in 1 .. l /\ a - 1 \in 0 .. l /\ a \in 1 .. W /\ a - 1 \in 0 .. W
      BY <1>2, <2>4
    <3>2. 2^(a - 1) \in Nat /\ 2^(a - 1) \in Doublings
      BY <1>3, <1>5, <3>1
    <3>3. k = 2 * 2^(a - 1)
      BY <2>2, <3>1, PowersOfTwo
    <3> QED BY <3>2, <3>3
  <2> QED BY <2>3, <2>4
<1>9. ASSUME NEW k \in Doublings, k < N
      PROVE  /\ 2 * k \in Doublings
             /\ \E t \in Nat \ {0} : N = k * (2 * t) /\ N \div k = 2 * t /\ N \div (2 * k) = t
  <2>1. k \in Nat /\ \E a \in 0 .. l : k = 2^a
    BY <1>3 DEF Doublings
  <2>2. PICK a \in 0 .. l : k = 2^a
    BY <2>1
  <2>3. a # l
    BY <1>1, <1>9, <2>2
  <2>4. /\ a + 1 \in 0 .. l /\ a + 1 \in 1 .. W /\ (a + 1) - 1 = a /\ l - a \in 1 .. W /\ (l - a) - 1 \in 0 .. W
        /\ a \in 0 .. W
    BY <1>2, <2>3
  <2>5. 2^(a + 1) = 2 * k /\ 2^(l - a) = 2 * 2^((l - a) - 1)
    BY <2>2, <2>4, PowersOfTwo
  <2>6. 2 * k \in Doublings
    <3>1. 2 * k \in Nat
      BY <2>1
    <3> QED BY <1>3, <2>4, <2>5, <3>1
  <2> DEFINE t == 2^((l - a) - 1)
  <2>7. k \in Nat \ {0} /\ t \in Nat \ {0} /\ N = k * (2 * t)
    BY <1>5, <1>6, <2>2, <2>4, <2>5
  <2> HIDE DEF t
  <2> DEFINE k2 == 2 * k
             t2 == 2 * t
  <2>8. N = t2 * k + 0 /\ N = t * k2 + 0 /\ 0 \in 0 .. k - 1 /\ 0 \in 0 .. k2 - 1 /\ k2 \in Nat \ {0}
        /\ t2 \in Int /\ t \in Int /\ N \in Int
    BY <1>1, <2>7
  <2> HIDE DEF k2, t2
  <2>9. N \div k = t2 /\ N \div k2 = t
    BY ONLY <2>7, <2>8, DivUnique
  <2> QED BY <2>6, <2>7, <2>9 DEF k2, t2
<1> QED BY <1>4, <1>7, <1>8, <1>9

\* Each of them is at least 1 and at most N.
LEMMA DoublingsBelow == \A k \in Doublings : k \in 1 .. N
<1> SUFFICES ASSUME NEW k \in Doublings PROVE k \in 1 .. N
  OBVIOUS
<1> QED BY ONLY Halves, k \in Doublings

\* Entry j of the half u of block b.
LEMMA StageIndices ==
  ASSUME NEW k \in Nat \ {0}, NEW t \in Nat \ {0}, N = k * (2 * t)
  PROVE  /\ \A b \in 0 .. k - 1, u \in {0, 1}, j \in 0 .. t - 1 :
              /\ (2 * b + u) * t + j \in Index
              /\ ((2 * b + u) * t + j) \div (2 * t) = b
              /\ ((2 * b + u) * t + j) % (2 * t) = u * t + j
         /\ \A i \in Index : \E b \in 0 .. k - 1, u \in {0, 1}, j \in 0 .. t - 1 : i = (2 * b + u) * t + j
<1> DEFINE D == 2 * t
<1>1. D \in Nat \ {0} /\ N = k * D /\ N \in Nat
  BY IndexLength
<1>2. ASSUME NEW b \in 0 .. k - 1, NEW u \in {0, 1}, NEW j \in 0 .. t - 1
      PROVE  /\ (2 * b + u) * t + j \in Index
             /\ ((2 * b + u) * t + j) \div (2 * t) = b
             /\ ((2 * b + u) * t + j) % (2 * t) = u * t + j
  <2> DEFINE r == u * t + j
             x == (2 * b + u) * t + j
  <2>1. x = b * D + r
    OBVIOUS
  <2>2. r \in 0 .. D - 1 /\ b \in Int /\ b + 1 \in Int /\ b + 1 <= k /\ D \in Nat
    OBVIOUS
  <2> HIDE DEF D, r, x
  <2>3. (b + 1) * D <= k * D
    BY ONLY <2>2, Monotone, k \in Int
  <2>4. (b + 1) * D = b * D + D /\ b * D \in Nat /\ 0 <= b * D
    <3>1. b \in Nat /\ D \in Nat
      BY <2>2
    <3>2. b * D \in Nat
      BY ONLY <3>1, ProductInteger
    <3>3. (b + 1) * D = b * D + D
      BY <3>1
    <3> QED BY <3>2, <3>3
  <2> DEFINE p == b * D
             p1 == (b + 1) * D
             K == k * D
  <2>5. p1 <= K /\ p1 = p + D /\ p \in Nat /\ x = p + r /\ N = K
    BY <1>1, <2>1, <2>3, <2>4
  <2> HIDE DEF p, p1, K
  <2>6. x \in 0 .. N - 1 /\ x \in Int
    BY ONLY <1>1, <2>2, <2>5, p1 \in Int
  <2>7. x % D = r /\ x \div D = b
    BY ONLY <1>1, <2>1, <2>2, <2>6, DivUnique
  <2> QED BY <2>6, <2>7 DEF D, r, x, Index
<1>3. ASSUME NEW i \in Index
      PROVE  \E b \in 0 .. k - 1, u \in {0, 1}, j \in 0 .. t - 1 : i = (2 * b + u) * t + j
  <2>1. i \in Nat /\ i < N
    BY <1>1 DEF Index
  <2> HIDE DEF D
  <2>2. PICK b \in Nat, r \in 0 .. D - 1 : b = i \div D /\ i = D * b + r
    BY <1>1, <2>1, DivSplit
  <2>3. b < k
    BY ONLY <1>1, <2>1, <2>2, DivBelow, k \in Nat
  <2> DEFINE c == b * t
  <2>4. D = 2 * t /\ b \in 0 .. k - 1 /\ D * b = 2 * c /\ (2 * b + 0) * t = 2 * c /\ (2 * b + 1) * t = 2 * c + t
        /\ c \in Int
    <3>1. D = 2 * t /\ b \in 0 .. k - 1 /\ c \in Int
      BY <2>2, <2>3 DEF D
    <3>2. (2 * t) * b = 2 * (b * t)
      BY <2>2
    <3>3. (2 * b + 0) * t = 2 * (b * t) /\ (2 * b + 1) * t = 2 * (b * t) + t
      BY <2>2
    <3> QED BY <3>1, <3>2, <3>3
  <2> HIDE DEF c
  <2>5. CASE r < t
    <3>1. r \in 0 .. t - 1 /\ i = (2 * b + 0) * t + r
      BY <2>2, <2>4, <2>5
    <3> QED BY <2>4, <3>1
  <2>6. CASE ~(r < t)
    <3>1. r - t \in 0 .. t - 1 /\ i = (2 * b + 1) * t + (r - t)
      BY <2>2, <2>4, <2>6
    <3> QED BY <2>4, <3>1
  <2> QED BY <2>5, <2>6
<1> QED BY <1>2, <1>3

\* The indices of a stage that are used without their quotients.
LEMMA StagePlaces ==
  ASSUME NEW k \in Nat \ {0}, NEW t \in Nat \ {0}, N = k * (2 * t)
  PROVE  /\ \A b \in 0 .. k - 1, u \in {0, 1}, j \in 0 .. t - 1 : (2 * b + u) * t + j \in Index
         /\ \A i \in Index : \E b \in 0 .. k - 1, u \in {0, 1}, j \in 0 .. t - 1 : i = (2 * b + u) * t + j
<1>1. \A b \in 0 .. k - 1, u \in {0, 1}, j \in 0 .. t - 1 :
        /\ (2 * b + u) * t + j \in Index
        /\ ((2 * b + u) * t + j) \div (2 * t) = b
        /\ ((2 * b + u) * t + j) % (2 * t) = u * t + j
  BY ONLY StageIndices, k \in Nat \ {0}, t \in Nat \ {0}, N = k * (2 * t)
<1>2. \A i \in Index : \E b \in 0 .. k - 1, u \in {0, 1}, j \in 0 .. t - 1 : i = (2 * b + u) * t + j
  BY ONLY StageIndices, k \in Nat \ {0}, t \in Nat \ {0}, N = k * (2 * t)
<1> QED BY ONLY <1>1, <1>2

-----------------------------------------------------------------------------
(* The roots that the blocks belong to.                                    *)

\* BlockRoot, for k blocks.
RootOf(k, b) ==
  IF k = 1 THEN q - 1
  ELSE LET s == RootTable(k \div 2 + b \div 2) IN IF b % 2 = 0 THEN s ELSE (q - s) % q

\* Each of the two halves of a block gets a square root of its root.
LEMMA BlockRoots ==
  ASSUME params \in Params, NEW k \in Doublings, k < N, NEW b \in 0 .. k - 1
  PROVE  /\ RootTable(k + b) \in 0 .. q - 1 /\ RootOf(k, b) \in 0 .. q - 1
         /\ RootOf(2 * k, 2 * b) = RootTable(k + b)
         /\ RootOf(2 * k, 2 * b + 1) = (q - RootTable(k + b)) % q
         /\ (q - RootTable(k + b)) % q \in 0 .. q - 1
         /\ Congruent(RootTable(k + b) * RootTable(k + b), RootOf(k, b), q)
         /\ Congruent(((q - RootTable(k + b)) % q) * ((q - RootTable(k + b)) % q), RootOf(k, b), q)
<1> DEFINE s == RootTable(k + b)
           v == (q - s) % q
           z == RootOf(k, b)
<1>1. q \in Nat \ {0, 1} /\ q \in Nat \ {0} /\ N \in Nat \ {0, 1}
  BY ParamsModulus, IndexLength
<1>2. k \in Nat \ {0} /\ b \in Nat /\ (k = 1 \/ \E h \in Doublings : k = 2 * h) /\ 2 * k <= N
  <2>1. k \in 1 .. N /\ (k = 1 \/ \E h \in Doublings : k = 2 * h)
    BY Halves
  <2>2. 2 * k \in Doublings
    BY Halves
  <2>3. 2 * k \in 1 .. N
    BY <2>2, Halves
  <2> QED BY <2>1, <2>3
<1>3. k + b \in Index /\ s \in 0 .. q - 1
  <2>1. k + b \in Index
    BY <1>1, <1>2 DEF Index
  <2> QED BY <2>1, RootsInTables
<1>4. v \in 0 .. q - 1 /\ Congruent(v, q - s, q) /\ Congruent((q - s) * (q - s), s * s, q)
  <2> HIDE DEF s
  <2> QED BY ONLY <1>1, <1>3, MinusOneTimes
<1>5. RootOf(2 * k, 2 * b) = s /\ RootOf(2 * k, 2 * b + 1) = v
  <2>1. (2 * k) \div 2 = k /\ (2 * b) \div 2 = b /\ (2 * b) % 2 = 0 /\ (2 * b + 1) \div 2 = b /\ (2 * b + 1) % 2 = 1
        /\ 2 * k # 1
    BY <1>2
  <2> QED BY <2>1 DEF RootOf
<1>6. z \in 0 .. q - 1 /\ Congruent(s * s, z, q)
  <2>1. CASE k = 1
    <3>1. b = 0 /\ k + b = 2 * 0 + 1 /\ 0 \in Nat /\ 1 \in {0, 1} /\ 0 \in Index
      BY <1>1, <2>1 DEF Index
    <3>2. Congruent(s * s, q - RootTable(0), q)
      BY <1>3, <3>1, RootSquares
    <3>3. RootTable(0) = 1
      <4>1. ReverseBits[0] = 0 /\ RootTable(0) = Power(params.root, ReverseBits[0], q)
        BY <3>1, Reversal, RootsInTables
      <4>2. params.root \in Nat
        BY ParamsModulus
      <4> QED BY <1>1, <4>1, <4>2, PowerSteps
    <3>4. z = q - 1
      BY <2>1 DEF RootOf
    <3> QED BY <1>1, <3>2, <3>3, <3>4
  <2>2. CASE k # 1
    <3>1. PICK h \in Doublings : k = 2 * h
      BY <1>2, <2>2
    <3>2. h \in Nat
      BY DEF Doublings
    <3>3. PICK c \in Nat, e \in 0 .. 2 - 1 : c = b \div 2 /\ e = b % 2 /\ b = 2 * c + e
      BY <1>2, DivSplit
    <3> DEFINE y == h + c
    <3>4. y \in Nat /\ e \in {0, 1} /\ k + b = 2 * y + e /\ k \div 2 + b \div 2 = y
      <4>1. k \div 2 = h
        BY <3>1, <3>2
      <4> QED BY <3>1, <3>2, <3>3, <4>1
    <3> HIDE DEF y
    <3>5. y \in Index /\ Congruent(s * s, IF e = 0 THEN RootTable(y) ELSE q - RootTable(y), q)
      BY <1>3, <3>4, RootSquares
    <3>6. RootTable(y) \in 0 .. q - 1
      BY <3>5, RootsInTables
    <3> DEFINE r == RootTable(y)
    <3>7. z = IF e = 0 THEN r ELSE (q - r) % q
      BY <2>2, <3>3, <3>4 DEF RootOf
    <3> HIDE DEF s, z
    <3>8. CASE e = 0
      BY <3>5, <3>6, <3>7, <3>8
    <3>9. CASE e # 0
      <4>1. z = (q - r) % q /\ Congruent(s * s, q - r, q)
        BY <3>5, <3>7, <3>9
      <4>2. r \in 0 .. q - 1
        BY <3>6
      <4> HIDE DEF r
      <4>3. Congruent((q - r) % q, q - r, q) /\ (q - r) % q \in 0 .. q - 1
        BY ONLY <1>1, <4>2, MinusOneTimes
      <4>4. Congruent(s * s, (q - r) % q, q)
        BY ONLY <1>1, <4>1, <4>3, CongruentRelation
      <4> QED BY <4>1, <4>3, <4>4
    <3> QED BY <3>8, <3>9
  <2> QED BY <2>1, <2>2
<1> HIDE DEF s, z, v
<1>7. Congruent(v * v, z, q)
  <2> DEFINE d == q - s
  <2>1. d \in Int /\ v \in Int /\ Congruent(v, d, q) /\ Congruent(d * d, s * s, q)
    BY <1>1, <1>3, <1>4
  <2> HIDE DEF d
  <2>2. Congruent(v * v, d * d, q)
    BY ONLY <1>1, <2>1, CongruentProduct
  <2> DEFINE vv == v * v
             dd == d * d
             ss == s * s
  <2>3. Congruent(vv, dd, q) /\ Congruent(dd, ss, q) /\ Congruent(ss, z, q)
    BY <1>6, <2>1, <2>2
  <2> HIDE DEF vv, dd, ss
  <2>4. Congruent(vv, z, q)
    BY ONLY <1>1, <2>3, CongruentRelation
  <2> QED BY <2>4 DEF vv
<1> QED BY <1>3, <1>4, <1>5, <1>6, <1>7 DEF s, z, v

-----------------------------------------------------------------------------
(* The forward stage.                                                      *)

\* The block sums of the halves, from those of the whole.
LEMMA SplitBlocks ==
  ASSUME params \in Params, input \in [Index -> 0 .. q - 1],
         NEW k \in Nat \ {0}, NEW t \in Nat \ {0}, N = k * (2 * t), NEW j \in 0 .. t - 1,
         NEW s \in 0 .. q - 1, NEW z \in 0 .. q - 1, Congruent(s * s, z, q)
  PROVE  /\ BlockSum(input, j, t, 2 * k, s, q) \in Int
         /\ BlockSum(input, j, 2 * t, k, z, q) \in Int
         /\ BlockSum(input, j + t, 2 * t, k, z, q) \in Int
         /\ Congruent(BlockSum(input, j, t, 2 * k, s, q),
                      BlockSum(input, j, 2 * t, k, z, q) + s * BlockSum(input, j + t, 2 * t, k, z, q), q)
<1>1. q \in Nat \ {0, 1} /\ k \in Nat /\ t \in Nat /\ j \in Nat
  BY ParamsModulus
<1>2. \A i \in 0 .. 2 * k - 1 : input[j + i * t] \in Int
  <2> SUFFICES ASSUME NEW i \in 0 .. 2 * k - 1 PROVE input[j + i * t] \in Int
    OBVIOUS
  <2> DEFINE k2 == 2 * k
             i1 == i + 1
             p == i * t
             p1 == i1 * t
             K == k2 * t
  <2>1. i \in Nat /\ i1 \in Int /\ k2 \in Int /\ i1 <= k2 /\ p1 = p + t /\ N = K /\ p \in Nat
    <3>1. i \in Nat
      OBVIOUS
    <3>2. p \in Nat
      BY ONLY <1>1, <3>1, ProductInteger
    <3> QED BY <3>2
  <2>2. p1 <= K
    <3> HIDE DEF i1, k2
    <3> QED BY ONLY <1>1, <2>1, Monotone DEF p1, K
  <2> HIDE DEF p, p1, K, i1, k2
  <2>3. j + p \in Index
    BY <2>1, <2>2 DEF Index
  <2>4. \A y \in Index : input[y] \in Int
    BY <1>1
  <2> QED BY <2>3, <2>4 DEF p
<1> QED BY ONLY <1>1, <1>2, BlockSplits, s \in 0 .. q - 1, z \in 0 .. q - 1, Congruent(s * s, z, q)

\* What the stage writes.
LEMMA ForwardStageWrites ==
  ASSUME ForwardStage, NEW t \in Nat \ {0}, N = m * (2 * t), N \div (2 * m) = t, m \in Nat \ {0}
  PROVE  /\ DOMAIN element' = Index
         /\ \A b \in 0 .. m - 1, u \in {0, 1}, j \in 0 .. t - 1 :
              element'[(2 * b + u) * t + j] =
                ForwardButterfly(element[(2 * b) * t + j], element[(2 * b + 1) * t + j], RootTable(m + b))[u + 1]
<1> DEFINE F(i) ==
      LET block == i \div (2 * t)
          upper == i % (2 * t) >= t
          lo    == IF upper THEN i - t ELSE i
      IN  ForwardButterfly(element[lo], element[lo + t], RootTable(m + block))[IF upper THEN 2 ELSE 1]
<1>0. \A b \in 0 .. m - 1, u \in {0, 1}, j \in 0 .. t - 1 :
        /\ (2 * b + u) * t + j \in Index
        /\ ((2 * b + u) * t + j) \div (2 * t) = b
        /\ ((2 * b + u) * t + j) % (2 * t) = u * t + j
  BY ONLY StageIndices, m \in Nat \ {0}, t \in Nat \ {0}, N = m * (2 * t)
<1>1. element' = [i \in Index |-> F(i)]
  BY DEF ForwardStage, ForwardStageAt, Paired
<1>2. \A i \in Index : element'[i] = F(i)
  BY <1>1
<1>3. ASSUME NEW b \in 0 .. m - 1, NEW u \in {0, 1}, NEW j \in 0 .. t - 1
      PROVE  element'[(2 * b + u) * t + j] =
                ForwardButterfly(element[(2 * b) * t + j], element[(2 * b + 1) * t + j], RootTable(m + b))[u + 1]
  <2> DEFINE i == (2 * b + u) * t + j
             c == b * t
  <2>1. i \in Index /\ i \div (2 * t) = b /\ i % (2 * t) = u * t + j
    BY ONLY <1>0, b \in 0 .. m - 1, u \in {0, 1}, j \in 0 .. t - 1
  <2>2. c \in Int /\ (2 * b) * t = 2 * c /\ (2 * b + 1) * t = 2 * c + t /\ (u = 0 => i = 2 * c + j)
        /\ (u = 1 => i = 2 * c + t + j)
    OBVIOUS
  <2>3. element'[i] = F(i)
    BY <1>2, <2>1
  <2> HIDE DEF i, c
  <2>4. CASE u = 0
    <3>1. ~(i % (2 * t) >= t) /\ i = (2 * b) * t + j /\ i + t = (2 * b + 1) * t + j
      BY <2>1, <2>2, <2>4
    <3> QED BY <2>1, <2>3, <2>4, <3>1 DEF i
  <2>5. CASE u = 1
    <3>1. i % (2 * t) >= t /\ i - t = (2 * b) * t + j /\ (i - t) + t = (2 * b + 1) * t + j
      BY <2>1, <2>2, <2>5
    <3> QED BY <2>1, <2>3, <2>5, <3>1 DEF i
  <2> QED BY <2>4, <2>5
<1> QED BY <1>1, <1>3

\* The loop invariant, of a vector e in k blocks.
BlocksHold(e, k) ==
  \A b \in 0 .. k - 1, j \in 0 .. (N \div k) - 1 :
    e[b * (N \div k) + j] = BlockSum(input, j, N \div k, k, RootOf(k, b), q) % q

\* It is that of the module, before a step and after it.
LEMMA BlocksNow == BlocksHoldResidues <=> (kind.way = "forward" => BlocksHold(element, m))
<1>1. \A b : BlockRoot(b) = RootOf(m, b)
  BY DEF BlockRoot, RootOf
<1> QED BY <1>1, BlocksAreSums DEF BlocksHold

\* The same after a step that keeps the arguments.
LEMMA BlocksNext ==
  ASSUME UNCHANGED <<kind, params, input>>
  PROVE  BlocksHoldResidues' <=> (kind.way = "forward" => BlocksHold(element', m'))
<1>1. q' = q
  BY DEF q
<1>2. \A b : BlockRoot(b)' = RootOf(m', b)
  BY <1>1 DEF BlockRoot, RootOf, RootTable, Root
<1> QED BY <1>1, <1>2, BlocksAreSumsAfter DEF BlocksHold

\* A stage makes two blocks of each, each with the residues it should hold.
LEMMA ForwardStep ==
  ASSUME params \in Params, input \in [Index -> 0 .. q - 1], element \in [Index -> 0 .. q - 1],
         m \in Doublings, ForwardStage, BlocksHold(element, m)
  PROVE  element' \in [Index -> 0 .. q - 1] /\ BlocksHold(element', m')
<1>1. m < N /\ m' = 2 * m
  BY DEF ForwardStage, ForwardStageAt
<1>2. m \in Nat \ {0} /\ q \in Nat \ {0, 1} /\ q \in Nat \ {0} /\ N \in Nat \ {0, 1}
  <2>1. m \in 1 .. N
    BY Halves
  <2> QED BY <2>1, ParamsModulus, IndexLength
<1>3. PICK t \in Nat \ {0} : N = m * (2 * t) /\ N \div m = 2 * t /\ N \div (2 * m) = t
  BY <1>1, Halves
<1>4. /\ DOMAIN element' = Index
      /\ \A b \in 0 .. m - 1, u \in {0, 1}, j \in 0 .. t - 1 :
           element'[(2 * b + u) * t + j] =
             ForwardButterfly(element[(2 * b) * t + j], element[(2 * b + 1) * t + j], RootTable(m + b))[u + 1]
  BY ONLY <1>2, <1>3, ForwardStage, ForwardStageWrites
<1>5. /\ \A b \in 0 .. m - 1, u \in {0, 1}, j \in 0 .. t - 1 : (2 * b + u) * t + j \in Index
      /\ \A i \in Index : \E b \in 0 .. m - 1, u \in {0, 1}, j \in 0 .. t - 1 : i = (2 * b + u) * t + j
  BY ONLY <1>2, <1>3, StagePlaces, t \in Nat \ {0}
<1>6. ASSUME NEW b \in 0 .. m - 1, NEW u \in {0, 1}, NEW j \in 0 .. t - 1
      PROVE  /\ element'[(2 * b + u) * t + j] \in 0 .. q - 1
             /\ element'[(2 * b + u) * t + j] = BlockSum(input, j, t, 2 * m, RootOf(2 * m, 2 * b + u), q) % q
  <2> DEFINE s == RootTable(m + b)
             v == IF u = 0 THEN s ELSE (q - s) % q
             z == RootOf(m, b)
             lo == element[(2 * b) * t + j]
             hi == element[(2 * b + 1) * t + j]
             e == element'[(2 * b + u) * t + j]
             S1 == BlockSum(input, j, 2 * t, m, z, q)
             S2 == BlockSum(input, j + t, 2 * t, m, z, q)
             S == BlockSum(input, j, t, 2 * m, v, q)
  <2>1. s \in 0 .. q - 1 /\ z \in 0 .. q - 1 /\ v \in 0 .. q - 1 /\ Congruent(v * v, z, q)
        /\ RootOf(2 * m, 2 * b + u) = v
    <3>1. CASE u = 0
      BY <1>1, <3>1, BlockRoots
    <3>2. CASE u = 1
      BY <1>1, <3>2, BlockRoots
    <3> QED BY <3>1, <3>2
  <2>2. lo \in 0 .. q - 1 /\ hi \in 0 .. q - 1
    <3>1. \A h \in {0, 1} : (2 * b + h) * t + j \in Index
      BY ONLY <1>5, b \in 0 .. m - 1, j \in 0 .. t - 1
    <3>2. 0 \in {0, 1} /\ 1 \in {0, 1} /\ 2 * b + 0 = 2 * b
      OBVIOUS
    <3>3. (2 * b + 0) * t + j \in Index /\ (2 * b + 1) * t + j \in Index
      BY ONLY <3>1, <3>2, Zenon
    <3>4. \A i \in Index : element[i] \in 0 .. q - 1
      OBVIOUS
    <3> QED BY <3>2, <3>3, <3>4
  <2>3. lo = S1 % q /\ hi = S2 % q
    <3>1. j \in 0 .. (2 * t) - 1 /\ j + t \in 0 .. (2 * t) - 1
      BY <1>3
    <3>2. \A c \in 0 .. m - 1, i \in 0 .. (2 * t) - 1 :
            element[c * (2 * t) + i] = BlockSum(input, i, 2 * t, m, RootOf(m, c), q) % q
      BY <1>3 DEF BlocksHold
    <3> DEFINE p == b * t
    <3>3. b * (2 * t) = 2 * p /\ (2 * b) * t = 2 * p /\ (2 * b + 1) * t = 2 * p + t /\ p \in Int
      BY <1>2
    <3> HIDE DEF p
    <3>4. b * (2 * t) + j = (2 * b) * t + j /\ b * (2 * t) + (j + t) = (2 * b + 1) * t + j
      BY <3>3
    <3> QED BY <3>1, <3>2, <3>4
  <2>4. /\ e \in 0 .. q - 1
        /\ Congruent(e, lo + v * hi, q)
    <3>1. e = ForwardButterfly(lo, hi, s)[u + 1]
      BY <1>4
    <3> HIDE DEF s, lo, hi, e
    <3>2. /\ ForwardButterfly(lo, hi, s)[1] \in 0 .. q - 1
          /\ ForwardButterfly(lo, hi, s)[2] \in 0 .. q - 1
          /\ Congruent(ForwardButterfly(lo, hi, s)[1], lo + s * hi, q)
          /\ Congruent(ForwardButterfly(lo, hi, s)[2], lo + ((q - s) % q) * hi, q)
      BY ONLY <2>1, <2>2, ForwardButterflyExact, params \in Params
    <3>3. CASE u = 0
      BY <3>1, <3>2, <3>3
    <3>4. CASE u = 1
      BY <3>1, <3>2, <3>4
    <3> QED BY <3>3, <3>4
  <2> HIDE DEF s, v, z, lo, hi, e
  <2>5. S \in Int /\ S1 \in Int /\ S2 \in Int /\ Congruent(S, S1 + v * S2, q)
    BY ONLY <1>2, <1>3, <2>1, SplitBlocks, params \in Params, input \in [Index -> 0 .. q - 1], j \in 0 .. t - 1
  <2> HIDE DEF S, S1, S2
  <2>6. v \in Int /\ lo \in Int /\ hi \in Int
    BY <2>1, <2>2
  <2>7. Congruent(lo, S1, q) /\ Congruent(hi, S2, q) /\ Congruent(v, v, q)
    BY ONLY <1>2, <2>3, <2>5, CongruentRelation
  <2> DEFINE vh == v * hi
             vS == v * S2
  <2>8. vh \in Int /\ vS \in Int
    BY <2>5, <2>6, ProductInteger
  <2>9. Congruent(vh, vS, q)
    BY ONLY <1>2, <2>5, <2>6, <2>7, CongruentProduct
  <2>10. Congruent(e, lo + vh, q) /\ Congruent(S, S1 + vS, q)
    BY <2>4, <2>5
  <2> HIDE DEF vh, vS
  <2>11. Congruent(lo + vh, S1 + vS, q)
    BY ONLY <1>2, <2>5, <2>6, <2>7, <2>8, <2>9, CongruentSum
  <2>12. Congruent(e, S % q, q) /\ S % q \in 0 .. q - 1
    <3>1. Congruent(e, S, q)
      BY ONLY <1>2, <2>10, <2>11, CongruentRelation
    <3> QED BY ONLY <1>2, <2>5, <3>1, CongruentRelation
  <2>13. e = S % q
    BY ONLY <1>2, <2>4, <2>12, CongruentRelation
  <2> QED BY <2>1, <2>4, <2>13 DEF S, e
<1>7. element' \in [Index -> 0 .. q - 1]
  <2>1. ASSUME NEW i \in Index PROVE element'[i] \in 0 .. q - 1
    <3>1. PICK b \in 0 .. m - 1, u \in {0, 1}, j \in 0 .. t - 1 : i = (2 * b + u) * t + j
      BY ONLY <1>5, i \in Index
    <3> QED BY ONLY <1>6, <3>1
  <2>2. element' = [i \in Index |-> element'[i]]
    BY DEF ForwardStage, ForwardStageAt, Paired
  <2> QED BY <2>1, <2>2
<1>8. \A c \in 0 .. 2 * m - 1, j \in 0 .. t - 1 :
        element'[c * t + j] = BlockSum(input, j, t, 2 * m, RootOf(2 * m, c), q) % q
  <2> SUFFICES ASSUME NEW c \in 0 .. 2 * m - 1, NEW j \in 0 .. t - 1
               PROVE element'[c * t + j] = BlockSum(input, j, t, 2 * m, RootOf(2 * m, c), q) % q
    OBVIOUS
  <2>1. c \in Nat /\ 2 \in Nat \ {0}
    OBVIOUS
  <2>2. PICK b \in Nat, u \in 0 .. 2 - 1 : b = c \div 2 /\ u = c % 2 /\ c = 2 * b + u
    BY ONLY <2>1, DivSplit
  <2>3. b \in 0 .. m - 1 /\ u \in {0, 1}
    BY <1>2, <2>2
  <2> QED BY <1>6, <2>2, <2>3
<1>9. BlocksHold(element', 2 * m)
  BY <1>3, <1>8 DEF BlocksHold
<1> QED BY <1>1, <1>7, <1>9

-----------------------------------------------------------------------------
(* The other stages leave residues.                                        *)

\* The pair that an entry belongs to.
LEMMA PairIndices ==
  ASSUME NEW k \in Nat \ {0}, NEW t \in Nat \ {0}, N = k * (2 * t), NEW i \in Index
  PROVE  /\ i \div (2 * t) \in 0 .. k - 1
         /\ i % (2 * t) >= t => i - t \in Index /\ (i - t) + t = i
         /\ ~(i % (2 * t) >= t) => i + t \in Index
<1>1. /\ \A b \in 0 .. k - 1, u \in {0, 1}, j \in 0 .. t - 1 :
           /\ (2 * b + u) * t + j \in Index
           /\ ((2 * b + u) * t + j) \div (2 * t) = b
           /\ ((2 * b + u) * t + j) % (2 * t) = u * t + j
      /\ \E b \in 0 .. k - 1, u \in {0, 1}, j \in 0 .. t - 1 : i = (2 * b + u) * t + j
  BY StageIndices
<1>2. PICK b \in 0 .. k - 1, u \in {0, 1}, j \in 0 .. t - 1 : i = (2 * b + u) * t + j
  BY ONLY <1>1
<1>3. i \div (2 * t) = b /\ i % (2 * t) = u * t + j
  BY ONLY <1>1, <1>2
<1>4. \A h \in {0, 1} : (2 * b + h) * t + j \in Index
  BY ONLY <1>1, b \in 0 .. k - 1, j \in 0 .. t - 1
<1>5. (2 * b + 0) * t + j \in Index /\ (2 * b + 1) * t + j \in Index
  BY ONLY <1>4, 0 \in {0, 1}, 1 \in {0, 1}, Zenon
<1> DEFINE c == b * t
<1>6. (2 * b + 0) * t = 2 * c /\ (2 * b + 1) * t = 2 * c + t /\ c \in Int
  OBVIOUS
<1> HIDE DEF c
<1>7. CASE u = 0
  <2>1. i = 2 * c + j /\ 2 * c + t + j \in Index
    BY <1>2, <1>5, <1>6, <1>7
  <2>2. i + t \in Index /\ ~(i % (2 * t) >= t)
    <3>1. i + t = 2 * c + t + j
      BY <1>6, <2>1
    <3> QED BY <1>3, <1>7, <2>1, <3>1
  <2> QED BY <1>3, <2>2
<1>8. CASE u = 1
  <2>1. i = 2 * c + t + j /\ 2 * c + j \in Index
    BY <1>2, <1>5, <1>6, <1>8
  <2>2. i - t \in Index /\ (i - t) + t = i /\ i % (2 * t) >= t
    <3>1. i - t = 2 * c + j /\ (i - t) + t = i
      BY <1>6, <2>1
    <3> QED BY <1>3, <1>8, <2>1, <3>1
  <2> QED BY <1>3, <2>2
<1> QED BY <1>7, <1>8

\* What the arithmetic returns is a residue.
LEMMA PartsAreResidues ==
  ASSUME params \in Params, NEW x \in 0 .. q - 1, NEW y \in 0 .. q - 1
  PROVE  /\ SumOf(x, y) \in 0 .. q - 1 /\ DifferenceOf(x, y) \in 0 .. q - 1 /\ Product(x, y) \in 0 .. q - 1
         /\ ModMulMu(x, y, q, ComputeMu(q)) \in 0 .. q - 1
         /\ ModAddFast(x, y, q) \in 0 .. q - 1 /\ ModSubFast(x, y, q) \in 0 .. q - 1
<1>1. q \in Nat \ {0}
  BY ParamsModulus
<1>2. x + y \in Int /\ x - y \in Int /\ x * y \in Int
  BY <1>1
<1>3. (x + y) % q \in 0 .. q - 1 /\ (x - y) % q \in 0 .. q - 1 /\ (x * y) % q \in 0 .. q - 1
  BY ONLY <1>1, <1>2, Remainders
<1> QED BY <1>3, ButterflyParts

\* The inverse of the length is one.
LEMMA InverseOfLength ==
  ASSUME params \in Params
  PROVE  CycloOrderInv \in 0 .. q - 1 /\ (N * CycloOrderInv) % q = 1
<1>1. \E y \in 0 .. q - 1 : (N * y) % q = 1
  BY ParamsModulus DEF HasInverse
<1> QED BY <1>1 DEF CycloOrderInv, InverseOf

\* A butterfly of the inverse transform.
LEMMA InverseButterflyResidues ==
  ASSUME params \in Params, NEW x \in 0 .. q - 1, NEW y \in 0 .. q - 1, NEW w \in 0 .. q - 1
  PROVE  InverseButterfly(x, y, w)[1] \in 0 .. q - 1 /\ InverseButterfly(x, y, w)[2] \in 0 .. q - 1
<1>1. SumOf(x, y) \in 0 .. q - 1 /\ DifferenceOf(x, y) \in 0 .. q - 1
  BY PartsAreResidues
<1>2. Product(DifferenceOf(x, y), w) \in 0 .. q - 1
  BY <1>1, PartsAreResidues
<1> QED BY <1>1, <1>2 DEF InverseButterfly

\* A stage of the inverse transform.
LEMMA InverseStep ==
  ASSUME params \in Params, element \in [Index -> 0 .. q - 1], m \in Doublings, m < N, InverseStage
  PROVE  element' \in [Index -> 0 .. q - 1]
<1>1. PICK t \in Nat \ {0} : N = m * (2 * t) /\ N \div m = 2 * t /\ N \div (2 * m) = t
  BY Halves
<1>2. m \in Nat \ {0} /\ N \in Nat \ {0, 1}
  <2>1. m \in 1 .. N
    BY ONLY DoublingsBelow, m \in Doublings, Zenon
  <2> QED BY <2>1, IndexLength
<1> DEFINE Scaled(pair) ==
             IF kind.by = "mu" \/ m < N \div 2 THEN pair
             ELSE <<Product(pair[1], CycloOrderInv), Product(pair[2], CycloOrderInv)>>
           G(lo, hi, b) == Scaled(InverseButterfly(lo, hi, RootInverseTable(m + b)))
           F(i) ==
             LET block == i \div (2 * t)
                 upper == i % (2 * t) >= t
                 lo    == IF upper THEN i - t ELSE i
             IN  G(element[lo], element[lo + t], block)[IF upper THEN 2 ELSE 1]
<1>3. element' = [i \in Index |-> F(i)]
  BY <1>1 DEF InverseStage, InverseStageThen, Paired
<1>4. ASSUME NEW x \in 0 .. q - 1, NEW y \in 0 .. q - 1, NEW b \in 0 .. m - 1
      PROVE  G(x, y, b)[1] \in 0 .. q - 1 /\ G(x, y, b)[2] \in 0 .. q - 1
  <2> DEFINE pair == InverseButterfly(x, y, RootInverseTable(m + b))
  <2>1. m + b \in Index
    <3>1. m + b <= 2 * m - 1 /\ 2 * m \in Doublings
      BY <1>2, Halves
    <3>2. 2 * m \in 1 .. N
      BY <3>1, Halves
    <3> QED BY <1>2, <3>1, <3>2 DEF Index
  <2>2. RootInverseTable(m + b) \in 0 .. q - 1
    BY <2>1, RootsInTables
  <2>3. pair[1] \in 0 .. q - 1 /\ pair[2] \in 0 .. q - 1
    BY <2>2, InverseButterflyResidues
  <2>4. CycloOrderInv \in 0 .. q - 1
    BY InverseOfLength
  <2> HIDE DEF pair
  <2>5. Product(pair[1], CycloOrderInv) \in 0 .. q - 1 /\ Product(pair[2], CycloOrderInv) \in 0 .. q - 1
    BY <2>3, <2>4, PartsAreResidues
  <2>6. Scaled(pair)[1] \in 0 .. q - 1 /\ Scaled(pair)[2] \in 0 .. q - 1
    BY <2>3, <2>5
  <2> QED BY <2>6 DEF pair
<1> HIDE DEF G
<1>5. ASSUME NEW i \in Index PROVE F(i) \in 0 .. q - 1
  <2> DEFINE block == i \div (2 * t)
             upper == i % (2 * t) >= t
             lo    == IF upper THEN i - t ELSE i
  <2>1. block \in 0 .. m - 1 /\ lo \in Index /\ lo + t \in Index
    <3>1. /\ i \div (2 * t) \in 0 .. m - 1
          /\ i % (2 * t) >= t => i - t \in Index /\ (i - t) + t = i
          /\ ~(i % (2 * t) >= t) => i + t \in Index
      BY ONLY <1>1, <1>2, PairIndices, i \in Index
    <3> QED BY <3>1
  <2> HIDE DEF block, lo, upper
  <2>2. element[lo] \in 0 .. q - 1 /\ element[lo + t] \in 0 .. q - 1
    BY <2>1
  <2>3. G(element[lo], element[lo + t], block)[1] \in 0 .. q - 1
        /\ G(element[lo], element[lo + t], block)[2] \in 0 .. q - 1
    BY <1>4, <2>1, <2>2
  <2>4. G(element[lo], element[lo + t], block)[IF upper THEN 2 ELSE 1] \in 0 .. q - 1
    BY <2>3
  <2> QED BY <2>4 DEF block, lo, upper
<1> HIDE DEF F
<1> QED BY <1>3, <1>5

\* A stage of the iterative transform.
LEMMA IterativeStep ==
  ASSUME params \in Params, element \in [Index -> 0 .. q - 1], m \in Doublings, IterativeStage
  PROVE  element' \in [Index -> 0 .. q - 1]
<1>1. m < N
  BY DEF IterativeStage
<1>2. PICK t \in Nat \ {0} : N = m * (2 * t) /\ N \div m = 2 * t /\ N \div (2 * m) = t
  BY <1>1, Halves
<1>3. m \in Nat \ {0} /\ N \in Nat \ {0, 1}
  <2>1. m \in 1 .. N
    BY Halves
  <2> QED BY <2>1, IndexLength
<1> DEFINE Table(i) == IF kind.way = "iterative" THEN CyclicTable(i) ELSE CyclicInverseTable(i)
           Omega(i) == Table((i % (2 * m)) * (N \div (2 * m)))
           Factor(i) == ModMulMu(element[i], Omega(i - m), q, ComputeMu(q))
           F(i) == IF i % (2 * m) >= m THEN ModSubFast(element[i - m], Factor(i), q)
                   ELSE ModAddFast(element[i], Factor(i + m), q)
<1>4. element' = [i \in Index |-> F(i)]
  BY DEF IterativeStage
<1>5. ASSUME NEW i \in Nat PROVE Omega(i) \in 0 .. q - 1
  <2> DEFINE c == (i % (2 * m)) * t
  <2>1. c \in Nat
    <3>1. i % (2 * m) \in Nat
      BY ONLY <1>3, Residues, 2 * m \in Nat \ {0}, i \in Nat
    <3> QED BY ONLY <1>2, <3>1, ProductInteger
  <2> HIDE DEF c
  <2>2. 2 * c \in Nat /\ (2 * N - 1) * 2 * c \in Nat
    <3>1. (2 * N - 1) * 2 \in Nat
      BY <1>3
    <3> QED BY ONLY <2>1, <3>1, ProductInteger, 2 \in Nat
  <2>3. Table(c) \in 0 .. q - 1
    BY <2>2, RootsInTables DEF CyclicTable, CyclicInverseTable
  <2> QED BY <1>2, <2>3 DEF c
<1> HIDE DEF Omega
<1>6. ASSUME NEW i \in Index, i - m \in Nat PROVE Factor(i) \in 0 .. q - 1
  <2>1. element[i] \in 0 .. q - 1 /\ Omega(i - m) \in 0 .. q - 1
    BY <1>5, <1>6
  <2> QED BY <2>1, PartsAreResidues
<1> HIDE DEF Factor
<1>7. ASSUME NEW i \in Index PROVE F(i) \in 0 .. q - 1
  <2>1. N = t * (2 * m)
    BY <1>2, <1>3
  <2>2. /\ i % (2 * m) >= m => i - m \in Index
        /\ ~(i % (2 * m) >= m) => i + m \in Index
    BY ONLY <1>2, <1>3, <2>1, PairIndices, i \in Index
  <2>3. \A x \in Index : x \in Nat
    BY DEF Index
  <2>4. CASE i % (2 * m) >= m
    <3>1. element[i - m] \in 0 .. q - 1 /\ Factor(i) \in 0 .. q - 1
      BY <1>6, <2>2, <2>3, <2>4
    <3>2. ModSubFast(element[i - m], Factor(i), q) \in 0 .. q - 1
      BY <3>1, PartsAreResidues
    <3> QED BY <2>4, <3>2
  <2>5. CASE ~(i % (2 * m) >= m)
    <3>1. (i + m) - m = i /\ i \in Nat
      BY <1>3, <2>3
    <3>2. element[i] \in 0 .. q - 1 /\ Factor(i + m) \in 0 .. q - 1
      BY <1>6, <2>2, <2>5, <3>1
    <3>3. ModAddFast(element[i], Factor(i + m), q) \in 0 .. q - 1
      BY <3>2, PartsAreResidues
    <3> QED BY <2>5, <3>3
  <2> QED BY <2>4, <2>5
<1> HIDE DEF F
<1> QED BY <1>4, <1>7

\* The loop that scales.
LEMMA ScaleStep ==
  ASSUME params \in Params, element \in [Index -> 0 .. q - 1], Scale
  PROVE  element' \in [Index -> 0 .. q - 1]
<1>1. ASSUME NEW i \in Index PROVE ModMulMu(element[i], CycloOrderInv, q, ComputeMu(q)) \in 0 .. q - 1
  <2>1. element[i] \in 0 .. q - 1 /\ CycloOrderInv \in 0 .. q - 1
    BY InverseOfLength
  <2> QED BY <2>1, PartsAreResidues
<1> QED BY <1>1 DEF Scale

-----------------------------------------------------------------------------
(* The powers of the root.                                                 *)

\* Root(e) is the e-th power of the root, for every e.
LEMMA RootIsPower ==
  ASSUME params \in Params
  PROVE  /\ \A e \in Nat : Root(e) = Power(params.root, e, q) /\ Root(e) \in 0 .. q - 1
         /\ Root(0) = 1 /\ Root(N) = q - 1 /\ Root(2 * N) = 1
<1> DEFINE r == params.root
           D == 2 * N
<1>1. q \in Nat \ {0, 1} /\ q \in Nat \ {0} /\ r \in Nat /\ N \in Nat \ {0, 1} /\ D \in Nat \ {0}
      /\ Power(r, N, q) = q - 1
  BY ParamsModulus, IndexLength
<1>2. \A a, b \in Nat : Power(r, a + b, q) = (Power(r, a, q) * Power(r, b, q)) % q
  <2> HIDE DEF r
  <2> QED BY ONLY <1>1, PowerSum
<1>3. Power(r, 0, q) = 1 /\ \A a \in Nat : Power(r, a, q) \in 0 .. q - 1
  <2> HIDE DEF r
  <2> QED BY ONLY <1>1, PowerSteps
<1>4. Power(r, D, q) = 1
  <2>1. N + N = D /\ Power(r, N + N, q) = (Power(r, N, q) * Power(r, N, q)) % q
    <3>1. N + N = D /\ N \in Nat
      BY <1>1
    <3>2. Power(r, N + N, q) = (Power(r, N, q) * Power(r, N, q)) % q
      BY ONLY <1>2, <3>1
    <3> QED BY <3>1, <3>2
  <2>2. (q - 1) * (q - 1) = (q - 2) * q + 1 /\ 1 \in 0 .. q - 1
    BY <1>1
  <2> DEFINE x == (q - 1) * (q - 1)
             c == q - 2
  <2>3. x \in Int /\ c \in Int /\ x = c * q + 1
    BY <1>1, <2>2
  <2> HIDE DEF x, c
  <2>4. x % q = 1
    BY ONLY <1>1, <2>2, <2>3, DivUnique
  <2> QED BY <1>1, <2>1, <2>4 DEF x
<1>5. ASSUME NEW d \in Nat
      PROVE  \A k \in Nat : Power(r, D * k + d, q) = Power(r, d, q)
  <2> DEFINE P == {k \in Nat : Power(r, D * k + d, q) = Power(r, d, q)}
  <2>1. 0 \in P
    <3>1. D * 0 + d = d
      BY <1>1
    <3> QED BY <3>1
  <2>2. ASSUME NEW k \in Nat, k \in P PROVE k + 1 \in P
    <3> DEFINE a == D * k + d
               pa == Power(r, a, q)
    <3>1. a \in Nat /\ D * (k + 1) + d = D + a /\ pa = Power(r, d, q)
      <4>1. D * k \in Nat
        BY ONLY <1>1, ProductInteger, k \in Nat
      <4>2. D * (k + 1) = D * k + D
        BY <1>1
      <4> QED BY <1>1, <2>2, <4>1, <4>2
    <3>2. Power(r, D + a, q) = (1 * pa) % q
      BY <1>1, <1>2, <1>4, <3>1
    <3>3. pa \in 0 .. q - 1
      BY <1>3, <3>1
    <3> HIDE DEF pa
    <3>4. 1 * pa = pa /\ pa % q = pa
      <4>1. \A y \in 0 .. q - 1 : y % q = y
        BY ONLY <1>1, Remainders
      <4> QED BY <3>3, <4>1
    <3> QED BY <3>1, <3>2, <3>4
  <2>3. Nat \subseteq P
    <3> HIDE DEF P
    <3> QED BY ONLY <2>1, <2>2, Induction
  <2> QED BY <2>3
<1>6. ASSUME NEW e \in Nat PROVE Root(e) = Power(r, e, q)
  <2> HIDE DEF D
  <2>1. PICK k \in Nat, d \in 0 .. D - 1 : k = e \div D /\ d = e % D /\ e = D * k + d
    BY ONLY <1>1, DivSplit, e \in Nat
  <2>2. Root(e) = Power(r, d, q)
    <3>1. d = e % (2 * N) /\ d \in 0 .. 2 * N - 1
      BY <2>1 DEF D
    <3> QED BY <3>1 DEF Root, RootPowers, q
  <2>3. d \in Nat
    BY <1>1, <2>1
  <2> QED BY <1>5, <2>1, <2>2, <2>3
<1>7. D \in Nat /\ 0 \in Nat /\ N \in Nat
  BY <1>1
<1> QED BY <1>1, <1>3, <1>4, <1>6, <1>7

\* So roots multiply as their exponents add, and so on.
LEMMA RootLaws ==
  ASSUME params \in Params
  PROVE  /\ \A a, b \in Nat : Congruent(Root(a) * Root(b), Root(a + b), q)
         /\ \A a, b \in Nat : Root(2 * N * b + a) = Root(a)
         /\ \A a \in Nat : Root(N + a) = (q - Root(a)) % q
         /\ \A a, k \in Nat : Power(Root(a), k, q) = Root(a * k)
<1>1. /\ q \in Nat \ {0, 1} /\ q \in Nat \ {0} /\ params.root \in Nat /\ N \in Nat \ {0, 1}
      /\ \A e \in Nat : Root(e) = Power(params.root, e, q) /\ Root(e) \in 0 .. q - 1
      /\ Root(0) = 1 /\ Root(N) = q - 1 /\ Root(2 * N) = 1
  BY ParamsModulus, IndexLength, RootIsPower
<1>2. \A a, b \in Nat : Root(a + b) = (Root(a) * Root(b)) % q
  <2> SUFFICES ASSUME NEW a \in Nat, NEW b \in Nat PROVE Root(a + b) = (Root(a) * Root(b)) % q
    OBVIOUS
  <2> DEFINE r == params.root
  <2>1. a + b \in Nat /\ r \in Nat
    BY <1>1
  <2>2. Root(a) = Power(r, a, q) /\ Root(b) = Power(r, b, q) /\ Root(a + b) = Power(r, a + b, q)
    BY <1>1, <2>1
  <2> HIDE DEF r
  <2>3. Power(r, a + b, q) = (Power(r, a, q) * Power(r, b, q)) % q
    BY ONLY <1>1, <2>1, PowerSum, a \in Nat, b \in Nat
  <2> QED BY <2>2, <2>3
<1>3. ASSUME NEW a \in Nat, NEW b \in Nat PROVE Congruent(Root(a) * Root(b), Root(a + b), q)
  <2> DEFINE p == Root(a) * Root(b)
             s == Root(a + b)
  <2>1. p \in Int /\ s = p % q
    <3>1. Root(a) \in Int /\ Root(b) \in Int
      BY <1>1
    <3>2. p \in Int
      BY ONLY <3>1, ProductInteger
    <3>3. s = p % q
      BY ONLY <1>2, a \in Nat, b \in Nat
    <3> QED BY <3>2, <3>3
  <2> HIDE DEF p, s
  <2>2. Congruent(p % q, p, q)
    BY ONLY <1>1, <2>1, CongruentRelation
  <2>3. Congruent(p, s, q)
    BY ONLY <1>1, <2>1, <2>2, CongruentRelation
  <2> QED BY <2>3 DEF p, s
<1>4. ASSUME NEW a \in Nat PROVE \A b \in Nat : Root(2 * N * b + a) = Root(a)
  <2> DEFINE P == {k \in Nat : Root(2 * N * k + a) = Root(a)}
  <2>1. 0 \in P
    <3>1. 2 * N * 0 + a = a
      BY <1>1
    <3> QED BY <3>1
  <2>2. ASSUME NEW k \in Nat, k \in P PROVE k + 1 \in P
    <3> DEFINE c == 2 * N * k + a
    <3>1. c \in Nat /\ 2 * N * (k + 1) + a = 2 * N + c /\ Root(c) = Root(a) /\ 2 * N \in Nat
      <4>1. 2 * N \in Nat
        BY <1>1
      <4>2. 2 * N * k \in Nat
        BY ONLY <4>1, ProductInteger, k \in Nat
      <4>3. 2 * N * (k + 1) = 2 * N * k + 2 * N
        BY <1>1
      <4> QED BY <1>1, <2>2, <4>1, <4>2, <4>3
    <3> HIDE DEF c
    <3>2. Root(2 * N + c) = (Root(2 * N) * Root(c)) % q
      BY ONLY <1>2, <3>1
    <3>3. Root(c) \in 0 .. q - 1
      BY <1>1, <3>1
    <3>4. 1 * Root(c) = Root(c) /\ Root(c) % q = Root(c)
      <4>1. \A y \in 0 .. q - 1 : y % q = y
        BY ONLY <1>1, Remainders
      <4> QED BY <3>3, <4>1
    <3> QED BY <1>1, <3>1, <3>2, <3>4
  <2>3. Nat \subseteq P
    <3> HIDE DEF P
    <3> QED BY ONLY <2>1, <2>2, Induction
  <2> QED BY <2>3
<1>5. ASSUME NEW a \in Nat PROVE Root(N + a) = (q - Root(a)) % q
  <2> DEFINE y == Root(a)
             p == (q - 1) * y
  <2>1. y \in 0 .. q - 1 /\ N \in Nat /\ p \in Int
    BY <1>1
  <2>2. Root(N + a) = p % q
    BY <1>1, <1>2, <2>1
  <2> HIDE DEF y
  <2>3. Congruent(p, q - y, q)
    BY ONLY <1>1, <2>1, MinusOneTimes
  <2> QED BY <2>2, <2>3 DEF y, Congruent
<1>6. ASSUME NEW a \in Nat PROVE \A k \in Nat : Power(Root(a), k, q) = Root(a * k)
  <2> DEFINE z == Root(a)
             P == {k \in Nat : Power(z, k, q) = Root(a * k)}
  <2>0. z \in Nat
    BY <1>1
  <2> HIDE DEF z
  <2>1. 0 \in P
    <3>1. a * 0 = 0 /\ Power(z, 0, q) = 1
      BY <1>1, <2>0, PowerSteps
    <3> QED BY <1>1, <3>1
  <2>2. ASSUME NEW k \in Nat, k \in P PROVE k + 1 \in P
    <3> DEFINE c == a * k
    <3>1. c \in Nat /\ a * (k + 1) = c + a /\ Power(z, k, q) = Root(c)
      BY <2>2, ProductInteger
    <3> HIDE DEF c
    <3>2. Power(z, k + 1, q) = (Power(z, k, q) * z) % q
      BY <1>1, <2>0, PowerSteps
    <3>3. Root(c + a) = (Root(c) * z) % q
      BY <1>2, <3>1 DEF z
    <3> QED BY <3>1, <3>2, <3>3
  <2>3. Nat \subseteq P
    <3> HIDE DEF P
    <3> QED BY ONLY <2>1, <2>2, Induction
  <2> QED BY <2>3 DEF z
<1> QED BY <1>3, <1>4, <1>5, <1>6

-----------------------------------------------------------------------------
(* Induction from stage to stage.                                          *)

LEMMA DoublingUp ==
  ASSUME NEW S, 1 \in S, \A k \in Doublings : k < N /\ k \in S => 2 * k \in S
  PROVE  Doublings \subseteq S
<1>1. PICK l \in 1 .. W : N = 2^l /\ GetMSB(N - 1) = l /\ N \in Nat \ {0, 1}
  BY IndexLength
<1>2. /\ W \in Nat /\ l \in Nat /\ 2^0 = 1
      /\ \A a \in Nat : a + 1 <= l => a \in 0 .. l /\ a + 1 \in 0 .. l /\ a + 1 \in 1 .. W /\ (a + 1) - 1 = a
                                      /\ a \in 0 .. W
  BY PowersOfTwo
<1> DEFINE P == {a \in Nat : a <= l => 2^a \in S}
<1>3. 0 \in P
  BY <1>2
<1>4. ASSUME NEW a \in Nat, a \in P PROVE a + 1 \in P
  <2> SUFFICES ASSUME a + 1 <= l PROVE 2^(a + 1) \in S
    OBVIOUS
  <2>1. a \in 0 .. l /\ a + 1 \in 0 .. l /\ a + 1 \in 1 .. W /\ (a + 1) - 1 = a /\ a \in 0 .. W /\ a <= l
    BY <1>2
  <2>2. 2^(a + 1) = 2 * 2^a /\ 2^a \in Nat \ {0} /\ 2^(a + 1) \in Nat \ {0}
    <3>1. a + 1 \in 0 .. W
      BY <1>2, <2>1
    <3>2. \A c \in 1 .. W : 2^c = 2 * 2^(c - 1)
      BY PowersOfTwo
    <3>3. \A c \in 0 .. W : 2^c \in Nat \ {0}
      BY PowersOfTwo
    <3> QED BY <2>1, <3>1, <3>2, <3>3
  <2> DEFINE k == 2^a
  <2>3. k \in Doublings /\ 2 * k \in Doublings
    BY <1>1, <2>1, <2>2 DEF Doublings
  <2>4. k < N
    <3>1. 2 * k \in 1 .. N
      BY <2>3, Halves
    <3>2. k \in Nat \ {0} /\ N \in Nat
      BY <1>1, <2>2
    <3> HIDE DEF k
    <3> QED BY ONLY <3>1, <3>2
  <2>5. k \in S
    BY <1>4, <2>1
  <2> QED BY <2>2, <2>3, <2>4, <2>5
<1>5. Nat \subseteq P
  <2> HIDE DEF P
  <2> QED BY ONLY <1>3, <1>4, Induction
<1>6. ASSUME NEW k \in Doublings PROVE k \in S
  <2>1. PICK a \in 0 .. l : k = 2^a
    BY <1>1 DEF Doublings
  <2> QED BY <1>5, <2>1
<1> QED BY <1>6

\* The same downwards, from N.
LEMMA DoublingDown ==
  ASSUME NEW S, N \in S, \A k \in Doublings : k < N /\ 2 * k \in S => k \in S
  PROVE  Doublings \subseteq S
<1>1. PICK l \in 1 .. W : N = 2^l /\ GetMSB(N - 1) = l /\ N \in Nat \ {0, 1}
  BY IndexLength
<1>2. /\ W \in Nat /\ l \in Nat
      /\ \A a \in Nat : a + 1 <= l => /\ l - a \in 1 .. W /\ l - (a + 1) \in 0 .. W /\ (l - a) - 1 = l - (a + 1)
                                      /\ l - a \in 0 .. l /\ l - (a + 1) \in 0 .. l
  BY PowersOfTwo
<1> DEFINE P == {a \in Nat : a <= l => 2^(l - a) \in S}
<1>3. 0 \in P
  BY <1>1, <1>2
<1>4. ASSUME NEW a \in Nat, a \in P PROVE a + 1 \in P
  <2> SUFFICES ASSUME a + 1 <= l PROVE 2^(l - (a + 1)) \in S
    OBVIOUS
  <2> DEFINE k == 2^(l - (a + 1))
  <2>1. l - a \in 1 .. W /\ l - (a + 1) \in 0 .. W /\ (l - a) - 1 = l - (a + 1)
        /\ l - a \in 0 .. l /\ l - (a + 1) \in 0 .. l
    BY <1>2
  <2>2. 2^(l - a) = 2 * k /\ k \in Nat \ {0} /\ 2^(l - a) \in Nat
    <3>1. \A c \in 1 .. W : 2^c = 2 * 2^(c - 1)
      BY PowersOfTwo
    <3>2. \A c \in 0 .. W : 2^c \in Nat \ {0}
      BY PowersOfTwo
    <3> QED BY <2>1, <3>1, <3>2
  <2>3. k \in Doublings /\ 2 * k \in Doublings /\ 2 * k \in S
    BY <1>1, <1>4, <2>1, <2>2 DEF Doublings
  <2>4. k < N
    <3>1. 2 * k \in 1 .. N
      BY <2>3, Halves
    <3>2. k \in Nat \ {0} /\ N \in Nat
      BY <1>1, <2>2
    <3> HIDE DEF k
    <3> QED BY ONLY <3>1, <3>2
  <2> QED BY <2>3, <2>4
<1>5. Nat \subseteq P
  <2> HIDE DEF P
  <2> QED BY ONLY <1>3, <1>4, Induction
<1>6. ASSUME NEW k \in Doublings PROVE k \in S
  <2>1. PICK a \in 0 .. l : k = 2^a
    BY <1>1 DEF Doublings
  <2>2. l - a \in Nat /\ l - a <= l /\ l - (l - a) = a
    BY <1>2, <2>1
  <2>3. l - a \in P
    BY <1>5, <2>2
  <2> QED BY <2>1, <2>2, <2>3
<1> QED BY <1>6

-----------------------------------------------------------------------------
(* Bit reversal between stages.                                            *)

\* The half of a block an index is in is a high bit of its reversal.
HighBitAt(k) ==
  k < N => \A b \in 0 .. (N \div (2 * k)) - 1, y \in 0 .. k - 1 :
             ReverseBits[(2 * b + 1) * k + y] = ReverseBits[(2 * b) * k + y] + N \div (2 * k)

\* By induction on the number of entries in a half.
LEMMA HighBit == \A k \in Doublings : HighBitAt(k)
<1> DEFINE S == {k \in Doublings : HighBitAt(k)}
<1>1. N \in Nat \ {0, 1} /\ 1 \in Doublings /\ \A k \in Doublings : k \in Nat \ {0}
  <2>1. \A k \in Doublings : k \in 1 .. N
    BY Halves
  <2> QED BY <2>1, IndexLength, Halves
<1>2. \A i \in Index : ReverseBits[i] \in Nat
  BY Reversal, <1>1 DEF Index
<1>3. 1 \in S
  <2>1. SUFFICES HighBitAt(1)
    BY <1>1
  <2>2. PICK t \in Nat \ {0} : N = 1 * (2 * t) /\ N \div (2 * 1) = t
    BY <1>1, Halves
  <2>3. ASSUME NEW b \in 0 .. t - 1
        PROVE  ReverseBits[(2 * b + 1) * 1 + 0] = ReverseBits[(2 * b) * 1 + 0] + t
    <3>1. b \in Nat /\ 2 * b + 0 \in Index /\ 2 * b + 1 \in Index /\ N = 2 * t /\ 0 \in {0, 1} /\ 1 \in {0, 1}
      BY <2>2 DEF Index
    <3>2. 2 * ReverseBits[2 * b + 0] = 0 * N + ReverseBits[b] /\ b \in Index
      BY <3>1, Reversal
    <3>3. 2 * ReverseBits[2 * b + 1] = 1 * N + ReverseBits[b]
      BY <3>1, Reversal
    <3> DEFINE r0 == ReverseBits[2 * b + 0]
               r1 == ReverseBits[2 * b + 1]
               r == ReverseBits[b]
    <3>4. r0 \in Nat /\ r1 \in Nat /\ r \in Nat
      BY ONLY <1>2, <3>1, <3>2
    <3>5. 2 * r0 = 0 * N + r /\ 2 * r1 = 1 * N + r
      BY ONLY <3>2, <3>3
    <3> HIDE DEF r0, r1, r
    <3>6. r1 = r0 + t
      BY <1>1, <3>1, <3>4, <3>5
    <3>7. (2 * b + 1) * 1 + 0 = 2 * b + 1 /\ (2 * b) * 1 + 0 = 2 * b + 0
      OBVIOUS
    <3> QED BY <3>6, <3>7 DEF r0, r1
  <2>4. 0 .. 1 - 1 = {0}
    OBVIOUS
  <2> QED BY <2>2, <2>3, <2>4 DEF HighBitAt
<1>4. ASSUME NEW k \in Doublings, k < N, k \in S PROVE 2 * k \in S
  <2>1. 2 * k \in Doublings
    BY <1>4, Halves
  <2>2. SUFFICES ASSUME 2 * k < N PROVE HighBitAt(2 * k)
    BY <2>1 DEF HighBitAt
  <2>3. PICK t \in Nat \ {0} : N = (2 * k) * (2 * t) /\ N \div (2 * k) = 2 * t /\ N \div (2 * (2 * k)) = t
    BY <2>1, <2>2, Halves
  <2>4. ASSUME NEW b \in 0 .. t - 1, NEW y \in 0 .. (2 * k) - 1
        PROVE  ReverseBits[(2 * b + 1) * (2 * k) + y] = ReverseBits[(2 * b) * (2 * k) + y] + t
    <3>1. y \in Nat /\ 2 \in Nat \ {0} /\ 2 * k \in Nat \ {0} /\ N = t * (2 * (2 * k))
      BY <1>1, <2>3
    <3>2. PICK c \in Nat, e \in 0 .. 2 - 1 : c = y \div 2 /\ e = y % 2 /\ y = 2 * c + e
      BY ONLY <3>1, DivSplit
    <3>3. e \in {0, 1} /\ c \in 0 .. k - 1
      BY <1>1, <3>2
    <3> DEFINE A == (2 * b + 1) * k + c
               B == (2 * b) * k + c
               p == b * k
    <3>4. p \in Nat /\ A = 2 * p + k + c /\ B = 2 * p + c
          /\ (2 * b + 1) * (2 * k) = 4 * p + 2 * k /\ (2 * b) * (2 * k) = 4 * p
      <4>1. b \in Nat /\ k \in Nat
        BY <1>1
      <4>2. p \in Nat
        BY ONLY <4>1, ProductInteger
      <4> QED BY <4>1, <4>2
    <3>5. \A h \in {0, 1} : (2 * b + h) * (2 * k) + y \in Index
      BY ONLY <3>1, StageIndices, t \in Nat \ {0}, b \in 0 .. t - 1, y \in 0 .. (2 * k) - 1
    <3>6. (2 * b + 1) * (2 * k) + y \in Index /\ (2 * b + 0) * (2 * k) + y \in Index
      BY ONLY <3>5, 0 \in {0, 1}, 1 \in {0, 1}, Zenon
    <3> HIDE DEF A, B, p
    <3>7. A \in Nat /\ B \in Nat /\ (2 * b + 1) * (2 * k) + y = 2 * A + e /\ (2 * b) * (2 * k) + y = 2 * B + e
          /\ (2 * b + 0) * (2 * k) + y = 2 * B + e
      <4>1. (2 * b + 0) = 2 * b
        OBVIOUS
      <4> DEFINE w1 == (2 * b + 1) * (2 * k)
                 w0 == (2 * b) * (2 * k)
      <4>2. w1 = 4 * p + 2 * k /\ w0 = 4 * p
        BY <3>4
      <4> HIDE DEF w1, w0
      <4>3. k \in Nat /\ c \in Nat /\ e \in Nat /\ y = 2 * c + e /\ A = 2 * p + k + c /\ B = 2 * p + c /\ p \in Nat
        BY <1>1, <3>2, <3>4
      <4>4. A \in Nat /\ B \in Nat /\ w1 + y = 2 * A + e /\ w0 + y = 2 * B + e
        BY <4>2, <4>3
      <4> QED BY <4>1, <4>4 DEF w1, w0
    <3>8. 2 * A + e \in Index /\ 2 * B + e \in Index
      BY <3>6, <3>7
    <3>9. A \in Index /\ 2 * ReverseBits[2 * A + e] = e * N + ReverseBits[A]
      BY ONLY <3>3, <3>7, <3>8, Reversal
    <3>10. B \in Index /\ 2 * ReverseBits[2 * B + e] = e * N + ReverseBits[B]
      BY ONLY <3>3, <3>7, <3>8, Reversal
    <3>11. ReverseBits[A] = ReverseBits[B] + 2 * t
      <4>1. b \in 0 .. (2 * t) - 1
        BY <2>3
      <4> QED BY <1>4, <2>3, <3>3, <4>1 DEF HighBitAt, A, B
    <3> DEFINE ra == ReverseBits[2 * A + e]
               rb == ReverseBits[2 * B + e]
               sa == ReverseBits[A]
               sb == ReverseBits[B]
               n == e * N
    <3>12. ra \in Nat /\ rb \in Nat /\ sa \in Nat /\ sb \in Nat /\ n \in Nat
      <4>1. n \in Nat
        BY <1>1, <3>3
      <4> QED BY <1>2, <3>8, <3>9, <3>10, <4>1
    <3>13. 2 * ra = n + sa /\ 2 * rb = n + sb /\ sa = sb + 2 * t
      BY <3>9, <3>10, <3>11
    <3> HIDE DEF ra, rb, sa, sb, n
    <3>14. ra = rb + t
      BY <3>12, <3>13
    <3> QED BY <3>7, <3>14 DEF ra, rb
  <2> QED BY <2>3, <2>4 DEF HighBitAt
<1>5. Doublings \subseteq S
  <2> HIDE DEF S
  <2> QED BY ONLY <1>3, <1>4, DoublingUp
<1> QED BY <1>5

\* The first index of a block reverses to less than the number of blocks.
LowPartAt(k) == \A b \in 0 .. (N \div k) - 1 : b * k \in Index /\ ReverseBits[b * k] \in 0 .. (N \div k) - 1

\* By the same induction.
LEMMA LowPart == \A k \in Doublings : LowPartAt(k)
<1> DEFINE S == {k \in Doublings : LowPartAt(k)}
<1>1. N \in Nat \ {0, 1} /\ 1 \in Doublings /\ \A k \in Doublings : k \in Nat \ {0}
  <2>1. \A k \in Doublings : k \in 1 .. N
    BY Halves
  <2> QED BY <2>1, IndexLength, Halves
<1>2. 1 \in S
  <2>1. N \div 1 = N
    BY <1>1
  <2>2. \A b \in 0 .. N - 1 : b * 1 = b /\ b \in Index
    BY DEF Index
  <2> QED BY <1>1, <2>1, <2>2, Reversal DEF LowPartAt, Index
<1>3. ASSUME NEW k \in Doublings, k < N, k \in S PROVE 2 * k \in S
  <2>1. 2 * k \in Doublings
    BY <1>3, Halves
  <2>2. PICK t \in Nat \ {0} : N = k * (2 * t) /\ N \div k = 2 * t /\ N \div (2 * k) = t
    BY <1>3, Halves
  <2>3. ASSUME NEW b \in 0 .. t - 1
        PROVE  b * (2 * k) \in Index /\ ReverseBits[b * (2 * k)] \in 0 .. t - 1
    <3> DEFINE p == b * k
    <3>1. b \in 0 .. (2 * t) - 1 /\ b \in Nat /\ k \in Nat
      BY <1>1, <2>2
    <3>2. p \in Index /\ ReverseBits[p] \in 0 .. (2 * t) - 1
      BY <1>3, <2>2, <3>1 DEF LowPartAt
    <3>3. b * (2 * k) = 2 * p + 0 /\ p \in Nat
      <4>1. p \in Nat
        BY ONLY <3>1, ProductInteger
      <4> QED BY <3>1, <4>1
    <3>4. 2 * p + 0 \in Index
      <4>1. k \in Nat \ {0} /\ t \in Nat \ {0} /\ N = t * (2 * k) /\ 0 \in {0, 1} /\ 0 \in 0 .. k - 1
        BY <1>1, <2>2
      <4>2. (2 * b + 0) * k + 0 \in Index
        BY ONLY <4>1, StageIndices, b \in 0 .. t - 1
      <4>3. (2 * b + 0) * k + 0 = 2 * p + 0
        BY <3>1
      <4> QED BY <4>2, <4>3
    <3>5. 2 * ReverseBits[2 * p + 0] = 0 * N + ReverseBits[p]
      BY <3>3, <3>4, Reversal
    <3> DEFINE r == ReverseBits[2 * p + 0]
               s == ReverseBits[p]
    <3>6. r \in Nat /\ s \in Nat /\ 2 * r = s
      <4>1. r \in Nat
        BY <1>1, <3>4, Reversal DEF Index
      <4> QED BY <1>1, <3>2, <3>5, <4>1
    <3> HIDE DEF r, p
    <3>7. r \in 0 .. t - 1
      <4> HIDE DEF s
      <4>1. s \in 0 .. (2 * t) - 1
        BY <3>2 DEF s
      <4> QED BY <3>6, <4>1
    <3> QED BY <3>3, <3>4, <3>7 DEF r
  <2> QED BY <2>1, <2>2, <2>3 DEF LowPartAt
<1>4. Doublings \subseteq S
  <2> HIDE DEF S
  <2> QED BY ONLY <1>2, <1>3, DoublingUp
<1> QED BY <1>4

-----------------------------------------------------------------------------
(* The points at which the blocks of one entry evaluate.                   *)

Point(i) == Root(2 * ReverseBits[i] + 1)

\* The roots of the last blocks, of one entry, are the points.
LEMMA LastRoots ==
  ASSUME params \in Params, NEW i \in Index
  PROVE  RootOf(N, i) = Point(i) /\ Point(i) \in 0 .. q - 1
<1>1. q \in Nat \ {0, 1} /\ N \in Nat \ {0, 1} /\ i \in Nat
  BY ParamsModulus, IndexLength DEF Index
<1>2. PICK h \in Doublings : N = 2 * h
  BY <1>1, Halves
<1>3. h \in Nat \ {0} /\ h < N /\ N \div 2 = h
  <2>1. h \in 1 .. N
    BY Halves
  <2> QED BY <1>1, <1>2, <2>1
<1>4. PICK y \in Nat, e \in 0 .. 2 - 1 : y = i \div 2 /\ e = i % 2 /\ i = 2 * y + e
  BY ONLY <1>1, DivSplit, 2 \in Nat \ {0}
<1>5. e \in {0, 1} /\ y \in 0 .. h - 1 /\ h + y \in Index /\ y \in Index
  BY <1>1, <1>2, <1>3, <1>4 DEF Index
<1>6. 2 * ReverseBits[i] = e * N + ReverseBits[y]
  BY <1>4, <1>5, Reversal
<1>7. ReverseBits[h + y] = ReverseBits[y] + 1
  <2>1. PICK t \in Nat \ {0} : N = h * (2 * t) /\ N \div (2 * h) = t
    BY <1>3, Halves
  <2>2. t = 1
    <3>1. (2 * h) \div (2 * h) = 1
      <4> DEFINE d == 2 * h
      <4>1. d \in Nat \ {0} /\ d = 1 * d + 0 /\ 0 \in 0 .. d - 1 /\ d \in Int /\ 1 \in Int
        BY <1>3
      <4> HIDE DEF d
      <4>2. d \div d = 1
        BY ONLY <4>1, DivUnique
      <4> QED BY <4>2 DEF d
    <3> QED BY <1>2, <2>1, <3>1
  <2>3. HighBitAt(h)
    BY HighBit
  <2>4. 0 \in 0 .. (N \div (2 * h)) - 1 /\ N \div (2 * h) = 1
    BY <2>1, <2>2
  <2>5. ReverseBits[(2 * 0 + 1) * h + y] = ReverseBits[(2 * 0) * h + y] + 1
    BY ONLY <1>3, <1>5, <2>3, <2>4 DEF HighBitAt
  <2>6. (2 * 0 + 1) * h + y = h + y /\ (2 * 0) * h + y = y
    BY <1>3, <1>4
  <2> QED BY <2>5, <2>6
<1> DEFINE c == ReverseBits[y] + 1
<1>8. c \in Nat /\ RootTable(h + y) = Root(c)
  <2>1. ReverseBits[y] \in Nat
    BY <1>1, <1>5, Reversal DEF Index
  <2> QED BY <1>7, <2>1 DEF RootTable
<1>9. Point(i) = Root(e * N + c)
  <2>1. ReverseBits[y] \in Nat /\ ReverseBits[i] \in Nat
    BY <1>1, <1>5, Reversal DEF Index
  <2>2. 2 * ReverseBits[i] + 1 = e * N + c
    BY <1>1, <1>5, <1>6, <2>1
  <2> QED BY <2>2 DEF Point
<1> HIDE DEF c
<1>10. RootOf(N, i) = IF e = 0 THEN Root(c) ELSE (q - Root(c)) % q
  BY <1>1, <1>3, <1>4, <1>8 DEF RootOf
<1>11. Point(i) = IF e = 0 THEN Root(c) ELSE (q - Root(c)) % q
  <2>1. CASE e = 0
    <3>1. 0 * N + c = c
      BY <1>1, <1>8
    <3> QED BY <1>9, <2>1, <3>1
  <2>2. CASE e = 1
    <3>1. 1 * N + c = N + c
      BY <1>1, <1>8
    <3> QED BY <1>8, <1>9, <2>2, <3>1, RootLaws
  <2> QED BY <1>5, <2>1, <2>2
<1>12. Point(i) \in 0 .. q - 1
  <2>1. 2 * ReverseBits[i] + 1 \in Nat
    BY <1>1, Reversal DEF Index
  <2> QED BY <2>1, RootIsPower DEF Point
<1> QED BY <1>10, <1>11, <1>12

\* The points of a block of a stage are roots of its root.
PointsAt(k) == \A i \in Index : Power(Point(i), N \div k, q) = RootOf(k, i \div (N \div k))

\* A power of a point is the root of the block it is in: by halving.
LEMMA PointPowers ==
  ASSUME params \in Params
  PROVE  \A k \in Doublings : PointsAt(k)
<1> DEFINE S == {k \in Doublings : PointsAt(k)}
<1>1. /\ q \in Nat \ {0, 1} /\ q \in Nat \ {0} /\ N \in Nat \ {0, 1} /\ N \in Doublings
      /\ \A k \in Doublings : k \in Nat \ {0}
  <2>1. \A k \in Doublings : k \in 1 .. N
    BY Halves
  <2> QED BY <2>1, ParamsModulus, IndexLength, Halves
<1>2. \A i \in Index : Point(i) \in 0 .. q - 1 /\ Point(i) \in Nat
  BY <1>1, LastRoots
<1>3. N \in S
  <2>1. N \div N = 1
    <3>1. N = 1 * N + 0 /\ 0 \in 0 .. N - 1 /\ N \in Int /\ 1 \in Int /\ N \in Nat \ {0}
      BY <1>1
    <3> QED BY ONLY <3>1, DivUnique
  <2>2. ASSUME NEW i \in Index PROVE Power(Point(i), 1, q) = RootOf(N, i \div 1)
    <3> DEFINE z == Point(i)
    <3>1. z \in 0 .. q - 1 /\ z \in Nat /\ RootOf(N, i) = z
      BY <1>2, LastRoots
    <3> HIDE DEF z
    <3>2. Power(z, 0, q) = 1 /\ Power(z, 0 + 1, q) = (Power(z, 0, q) * z) % q
      BY ONLY <1>1, <3>1, PowerSteps, 0 \in Nat
    <3>3. 1 * z = z /\ z % q = z
      <4>1. \A y \in 0 .. q - 1 : y % q = y
        BY ONLY <1>1, Remainders
      <4> QED BY <3>1, <4>1
    <3>4. i \div 1 = i /\ 0 + 1 = 1
      BY DEF Index
    <3> QED BY <3>1, <3>2, <3>3, <3>4 DEF z
  <2> QED BY <1>1, <2>1, <2>2 DEF PointsAt
<1>4. ASSUME NEW k \in Doublings, k < N, 2 * k \in S PROVE k \in S
  <2>1. PICK t \in Nat \ {0} : N = k * (2 * t) /\ N \div k = 2 * t /\ N \div (2 * k) = t
    BY <1>4, Halves
  <2>2. ASSUME NEW i \in Index PROVE Power(Point(i), 2 * t, q) = RootOf(k, i \div (2 * t))
    <3> DEFINE z == Point(i)
               b == i \div (2 * t)
               c == i \div t
    <3>1. k \in Nat \ {0} /\ z \in Nat /\ t \in Nat
      BY <1>1, <1>2
    <3>2. b \in 0 .. k - 1 /\ \E u \in {0, 1} : c = 2 * b + u
      <4>1. /\ \A bb \in 0 .. k - 1, u \in {0, 1}, j \in 0 .. t - 1 :
                  /\ (2 * bb + u) * t + j \in Index
                  /\ ((2 * bb + u) * t + j) \div (2 * t) = bb
                  /\ ((2 * bb + u) * t + j) % (2 * t) = u * t + j
            /\ \A ii \in Index :
                 \E bb \in 0 .. k - 1, u \in {0, 1}, j \in 0 .. t - 1 : ii = (2 * bb + u) * t + j
        <5> HIDE DEF b, c, z
        <5> QED BY ONLY <2>1, <3>1, StageIndices
      <4>2. PICK bb \in 0 .. k - 1, u \in {0, 1}, j \in 0 .. t - 1 : i = (2 * bb + u) * t + j
        BY ONLY <4>1, i \in Index
      <4>3. b = bb
        BY ONLY <4>1, <4>2
      <4> DEFINE d == 2 * bb + u
      <4>4. i = d * t + j /\ d \in Int /\ i \in Int
        BY <4>2 DEF Index
      <4> HIDE DEF d
      <4>5. c = d
        BY ONLY <4>4, DivUnique, t \in Nat \ {0}, j \in 0 .. t - 1
      <4> QED BY <4>3, <4>5 DEF d
    <3>3. PICK u \in {0, 1} : c = 2 * b + u
      BY <3>2
    <3> DEFINE s == RootOf(2 * k, c)
               y == RootOf(k, b)
    <3>4. Power(z, t, q) = s
      BY <1>4, <2>1 DEF PointsAt
    <3> HIDE DEF z, b, c
    <3>5. s \in 0 .. q - 1 /\ y \in 0 .. q - 1 /\ Congruent(s * s, y, q)
      <4>1. CASE u = 0
        <5>1. c = 2 * b
          BY <3>2, <3>3, <4>1
        <5> QED BY <1>4, <3>2, <5>1, BlockRoots
      <4>2. CASE u = 1
        <5>1. c = 2 * b + 1
          BY <3>2, <3>3, <4>2
        <5> QED BY <1>4, <3>2, <5>1, BlockRoots
      <4> QED BY <4>1, <4>2
    <3>6. 2 * t = t + t /\ Power(z, t + t, q) = (Power(z, t, q) * Power(z, t, q)) % q
      BY <1>1, <3>1, PowerSum
    <3> DEFINE p == s * s
    <3>7. p \in Int /\ Congruent(p, y, q) /\ Power(z, 2 * t, q) = p % q
      BY <3>4, <3>5, <3>6
    <3> HIDE DEF s, y, p
    <3>8. p % q = y
      <4>1. \A a \in 0 .. q - 1 : a % q = a
        BY ONLY <1>1, Remainders
      <4> QED BY <3>5, <3>7, <4>1 DEF Congruent
    <3> QED BY <3>7, <3>8 DEF z, b, y
  <2> QED BY <2>1, <2>2 DEF PointsAt
<1>5. Doublings \subseteq S
  <2> HIDE DEF S
  <2> QED BY ONLY <1>3, <1>4, DoublingDown
<1> QED BY <1>5

-----------------------------------------------------------------------------
(* Evaluations are sums over one block.                                    *)

Values(x, e) == [j \in Index |-> x[j] * Root(e * j)]

\* A value of a polynomial is a total.
LEMMA EvaluatedIsTotal ==
  ASSUME NEW x, NEW e, \A j \in Index : Values(x, e)[j] \in Int
  PROVE  EvaluatedAt(x, e) = Total(Values(x, e), N) % q
<1> DEFINE t == Values(x, e)
           Is(g) == g = [i \in 0 .. N |-> IF i = 0 THEN 0 ELSE g[i - 1] + x[i - 1] * Root(e * (i - 1))]
           sum == CHOOSE g : Is(g)
<1>0. N \in Nat
  BY IndexLength
<1>1. \A i \in 1 .. N : i - 1 \in Index /\ t[i - 1] = x[i - 1] * Root(e * (i - 1))
  <2>1. \A i \in 1 .. N : i - 1 \in Index
    BY <1>0 DEF Index
  <2> QED BY <2>1 DEF Values
<1>2. \A i \in 0 .. N - 1 : t[i] \in Int
  BY DEF Index
<1> HIDE DEF t
<1>3. PICK ps : PartialSums(t, N, ps)
  BY <1>0, <1>2, PartialSumsExist
<1>4. ps \in [0 .. N -> Int] /\ ps[0] = 0 /\ \A i \in 1 .. N : ps[i] = ps[i - 1] + t[i - 1]
  BY <1>3 DEF PartialSums
<1>5. Is([i \in 0 .. N |-> ps[i]])
  <2>1. \A i \in 0 .. N : i # 0 => i \in 1 .. N /\ i - 1 \in 0 .. N
    BY <1>0
  <2> QED BY <1>1, <1>4, <2>1
<1>6. Is(sum)
  BY <1>5
<1>7. EvaluatedAt(x, e) = sum[N] % q
  BY DEF EvaluatedAt, SumUpTo
<1> HIDE DEF sum
<1>8. sum[0] = 0 /\ \A i \in 1 .. N : sum[i] = sum[i - 1] + t[i - 1]
  <2>1. 0 \in 0 .. N /\ \A i \in 1 .. N : i \in 0 .. N /\ i # 0
    BY <1>0
  <2> QED BY <1>1, <1>6, <2>1
<1>9. sum[N] = ps[N]
  <2>1. N \in 0 .. N
    BY <1>0
  <2> HIDE DEF Is
  <2> QED BY ONLY <1>0, <1>3, <1>8, <2>1, PartialSumsUnique
<1>10. Total(t, N) = ps[N]
  BY <1>0, <1>3, TotalIsLast
<1> QED BY <1>7, <1>9, <1>10 DEF t

\* It is the sum over a block that is the whole vector.
LEMMA EvaluatedInBlock ==
  ASSUME params \in Params, NEW x \in [Index -> 0 .. q - 1], NEW e \in Nat
  PROVE  /\ EvaluatedAt(x, e) = BlockSum(x, 0, 1, N, Root(e), q) % q
         /\ BlockSum(x, 0, 1, N, Root(e), q) \in Int
<1> DEFINE z == Root(e)
           T == Terms(x, 0, 1, N, z, q)
           V == Values(x, e)
<1>1. q \in Nat \ {0, 1} /\ N \in Nat /\ Index = 0 .. N - 1
  BY ParamsModulus, IndexLength DEF Index
<1>2. ASSUME NEW j \in Index PROVE T[j] = V[j] /\ V[j] \in Int
  <2>1. j \in Nat /\ 0 + j * 1 = j
    BY <1>1
  <2>2. Power(z, j, q) = Root(e * j)
    BY <2>1, RootLaws
  <2>3. e * j \in Nat
    BY ONLY <2>1, ProductInteger, e \in Nat
  <2>4. x[j] \in Int /\ Root(e * j) \in Int
    <3>1. \A a \in Nat : Root(a) \in 0 .. q - 1
      BY RootIsPower
    <3>2. Root(e * j) \in 0 .. q - 1
      BY ONLY <2>3, <3>1
    <3>3. x[j] \in 0 .. q - 1
      OBVIOUS
    <3> QED BY <1>1, <3>2, <3>3
  <2>5. x[j] * Root(e * j) \in Int
    BY ONLY <2>4, ProductInteger
  <2>6. T[j] = x[0 + j * 1] * Power(z, j, q)
    BY <1>1 DEF Terms
  <2> QED BY <2>1, <2>2, <2>5, <2>6 DEF Values
<1>3. T = V
  <2>1. T = [j \in Index |-> T[j]] /\ V = [j \in Index |-> V[j]]
    BY <1>1 DEF Terms, Values
  <2> HIDE DEF T, V
  <2> QED BY <1>2, <2>1
<1>4. EvaluatedAt(x, e) = Total(V, N) % q
  BY <1>2, EvaluatedIsTotal
<1>5. \A j \in 0 .. N - 1 : T[j] \in Int
  <2> HIDE DEF T, V
  <2> QED BY <1>1, <1>2
<1> HIDE DEF z
<1>6. BlockSum(x, 0, 1, N, z, q) = Total(T, N)
  BY ONLY <1>1, <1>5, BlockSumIsTotal
<1>7. Total(T, N) \in Int
  <2> HIDE DEF T
  <2>1. \A k \in 0 .. N : Total(T, k) \in Int
    BY ONLY <1>1, <1>5, TotalSteps
  <2> QED BY <1>1, <2>1
<1> QED BY <1>3, <1>4, <1>6, <1>7 DEF z

\* So the forward transform ends with the evaluations.
LEMMA ForwardEnds ==
  ASSUME params \in Params, input \in [Index -> 0 .. q - 1], element \in [Index -> 0 .. q - 1],
         BlocksHold(element, N)
  PROVE  element = Evaluations(input)
<1>1. N \in Nat \ {0, 1} /\ N \div N = 1
  <2>1. N \in Nat \ {0, 1}
    BY IndexLength
  <2>2. N = 1 * N + 0 /\ 0 \in 0 .. N - 1 /\ N \in Int /\ 1 \in Int /\ N \in Nat \ {0}
    BY <2>1
  <2>3. N \div N = 1
    BY ONLY <2>2, DivUnique
  <2> QED BY <2>1, <2>3
<1>2. ASSUME NEW i \in Index PROVE element[i] = EvaluatedAt(input, 2 * ReverseBits[i] + 1)
  <2>1. i \in 0 .. N - 1 /\ 0 \in 0 .. 1 - 1 /\ i * 1 + 0 = i
    BY <1>1 DEF Index
  <2>2. \A b \in 0 .. N - 1, j \in 0 .. 1 - 1 : element[b * 1 + j] = BlockSum(input, j, 1, N, RootOf(N, b), q) % q
    BY <1>1 DEF BlocksHold
  <2>3. element[i * 1 + 0] = BlockSum(input, 0, 1, N, RootOf(N, i), q) % q
    BY ONLY <2>1, <2>2
  <2> DEFINE e == 2 * ReverseBits[i] + 1
  <2>4. e \in Nat /\ RootOf(N, i) = Root(e)
    <3>1. ReverseBits[i] \in Nat
      BY <1>1, Reversal DEF Index
    <3> QED BY <3>1, LastRoots DEF Point
  <2> HIDE DEF e
  <2>5. EvaluatedAt(input, e) = BlockSum(input, 0, 1, N, Root(e), q) % q
    BY <2>4, EvaluatedInBlock
  <2> QED BY <2>1, <2>3, <2>4, <2>5 DEF e
<1>3. element = [i \in Index |-> element[i]]
  OBVIOUS
<1> QED BY <1>2, <1>3 DEF Evaluations

-----------------------------------------------------------------------------
(* Sums over neighbouring entries.                                         *)

\* Its entries, and its terms.
IntegersAt(x, a, n) == \A i \in 0 .. n - 1 : x[a + i] \in Int

SumsTerms(x, a, n, z, M, T) ==
  /\ \A i \in 0 .. n - 1 : T[i] = x[a + i] * Power(z, i, M) /\ T[i] \in Int /\ Power(z, i, M) \in Int
  /\ BlockSum(x, a, 1, n, z, M) = Total(T, n)
  /\ BlockSum(x, a, 1, n, z, M) \in Int

\* The sum over consecutive entries is the total of its terms.
LEMMA TermsInBlock ==
  ASSUME NEW M \in Nat \ {0, 1}, NEW n \in Nat, NEW z \in 0 .. M - 1, NEW x, NEW a \in Nat, IntegersAt(x, a, n)
  PROVE  SumsTerms(x, a, n, z, M, Terms(x, a, 1, n, z, M))
<1> DEFINE T == Terms(x, a, 1, n, z, M)
<1>1. z \in Nat
  OBVIOUS
<1>2. \A i \in Nat : Power(z, i, M) \in 0 .. M - 1
  BY ONLY <1>1, PowerSteps, M \in Nat \ {0, 1}
<1>3. ASSUME NEW i \in 0 .. n - 1
      PROVE  T[i] = x[a + i] * Power(z, i, M) /\ T[i] \in Int /\ Power(z, i, M) \in Int
  <2>1. i \in Nat /\ a + i * 1 = a + i
    OBVIOUS
  <2>2. Power(z, i, M) \in Int /\ x[a + i] \in Int
    BY <1>2, <2>1 DEF IntegersAt
  <2>3. x[a + i] * Power(z, i, M) \in Int
    BY ONLY <2>2, ProductInteger
  <2>4. T[i] = x[a + i * 1] * Power(z, i, M)
    BY DEF Terms
  <2> QED BY <2>1, <2>2, <2>3, <2>4
<1>4. \A i \in 0 .. n - 1 : T[i] \in Int
  <2> HIDE DEF T
  <2> QED BY <1>3
<1>5. BlockSum(x, a, 1, n, z, M) = Total(T, n)
  BY ONLY <1>4, BlockSumIsTotal, n \in Nat
<1>6. Total(T, n) \in Int
  <2> HIDE DEF T
  <2>1. \A k \in 0 .. n : Total(T, k) \in Int
    BY ONLY <1>4, TotalSteps, n \in Nat
  <2> QED BY <2>1
<1> HIDE DEF T
<1>7. SumsTerms(x, a, n, z, M, T)
  BY <1>3, <1>5, <1>6 DEF SumsTerms
<1> QED BY <1>7 DEF T

\* A sum over one entry.
LEMMA OneTerm ==
  ASSUME NEW M \in Nat \ {0, 1}, NEW z \in 0 .. M - 1, NEW x, NEW a \in Nat, NEW len \in Nat, x[a] \in Int
  PROVE  BlockSum(x, a, len, 1, z, M) = x[a]
<1> DEFINE T == Terms(x, a, len, 1, z, M)
<1>1. a + 0 * len = a /\ z \in Nat
  OBVIOUS
<1>2. Power(z, 0, M) = 1
  BY <1>1, PowerSteps
<1>3. 0 .. 1 - 1 = {0} /\ 0 \in 0 .. 1 - 1 /\ 1 \in Nat /\ 0 + 1 = 1
  OBVIOUS
<1>4. T[0] = x[a + 0 * len] * Power(z, 0, M)
  BY <1>3 DEF Terms
<1>5. T[0] = x[a]
  BY <1>1, <1>2, <1>4
<1>6. \A i \in 0 .. 1 - 1 : T[i] \in Int
  BY <1>3, <1>5
<1>7. BlockSum(x, a, len, 1, z, M) = Total(T, 1)
  BY ONLY <1>3, <1>6, BlockSumIsTotal
<1> HIDE DEF T
<1>8. Total(T, 0) = 0 /\ Total(T, 0 + 1) = Total(T, 0) + T[0]
  <2>1. Total(T, 0) = 0 /\ \A k \in 0 .. 1 - 1 : Total(T, k + 1) = Total(T, k) + T[k]
    BY ONLY <1>3, <1>6, TotalSteps
  <2> QED BY ONLY <1>3, <2>1
<1> QED BY <1>3, <1>5, <1>7, <1>8

\* A sum over a block is a multiple of one over half as many entries, if the
\* terms half a block apart are together that multiple of one term.
LEMMA BlockFolds ==
  ASSUME NEW M \in Nat \ {0, 1}, NEW n \in Nat, NEW c \in Int, NEW z \in 0 .. M - 1, NEW y \in 0 .. M - 1,
         NEW x, NEW a \in Nat, \A i \in 0 .. 2 * n - 1 : x[a + i] \in Int,
         NEW v, NEW d \in Nat, \A i \in 0 .. n - 1 : v[d + i] \in Int,
         \A i \in 0 .. n - 1 : Congruent(x[a + i] * Power(z, i, M) + x[a + (n + i)] * Power(z, n + i, M),
                                         c * (v[d + i] * Power(y, i, M)), M)
  PROVE  Congruent(BlockSum(x, a, 1, 2 * n, z, M), c * BlockSum(v, d, 1, n, y, M), M)
<1> DEFINE T == Terms(x, a, 1, 2 * n, z, M)
           P == Terms(v, d, 1, n, y, M)
           h == [i \in 0 .. n - 1 |-> T[i] + T[n + i]]
<1>0. 2 * n \in Nat /\ IntegersAt(x, a, 2 * n) /\ IntegersAt(v, d, n)
  BY DEF IntegersAt
<1>1. SumsTerms(x, a, 2 * n, z, M, T)
  BY ONLY <1>0, TermsInBlock, M \in Nat \ {0, 1}, z \in 0 .. M - 1, a \in Nat
<1>2. SumsTerms(v, d, n, y, M, P)
  BY ONLY <1>0, TermsInBlock, n \in Nat, M \in Nat \ {0, 1}, y \in 0 .. M - 1, d \in Nat
<1>3. \A i \in 0 .. n - 1 : i \in 0 .. 2 * n - 1 /\ n + i \in 0 .. 2 * n - 1
  OBVIOUS
<1> HIDE DEF T, P
<1>4. \A i \in 0 .. n - 1 : h[i] = T[i] + T[n + i] /\ h[i] \in Int /\ P[i] \in Int
  BY <1>1, <1>2, <1>3 DEF SumsTerms
<1>5. \A i \in 0 .. n - 1 : Congruent(h[i], c * P[i], M)
  <2> SUFFICES ASSUME NEW i \in 0 .. n - 1 PROVE Congruent(h[i], c * P[i], M)
    OBVIOUS
  <2>1. h[i] = x[a + i] * Power(z, i, M) + x[a + (n + i)] * Power(z, n + i, M)
    <3>1. T[i] = x[a + i] * Power(z, i, M) /\ T[n + i] = x[a + (n + i)] * Power(z, n + i, M)
      BY ONLY <1>1, <1>3, i \in 0 .. n - 1 DEF SumsTerms
    <3> QED BY <1>4, <3>1
  <2>2. P[i] = v[d + i] * Power(y, i, M)
    BY <1>2 DEF SumsTerms
  <2> QED BY <2>1, <2>2
<1> HIDE DEF h
<1>6. Total(T, 2 * n) = Total(h, n)
  <2>1. \A i \in 0 .. 2 * n - 1 : T[i] \in Int
    BY ONLY <1>1 DEF SumsTerms
  <2> QED BY ONLY <1>4, <2>1, TotalFolds, n \in Nat
<1>7. Congruent(Total(h, n), c * Total(P, n), M)
  BY ONLY <1>4, <1>5, TotalScales, n \in Nat, c \in Int, M \in Nat \ {0}, M \in Nat \ {0, 1}
<1> QED BY <1>1, <1>2, <1>6, <1>7 DEF SumsTerms

\* A sum over multiples of the entries is the multiple of the sum.
LEMMA BlockScales ==
  ASSUME NEW M \in Nat \ {0, 1}, NEW n \in Nat, NEW c \in Int, NEW z \in 0 .. M - 1, NEW a \in Nat,
         NEW x, \A i \in 0 .. n - 1 : x[a + i] \in Int,
         NEW v, \A i \in 0 .. n - 1 : v[a + i] \in Int /\ Congruent(x[a + i], c * v[a + i], M)
  PROVE  Congruent(BlockSum(x, a, 1, n, z, M), c * BlockSum(v, a, 1, n, z, M), M)
<1> DEFINE T == Terms(x, a, 1, n, z, M)
           P == Terms(v, a, 1, n, z, M)
<1>0. IntegersAt(x, a, n) /\ IntegersAt(v, a, n)
  BY DEF IntegersAt
<1>1. SumsTerms(x, a, n, z, M, T)
  BY ONLY <1>0, TermsInBlock, M \in Nat \ {0, 1}, z \in 0 .. M - 1, a \in Nat, n \in Nat
<1>2. SumsTerms(v, a, n, z, M, P)
  BY ONLY <1>0, TermsInBlock, M \in Nat \ {0, 1}, z \in 0 .. M - 1, a \in Nat, n \in Nat
<1> HIDE DEF T, P
<1>3. ASSUME NEW i \in 0 .. n - 1 PROVE Congruent(T[i], c * P[i], M)
  <2> DEFINE s == x[a + i]
             r == v[a + i]
             p == Power(z, i, M)
             d == c * r
  <2>1. s \in Int /\ r \in Int /\ p \in Int /\ d \in Int /\ Congruent(s, d, M) /\ T[i] = s * p /\ P[i] = r * p
    BY <1>1, <1>2 DEF SumsTerms
  <2>2. Congruent(p, p, M)
    BY DEF Congruent
  <2>3. d * p = c * (r * p)
    <3> HIDE DEF r, p
    <3> QED BY ONLY <2>1, Reorder, c \in Int DEF d
  <2> HIDE DEF s, d, p, r
  <2>4. Congruent(s * p, d * p, M)
    BY ONLY <2>1, <2>2, CongruentProduct, M \in Nat \ {0}, M \in Nat \ {0, 1}
  <2> QED BY <2>1, <2>3, <2>4
<1>4. Congruent(Total(T, n), c * Total(P, n), M)
  <2>1. \A i \in 0 .. n - 1 : T[i] \in Int /\ P[i] \in Int /\ Congruent(T[i], c * P[i], M)
    BY ONLY <1>1, <1>2, <1>3 DEF SumsTerms
  <2> QED BY ONLY <2>1, TotalScales, n \in Nat, c \in Int, M \in Nat \ {0}, M \in Nat \ {0, 1}
<1> QED BY <1>1, <1>2, <1>4 DEF SumsTerms

-----------------------------------------------------------------------------
(* The inverse transform.                                                  *)

\* The table entries that a block uses in the two directions are inverses.
LEMMA InverseRoots ==
  ASSUME params \in Params, NEW i \in Index
  PROVE  /\ Congruent(RootTable(i) * RootInverseTable(i), 1, q)
         /\ Congruent(((q - RootTable(i)) % q) * RootInverseTable(i), -1, q)
         /\ RootTable(i) \in 0 .. q - 1 /\ RootInverseTable(i) \in 0 .. q - 1
<1> DEFINE r == ReverseBits[i]
           a == (2 * N - 1) * r
           s == Root(r)
           t == Root(a)
           v == (q - s) % q
<1>1. q \in Nat \ {0, 1} /\ q \in Nat \ {0} /\ N \in Nat \ {0, 1} /\ r \in Nat
  BY ParamsModulus, IndexLength, Reversal DEF Index
<1>2. a \in Nat /\ 2 * N * r = r + a
  <2>1. 2 * N - 1 \in Nat
    BY <1>1
  <2>2. a \in Nat
    BY ONLY <1>1, <2>1, ProductInteger
  <2>3. (2 * N - 1) * r = 2 * N * r - r
    BY <1>1
  <2> HIDE DEF r
  <2> DEFINE p == 2 * N * r
  <2>4. a = p - r /\ p \in Int
    <3>1. 2 * N \in Int
      BY <1>1
    <3>2. p \in Int
      BY ONLY <1>1, <3>1, ProductInteger, r \in Int
    <3> QED BY <2>3, <3>2
  <2> HIDE DEF p, a
  <2>5. p = r + a
    BY <1>1, <2>2, <2>4
  <2> QED BY <2>2, <2>5 DEF p
<1>3. RootTable(i) = s /\ RootInverseTable(i) = t
  BY DEF RootTable, RootInverseTable
<1> HIDE DEF r, a
<1>4. s \in 0 .. q - 1 /\ t \in 0 .. q - 1 /\ Congruent(s * t, Root(r + a), q)
  <2>1. s \in 0 .. q - 1 /\ t \in 0 .. q - 1
    BY <1>1, <1>2, RootIsPower
  <2>2. Congruent(s * t, Root(r + a), q)
    BY <1>1, <1>2, RootLaws
  <2> QED BY <2>1, <2>2
<1>5. Root(r + a) = 1
  <2>1. \A b \in Nat : Root(2 * N * b + 0) = Root(0)
    BY RootLaws, 0 \in Nat
  <2>2. Root(2 * N * r + 0) = Root(0)
    BY ONLY <1>1, <2>1
  <2>3. 2 * N * r + 0 = r + a
    BY <1>1, <1>2
  <2> QED BY <2>2, <2>3, RootIsPower
<1> HIDE DEF s, t
<1>6. Congruent(s * t, 1, q)
  BY <1>4, <1>5
<1>7. Congruent(v * t, -1, q)
  <2> DEFINE d == q - s
             dt == d * t
             vt == v * t
             qt == q * t
             st == s * t
  <2>1. v \in 0 .. q - 1 /\ Congruent(v, d, q)
    BY ONLY <1>1, <1>4, MinusOneTimes
  <2>2. d \in Int /\ v \in Int /\ t \in Int /\ s \in Int /\ q \in Int
    BY <1>1, <1>4, <2>1
  <2> HIDE DEF v
  <2>3. dt = qt - st
    BY <2>2
  <2>4. dt \in Int /\ vt \in Int /\ qt \in Int /\ st \in Int
    <3> HIDE DEF d
    <3> QED BY ONLY <2>2, ProductInteger DEF dt, vt, qt, st
  <2>5. Congruent(qt, 0, q)
    <3>1. Congruent(q, 0, q)
      <4>1. q = 1 * q + 0 /\ 0 \in 0 .. q - 1 /\ q \in Int /\ 1 \in Int
        BY <1>1
      <4>2. q % q = 0
        BY ONLY <1>1, <4>1, DivUnique
      <4>3. \A y \in 0 .. q - 1 : y % q = y
        BY ONLY <1>1, Remainders
      <4> QED BY <4>1, <4>2, <4>3 DEF Congruent
    <3>2. Congruent(t, t, q)
      BY DEF Congruent
    <3>3. Congruent(q * t, 0 * t, q)
      BY ONLY <1>1, <2>2, <3>1, <3>2, CongruentProduct, 0 \in Int
    <3>4. 0 * t = 0
      BY <2>2
    <3> QED BY <3>3, <3>4
  <2>6. Congruent(t, t, q)
    BY DEF Congruent
  <2> HIDE DEF d
  <2>7. Congruent(v * t, d * t, q)
    BY ONLY <1>1, <2>1, <2>2, <2>6, CongruentProduct
  <2>8. Congruent(vt, dt, q) /\ Congruent(st, 1, q)
    BY <1>6, <2>7
  <2> HIDE DEF dt, vt, qt, st
  <2>9. Congruent(qt - st, 0 - 1, q)
    BY ONLY <1>1, <2>4, <2>5, <2>8, CongruentDifference, 0 \in Int, 1 \in Int
  <2>10. Congruent(dt, -1, q)
    <3>1. 0 - 1 = -1
      OBVIOUS
    <3> QED BY ONLY <2>3, <2>9, <3>1
  <2>11. Congruent(vt, -1, q)
    BY ONLY <1>1, <2>8, <2>10, CongruentRelation
  <2> QED BY <2>11 DEF vt
<1> QED BY <1>3, <1>4, <1>6, <1>7

\* What a stage of the inverse transform writes: the sum of a pair, and the
\* difference times the table entry, times the scaling done at that stage.
StageScale == IF kind.by = "mu" \/ m < N \div 2 THEN 1 ELSE CycloOrderInv

\* A butterfly of the inverse transform: a sum, and a difference times an entry.
LEMMA InverseButterflyExact ==
  ASSUME params \in Params, NEW x \in 0 .. q - 1, NEW y \in 0 .. q - 1, NEW w \in 0 .. q - 1
  PROVE  /\ Congruent(InverseButterfly(x, y, w)[1], x + y, q)
         /\ Congruent(InverseButterfly(x, y, w)[2], (x - y) * w, q)
<1>1. q \in Nat \ {0} /\ x \in Int /\ y \in Int /\ w \in Int
  BY ParamsModulus
<1> DEFINE s == x + y
           d == x - y
           e == d % q
<1>2. s \in Int /\ d \in Int
  BY <1>1
<1>3. InverseButterfly(x, y, w)[1] = s % q /\ InverseButterfly(x, y, w)[2] = (e * w) % q
  <2>1. SumOf(x, y) = s % q /\ DifferenceOf(x, y) = e
    BY ButterflyParts
  <2>2. e \in 0 .. q - 1
    <3> HIDE DEF d
    <3> QED BY ONLY <1>1, <1>2, Remainders
  <2>3. Product(e, w) = (e * w) % q
    BY <2>2, ButterflyParts
  <2> QED BY <2>1, <2>3 DEF InverseButterfly
<1> HIDE DEF s, d
<1>4. Congruent(s % q, s, q) /\ Congruent(e, d, q) /\ e \in Int
  <2>1. Congruent(s % q, s, q) /\ Congruent(e, d, q) /\ e \in 0 .. q - 1
    BY ONLY <1>1, <1>2, CongruentRelation
  <2> QED BY <1>1, <2>1
<1>5. Congruent((e * w) % q, d * w, q)
  <2> HIDE DEF e
  <2> DEFINE ew == e * w
             dw == d * w
  <2>1. ew \in Int /\ dw \in Int
    BY ONLY <1>1, <1>2, <1>4, ProductInteger
  <2>2. Congruent(w, w, q)
    BY DEF Congruent
  <2>3. Congruent(ew, dw, q)
    BY ONLY <1>1, <1>2, <1>4, <2>2, CongruentProduct DEF ew, dw
  <2> HIDE DEF ew, dw
  <2>4. Congruent(ew % q, dw, q)
    BY ONLY <1>1, <2>1, <2>3, CongruentRelation
  <2> QED BY <2>4 DEF ew, dw
<1> QED BY <1>3, <1>4, <1>5 DEF s, d

\* So each stage writes such a pair in place of a pair.
LEMMA InverseStageWrites ==
  ASSUME params \in Params, element \in [Index -> 0 .. q - 1], m \in Doublings, InverseStage,
         NEW t \in Nat \ {0}, N = m * (2 * t), N \div (2 * m) = t,
         NEW b \in 0 .. m - 1, NEW j \in 0 .. t - 1
  PROVE  LET lo == element[(2 * b) * t + j]
             hi == element[(2 * b + 1) * t + j]
         IN  /\ Congruent(element'[(2 * b) * t + j], StageScale * (lo + hi), q)
             /\ Congruent(element'[(2 * b + 1) * t + j], StageScale * ((lo - hi) * RootInverseTable(m + b)), q)
<1> DEFINE Scaled(pair) ==
             IF kind.by = "mu" \/ m < N \div 2 THEN pair
             ELSE <<Product(pair[1], CycloOrderInv), Product(pair[2], CycloOrderInv)>>
           G(lo, hi, bb) == Scaled(InverseButterfly(lo, hi, RootInverseTable(m + bb)))
           F(i) ==
             LET block == i \div (2 * t)
                 upper == i % (2 * t) >= t
                 lo    == IF upper THEN i - t ELSE i
             IN  G(element[lo], element[lo + t], block)[IF upper THEN 2 ELSE 1]
           x == element[(2 * b) * t + j]
           y == element[(2 * b + 1) * t + j]
           w == RootInverseTable(m + b)
<1>1. \A i \in Index : element'[i] = F(i)
  BY DEF InverseStage, InverseStageThen, Paired
<1>2. m \in Nat \ {0} /\ N \in Nat \ {0, 1} /\ q \in Nat \ {0}
  <2>1. m \in 1 .. N
    BY Halves
  <2> QED BY <2>1, IndexLength, ParamsModulus
<1>3. \A u \in {0, 1} : /\ (2 * b + u) * t + j \in Index
                        /\ ((2 * b + u) * t + j) \div (2 * t) = b
                        /\ ((2 * b + u) * t + j) % (2 * t) = u * t + j
  <2>1. \A bb \in 0 .. m - 1, u \in {0, 1}, jj \in 0 .. t - 1 :
          /\ (2 * bb + u) * t + jj \in Index
          /\ ((2 * bb + u) * t + jj) \div (2 * t) = bb
          /\ ((2 * bb + u) * t + jj) % (2 * t) = u * t + jj
    BY ONLY <1>2, StageIndices, t \in Nat \ {0}, N = m * (2 * t)
  <2> QED BY ONLY <2>1, b \in 0 .. m - 1, j \in 0 .. t - 1, Zenon
<1> HIDE DEF G
<1>4. /\ (2 * b) * t + j \in Index /\ (2 * b + 1) * t + j \in Index
      /\ element'[(2 * b) * t + j] = G(x, y, b)[1]
      /\ element'[(2 * b + 1) * t + j] = G(x, y, b)[2]
  <2> DEFINE c == b * t
             i0 == (2 * b) * t + j
             i1 == (2 * b + 1) * t + j
  <2>1. 2 * b + 0 = 2 * b /\ 0 \in {0, 1} /\ 1 \in {0, 1}
    OBVIOUS
  <2>2. /\ (2 * b + 0) * t + j \in Index
        /\ ((2 * b + 0) * t + j) \div (2 * t) = b
        /\ ((2 * b + 0) * t + j) % (2 * t) = 0 * t + j
    BY ONLY <1>3, <2>1, Zenon
  <2>3. i0 \in Index /\ i0 \div (2 * t) = b /\ i0 % (2 * t) = 0 * t + j
    BY <2>1, <2>2
  <2>4. i1 \in Index /\ i1 \div (2 * t) = b /\ i1 % (2 * t) = 1 * t + j
    BY ONLY <1>3, <2>1, Zenon
  <2>5. ~(i0 % (2 * t) >= t) /\ i1 % (2 * t) >= t
    BY <2>3, <2>4
  <2>6. i0 + t = i1 /\ i1 - t = i0
    <3>1. (2 * b) * t = 2 * c /\ (2 * b + 1) * t = 2 * c + t /\ c \in Int
      BY <1>2
    <3> HIDE DEF c
    <3> QED BY <3>1
  <2>7. element'[i0] = F(i0) /\ element'[i1] = F(i1)
    BY ONLY <1>1, <2>3, <2>4
  <2> HIDE DEF i0, i1
  <2>8. F(i0) = G(element[i0], element[i1], b)[1]
    BY ONLY <2>3, <2>5, <2>6
  <2>9. F(i1) = G(element[i0], element[i1], b)[2]
    BY ONLY <2>4, <2>5, <2>6
  <2> QED BY ONLY <2>3, <2>4, <2>7, <2>8, <2>9 DEF i0, i1
<1>5. x \in 0 .. q - 1 /\ y \in 0 .. q - 1 /\ w \in 0 .. q - 1 /\ CycloOrderInv \in 0 .. q - 1
  <2>1. x \in 0 .. q - 1 /\ y \in 0 .. q - 1
    BY <1>4
  <2>2. m + b \in Index
    <3>1. m + b <= 2 * m - 1 /\ 2 * m <= N
      <4>1. m * (2 * t) = t * (2 * m) /\ 1 <= t
        BY <1>2
      <4>2. 1 * (2 * m) <= t * (2 * m)
        BY ONLY <1>2, <4>1, Monotone, 1 \in Int, t \in Int, 2 * m \in Nat
      <4> QED BY <1>2, <4>1, <4>2
    <3> QED BY <1>2, <3>1 DEF Index
  <2> QED BY <2>1, <2>2, RootsInTables, InverseOfLength
<1> DEFINE pair == InverseButterfly(x, y, w)
           d == (x - y) * w
<1> HIDE DEF x, y, w
<1>6. /\ pair[1] \in 0 .. q - 1 /\ pair[2] \in 0 .. q - 1
      /\ Congruent(pair[1], x + y, q) /\ Congruent(pair[2], d, q)
  BY <1>5, InverseButterflyResidues, InverseButterflyExact
<1>7. G(x, y, b) = Scaled(pair)
  BY DEF G, w
<1> HIDE DEF pair
<1>8. ASSUME NEW c \in 0 .. q - 1, NEW e \in Int, Congruent(c, e, q)
      PROVE  Congruent(Product(c, CycloOrderInv), CycloOrderInv * e, q)
  <2> DEFINE n == CycloOrderInv
             cn == c * n
             en == e * n
  <2>1. Product(c, n) = cn % q /\ n \in Int /\ c \in Int
    BY <1>5, <1>8, ButterflyParts
  <2>2. cn \in Int /\ en \in Int /\ en = n * e
    BY <2>1
  <2>3. Congruent(n, n, q)
    BY DEF Congruent
  <2> HIDE DEF n
  <2>4. Congruent(cn, en, q)
    BY ONLY <1>2, <1>8, <2>1, <2>3, CongruentProduct
  <2> HIDE DEF cn, en
  <2>5. Congruent(cn % q, en, q)
    BY ONLY <1>2, <2>2, <2>4, CongruentRelation
  <2> QED BY <2>1, <2>2, <2>5 DEF n
<1>9. d \in Int /\ x + y \in Int
  <2>1. x - y \in Int /\ w \in Int /\ x + y \in Int
    BY <1>2, <1>5
  <2> QED BY ONLY <2>1, ProductInteger
<1>10. Congruent(G(x, y, b)[1], StageScale * (x + y), q) /\ Congruent(G(x, y, b)[2], StageScale * d, q)
  <2> HIDE DEF d
  <2> DEFINE s == x + y
  <2>1. CASE kind.by = "mu" \/ m < N \div 2
    <3>1. 1 * s = s /\ 1 * d = d
      BY <1>9
    <3>2. G(x, y, b) = pair /\ StageScale = 1
      BY <1>7, <2>1 DEF StageScale
    <3> QED BY <1>6, <3>1, <3>2
  <2>2. CASE ~(kind.by = "mu" \/ m < N \div 2)
    <3>1. G(x, y, b)[1] = Product(pair[1], CycloOrderInv) /\ G(x, y, b)[2] = Product(pair[2], CycloOrderInv)
          /\ StageScale = CycloOrderInv
      BY <1>7, <2>2 DEF StageScale
    <3>2. /\ Congruent(Product(pair[1], CycloOrderInv), CycloOrderInv * s, q)
          /\ Congruent(Product(pair[2], CycloOrderInv), CycloOrderInv * d, q)
      BY ONLY <1>6, <1>8, <1>9
    <3> QED BY ONLY <3>1, <3>2
  <2> QED BY <2>1, <2>2
<1>11. /\ Congruent(element'[(2 * b) * t + j], StageScale * (x + y), q)
       /\ Congruent(element'[(2 * b + 1) * t + j], StageScale * d, q)
  BY ONLY <1>4, <1>10
<1> QED BY ONLY <1>11, Zenon DEF d, x, y, w

\* Two entries of a block after a stage, times the powers of an inverse root of
\* the block before: twice the entry of the half that root belongs to.
LEMMA InverseTerms ==
  ASSUME params \in Params, element \in [Index -> 0 .. q - 1], m \in Doublings, InverseStage,
         NEW t \in Nat \ {0}, N = m * (2 * t), N \div (2 * m) = t,
         NEW b \in 0 .. m - 1, NEW u \in {0, 1}, NEW X \in 0 .. q - 1,
         Congruent(Power(X, t, q) * RootInverseTable(m + b), IF u = 0 THEN 1 ELSE -1, q),
         NEW j \in 0 .. t - 1
  PROVE  /\ Congruent(element'[(2 * b) * t + j] * Power(X, j, q) + element'[(2 * b) * t + (t + j)] * Power(X, t + j, q),
                      (2 * StageScale) * (element[(2 * b + u) * t + j] * Power(X, j, q)), q)
         /\ element'[(2 * b) * t + j] \in Int /\ element'[(2 * b) * t + (t + j)] \in Int
         /\ element[(2 * b + u) * t + j] \in Int
         /\ StageScale \in Int
<1> DEFINE c == b * t
           i0 == (2 * b) * t + j
           i1 == (2 * b + 1) * t + j
           lo == element[i0]
           hi == element[i1]
           w == RootInverseTable(m + b)
           F == StageScale
           p == Power(X, j, q)
           v == Power(X, t, q)
           pt == Power(X, t + j, q)
<1>1. m \in Nat \ {0} /\ N \in Nat \ {0, 1} /\ q \in Nat \ {0, 1} /\ q \in Nat \ {0} /\ m < N
  <2>1. m \in 1 .. N
    BY Halves
  <2>2. m < N
    <3>1. m * (2 * t) = t * (2 * m) /\ 1 <= t /\ 2 * m \in Nat /\ m < 2 * m
      BY <2>1
    <3>2. 1 * (2 * m) <= t * (2 * m)
      BY ONLY <3>1, Monotone, 1 \in Int, t \in Int, t \in Nat \ {0}
    <3> QED BY <2>1, <3>1, <3>2
  <2> QED BY <2>1, <2>2, IndexLength, ParamsModulus
<1>2. i0 \in Index /\ i1 \in Index /\ (2 * b) * t + (t + j) = i1
  <2>1. \A bb \in 0 .. m - 1, e \in {0, 1}, jj \in 0 .. t - 1 : (2 * bb + e) * t + jj \in Index
    BY ONLY <1>1, StageIndices, t \in Nat \ {0}, N = m * (2 * t)
  <2>2. (2 * b + 0) * t + j \in Index /\ (2 * b + 1) * t + j \in Index
    BY ONLY <2>1, b \in 0 .. m - 1, j \in 0 .. t - 1, 0 \in {0, 1}, 1 \in {0, 1}
  <2>3. 2 * b + 0 = 2 * b
    BY <1>1
  <2>4. (2 * b) * t = 2 * c /\ (2 * b + 1) * t = 2 * c + t /\ c \in Int
    BY <1>1
  <2>5. (2 * b) * t + (t + j) = i1
    <3> HIDE DEF c
    <3> QED BY <1>1, <2>4
  <2> QED BY <2>2, <2>3, <2>5
<1>3. /\ Congruent(element'[i0], F * (lo + hi), q)
      /\ Congruent(element'[i1], F * ((lo - hi) * w), q)
  BY InverseStageWrites
<1>4. lo \in 0 .. q - 1 /\ hi \in 0 .. q - 1 /\ element'[i0] \in 0 .. q - 1 /\ element'[i1] \in 0 .. q - 1
  <2>1. element' \in [Index -> 0 .. q - 1]
    BY <1>1, InverseStep
  <2> QED BY <1>2, <2>1
<1>5. w \in 0 .. q - 1 /\ F \in 0 .. q - 1
  <2>1. m + b \in Index
    <3>1. m * (2 * t) = t * (2 * m) /\ 1 <= t /\ 2 * m \in Nat
      BY <1>1
    <3>2. 1 * (2 * m) <= t * (2 * m)
      BY ONLY <3>1, Monotone, 1 \in Int, t \in Int, t \in Nat \ {0}
    <3> QED BY <1>1, <3>1, <3>2 DEF Index
  <2>2. CycloOrderInv \in 0 .. q - 1 /\ 1 \in 0 .. q - 1
    BY <1>1, InverseOfLength
  <2> QED BY <2>1, <2>2, RootsInTables DEF StageScale
<1>6. p \in 0 .. q - 1 /\ v \in 0 .. q - 1 /\ pt \in 0 .. q - 1 /\ pt = (v * p) % q
  <2>1. X \in Nat /\ t \in Nat /\ j \in Nat /\ t + j \in Nat
    BY <1>1
  <2>2. \A n \in Nat : Power(X, n, q) \in 0 .. q - 1
    BY ONLY <1>1, <2>1, PowerSteps
  <2>3. pt = (v * p) % q
    BY ONLY <1>1, <2>1, PowerSum
  <2> QED BY ONLY <2>1, <2>2, <2>3
<1>7. Congruent(pt, v * p, q)
  <2> HIDE DEF p, v, pt
  <2>1. v \in Int /\ p \in Int
    BY <1>6
  <2>2. v * p \in Int
    BY ONLY <2>1, ProductInteger
  <2> QED BY ONLY <1>1, <1>6, <2>2, CongruentRelation
<1>8. Congruent(v * w, IF u = 0 THEN 1 ELSE -1, q)
  OBVIOUS
<1>9. element[(2 * b + u) * t + j] = IF u = 0 THEN lo ELSE hi
  <2>1. 2 * b + 0 = 2 * b
    BY <1>1
  <2> QED BY <2>1
<1> DEFINE e0 == element'[i0]
           e1 == element'[i1]
<1>10. /\ e0 \in Int /\ e1 \in Int /\ lo \in Int /\ hi \in Int /\ w \in Int /\ F \in Int /\ p \in Int /\ v \in Int
       /\ pt \in Int /\ q \in Nat \ {0}
  BY <1>1, <1>4, <1>5, <1>6
<1>11. Congruent(e0, F * (lo + hi), q) /\ Congruent(e1, F * ((lo - hi) * w), q)
  BY <1>3
<1> HIDE DEF e0, e1, lo, hi, w, F, p, v, pt
<1>12. Congruent(e0 * p + e1 * pt, (2 * F) * ((IF u = 0 THEN lo ELSE hi) * p), q)
  BY ONLY <1>7, <1>8, <1>10, <1>11, PairSum, u \in {0, 1}
<1> QED BY <1>2, <1>9, <1>10, <1>12 DEF e0, e1, p, pt, F

\* The vector of an inverse transform when N / k entries together hold one value
\* of the input: the block around i, as a polynomial, takes at the i-th point a
\* multiple of input[i].
Undone(e, k, c) ==
  \A i \in Index :
    Congruent(BlockSum(e, (i \div (N \div k)) * (N \div k), 1, N \div k, Point(i), q),
              ((N \div k) * c) * input[i], q)

\* A stage of the inverse transform leaves blocks twice as long.
LEMMA UndoneBlock ==
  ASSUME params \in Params, input \in [Index -> 0 .. q - 1], element \in [Index -> 0 .. q - 1],
         m \in Doublings, InverseStage,
         NEW t \in Nat \ {0}, N = m * (2 * t), N \div (2 * m) = t, N \div m = 2 * t,
         NEW b \in 0 .. m - 1, NEW u \in {0, 1}, NEW j \in 0 .. t - 1,
         NEW i \in Index, i = (2 * b + u) * t + j,
         NEW c \in Int, Undone(element, 2 * m, c)
  PROVE  Congruent(BlockSum(element', (i \div (2 * t)) * (2 * t), 1, 2 * t, Point(i), q),
                   ((2 * t) * (StageScale * c)) * input[i], q)
<1> DEFINE X == Point(i)
           a == (2 * b) * t
           d == (2 * b + u) * t
           F == StageScale
           g == input[i]
           v == Power(X, t, q)
<1>1. m \in Nat \ {0} /\ N \in Nat \ {0, 1} /\ q \in Nat \ {0, 1} /\ q \in Nat \ {0} /\ m < N /\ 2 * m \in Doublings
  <2>1. m \in 1 .. N
    BY Halves
  <2>2. m < N
    <3>1. m * (2 * t) = t * (2 * m) /\ 1 <= t /\ 2 * m \in Nat /\ m < 2 * m
      BY <2>1
    <3>2. 1 * (2 * m) <= t * (2 * m)
      BY ONLY <3>1, Monotone, 1 \in Int, t \in Int, t \in Nat \ {0}
    <3> QED BY <2>1, <3>1, <3>2
  <2> QED BY <2>1, <2>2, IndexLength, ParamsModulus, Halves
<1>2. i \div (2 * t) = b /\ i \div t = 2 * b + u
  <2>1. \A bb \in 0 .. m - 1, e \in {0, 1}, jj \in 0 .. t - 1 :
          /\ (2 * bb + e) * t + jj \in Index
          /\ ((2 * bb + e) * t + jj) \div (2 * t) = bb
          /\ ((2 * bb + e) * t + jj) % (2 * t) = e * t + jj
    BY ONLY <1>1, StageIndices, t \in Nat \ {0}, N = m * (2 * t)
  <2>2. i \div (2 * t) = b
    BY ONLY <2>1, i = (2 * b + u) * t + j, b \in 0 .. m - 1, u \in {0, 1}, j \in 0 .. t - 1
  <2> DEFINE y == 2 * b + u
  <2>3. y \in Int /\ i = y * t + j /\ i \in Int
    BY <1>1 DEF Index
  <2> HIDE DEF y
  <2>4. i \div t = y
    BY ONLY <2>3, DivUnique, t \in Nat \ {0}, j \in 0 .. t - 1
  <2> QED BY <2>2, <2>4 DEF y
<1>3. X \in 0 .. q - 1
  BY LastRoots
<1>4. v = RootOf(2 * m, 2 * b + u)
  <2>1. PointsAt(2 * m)
    BY <1>1, PointPowers
  <2>2. Power(Point(i), N \div (2 * m), q) = RootOf(2 * m, i \div (N \div (2 * m)))
    BY <2>1 DEF PointsAt
  <2> QED BY <1>2, <2>2
<1>5. Congruent(v * RootInverseTable(m + b), IF u = 0 THEN 1 ELSE -1, q)
  <2>1. m + b \in Index
    <3>1. m * (2 * t) = t * (2 * m) /\ 1 <= t /\ 2 * m \in Nat
      BY <1>1
    <3>2. 1 * (2 * m) <= t * (2 * m)
      BY ONLY <3>1, Monotone, 1 \in Int, t \in Int, t \in Nat \ {0}
    <3>3. 2 * m <= N /\ b \in 0 .. m - 1 /\ m \in Nat /\ N \in Nat
      BY ONLY <1>1, <3>1, <3>2, N = m * (2 * t), b \in 0 .. m - 1
    <3> QED BY ONLY <3>3 DEF Index
  <2>2. /\ Congruent(RootTable(m + b) * RootInverseTable(m + b), 1, q)
        /\ Congruent(((q - RootTable(m + b)) % q) * RootInverseTable(m + b), -1, q)
    BY <2>1, InverseRoots
  <2>3. RootOf(2 * m, 2 * b) = RootTable(m + b) /\ RootOf(2 * m, 2 * b + 1) = (q - RootTable(m + b)) % q
    BY <1>1, BlockRoots
  <2>4. 2 * b + 0 = 2 * b
    BY <1>1
  <2>5. CASE u = 0
    BY <1>4, <2>2, <2>3, <2>4, <2>5
  <2>6. CASE u = 1
    BY <1>4, <2>2, <2>3, <2>6
  <2> QED BY <2>5, <2>6
<1>6. ASSUME NEW k \in 0 .. t - 1
      PROVE  /\ Congruent(element'[a + k] * Power(X, k, q) + element'[a + (t + k)] * Power(X, t + k, q),
                          (2 * F) * (element[d + k] * Power(X, k, q)), q)
             /\ element'[a + k] \in Int /\ element'[a + (t + k)] \in Int /\ element[d + k] \in Int /\ F \in Int
  <2> HIDE DEF X
  <2>1. Congruent(Power(X, t, q) * RootInverseTable(m + b), IF u = 0 THEN 1 ELSE -1, q)
    BY <1>5
  <2> QED BY <1>3, <2>1, InverseTerms
<1>7. 0 \in 0 .. t - 1 /\ t \in Nat
  OBVIOUS
<1>8. F \in Int /\ 2 * F \in Int
  <2>1. F \in Int
    BY <1>6, <1>7
  <2> HIDE DEF F
  <2> QED BY <2>1
<1>9. \A k \in 0 .. 2 * t - 1 : element'[a + k] \in Int
  <2> HIDE DEF a
  <2>1. ASSUME NEW k \in 0 .. 2 * t - 1 PROVE element'[a + k] \in Int
    <3>1. CASE k < t
      BY <1>6, <3>1
    <3>2. CASE k >= t
      <4>1. k - t \in 0 .. t - 1 /\ t + (k - t) = k
        BY <3>2
      <4> QED BY <1>6, <4>1
    <3> QED BY <3>1, <3>2
  <2> QED BY <2>1
<1>10. a \in Nat /\ d \in Nat
  <2>1. 2 * b \in Nat /\ 2 * b + u \in Nat /\ t \in Nat
    BY <1>1
  <2> QED BY ONLY <2>1, ProductInteger
<1> DEFINE S1 == BlockSum(element', a, 1, 2 * t, X, q)
           S0 == BlockSum(element, d, 1, t, X, q)
<1>11. Congruent(S1, (2 * F) * S0, q)
  <2> HIDE DEF X, a, d, F
  <2>1. \A k \in 0 .. t - 1 : element[d + k] \in Int
    BY <1>6
  <2>2. \A k \in 0 .. t - 1 :
          Congruent(element'[a + k] * Power(X, k, q) + element'[a + (t + k)] * Power(X, t + k, q),
                    (2 * F) * (element[d + k] * Power(X, k, q)), q)
    BY <1>6
  <2> QED BY ONLY <1>1, <1>3, <1>7, <1>8, <1>9, <1>10, <2>1, <2>2, BlockFolds
<1>12. Congruent(S0, (t * c) * g, q) /\ g \in Int
  <2>1. Congruent(BlockSum(element, (i \div (N \div (2 * m))) * (N \div (2 * m)), 1, N \div (2 * m), Point(i), q),
                  ((N \div (2 * m)) * c) * input[i], q)
    BY DEF Undone
  <2> QED BY <1>1, <1>2, <2>1
<1>13. S0 \in Int
  <2> HIDE DEF X, a, d, F
  <2>1. \A k \in 0 .. t - 1 : element[d + k] \in Int
    BY <1>6
  <2>2. IntegersAt(element, d, t)
    BY <2>1 DEF IntegersAt
  <2>3. SumsTerms(element, d, t, X, q, Terms(element, d, 1, t, X, q))
    BY ONLY <1>1, <1>3, <1>7, <1>10, <2>2, TermsInBlock
  <2> QED BY <2>3 DEF SumsTerms
<1>14. Congruent((2 * F) * S0, (2 * F) * ((t * c) * g), q)
  <2> HIDE DEF S0, F, g
  <2> DEFINE r == (t * c) * g
             z == 2 * F
  <2>1. r \in Int
    BY ONLY <1>7, <1>12, ProductInteger, c \in Int, t \in Int
  <2>2. z \in Int /\ Congruent(z, z, q) /\ Congruent(S0, r, q)
    BY <1>8, <1>12 DEF Congruent
  <2> HIDE DEF r, z
  <2>3. Congruent(z * S0, z * r, q)
    BY ONLY <1>1, <1>13, <2>1, <2>2, CongruentProduct
  <2> QED BY <2>3 DEF r, z
<1>15. (2 * F) * ((t * c) * g) = ((2 * t) * (F * c)) * g
  <2> HIDE DEF F, g
  <2> QED BY <1>7, <1>8, <1>12
<1>16. (i \div (2 * t)) * (2 * t) = a
  <2>1. b * (2 * t) = (2 * b) * t
    BY <1>1
  <2> QED BY <1>2, <2>1
<1> HIDE DEF S0, S1, g, F
<1>17. Congruent(S1, ((2 * t) * (F * c)) * g, q)
  BY ONLY <1>1, <1>11, <1>14, <1>15, CongruentRelation
<1> QED BY <1>16, <1>17 DEF S1, F, g

\* So it keeps the blocks' values, times the scaling.
LEMMA UndoneStep ==
  ASSUME params \in Params, input \in [Index -> 0 .. q - 1], element \in [Index -> 0 .. q - 1],
         m \in Doublings, m < N, InverseStage, NEW c \in Int, Undone(element, 2 * m, c)
  PROVE  Undone(element', m, StageScale * c)
<1>1. PICK t \in Nat \ {0} : N = m * (2 * t) /\ N \div m = 2 * t /\ N \div (2 * m) = t
  BY Halves
<1>2. m \in Nat \ {0}
  <2>1. m \in 1 .. N
    BY Halves
  <2> QED BY <2>1, IndexLength
<1>3. ASSUME NEW i \in Index
      PROVE  Congruent(BlockSum(element', (i \div (N \div m)) * (N \div m), 1, N \div m, Point(i), q),
                       ((N \div m) * (StageScale * c)) * input[i], q)
  <2>1. \A k \in Index : \E b \in 0 .. m - 1, u \in {0, 1}, j \in 0 .. t - 1 : k = (2 * b + u) * t + j
    BY ONLY <1>1, <1>2, StagePlaces, t \in Nat \ {0}
  <2>2. PICK b \in 0 .. m - 1, u \in {0, 1}, j \in 0 .. t - 1 : i = (2 * b + u) * t + j
    BY <2>1
  <2>3. Congruent(BlockSum(element', (i \div (2 * t)) * (2 * t), 1, 2 * t, Point(i), q),
                  ((2 * t) * (StageScale * c)) * input[i], q)
    BY <1>1, <2>2, UndoneBlock
  <2> QED BY <1>1, <2>3
<1> QED BY <1>3 DEF Undone

\* It begins with blocks of one entry.
LEMMA UndoneStarts ==
  ASSUME params \in Params, input \in [Index -> 0 .. q - 1]
  PROVE  Undone(input, N, 1)
<1>1. q \in Nat \ {0, 1} /\ N \in Nat \ {0, 1} /\ N \div N = 1
  <2>1. N \in Nat \ {0, 1}
    BY IndexLength
  <2>2. N = 1 * N + 0 /\ N \in Int /\ N \in Nat \ {0} /\ 0 \in 0 .. N - 1 /\ 1 \in Int
    BY <2>1
  <2>3. N \div N = 1
    BY ONLY <2>2, DivUnique
  <2> QED BY <2>1, <2>3, ParamsModulus
<1>2. ASSUME NEW i \in Index
      PROVE  Congruent(BlockSum(input, (i \div 1) * 1, 1, 1, Point(i), q), (1 * 1) * input[i], q)
  <2>1. i \in Nat /\ i \div 1 = i /\ (i \div 1) * 1 = i
    BY <1>1 DEF Index
  <2>2. Point(i) \in 0 .. q - 1
    BY LastRoots
  <2>3. input[i] \in Int /\ (1 * 1) * input[i] = input[i]
    <3>1. input[i] \in 0 .. q - 1
      OBVIOUS
    <3> QED BY <1>1, <3>1
  <2>4. BlockSum(input, i, 1, 1, Point(i), q) = input[i]
    BY ONLY <1>1, <2>1, <2>2, <2>3, OneTerm, 1 \in Nat
  <2> QED BY <2>1, <2>3, <2>4 DEF Congruent
<1> QED BY <1>1, <1>2 DEF Undone

\* One block is the whole vector.
LEMMA UndoneWhole ==
  ASSUME NEW e, NEW c
  PROVE  Undone(e, 1, c) <=> \A i \in Index : Congruent(BlockSum(e, 0, 1, N, Point(i), q), (N * c) * input[i], q)
<1>1. N \in Nat \ {0, 1} /\ N \div 1 = N
  BY IndexLength
<1>2. \A i \in Index : i \div N = 0 /\ (i \div N) * N = 0
  <2>1. ASSUME NEW i \in Index PROVE i \div N = 0
    <3>1. i \in 0 .. N - 1 /\ i = 0 * N + i /\ i \in Int /\ N \in Nat \ {0} /\ 0 \in Int
      BY <1>1 DEF Index
    <3> QED BY ONLY <3>1, DivUnique
  <2> QED BY <1>1, <2>1
<1> QED BY <1>1, <1>2 DEF Undone

\* What the loop that scales does to the value at a point: times 1 / N.
LEMMA ScaleWrites ==
  ASSUME params \in Params, element \in [Index -> 0 .. q - 1], Scale, NEW z \in 0 .. q - 1
  PROVE  Congruent(BlockSum(element', 0, 1, N, z, q), CycloOrderInv * BlockSum(element, 0, 1, N, z, q), q)
<1> DEFINE n == CycloOrderInv
<1>1. q \in Nat \ {0, 1} /\ q \in Nat \ {0} /\ N \in Nat /\ n \in 0 .. q - 1 /\ n \in Int /\ 0 \in Nat
  <2>1. q \in Nat \ {0, 1} /\ N \in Nat /\ n \in 0 .. q - 1
    BY ParamsModulus, IndexLength, InverseOfLength
  <2> HIDE DEF n
  <2> QED BY <2>1
<1>2. ASSUME NEW k \in 0 .. N - 1
      PROVE  /\ element'[0 + k] \in Int /\ element[0 + k] \in Int
             /\ Congruent(element'[0 + k], n * element[0 + k], q)
  <2> DEFINE x == element[k]
             nx == x * n
  <2>1. 0 + k = k /\ k \in Index
    BY DEF Index
  <2>2. x \in 0 .. q - 1 /\ element'[k] = ModMulMu(x, n, q, ComputeMu(q))
    BY <2>1 DEF Scale
  <2>3. element'[k] = nx % q
    <3> HIDE DEF n, x
    <3> QED BY <1>1, <2>2, ButterflyParts DEF nx
  <2>4. x \in Int /\ nx \in Int /\ nx = n * x
    <3>1. x \in Int
      BY <1>1, <2>2
    <3> HIDE DEF n, x
    <3> QED BY ONLY <1>1, <3>1, Reorder, ProductInteger DEF nx
  <2> HIDE DEF nx, x, n
  <2>5. Congruent(nx % q, nx, q) /\ nx % q \in 0 .. q - 1
    BY ONLY <1>1, <2>4, CongruentRelation
  <2>6. nx % q \in Int
    BY <1>1, <2>5
  <2> QED BY <2>1, <2>3, <2>4, <2>5, <2>6 DEF x
<1> HIDE DEF n
<1>3. \A k \in 0 .. N - 1 : element'[0 + k] \in Int
  BY <1>2
<1>4. \A k \in 0 .. N - 1 : element[0 + k] \in Int /\ Congruent(element'[0 + k], n * element[0 + k], q)
  BY <1>2
<1>5. Congruent(BlockSum(element', 0, 1, N, z, q), n * BlockSum(element, 0, 1, N, z, q), q)
  BY ONLY <1>1, <1>3, <1>4, BlockScales, z \in 0 .. q - 1
<1> QED BY <1>5 DEF n

\* N times a value, times 1 / N, is the value.
LEMMA ScaledBack ==
  ASSUME params \in Params, NEW s \in Int, NEW g \in 0 .. q - 1
  PROVE  /\ Congruent(s, N * g, q) => Congruent(CycloOrderInv * s, (N * CycloOrderInv) * g, q)
         /\ Congruent(s, (N * CycloOrderInv) * g, q) => s % q = g
<1> DEFINE n == CycloOrderInv
           nn == N * n
           ng == N * g
<1>1. q \in Nat \ {0, 1} /\ q \in Nat \ {0} /\ N \in Int /\ n \in Int /\ nn % q = 1
  <2>1. q \in Nat \ {0, 1} /\ N \in Nat /\ n \in 0 .. q - 1 /\ nn % q = 1
    BY ParamsModulus, IndexLength, InverseOfLength
  <2> HIDE DEF n
  <2> QED BY <2>1
<1> HIDE DEF n
<1>2. g \in Int /\ ng \in Int /\ nn \in Int
  <2>1. g \in Int
    BY <1>1
  <2> QED BY ONLY <1>1, <2>1, ProductInteger
<1>3. ASSUME Congruent(s, N * g, q) PROVE Congruent(n * s, (N * n) * g, q)
  <2>1. n * ng = nn * g
    BY <1>1, <1>2
  <2>2. Congruent(n, n, q) /\ Congruent(s, ng, q)
    BY <1>3 DEF Congruent
  <2> HIDE DEF ng, nn
  <2>3. Congruent(n * s, n * ng, q)
    BY ONLY <1>1, <1>2, <2>2, CongruentProduct, s \in Int
  <2> QED BY <2>1, <2>3 DEF nn
<1>4. ASSUME Congruent(s, (N * n) * g, q) PROVE s % q = g
  <2>1. Congruent(nn, 1, q)
    <3>1. 1 \in 0 .. q - 1
      BY <1>1
    <3>2. 1 % q = 1
      BY ONLY <1>1, <3>1, Remainders
    <3> QED BY <1>1, <3>2 DEF Congruent
  <2>2. Congruent(s, nn * g, q)
    BY <1>4
  <2> HIDE DEF nn
  <2>3. Congruent(g, g, q)
    BY DEF Congruent
  <2>4. Congruent(nn * g, 1 * g, q)
    BY ONLY <1>1, <1>2, <2>1, <2>3, CongruentProduct, 1 \in Int
  <2>5. 1 * g = g
    BY <1>2
  <2>6. Congruent(s, g, q)
    BY ONLY <1>1, <2>2, <2>4, <2>5, CongruentRelation
  <2>7. Congruent(s % q, s, q) /\ s % q \in 0 .. q - 1
    BY ONLY <1>1, CongruentRelation, s \in Int
  <2> QED BY ONLY <1>1, <2>6, <2>7, CongruentRelation, g \in 0 .. q - 1
<1> QED BY <1>3, <1>4 DEF n

\* A transform that scales in a loop of its own: each entry times 1 / N.
LEMMA UndoneScaled ==
  ASSUME params \in Params, input \in [Index -> 0 .. q - 1], element \in [Index -> 0 .. q - 1],
         Scale, Undone(element, 1, 1)
  PROVE  Undone(element', 1, CycloOrderInv)
<1>1. q \in Nat \ {0, 1} /\ q \in Nat \ {0} /\ N \in Nat
  BY ParamsModulus, IndexLength
<1>2. ASSUME NEW i \in Index
      PROVE  Congruent(BlockSum(element', 0, 1, N, Point(i), q), (N * CycloOrderInv) * input[i], q)
  <2> DEFINE S1 == BlockSum(element', 0, 1, N, Point(i), q)
             S0 == BlockSum(element, 0, 1, N, Point(i), q)
             g == input[i]
  <2>1. Congruent(S1, CycloOrderInv * S0, q)
    <3>1. Point(i) \in 0 .. q - 1
      BY LastRoots
    <3> QED BY <3>1, ScaleWrites
  <2>2. Congruent(S0, N * g, q) /\ g \in 0 .. q - 1
    <3>1. Congruent(S0, (N * 1) * g, q)
      BY UndoneWhole
    <3>2. N * 1 = N
      BY <1>1
    <3> QED BY <3>1, <3>2
  <2>3. S0 \in Int
    <3>1. 2 * ReverseBits[i] + 1 \in Nat
      BY Reversal DEF Index
    <3> QED BY <3>1, EvaluatedInBlock DEF Point
  <2> HIDE DEF S0, S1, g
  <2>4. Congruent(CycloOrderInv * S0, (N * CycloOrderInv) * g, q)
    BY <2>2, <2>3, ScaledBack
  <2>5. Congruent(S1, (N * CycloOrderInv) * g, q)
    BY ONLY <1>1, <2>1, <2>4, CongruentRelation
  <2> QED BY <2>5 DEF S1, g
<1> QED BY <1>2, UndoneWhole

\* It ends with the coefficients.
LEMMA InverseEnds ==
  ASSUME params \in Params, input \in [Index -> 0 .. q - 1], element \in [Index -> 0 .. q - 1],
         Undone(element, 1, CycloOrderInv)
  PROVE  Evaluations(element) = input
<1>1. ASSUME NEW i \in Index
      PROVE  EvaluatedAt(element, 2 * ReverseBits[i] + 1) = input[i]
  <2> DEFINE e == 2 * ReverseBits[i] + 1
             S == BlockSum(element, 0, 1, N, Root(e), q)
             g == input[i]
  <2>1. e \in Nat
    BY Reversal DEF Index
  <2>2. EvaluatedAt(element, e) = S % q /\ S \in Int
    <3> HIDE DEF e
    <3> QED BY <2>1, EvaluatedInBlock
  <2>3. Congruent(S, (N * CycloOrderInv) * g, q) /\ g \in 0 .. q - 1
    BY UndoneWhole DEF Point
  <2> HIDE DEF e, S, g
  <2>4. S % q = g
    BY <2>2, <2>3, ScaledBack
  <2> QED BY <2>2, <2>4 DEF g, e
<1>2. DOMAIN input = Index
  OBVIOUS
<1> QED BY <1>1, <1>2 DEF Evaluations
-----------------------------------------------------------------------------
(* The iterative transforms.                                               *)

\* The power of the root that a pair of entries is combined with.
Twiddle(c) == IF kind.way = "iterative" THEN CyclicTable(c) ELSE CyclicInverseTable(c)

\* It is a residue.
LEMMA TwiddleResidue ==
  ASSUME params \in Params, NEW c \in Nat
  PROVE  Twiddle(c) \in 0 .. q - 1
<1>1. N \in Nat \ {0, 1}
  BY IndexLength
<1>2. 2 * c \in Nat /\ (2 * N - 1) * 2 * c \in Nat
  <2>1. (2 * N - 1) * 2 \in Nat
    BY <1>1
  <2> QED BY ONLY <2>1, ProductInteger, 2 \in Nat, c \in Nat
<1> QED BY <1>2, RootsInTables DEF Twiddle, CyclicTable, CyclicInverseTable

\* What a stage writes.
LEMMA IterativeStageWrites ==
  ASSUME params \in Params, element \in [Index -> 0 .. q - 1], m \in Doublings, IterativeStage,
         NEW t \in Nat \ {0}, N = m * (2 * t), N \div (2 * m) = t,
         NEW b \in 0 .. t - 1, NEW j \in 0 .. m - 1
  PROVE  LET lo == element[(2 * b) * m + j]
             hi == element[(2 * b + 1) * m + j]
         IN  /\ lo \in 0 .. q - 1 /\ hi \in 0 .. q - 1 /\ Twiddle(j * t) \in 0 .. q - 1
             /\ element'[(2 * b) * m + j] = (lo + ((hi * Twiddle(j * t)) % q)) % q
             /\ element'[(2 * b + 1) * m + j] = (lo - ((hi * Twiddle(j * t)) % q)) % q
<1> DEFINE Table(i) == IF kind.way = "iterative" THEN CyclicTable(i) ELSE CyclicInverseTable(i)
           Omega(i) == Table((i % (2 * m)) * (N \div (2 * m)))
           Factor(i) == ModMulMu(element[i], Omega(i - m), q, ComputeMu(q))
           F(i) == IF i % (2 * m) >= m THEN ModSubFast(element[i - m], Factor(i), q)
                   ELSE ModAddFast(element[i], Factor(i + m), q)
           i0 == (2 * b) * m + j
           i1 == (2 * b + 1) * m + j
           lo == element[i0]
           hi == element[i1]
           w == Twiddle(j * t)
           c == b * m
<1>1. \A i \in Index : element'[i] = F(i)
  BY DEF IterativeStage
<1>2. m \in Nat \ {0} /\ N \in Nat \ {0, 1} /\ q \in Nat \ {0} /\ N = t * (2 * m)
  <2>1. m \in 1 .. N
    BY Halves
  <2>2. m \in Nat \ {0} /\ N \in Nat \ {0, 1} /\ q \in Nat \ {0}
    BY <2>1, IndexLength, ParamsModulus
  <2> QED BY <2>2
<1>3. i0 \in Index /\ i1 \in Index /\ i0 % (2 * m) = j /\ i1 % (2 * m) = m + j
  <2>1. \A bb \in 0 .. t - 1, u \in {0, 1}, jj \in 0 .. m - 1 :
          /\ (2 * bb + u) * m + jj \in Index
          /\ ((2 * bb + u) * m + jj) \div (2 * m) = bb
          /\ ((2 * bb + u) * m + jj) % (2 * m) = u * m + jj
    BY ONLY <1>2, StageIndices, t \in Nat \ {0}
  <2>2. 0 \in {0, 1} /\ 1 \in {0, 1} /\ 2 * b + 0 = 2 * b /\ 0 * m + j = j /\ 1 * m + j = m + j
    BY <1>2
  <2>3. (2 * b + 0) * m + j \in Index /\ ((2 * b + 0) * m + j) % (2 * m) = 0 * m + j
    BY ONLY <2>1, <2>2, b \in 0 .. t - 1, j \in 0 .. m - 1, Zenon
  <2>4. (2 * b + 1) * m + j \in Index /\ ((2 * b + 1) * m + j) % (2 * m) = 1 * m + j
    BY ONLY <2>1, <2>2, b \in 0 .. t - 1, j \in 0 .. m - 1, Zenon
  <2> QED BY <2>2, <2>3, <2>4
<1>4. i1 - m = i0 /\ i0 + m = i1 /\ (i0 + m) - m = i0
  <2>1. (2 * b) * m = 2 * c /\ (2 * b + 1) * m = 2 * c + m /\ c \in Int
    BY <1>2
  <2> HIDE DEF c
  <2> QED BY <1>2, <2>1
<1>5. Omega(i0) = w
  BY <1>3 DEF Twiddle
<1>6. lo \in 0 .. q - 1 /\ hi \in 0 .. q - 1 /\ w \in 0 .. q - 1
  <2>1. j * t \in Nat
    BY ONLY <1>2, ProductInteger, j \in 0 .. m - 1, t \in Nat \ {0}
  <2> QED BY <1>3, <2>1, TwiddleResidue
<1> HIDE DEF Omega, w, i0, i1
<1>7. Factor(i1) = (hi * w) % q
  <2>1. Factor(i1) = ModMulMu(hi, w, q, ComputeMu(q))
    BY <1>4, <1>5
  <2> HIDE DEF hi, Factor
  <2> QED BY <1>6, <2>1, ButterflyParts
<1> DEFINE f == (hi * w) % q
<1>8. f \in 0 .. q - 1
  <2> DEFINE hw == hi * w
  <2>1. hi \in Int /\ w \in Int
    BY <1>2, <1>6
  <2>2. hw \in Int
    <3> HIDE DEF hi
    <3> QED BY ONLY <2>1, ProductInteger
  <2> HIDE DEF hw
  <2>3. hw % q \in 0 .. q - 1
    BY ONLY <1>2, <2>2, Remainders
  <2> QED BY <2>3 DEF hw
<1> HIDE DEF Factor
<1>9. element'[i0] = ModAddFast(lo, f, q)
  <2>1. ~(i0 % (2 * m) >= m)
    BY <1>2, <1>3
  <2>2. element'[i0] = F(i0)
    BY ONLY <1>1, <1>3
  <2> QED BY ONLY <1>4, <1>7, <2>1, <2>2
<1>10. element'[i1] = ModSubFast(lo, f, q)
  <2>1. i1 % (2 * m) >= m
    BY <1>2, <1>3
  <2>2. element'[i1] = F(i1)
    BY ONLY <1>1, <1>3
  <2> QED BY ONLY <1>4, <1>7, <2>1, <2>2
<1> HIDE DEF f, lo
<1>11. ModAddFast(lo, f, q) = (lo + f) % q /\ ModSubFast(lo, f, q) = (lo - f) % q
  BY <1>6, <1>8, ButterflyParts
<1>12. /\ lo \in 0 .. q - 1 /\ hi \in 0 .. q - 1 /\ w \in 0 .. q - 1
       /\ element'[i0] = (lo + ((hi * w) % q)) % q /\ element'[i1] = (lo - ((hi * w) % q)) % q
  BY ONLY <1>6, <1>9, <1>10, <1>11 DEF f
<1> QED BY ONLY <1>12 DEF lo, hi, w, i0, i1

\* So, modulo the modulus: the sum and the difference.
LEMMA IterativeStageValues ==
  ASSUME params \in Params, element \in [Index -> 0 .. q - 1], m \in Doublings, IterativeStage,
         NEW t \in Nat \ {0}, N = m * (2 * t), N \div (2 * m) = t,
         NEW b \in 0 .. t - 1, NEW j \in 0 .. m - 1
  PROVE  LET lo == element[(2 * b) * m + j]
             hi == element[(2 * b + 1) * m + j]
         IN  /\ lo \in 0 .. q - 1 /\ hi \in 0 .. q - 1 /\ Twiddle(j * t) \in 0 .. q - 1
             /\ element'[(2 * b) * m + j] \in 0 .. q - 1 /\ element'[(2 * b + 1) * m + j] \in 0 .. q - 1
             /\ Congruent(element'[(2 * b) * m + j], lo + hi * Twiddle(j * t), q)
             /\ Congruent(element'[(2 * b + 1) * m + j], lo - hi * Twiddle(j * t), q)
<1> DEFINE lo == element[(2 * b) * m + j]
           hi == element[(2 * b + 1) * m + j]
           w == Twiddle(j * t)
           hw == hi * w
           e0 == element'[(2 * b) * m + j]
           e1 == element'[(2 * b + 1) * m + j]
<1>1. /\ lo \in 0 .. q - 1 /\ hi \in 0 .. q - 1 /\ w \in 0 .. q - 1
      /\ e0 = (lo + (hw % q)) % q /\ e1 = (lo - (hw % q)) % q
  BY IterativeStageWrites
<1>2. q \in Nat \ {0}
  BY ParamsModulus
<1> HIDE DEF lo, hi, w, e0, e1
<1>3. lo \in Int /\ hi \in Int /\ w \in Int
  BY <1>1, <1>2
<1>4. hw \in Int
  BY ONLY <1>3, ProductInteger
<1> DEFINE s == lo + hw
           d == lo - hw
<1>5. e0 = s % q /\ e1 = d % q
  <2> HIDE DEF hw
  <2>1. /\ \A x \in Int, y \in Int : (x + (y % q)) % q = (x + y) % q
        /\ \A x \in Int, y \in Int : (x - (y % q)) % q = (x - y) % q
    BY ONLY <1>2, Remainders
  <2>2. (lo + (hw % q)) % q = (lo + hw) % q
    BY ONLY <1>3, <1>4, <2>1, Zenon
  <2>3. (lo - (hw % q)) % q = (lo - hw) % q
    BY ONLY <1>3, <1>4, <2>1, Zenon
  <2> QED BY <1>1, <2>2, <2>3
<1>6. s \in Int /\ d \in Int
  <2> HIDE DEF hw
  <2> QED BY <1>3, <1>4
<1> HIDE DEF s, d
<1>7. Congruent(e0, s, q) /\ Congruent(e1, d, q) /\ e0 \in 0 .. q - 1 /\ e1 \in 0 .. q - 1
  BY ONLY <1>2, <1>5, <1>6, CongruentRelation
<1> QED BY <1>1, <1>7 DEF s, d, lo, hi, w, e0, e1

\* After the stages up to k entries, the b-th block holds the cyclic values, at
\* the k points, of every (N / k)-th coefficient from the one the reversal names.
Gathered(e, k) ==
  \A b \in 0 .. (N \div k) - 1, j \in 0 .. k - 1 :
    e[b * k + j] = BlockSum(input, ReverseBits[b * k], N \div k, k, Root(2 * (N \div k) * j), q) % q

\* The coefficient a block begins with, and the one its second half does.
LEMMA FirstOfBlock ==
  ASSUME m \in Doublings, m < N, NEW t \in Nat \ {0}, N = m * (2 * t), N \div (2 * m) = t,
         NEW b \in 0 .. t - 1
  PROVE  /\ ReverseBits[b * (2 * m)] \in 0 .. t - 1
         /\ ReverseBits[(2 * b) * m] = ReverseBits[b * (2 * m)]
         /\ ReverseBits[(2 * b + 1) * m] = ReverseBits[b * (2 * m)] + t
<1>1. m \in Nat \ {0} /\ 2 * m \in Doublings
  <2>1. m \in 1 .. N
    BY Halves
  <2> QED BY <2>1, IndexLength, Halves
<1>2. ReverseBits[b * (2 * m)] \in 0 .. t - 1
  <2>1. LowPartAt(2 * m)
    BY <1>1, LowPart
  <2> QED BY <2>1 DEF LowPartAt
<1>3. (2 * b) * m = b * (2 * m)
  BY <1>1
<1>4. ReverseBits[(2 * b + 1) * m + 0] = ReverseBits[(2 * b) * m + 0] + t
  <2>1. HighBitAt(m)
    BY HighBit
  <2>2. 0 \in 0 .. m - 1
    BY <1>1
  <2> QED BY <2>1, <2>2 DEF HighBitAt
<1>5. (2 * b + 1) * m + 0 = (2 * b + 1) * m /\ (2 * b) * m + 0 = (2 * b) * m
  <2>1. (2 * b + 1) * m \in Int /\ (2 * b) * m \in Int
    <3>1. 2 * b + 1 \in Int /\ 2 * b \in Int /\ m \in Int
      BY <1>1
    <3> QED BY ONLY <3>1, ProductInteger
  <2> DEFINE x == (2 * b + 1) * m
             y == (2 * b) * m
  <2> HIDE DEF x, y
  <2>2. x \in Int /\ y \in Int => x + 0 = x /\ y + 0 = y
    OBVIOUS
  <2> QED BY <2>1, <2>2 DEF x, y
<1> QED BY <1>2, <1>3, <1>4, <1>5

\* The square roots of a block's point are its halves' points.
LEMMA CyclicPoints ==
  ASSUME params \in Params, NEW t \in Nat \ {0}, m \in Nat \ {0}, N = m * (2 * t), NEW j \in 0 .. m - 1
  PROVE  /\ Root(2 * t * j) \in 0 .. q - 1 /\ Root(2 * (2 * t) * j) \in 0 .. q - 1
         /\ Root(2 * t * (0 * m + j)) = Root(2 * t * j)
         /\ Root(2 * t * (1 * m + j)) = (q - Root(2 * t * j)) % q
         /\ Congruent(Root(2 * t * j) * Root(2 * t * j), Root(2 * (2 * t) * j), q)
         /\ CyclicTable(j * t) = Root(2 * t * j)
<1> DEFINE c == 2 * t * j
           h == t * j
<1>1. c \in Nat /\ c = 2 * h /\ h \in Nat
  <2>1. h \in Nat
    BY ONLY ProductInteger, t \in Nat \ {0}, m \in Nat \ {0}, j \in 0 .. m - 1
  <2>2. c = 2 * h
    OBVIOUS
  <2> HIDE DEF c, h
  <2> QED BY <2>1, <2>2
<1>2. 2 * (2 * t) * j = c + c /\ 2 * t * (0 * m + j) = c /\ 2 * (j * t) = c
  <2>1. 2 * (2 * t) * j = 4 * h /\ 2 * (j * t) = 2 * h
    OBVIOUS
  <2>2. 0 * m + j = j
    OBVIOUS
  <2> HIDE DEF h
  <2>3. 4 * h = c + c
    <3> HIDE DEF c
    <3> QED BY <1>1
  <2> QED BY <1>1, <2>1, <2>2, <2>3
<1>3. 2 * t * (1 * m + j) = N + c
  <2>1. 2 * t * (m + j) = 2 * t * m + 2 * t * j /\ 1 * m + j = m + j
    OBVIOUS
  <2>2. 2 * t * m = m * (2 * t)
    OBVIOUS
  <2> QED BY <2>1, <2>2
<1> HIDE DEF c
<1>4. c + c \in Nat
  BY <1>1
<1>5. Root(c) \in 0 .. q - 1 /\ Root(c + c) \in 0 .. q - 1
  BY <1>1, <1>4, RootIsPower
<1>6. Congruent(Root(c) * Root(c), Root(c + c), q) /\ Root(N + c) = (q - Root(c)) % q
  BY <1>1, RootLaws
<1> QED BY <1>2, <1>3, <1>5, <1>6 DEF c, CyclicTable

\* A stage of the iterative transform gathers twice as many.
LEMMA GatheredEntry ==
  ASSUME params \in Params, input \in [Index -> 0 .. q - 1], element \in [Index -> 0 .. q - 1],
         m \in Doublings, m < N, IterativeStage, kind.way = "iterative", Gathered(element, m),
         NEW t \in Nat \ {0}, N = m * (2 * t), N \div (2 * m) = t, N \div m = 2 * t,
         NEW b \in 0 .. t - 1, NEW u \in {0, 1}, NEW j \in 0 .. m - 1
  PROVE  element'[(2 * b + u) * m + j] =
           BlockSum(input, ReverseBits[b * (2 * m)], t, 2 * m, Root(2 * t * (u * m + j)), q) % q
<1> DEFINE J == ReverseBits[b * (2 * m)]
           w == Root(2 * t * j)
           z == Root(2 * (2 * t) * j)
           s == Root(2 * t * (u * m + j))
           lo == element[(2 * b) * m + j]
           hi == element[(2 * b + 1) * m + j]
           e == element'[(2 * b + u) * m + j]
           S1 == BlockSum(input, J, 2 * t, m, z, q)
           S2 == BlockSum(input, J + t, 2 * t, m, z, q)
           S == BlockSum(input, J, t, 2 * m, s, q)
<1>1. m \in Nat \ {0} /\ q \in Nat \ {0, 1} /\ q \in Nat \ {0} /\ N \in Nat \ {0, 1}
  <2>1. m \in 1 .. N
    BY Halves
  <2> QED BY <2>1, ParamsModulus, IndexLength
<1>2. J \in 0 .. t - 1 /\ ReverseBits[(2 * b) * m] = J /\ ReverseBits[(2 * b + 1) * m] = J + t
  BY FirstOfBlock
<1>3. /\ w \in 0 .. q - 1 /\ z \in 0 .. q - 1 /\ Congruent(w * w, z, q) /\ CyclicTable(j * t) = w
      /\ Root(2 * t * (0 * m + j)) = w /\ Root(2 * t * (1 * m + j)) = (q - w) % q
  BY <1>1, CyclicPoints
<1>4. lo = S1 % q /\ hi = S2 % q
  <2>1. 2 * b \in 0 .. (2 * t) - 1 /\ 2 * b + 1 \in 0 .. (2 * t) - 1
    BY <1>1
  <2>2. \A c \in 0 .. (2 * t) - 1, i \in 0 .. m - 1 :
          element[c * m + i] = BlockSum(input, ReverseBits[c * m], 2 * t, m, Root(2 * (2 * t) * i), q) % q
    BY DEF Gathered
  <2> QED BY ONLY <1>2, <2>1, <2>2, j \in 0 .. m - 1
<1>5. /\ lo \in 0 .. q - 1 /\ hi \in 0 .. q - 1
      /\ element'[(2 * b) * m + j] \in 0 .. q - 1 /\ element'[(2 * b + 1) * m + j] \in 0 .. q - 1
      /\ Congruent(element'[(2 * b) * m + j], lo + hi * w, q)
      /\ Congruent(element'[(2 * b + 1) * m + j], lo - hi * w, q)
  <2>1. Twiddle(j * t) = w
    BY <1>3 DEF Twiddle
  <2> QED BY <2>1, IterativeStageValues
<1>6. 2 * b + 0 = 2 * b
  BY <1>1
<1>7. /\ e \in 0 .. q - 1 /\ s \in 0 .. q - 1 /\ Congruent(s * s, z, q)
      /\ Congruent(e, lo + s * hi, q)
  <2> DEFINE e0 == element'[(2 * b) * m + j]
             e1 == element'[(2 * b + 1) * m + j]
             v == (q - w) % q
             hw == hi * w
             vh == v * hi
             wh == w * hi
  <2> HIDE DEF w, z, lo, hi
  <2>1. w \in Int /\ hi \in Int /\ lo \in Int /\ z \in Int
    BY <1>1, <1>3, <1>5
  <2>2. /\ v \in 0 .. q - 1 /\ Congruent(vh, -wh, q) /\ Congruent(v * v, w * w, q)
    BY ONLY <1>1, <1>3, <2>1, Negated
  <2>3. hw = wh /\ hw \in Int
    BY ONLY <2>1, ProductInteger, Reorder
  <2>4. CASE u = 0
    <3>1. e = e0 /\ s = w
      BY <1>3, <1>6, <2>4
    <3> QED BY <1>3, <1>5, <2>3, <3>1
  <2>5. CASE u = 1
    <3>1. e = e1 /\ s = v
      BY <1>3, <2>5
    <3> HIDE DEF e, s, e1
    <3>2. Congruent(e1, lo - hw, q)
      BY <1>5 DEF e1
    <3>3. v \in Int
      BY <1>1, <2>2
    <3> HIDE DEF v
    <3>4. vh \in Int
      BY ONLY <2>1, <3>3, ProductInteger
    <3> HIDE DEF hw, wh, vh
    <3>5. -hw \in Int /\ lo - hw = lo + (-hw)
      BY <2>1, <2>3
    <3>6. Congruent(-hw, vh, q)
      BY ONLY <1>1, <2>2, <2>3, CongruentRelation
    <3>7. Congruent(lo, lo, q)
      BY DEF Congruent
    <3>8. Congruent(lo + (-hw), lo + vh, q)
      BY ONLY <1>1, <2>1, <3>4, <3>5, <3>6, <3>7, CongruentSum
    <3>9. Congruent(e1, lo + vh, q)
      BY ONLY <1>1, <3>2, <3>5, <3>8, CongruentRelation
    <3>10. Congruent(v * v, z, q)
      BY ONLY <1>1, <1>3, <2>2, CongruentRelation
    <3>11. e1 \in 0 .. q - 1
      BY <1>5 DEF e1
    <3> QED BY <2>2, <3>1, <3>9, <3>10, <3>11 DEF vh
  <2> QED BY <2>4, <2>5
<1> HIDE DEF s, w, z, lo, hi, e, J
<1>8. S \in Int /\ S1 \in Int /\ S2 \in Int /\ Congruent(S, S1 + s * S2, q)
  BY ONLY <1>1, <1>2, <1>3, <1>7, SplitBlocks, params \in Params, input \in [Index -> 0 .. q - 1],
          t \in Nat \ {0}, N = m * (2 * t)
<1> HIDE DEF S, S1, S2
<1>9. s \in Int /\ lo \in Int /\ hi \in Int
  BY <1>1, <1>5, <1>7
<1>10. Congruent(lo, S1, q) /\ Congruent(hi, S2, q) /\ Congruent(s, s, q)
  BY ONLY <1>1, <1>4, <1>8, CongruentRelation
<1> DEFINE sh == s * hi
           sS == s * S2
<1>11. sh \in Int /\ sS \in Int
  BY ONLY <1>8, <1>9, ProductInteger
<1>12. Congruent(sh, sS, q)
  BY ONLY <1>1, <1>8, <1>9, <1>10, CongruentProduct
<1>13. Congruent(e, lo + sh, q) /\ Congruent(S, S1 + sS, q)
  BY <1>7, <1>8
<1> HIDE DEF sh, sS
<1>14. Congruent(lo + sh, S1 + sS, q)
  BY ONLY <1>1, <1>8, <1>9, <1>10, <1>11, <1>12, CongruentSum
<1>15. Congruent(e, S % q, q) /\ S % q \in 0 .. q - 1
  <2>1. Congruent(e, S, q)
    BY ONLY <1>1, <1>13, <1>14, CongruentRelation
  <2> QED BY ONLY <1>1, <1>8, <2>1, CongruentRelation
<1>16. e = S % q
  BY ONLY <1>1, <1>7, <1>15, CongruentRelation
<1> QED BY <1>16 DEF S, e, s, J

\* So every block of the next stage holds what it should.
LEMMA GatheredStep ==
  ASSUME params \in Params, input \in [Index -> 0 .. q - 1], element \in [Index -> 0 .. q - 1],
         m \in Doublings, IterativeStage, kind.way = "iterative", Gathered(element, m)
  PROVE  Gathered(element', 2 * m)
<1>1. m < N
  BY DEF IterativeStage
<1>2. PICK t \in Nat \ {0} : N = m * (2 * t) /\ N \div m = 2 * t /\ N \div (2 * m) = t
  BY <1>1, Halves
<1>3. m \in Nat \ {0}
  <2>1. m \in 1 .. N
    BY Halves
  <2> QED BY <2>1, IndexLength
<1>4. ASSUME NEW b \in 0 .. t - 1, NEW i \in 0 .. 2 * m - 1
      PROVE  element'[b * (2 * m) + i] =
               BlockSum(input, ReverseBits[b * (2 * m)], t, 2 * m, Root(2 * t * i), q) % q
  <2>1. PICK u \in {0, 1}, j \in 0 .. m - 1 : i = u * m + j
    <3>1. CASE i < m
      <4>1. i \in 0 .. m - 1 /\ i = 0 * m + i /\ 0 \in {0, 1}
        BY <1>3, <3>1
      <4> QED BY ONLY <4>1
    <3>2. CASE ~(i < m)
      <4>1. i - m \in 0 .. m - 1 /\ i = 1 * m + (i - m) /\ 1 \in {0, 1}
        BY <1>3, <3>2
      <4> QED BY ONLY <4>1
    <3> QED BY <3>1, <3>2
  <2>2. b * (2 * m) + i = (2 * b + u) * m + j
    <3> DEFINE c == b * m
               d == u * m
    <3>1. b * (2 * m) = 2 * c /\ (2 * b + u) * m = 2 * c + d /\ c \in Int /\ d \in Int
      BY <1>3
    <3> HIDE DEF c
    <3>2. i = d + j
      BY <2>1
    <3> HIDE DEF d
    <3> QED BY <1>3, <3>1, <3>2
  <2>3. element'[(2 * b + u) * m + j] =
          BlockSum(input, ReverseBits[b * (2 * m)], t, 2 * m, Root(2 * t * (u * m + j)), q) % q
    BY <1>1, <1>2, GatheredEntry
  <2> QED BY <2>1, <2>2, <2>3
<1> QED BY <1>2, <1>4 DEF Gathered

\* It begins with the reordered coefficients, as blocks of one.
LEMMA GatheredStarts ==
  ASSUME params \in Params, input \in [Index -> 0 .. q - 1], NEW e, \A i \in Index : e[i] = input[ReverseBits[i]]
  PROVE  Gathered(e, 1)
<1>1. N \in Nat \ {0, 1} /\ N \div 1 = N /\ q \in Nat \ {0, 1} /\ q \in Nat \ {0}
  BY IndexLength, ParamsModulus
<1>2. ASSUME NEW b \in 0 .. N - 1, NEW j \in 0 .. 1 - 1
      PROVE  e[b * 1 + j] = BlockSum(input, ReverseBits[b * 1], N, 1, Root(2 * N * j), q) % q
  <2> DEFINE r == ReverseBits[b]
             z == Root(2 * N * j)
  <2>1. b * 1 = b /\ b * 1 + j = b /\ b \in Index /\ j = 0 /\ 2 * N * j = 0
    BY <1>1 DEF Index
  <2>2. r \in Index /\ r \in Nat
    <3>1. r \in Index
      BY <2>1, Reversal
    <3> QED BY <3>1 DEF Index
  <2>3. input[r] \in 0 .. q - 1 /\ input[r] \in Int
    <3>1. input[r] \in 0 .. q - 1
      BY <2>2
    <3> QED BY <1>1, <3>1
  <2>4. z \in 0 .. q - 1
    BY <2>1, RootIsPower
  <2> HIDE DEF r, z
  <2>5. BlockSum(input, r, N, 1, z, q) = input[r]
    BY ONLY <1>1, <2>2, <2>3, <2>4, OneTerm, N \in Nat
  <2>6. input[r] % q = input[r]
    BY ONLY <1>1, <2>3, Remainders
  <2> QED BY <2>1, <2>5, <2>6 DEF r, z
<1> QED BY <1>1, <1>2 DEF Gathered

\* It ends with the cyclic values.
LEMMA GatheredEnds ==
  ASSUME params \in Params, input \in [Index -> 0 .. q - 1], element \in [Index -> 0 .. q - 1],
         Gathered(element, N)
  PROVE  element = CyclicValues(input)
<1>1. N \in Nat \ {0, 1} /\ N \div N = 1
  <2>1. N \in Nat \ {0, 1}
    BY IndexLength
  <2>2. N = 1 * N + 0 /\ N \in Int /\ N \in Nat \ {0} /\ 0 \in 0 .. N - 1 /\ 1 \in Int
    BY <2>1
  <2>3. N \div N = 1
    BY ONLY <2>2, DivUnique
  <2> QED BY <2>1, <2>3
<1>2. ASSUME NEW i \in Index PROVE element[i] = EvaluatedAt(input, 2 * i)
  <2>1. i \in 0 .. N - 1 /\ 0 \in 0 .. 1 - 1 /\ 0 * N + i = i /\ 0 * N = 0 /\ 2 * 1 * i = 2 * i /\ 2 * i \in Nat
    BY <1>1 DEF Index
  <2>2. \A b \in 0 .. 1 - 1, j \in 0 .. N - 1 :
          element[b * N + j] = BlockSum(input, ReverseBits[b * N], 1, N, Root(2 * 1 * j), q) % q
    BY <1>1 DEF Gathered
  <2>3. element[0 * N + i] = BlockSum(input, ReverseBits[0 * N], 1, N, Root(2 * 1 * i), q) % q
    BY ONLY <2>1, <2>2
  <2>4. ReverseBits[0] = 0
    BY Reversal
  <2>5. EvaluatedAt(input, 2 * i) = BlockSum(input, 0, 1, N, Root(2 * i), q) % q
    BY <2>1, EvaluatedInBlock
  <2> QED BY <2>1, <2>3, <2>4, <2>5
<1>3. element = [i \in Index |-> element[i]]
  OBVIOUS
<1> QED BY <1>2, <1>3 DEF CyclicValues

\* The vector of an inverse iterative transform when the b-th block of k entries,
\* as a polynomial, takes at the k points k times every (N / k)-th value of the
\* input from the one the reversal names.
Restored(e, k) ==
  \A b \in 0 .. (N \div k) - 1, i \in 0 .. k - 1 :
    Congruent(BlockSum(e, b * k, 1, k, Root(2 * (N \div k) * i), q),
              k * input[ReverseBits[b * k] + i * (N \div k)], q)

\* The point of a block, its powers, and the twiddle that goes with them.
LEMMA RestoredPoints ==
  ASSUME params \in Params, NEW t \in Nat \ {0}, m \in Nat \ {0}, N = m * (2 * t),
         NEW k \in 0 .. m - 1, NEW u \in {0, 1}, NEW j \in 0 .. m - 1
  PROVE  LET X == Root(2 * t * (2 * k + u))
             y == Root(2 * (2 * t) * k)
         IN  /\ X \in 0 .. q - 1 /\ y \in 0 .. q - 1
             /\ Congruent(Power(X, m, q), IF u = 0 THEN 1 ELSE -1, q)
             /\ u = 0 => X = y
             /\ u = 1 => Congruent(CyclicInverseTable(j * t) * Power(X, j, q), Power(y, j, q), q)
<1> DEFINE x == 2 * t * (2 * k + u)
           z == 2 * (2 * t) * k
           X == Root(x)
           y == Root(z)
           h == t * k
           g == j * t
<1>1. N \in Nat \ {0, 1} /\ q \in Nat \ {0, 1} /\ q \in Nat \ {0} /\ m \in Nat /\ j \in Nat
  BY IndexLength, ParamsModulus
<1>2. z = 4 * h /\ x = 4 * h + 2 * t * u /\ h \in Nat /\ g \in Nat
  <2>1. h \in Nat /\ g \in Nat
    BY ONLY <1>1, ProductInteger, t \in Nat \ {0}, k \in 0 .. m - 1
  <2>2. z = 4 * h
    OBVIOUS
  <2>3. x = 2 * t * (2 * k) + 2 * t * u /\ 2 * t * (2 * k) = 4 * h
    OBVIOUS
  <2> HIDE DEF x, z
  <2> QED BY <2>1, <2>2, <2>3
<1>3. x \in Nat /\ z \in Nat /\ (u = 0 => x = z) /\ (u = 1 => x = z + 2 * t)
  <2> HIDE DEF x, z, h
  <2>1. CASE u = 0
    <3>1. 2 * t * u = 0
      BY <2>1
    <3> QED BY <1>2, <2>1, <3>1
  <2>2. CASE u = 1
    <3>1. 2 * t * u = 2 * t
      BY <2>2
    <3> QED BY <1>2, <2>2, <3>1
  <2> QED BY <2>1, <2>2
<1>4. /\ \A a, b \in Nat : Congruent(Root(a) * Root(b), Root(a + b), q)
      /\ \A a, b \in Nat : Root(2 * N * b + a) = Root(a)
      /\ \A a, n \in Nat : Power(Root(a), n, q) = Root(a * n)
      /\ \A a \in Nat : Root(a) \in 0 .. q - 1
      /\ Root(0) = 1 /\ Root(N) = q - 1
  BY RootLaws, RootIsPower
<1>5. X \in 0 .. q - 1 /\ y \in 0 .. q - 1
  BY ONLY <1>3, <1>4
<1>6. Congruent(Power(X, m, q), IF u = 0 THEN 1 ELSE -1, q)
  <2>1. Power(X, m, q) = Root(x * m)
    BY ONLY <1>1, <1>3, <1>4
  <2>2. x * m = 2 * N * k + N * u
    <3>1. N * k = 2 * (t * m * k) /\ N * u = 2 * (t * m * u)
      OBVIOUS
    <3>2. x * m = 4 * (t * m * k) + 2 * (t * m * u)
      OBVIOUS
    <3> DEFINE nk == N * k
               nu == N * u
               tk == t * m * k
               tu == t * m * u
    <3>3. nk \in Int /\ nu \in Int /\ tk \in Int /\ tu \in Int /\ 2 * N * k = 2 * nk
      BY <1>1
    <3> HIDE DEF nk, nu, tk, tu
    <3>4. nk = 2 * tk /\ nu = 2 * tu /\ x * m = 4 * tk + 2 * tu
      BY <3>1, <3>2 DEF nk, nu, tk, tu
    <3>5. x * m = 2 * nk + nu
      BY <3>3, <3>4
    <3> QED BY <3>3, <3>5 DEF nu
  <2>3. N * u \in Nat /\ k \in Nat
    BY <1>1
  <2>4. Root(2 * N * k + N * u) = Root(N * u)
    BY ONLY <1>4, <2>3
  <2>5. CASE u = 0
    <3>1. N * u = 0
      BY <1>1, <2>5
    <3> QED BY <1>4, <2>1, <2>2, <2>4, <2>5, <3>1 DEF Congruent
  <2>6. CASE u = 1
    <3>1. N * u = N
      BY <1>1, <2>6
    <3>2. q - 1 \in 0 .. q - 1 /\ -1 = (-1) * q + (q - 1) /\ -1 \in Int
      BY <1>1
    <3>3. (-1) % q = q - 1 /\ (q - 1) % q = q - 1
      <4>1. (-1) % q = q - 1
        BY ONLY <1>1, <3>2, DivUnique
      <4>2. (q - 1) % q = q - 1
        BY ONLY <1>1, <3>2, Remainders
      <4> QED BY <4>1, <4>2
    <3>4. Congruent(q - 1, -1, q)
      BY <3>3 DEF Congruent
    <3> QED BY <1>4, <2>1, <2>2, <2>4, <2>6, <3>1, <3>4
  <2> QED BY <2>5, <2>6
<1>7. ASSUME u = 1
      PROVE  Congruent(CyclicInverseTable(j * t) * Power(X, j, q), Power(y, j, q), q)
  <2> DEFINE a == (2 * N - 1) * 2 * g
             xj == x * j
             zj == z * j
             gg == 2 * g
             ng == 2 * N * gg
  <2>1. a \in Nat /\ xj \in Nat /\ zj \in Nat /\ gg \in Nat
    <3>1. (2 * N - 1) * 2 \in Nat /\ gg \in Nat
      BY <1>1, <1>2
    <3> HIDE DEF x, z
    <3> QED BY ONLY <1>1, <1>2, <1>3, <3>1, ProductInteger
  <2>2. a + xj = ng + zj
    <3>1. (2 * N - 1) * 2 * g = 2 * N * (2 * g) - 2 * g
      <4> HIDE DEF g
      <4> QED BY <1>1, <1>2
    <3>2. xj = zj + gg
      <4>1. x = z + 2 * t
        BY <1>3, <1>7
      <4>2. (z + 2 * t) * j = z * j + 2 * (j * t)
        <5> HIDE DEF z
        <5> QED BY <1>1, <1>3
      <4> HIDE DEF x, z
      <4> QED BY <4>1, <4>2
    <3>3. a = ng - gg
      BY <3>1
    <3>4. ng \in Int
      <4>1. 2 * N \in Int
        BY <1>1
      <4> HIDE DEF gg
      <4> QED BY ONLY <2>1, <4>1, ProductInteger, gg \in Int DEF ng
    <3> HIDE DEF a, xj, zj, gg, ng
    <3> QED BY <2>1, <3>2, <3>3, <3>4
  <2>3. CyclicInverseTable(j * t) = Root(a)
    BY DEF CyclicInverseTable
  <2>4. Power(X, j, q) = Root(xj) /\ Power(y, j, q) = Root(zj)
    <3> HIDE DEF x, z
    <3> QED BY ONLY <1>1, <1>3, <1>4
  <2> HIDE DEF a, xj, zj, gg
  <2>5. Congruent(Root(a) * Root(xj), Root(a + xj), q)
    BY ONLY <1>4, <2>1
  <2>6. Root(ng + zj) = Root(zj)
    BY ONLY <1>4, <2>1
  <2> QED BY <2>2, <2>3, <2>4, <2>5, <2>6
<1>8. u = 0 => X = y
  BY <1>3
<1> HIDE DEF x, z
<1>9. /\ X \in 0 .. q - 1 /\ y \in 0 .. q - 1 /\ Congruent(Power(X, m, q), IF u = 0 THEN 1 ELSE -1, q)
      /\ u = 0 => X = y
      /\ u = 1 => Congruent(CyclicInverseTable(j * t) * Power(X, j, q), Power(y, j, q), q)
  BY ONLY <1>5, <1>6, <1>7, <1>8
<1> QED BY ONLY <1>9 DEF x, z

\* Two entries after a stage, times the powers of a point: twice the entry of
\* the half that point belongs to, times the power of that half's point.
LEMMA RestoredTerms ==
  ASSUME params \in Params, element \in [Index -> 0 .. q - 1], m \in Doublings, IterativeStage,
         kind.way # "iterative",
         NEW t \in Nat \ {0}, N = m * (2 * t), N \div (2 * m) = t,
         NEW b \in 0 .. t - 1, NEW k \in 0 .. m - 1, NEW u \in {0, 1}, NEW j \in 0 .. m - 1,
         NEW X, X = Root(2 * t * (2 * k + u)), NEW Y, Y = Root(2 * (2 * t) * k)
  PROVE  /\ Congruent(element'[(2 * b) * m + j] * Power(X, j, q) + element'[(2 * b) * m + (m + j)] * Power(X, m + j, q),
                      2 * (element[(2 * b + u) * m + j] * Power(Y, j, q)), q)
         /\ element'[(2 * b) * m + j] \in Int /\ element'[(2 * b) * m + (m + j)] \in Int
         /\ element[(2 * b + u) * m + j] \in Int
<1> DEFINE c == b * m
           lo == element[(2 * b) * m + j]
           hi == element[(2 * b + 1) * m + j]
           w == Twiddle(j * t)
           h == hi * w
           e0 == element'[(2 * b) * m + j]
           e1 == element'[(2 * b + 1) * m + j]
           p == Power(X, j, q)
           v == Power(X, m, q)
           pt == Power(X, m + j, q)
           r == Power(Y, j, q)
<1>1. m \in Nat \ {0} /\ q \in Nat \ {0, 1} /\ q \in Nat \ {0}
  <2>1. m \in 1 .. N
    BY Halves
  <2> QED BY <2>1, IndexLength, ParamsModulus
<1>2. /\ lo \in 0 .. q - 1 /\ hi \in 0 .. q - 1 /\ w \in 0 .. q - 1
      /\ e0 \in 0 .. q - 1 /\ e1 \in 0 .. q - 1
      /\ Congruent(e0, lo + h, q) /\ Congruent(e1, lo - h, q)
  BY IterativeStageValues
<1>3. (2 * b) * m + (m + j) = (2 * b + 1) * m + j
  <2>1. (2 * b) * m = 2 * c /\ (2 * b + 1) * m = 2 * c + m /\ c \in Int
    BY <1>1
  <2> HIDE DEF c
  <2> QED BY <1>1, <2>1
<1>4. /\ X \in 0 .. q - 1 /\ Y \in 0 .. q - 1
      /\ Congruent(v, IF u = 0 THEN 1 ELSE -1, q)
      /\ u = 0 => X = Y
      /\ u = 1 => Congruent(w * p, r, q)
  <2>1. w = CyclicInverseTable(j * t)
    BY DEF Twiddle
  <2>2. LET x == Root(2 * t * (2 * k + u))
            y == Root(2 * (2 * t) * k)
        IN  /\ x \in 0 .. q - 1 /\ y \in 0 .. q - 1
            /\ Congruent(Power(x, m, q), IF u = 0 THEN 1 ELSE -1, q)
            /\ u = 0 => x = y
            /\ u = 1 => Congruent(CyclicInverseTable(j * t) * Power(x, j, q), Power(y, j, q), q)
    BY <1>1, RestoredPoints
  <2> HIDE DEF w
  <2> QED BY <2>1, <2>2
<1>5. p \in 0 .. q - 1 /\ v \in 0 .. q - 1 /\ pt \in 0 .. q - 1 /\ r \in 0 .. q - 1 /\ pt = (v * p) % q
  <2>1. X \in Nat /\ Y \in Nat /\ m \in Nat /\ j \in Nat /\ m + j \in Nat
    BY <1>1, <1>4
  <2>2. \A n \in Nat : Power(X, n, q) \in 0 .. q - 1
    BY ONLY <1>1, <2>1, PowerSteps
  <2>3. \A n \in Nat : Power(Y, n, q) \in 0 .. q - 1
    BY ONLY <1>1, <2>1, PowerSteps
  <2>4. pt = (v * p) % q
    BY ONLY <1>1, <2>1, PowerSum
  <2> QED BY ONLY <2>1, <2>2, <2>3, <2>4
<1>6. element[(2 * b + u) * m + j] = IF u = 0 THEN lo ELSE hi
  <2>1. 2 * b + 0 = 2 * b
    BY <1>1
  <2> QED BY <2>1
<1>7. /\ e0 \in Int /\ e1 \in Int /\ lo \in Int /\ hi \in Int /\ w \in Int /\ p \in Int /\ v \in Int
      /\ pt \in Int /\ r \in Int
  BY <1>1, <1>2, <1>5
<1>8. u = 0 => p = r
  BY <1>4
<1> HIDE DEF e0, e1, lo, hi, w, p, v, pt, r
<1>9. h \in Int
  BY ONLY <1>7, ProductInteger
<1>10. Congruent(pt, v * p, q)
  <2>1. v * p \in Int
    BY ONLY <1>7, ProductInteger
  <2> QED BY ONLY <1>1, <1>5, <2>1, CongruentRelation
<1>11. Congruent(e0, 1 * (lo + h), q) /\ Congruent(e1, 1 * ((lo - h) * 1), q) /\ Congruent(v * 1, IF u = 0 THEN 1 ELSE -1, q)
  <2> HIDE DEF h
  <2>1. 1 * (lo + h) = lo + h /\ 1 * ((lo - h) * 1) = lo - h /\ v * 1 = v
    BY <1>7, <1>9
  <2> QED BY <1>2, <1>4, <2>1 DEF h
<1>12. Congruent(e0 * p + e1 * pt, (2 * 1) * ((IF u = 0 THEN lo ELSE h) * p), q)
  <2> HIDE DEF h
  <2> QED BY ONLY <1>1, <1>7, <1>9, <1>10, <1>11, PairSum, u \in {0, 1}, 1 \in Int
<1> DEFINE A == e0 * p + e1 * pt
           B == (IF u = 0 THEN lo ELSE hi) * r
<1>13. Congruent(A, 2 * B, q)
  <2> HIDE DEF A
  <2>1. CASE u = 0
    <3>1. Congruent(A, (2 * 1) * (lo * p), q)
      BY <1>12, <2>1 DEF A
    <3>2. 2 * 1 = 2
      OBVIOUS
    <3> QED BY <1>8, <2>1, <3>1, <3>2
  <2>2. CASE u = 1
    <3> DEFINE wp == w * p
               hp == h * p
               hw == hi * wp
               hr == hi * r
    <3>1. Congruent(A, (2 * 1) * hp, q)
      BY <1>12, <2>2 DEF A
    <3>2. wp \in Int
      BY ONLY <1>7, ProductInteger
    <3>3. hp = hw
      BY ONLY <1>7, Reorder
    <3>4. Congruent(wp, r, q)
      BY <1>4, <2>2
    <3>5. Congruent(hi, hi, q) /\ Congruent(2, 2, q)
      BY DEF Congruent
    <3> HIDE DEF wp
    <3>6. Congruent(hw, hr, q)
      BY ONLY <1>1, <1>7, <3>2, <3>4, <3>5, CongruentProduct
    <3>7. hw \in Int /\ hr \in Int
      BY ONLY <1>7, <3>2, ProductInteger
    <3> HIDE DEF hw, hr, hp
    <3>8. Congruent(2 * hw, 2 * hr, q)
      BY ONLY <1>1, <3>5, <3>6, <3>7, CongruentProduct, 2 \in Int
    <3>9. 2 * 1 = 2
      OBVIOUS
    <3>10. Congruent(A, 2 * hr, q)
      BY ONLY <1>1, <3>1, <3>3, <3>8, <3>9, CongruentRelation
    <3> QED BY <2>2, <3>10 DEF hr
  <2> QED BY <2>1, <2>2
<1>14. Congruent(e0 * p + e1 * pt, 2 * ((IF u = 0 THEN lo ELSE hi) * r), q)
  BY <1>13
<1> HIDE DEF A, B
<1> QED BY <1>3, <1>6, <1>7, <1>14 DEF e0, e1, p, pt, r

\* A stage restores blocks twice as long.
LEMMA RestoredBlock ==
  ASSUME params \in Params, input \in [Index -> 0 .. q - 1], element \in [Index -> 0 .. q - 1],
         m \in Doublings, m < N, IterativeStage, kind.way # "iterative",
         NEW t \in Nat \ {0}, N = m * (2 * t), N \div (2 * m) = t, N \div m = 2 * t,
         NEW b \in 0 .. t - 1, NEW k \in 0 .. m - 1, NEW u \in {0, 1}, Restored(element, m)
  PROVE  Congruent(BlockSum(element', b * (2 * m), 1, 2 * m, Root(2 * t * (2 * k + u)), q),
                   (2 * m) * input[ReverseBits[b * (2 * m)] + (2 * k + u) * t], q)
<1> DEFINE X == Root(2 * t * (2 * k + u))
           Y == Root(2 * (2 * t) * k)
           a == (2 * b) * m
           d == (2 * b + u) * m
           J == ReverseBits[b * (2 * m)]
           i == J + (2 * k + u) * t
           g == input[i]
<1>1. m \in Nat \ {0} /\ m \in Nat /\ q \in Nat \ {0, 1} /\ q \in Nat \ {0} /\ N \in Nat \ {0, 1}
  <2>1. m \in 1 .. N
    BY Halves
  <2> QED BY <2>1, IndexLength, ParamsModulus
<1>2. X \in 0 .. q - 1 /\ Y \in 0 .. q - 1
  <2>1. 0 \in 0 .. m - 1
    BY <1>1
  <2> QED BY <1>1, <2>1, RestoredPoints
<1>3. J \in 0 .. t - 1 /\ ReverseBits[(2 * b) * m] = J /\ ReverseBits[(2 * b + 1) * m] = J + t
  BY FirstOfBlock
<1>4. i \in Index
  <2> DEFINE I == 2 * k + u
             I1 == I + 1
             M2 == 2 * m
             p == I * t
             p1 == I1 * t
             P == M2 * t
  <2>1. I \in Nat /\ I1 \in Int /\ M2 \in Int /\ I1 <= M2 /\ t \in Nat
    BY <1>1
  <2>2. p1 = p + t /\ P = N /\ p \in Nat
    <3>1. p \in Nat
      BY ONLY <2>1, ProductInteger
    <3>2. P = N
      BY <1>1
    <3>3. p1 = p + t
      <4> HIDE DEF I
      <4> QED BY <2>1
    <3> QED BY <3>1, <3>2, <3>3
  <2>3. p1 <= P
    <3> HIDE DEF I1, M2
    <3> QED BY ONLY <2>1, Monotone DEF p1, P
  <2> HIDE DEF p1, P, J, p, I, I1, M2
  <2>4. J + p \in Index
    BY <1>1, <1>3, <2>1, <2>2, <2>3 DEF Index
  <2> QED BY <2>4 DEF p, I
<1>5. g \in Int
  <2>1. g \in 0 .. q - 1
    BY <1>4
  <2> QED BY <1>1, <2>1
<1>6. ASSUME NEW j \in 0 .. m - 1
      PROVE  /\ Congruent(element'[a + j] * Power(X, j, q) + element'[a + (m + j)] * Power(X, m + j, q),
                          2 * (element[d + j] * Power(Y, j, q)), q)
             /\ element'[a + j] \in Int /\ element'[a + (m + j)] \in Int /\ element[d + j] \in Int
  <2>1. X = Root(2 * t * (2 * k + u)) /\ Y = Root(2 * (2 * t) * k)
    OBVIOUS
  <2> HIDE DEF X, Y, a, d
  <2>2. /\ Congruent(element'[(2 * b) * m + j] * Power(X, j, q) + element'[(2 * b) * m + (m + j)] * Power(X, m + j, q),
                     2 * (element[(2 * b + u) * m + j] * Power(Y, j, q)), q)
        /\ element'[(2 * b) * m + j] \in Int /\ element'[(2 * b) * m + (m + j)] \in Int
        /\ element[(2 * b + u) * m + j] \in Int
    BY ONLY <2>1, RestoredTerms, params \in Params, element \in [Index -> 0 .. q - 1], m \in Doublings,
            IterativeStage, kind.way # "iterative", t \in Nat \ {0}, N = m * (2 * t), N \div (2 * m) = t,
            b \in 0 .. t - 1, k \in 0 .. m - 1, u \in {0, 1}, j \in 0 .. m - 1, Zenon
  <2> QED BY ONLY <2>2 DEF a, d
<1>7. \A j \in 0 .. 2 * m - 1 : element'[a + j] \in Int
  <2> HIDE DEF a
  <2>1. ASSUME NEW j \in 0 .. 2 * m - 1 PROVE element'[a + j] \in Int
    <3>1. CASE j < m
      <4>1. j \in 0 .. m - 1
        BY <1>1, <3>1
      <4> QED BY <1>6, <4>1
    <3>2. CASE ~(j < m)
      <4>1. j - m \in 0 .. m - 1 /\ m + (j - m) = j
        BY <1>1, <3>2
      <4> QED BY <1>6, <4>1
    <3> QED BY <3>1, <3>2
  <2> QED BY <2>1
<1>8. a \in Nat /\ d \in Nat
  <2>1. 2 * b \in Nat /\ 2 * b + u \in Nat
    BY <1>1
  <2> QED BY ONLY <1>1, <2>1, ProductInteger
<1> DEFINE S1 == BlockSum(element', a, 1, 2 * m, X, q)
           S0 == BlockSum(element, d, 1, m, Y, q)
<1>9. Congruent(S1, 2 * S0, q) /\ S0 \in Int
  <2> HIDE DEF X, Y, a, d
  <2>1. \A j \in 0 .. m - 1 : element[d + j] \in Int
    BY <1>6
  <2>2. \A j \in 0 .. m - 1 :
          Congruent(element'[a + j] * Power(X, j, q) + element'[a + (m + j)] * Power(X, m + j, q),
                    2 * (element[d + j] * Power(Y, j, q)), q)
    BY <1>6
  <2>3. Congruent(S1, 2 * S0, q)
    BY ONLY <1>1, <1>2, <1>7, <1>8, <2>1, <2>2, BlockFolds, 2 \in Int
  <2>4. IntegersAt(element, d, m)
    BY <2>1 DEF IntegersAt
  <2>5. SumsTerms(element, d, m, Y, q, Terms(element, d, 1, m, Y, q))
    BY ONLY <1>1, <1>2, <1>8, <2>4, TermsInBlock
  <2>6. S0 \in Int
    BY <2>5 DEF SumsTerms
  <2> QED BY <2>3, <2>6
<1>10. Congruent(S0, m * g, q)
  <2>1. 2 * b + u \in 0 .. (2 * t) - 1
    BY <1>1
  <2>2. \A c \in 0 .. (2 * t) - 1, n \in 0 .. m - 1 :
          Congruent(BlockSum(element, c * m, 1, m, Root(2 * (2 * t) * n), q),
                    m * input[ReverseBits[c * m] + n * (2 * t)], q)
    BY DEF Restored
  <2>3. Congruent(BlockSum(element, d, 1, m, Y, q), m * input[ReverseBits[d] + k * (2 * t)], q)
    BY ONLY <2>1, <2>2, k \in 0 .. m - 1
  <2>4. ReverseBits[d] = J + u * t
    <3>1. CASE u = 0
      <4>1. 2 * b + 0 = 2 * b /\ 0 * t = 0
        BY <1>1
      <4>2. J + 0 = J
        <5> HIDE DEF J
        <5> QED BY <1>3
      <4> QED BY <1>3, <3>1, <4>1, <4>2
    <3>2. CASE u = 1
      <4>1. 1 * t = t
        BY <1>1
      <4> QED BY <1>3, <3>2, <4>1
    <3> QED BY <3>1, <3>2
  <2>5. (J + u * t) + k * (2 * t) = i
    <3> DEFINE kt == k * t
               ut == u * t
    <3>1. k * (2 * t) = 2 * kt /\ (2 * k + u) * t = 2 * kt + ut /\ kt \in Int /\ ut \in Int
      BY <1>1
    <3> HIDE DEF kt, ut, J
    <3>2. (J + ut) + 2 * kt = J + (2 * kt + ut)
      BY <1>3, <3>1
    <3> QED BY <3>1, <3>2 DEF ut
  <2> QED BY <2>3, <2>4, <2>5
<1>11. Congruent(2 * S0, (2 * m) * g, q)
  <2> DEFINE mg == m * g
  <2> HIDE DEF S0, g
  <2>1. Congruent(2, 2, q)
    BY DEF Congruent
  <2>2. mg \in Int /\ m \in Int
    <3>1. m \in Int
      BY <1>1
    <3> QED BY ONLY <1>5, <3>1, ProductInteger
  <2>3. 2 * mg = (2 * m) * g
    BY <1>1, <1>5
  <2>4. Congruent(S0, mg, q)
    BY <1>10
  <2> HIDE DEF mg
  <2>5. Congruent(2 * S0, 2 * mg, q)
    BY ONLY <1>1, <1>9, <2>1, <2>2, <2>4, CongruentProduct, 2 \in Int
  <2> QED BY <2>3, <2>5
<1>12. b * (2 * m) = a
  BY <1>1
<1> HIDE DEF S0, S1, g
<1>13. Congruent(S1, (2 * m) * g, q)
  BY ONLY <1>1, <1>9, <1>11, CongruentRelation
<1> QED BY <1>12, <1>13 DEF S1, g

\* For every block and point.
LEMMA RestoredStep ==
  ASSUME params \in Params, input \in [Index -> 0 .. q - 1], element \in [Index -> 0 .. q - 1],
         m \in Doublings, IterativeStage, kind.way # "iterative", Restored(element, m)
  PROVE  Restored(element', 2 * m)
<1>1. m < N
  BY DEF IterativeStage
<1>2. PICK t \in Nat \ {0} : N = m * (2 * t) /\ N \div m = 2 * t /\ N \div (2 * m) = t
  BY <1>1, Halves
<1>3. m \in Nat \ {0}
  <2>1. m \in 1 .. N
    BY Halves
  <2> QED BY <2>1, IndexLength
<1>4. ASSUME NEW b \in 0 .. t - 1, NEW i \in 0 .. 2 * m - 1
      PROVE  Congruent(BlockSum(element', b * (2 * m), 1, 2 * m, Root(2 * t * i), q),
                       (2 * m) * input[ReverseBits[b * (2 * m)] + i * t], q)
  <2>1. i \in Nat /\ 2 \in Nat \ {0}
    OBVIOUS
  <2>2. PICK k \in Nat, u \in 0 .. 2 - 1 : k = i \div 2 /\ u = i % 2 /\ i = 2 * k + u
    BY ONLY <2>1, DivSplit
  <2>3. k \in 0 .. m - 1 /\ u \in {0, 1}
    BY <1>3, <2>2
  <2>4. Congruent(BlockSum(element', b * (2 * m), 1, 2 * m, Root(2 * t * (2 * k + u)), q),
                  (2 * m) * input[ReverseBits[b * (2 * m)] + (2 * k + u) * t], q)
    BY <1>1, <1>2, <2>3, RestoredBlock
  <2> QED BY <2>2, <2>4
<1> QED BY <1>2, <1>4 DEF Restored

\* It begins with the reordered values, as blocks of one.
LEMMA RestoredStarts ==
  ASSUME params \in Params, input \in [Index -> 0 .. q - 1], NEW e, \A i \in Index : e[i] = input[ReverseBits[i]]
  PROVE  Restored(e, 1)
<1>1. N \in Nat \ {0, 1} /\ N \div 1 = N /\ q \in Nat \ {0, 1} /\ q \in Nat \ {0}
  BY IndexLength, ParamsModulus
<1>2. ASSUME NEW b \in 0 .. N - 1, NEW j \in 0 .. 1 - 1
      PROVE  Congruent(BlockSum(e, b * 1, 1, 1, Root(2 * N * j), q), 1 * input[ReverseBits[b * 1] + j * N], q)
  <2> DEFINE r == ReverseBits[b]
             z == Root(2 * N * j)
             g == input[r]
  <2>1. b * 1 = b /\ b \in Index /\ b \in Nat /\ j = 0 /\ 2 * N * j = 0 /\ j * N = 0
    BY <1>1 DEF Index
  <2>2. r \in Index /\ r \in Nat /\ r + 0 = r
    <3>1. r \in Index
      BY <2>1, Reversal
    <3> HIDE DEF r
    <3> QED BY <1>1, <3>1 DEF Index
  <2>3. g \in Int /\ e[b] = g
    <3>1. g \in 0 .. q - 1
      BY <2>2
    <3> QED BY <1>1, <2>1, <3>1
  <2>4. z \in 0 .. q - 1
    BY <2>1, RootIsPower
  <2> HIDE DEF r, z, g
  <2>5. BlockSum(e, b, 1, 1, z, q) = e[b]
    BY ONLY <1>1, <2>1, <2>3, <2>4, OneTerm, 1 \in Nat
  <2>6. 1 * g = g
    BY <2>3
  <2> QED BY <2>1, <2>2, <2>3, <2>5, <2>6 DEF r, z, g, Congruent
<1> QED BY <1>1, <1>2 DEF Restored

\* Scaled, it ends with the coefficients.
Restores(e) == \A i \in Index : BlockSum(e, 0, 1, N, Root(2 * i), q) % q = input[i]

\* The values at the even powers are the input.
LEMMA RestoredEnds ==
  ASSUME params \in Params, input \in [Index -> 0 .. q - 1], element \in [Index -> 0 .. q - 1],
         Scale, Restored(element, N)
  PROVE  Restores(element')
<1>1. N \in Nat \ {0, 1} /\ N \div N = 1 /\ q \in Nat \ {0, 1} /\ q \in Nat \ {0}
  <2>1. N \in Nat \ {0, 1}
    BY IndexLength
  <2>2. N = 1 * N + 0 /\ N \in Int /\ N \in Nat \ {0} /\ 0 \in 0 .. N - 1 /\ 1 \in Int
    BY <2>1
  <2>3. N \div N = 1
    BY ONLY <2>2, DivUnique
  <2> QED BY <2>1, <2>3, ParamsModulus
<1>2. element' \in [Index -> 0 .. q - 1]
  BY ScaleStep
<1>3. ASSUME NEW i \in Index PROVE BlockSum(element', 0, 1, N, Root(2 * i), q) % q = input[i]
  <2> DEFINE z == Root(2 * i)
             S1 == BlockSum(element', 0, 1, N, z, q)
             S0 == BlockSum(element, 0, 1, N, z, q)
             g == input[i]
  <2>1. i \in 0 .. N - 1 /\ i \in Nat /\ 0 \in 0 .. 1 - 1 /\ 0 * N = 0 /\ 2 * 1 * i = 2 * i /\ 2 * i \in Nat
        /\ 0 + i * 1 = i
    BY <1>1 DEF Index
  <2>2. z \in 0 .. q - 1
    BY <2>1, RootIsPower
  <2>3. S1 \in Int
    BY <1>2, <2>1, EvaluatedInBlock
  <2>4. S0 \in Int
    BY <2>1, EvaluatedInBlock
  <2>5. Congruent(S0, N * g, q) /\ g \in 0 .. q - 1
    <3>1. \A b \in 0 .. 1 - 1, j \in 0 .. N - 1 :
            Congruent(BlockSum(element, b * N, 1, N, Root(2 * 1 * j), q), N * input[ReverseBits[b * N] + j * 1], q)
      BY <1>1 DEF Restored
    <3>2. Congruent(BlockSum(element, 0 * N, 1, N, Root(2 * 1 * i), q), N * input[ReverseBits[0 * N] + i * 1], q)
      BY ONLY <2>1, <3>1
    <3>3. ReverseBits[0] = 0
      BY Reversal
    <3> QED BY <2>1, <3>2, <3>3
  <2>6. Congruent(S1, CycloOrderInv * S0, q)
    <3> HIDE DEF z
    <3> QED BY <2>2, ScaleWrites
  <2> HIDE DEF S0, S1, g
  <2>7. Congruent(CycloOrderInv * S0, (N * CycloOrderInv) * g, q)
    BY <2>4, <2>5, ScaledBack
  <2>8. Congruent(S1, (N * CycloOrderInv) * g, q)
    BY ONLY <1>1, <2>6, <2>7, CongruentRelation
  <2>9. S1 % q = g
    BY <2>3, <2>5, <2>8, ScaledBack
  <2> QED BY <2>9 DEF S1, g
<1> QED BY <1>3 DEF Restores

\* So its cyclic values are the input.
LEMMA RestoresValues ==
  ASSUME params \in Params, input \in [Index -> 0 .. q - 1], element \in [Index -> 0 .. q - 1], Restores(element)
  PROVE  CyclicValues(element) = input
<1>1. ASSUME NEW i \in Index PROVE EvaluatedAt(element, 2 * i) = input[i]
  <2>1. 2 * i \in Nat
    BY IndexLength DEF Index
  <2> QED BY <2>1, EvaluatedInBlock DEF Restores
<1>2. DOMAIN input = Index
  OBVIOUS
<1> QED BY <1>1, <1>2 DEF CyclicValues
-----------------------------------------------------------------------------
(* What each network's vector holds.                                       *)

\* The inverse transform: the blocks it has put together, scaled or not yet.
InverseHolds ==
  kind.way = "inverse" =>
    Undone(element, IF m = 0 THEN 1 ELSE 2 * m,
           IF loop # "done" /\ (kind.by = "mu" \/ m = N \div 2) THEN 1 ELSE CycloOrderInv)

\* The iterative ones.
IterativeHolds ==
  /\ kind.way = "iterative" => Gathered(element, m)
  /\ kind.way = "iterativeInverse" =>
       IF loop = "done" THEN Restores(element) ELSE Restored(element, m)

\* The same after a step that keeps the arguments.
LEMMA RootsNext ==
  ASSUME UNCHANGED <<kind, params, input>>
  PROVE  /\ q' = q /\ CycloOrderInv' = CycloOrderInv
         /\ \A e : Root(e)' = Root(e)
         /\ \A i : Point(i)' = Point(i)
<1>1. q' = q
  BY DEF q
<1>2. \A e : Root(e)' = Root(e)
  BY DEF Root
<1> QED BY <1>1, <1>2 DEF CycloOrderInv, Point, Root

\* What the inverse transform holds, after such a step.
LEMMA InverseNext ==
  ASSUME UNCHANGED <<kind, params, input>>
  PROVE  InverseHolds' <=>
           (kind.way = "inverse" =>
              Undone(element', IF m' = 0 THEN 1 ELSE 2 * m',
                     IF loop' # "done" /\ (kind.by = "mu" \/ m' = N \div 2) THEN 1 ELSE CycloOrderInv))
<1>1. q' = q /\ CycloOrderInv' = CycloOrderInv /\ \A i : Point(i)' = Point(i)
  BY RootsNext
<1>2. input' = input /\ kind' = kind
  OBVIOUS
<1> QED BY <1>1, <1>2 DEF InverseHolds, Undone

\* What the iterative ones hold.
LEMMA IterativeNext ==
  ASSUME UNCHANGED <<kind, params, input>>
  PROVE  IterativeHolds' <=>
           /\ kind.way = "iterative" => Gathered(element', m')
           /\ kind.way = "iterativeInverse" =>
                IF loop' = "done" THEN Restores(element') ELSE Restored(element', m')
<1>1. q' = q /\ \A e : Root(e)' = Root(e)
  BY RootsNext
<1>2. input' = input /\ kind' = kind
  OBVIOUS
<1>3. Gathered(element, m)' <=> Gathered(element', m')
  BY <1>1, <1>2 DEF Gathered
<1>4. Restored(element, m)' <=> Restored(element', m')
  BY <1>1, <1>2 DEF Restored
<1>5. Restores(element)' <=> Restores(element')
  BY <1>1, <1>2 DEF Restores
<1> QED BY <1>2, <1>3, <1>4, <1>5 DEF IterativeHolds

\* A stage of the inverse transform keeps what it holds.
LEMMA InverseHoldsStep ==
  ASSUME params \in Params, input \in [Index -> 0 .. q - 1], element \in [Index -> 0 .. q - 1],
         m \in Doublings, m < N, InverseStage, InverseHolds
  PROVE  InverseHolds'
<1> DEFINE c == IF kind.by = "mu" \/ m = N \div 2 THEN 1 ELSE CycloOrderInv
           c1 == IF kind.by = "mu" \/ m' = N \div 2 THEN 1 ELSE CycloOrderInv
           k1 == IF m' = 0 THEN 1 ELSE 2 * m'
<1>1. kind.way = "inverse" /\ loop = "stage" /\ loop' = "stage" /\ m' = m \div 2 /\ UNCHANGED <<kind, params, input>>
  BY DEF InverseStage, InverseStageThen
<1>2. m \in Nat \ {0} /\ N \in Nat \ {0, 1} /\ q \in Nat \ {0, 1}
  <2>1. m \in 1 .. N
    BY Halves
  <2> QED BY <2>1, IndexLength, ParamsModulus
<1>3. m <= N \div 2 /\ N \div 2 \in Nat
  <2>1. PICK t \in Nat \ {0} : N = m * (2 * t)
    BY Halves
  <2> DEFINE mt == m * t
  <2>2. mt \in Int /\ N = mt * 2 + 0 /\ N \in Int /\ 0 \in 0 .. 2 - 1 /\ 2 \in Nat \ {0}
    BY <1>2, <2>1
  <2>3. 1 * m <= t * m /\ 1 * m = m /\ t * m = mt
    <3>1. 1 <= t /\ m \in Nat /\ t \in Int /\ 1 \in Int
      BY <1>2
    <3>2. 1 * m <= t * m
      BY ONLY <3>1, Monotone
    <3> QED BY <1>2, <3>2
  <2> HIDE DEF mt
  <2>4. N \div 2 = mt
    BY ONLY <2>2, DivUnique
  <2> QED BY <1>2, <2>2, <2>3, <2>4
<1>4. m = k1 /\ m' < m /\ m' \in Nat
  <2>1. CASE m = 1
    <3>1. 1 \div 2 = 0
      OBVIOUS
    <3> QED BY <1>1, <2>1, <3>1
  <2>2. CASE m # 1
    <3>1. PICK h \in Doublings : m = 2 * h
      BY <2>2, Halves
    <3>2. h \in 1 .. N
      BY Halves
    <3>3. m' = h
      BY <1>1, <1>2, <3>1, <3>2
    <3> QED BY <1>2, <3>1, <3>2, <3>3
  <2> QED BY <2>1, <2>2
<1>5. c \in Int /\ CycloOrderInv \in Int
  <2>1. CycloOrderInv \in 0 .. q - 1
    BY InverseOfLength
  <2>2. CycloOrderInv \in Int
    BY <1>2, <2>1
  <2> QED BY <2>2
<1>6. Undone(element, 2 * m, c)
  BY <1>1, <1>2 DEF InverseHolds
<1>7. Undone(element', m, StageScale * c)
  <2> HIDE DEF c
  <2> QED BY <1>5, <1>6, UndoneStep
<1>8. StageScale * c = c1
  <2> DEFINE n == CycloOrderInv
  <2>1. n \in Int /\ 1 * n = n /\ n * 1 = n /\ 1 * 1 = 1
    <3> HIDE DEF n
    <3> QED BY <1>5 DEF n
  <2>2. m' # N \div 2
    <3> DEFINE d == N \div 2
    <3>1. m' < m /\ m' \in Nat /\ m <= d /\ d \in Nat /\ m \in Nat
      BY <1>2, <1>3, <1>4
    <3> HIDE DEF d
    <3>2. m' # d
      BY ONLY <3>1
    <3> QED BY <3>2 DEF d
  <2>3. CASE kind.by = "mu"
    BY <2>1, <2>3 DEF StageScale
  <2>4. CASE kind.by # "mu" /\ m = N \div 2
    BY <1>2, <1>3, <2>1, <2>2, <2>4 DEF StageScale
  <2>5. CASE kind.by # "mu" /\ m # N \div 2
    <3>1. m < N \div 2
      BY <1>2, <1>3, <2>5
    <3> QED BY <2>1, <2>2, <2>5, <3>1 DEF StageScale
  <2> QED BY <2>3, <2>4, <2>5
<1>9. Undone(element', k1, c1)
  <2> HIDE DEF k1, c1, c
  <2> QED BY <1>4, <1>7, <1>8
<1>10. loop' # "done"
  BY <1>1
<1> QED BY <1>1, <1>9, <1>10, InverseNext

\* Only the inverse transforms do, and only the iterative ones.
LEMMA HoldsOtherwise ==
  ASSUME UNCHANGED <<kind, params, input>>
  PROVE  /\ kind.way # "inverse" => InverseHolds'
         /\ kind.way \notin {"iterative", "iterativeInverse"} => IterativeHolds'
  BY InverseNext, IterativeNext

\* A stage of the iterative transforms keeps what they hold.
LEMMA IterativeHoldsStep ==
  ASSUME params \in Params, input \in [Index -> 0 .. q - 1], element \in [Index -> 0 .. q - 1],
         m \in Doublings, IterativeStage, IterativeHolds
  PROVE  IterativeHolds'
<1>1. loop = "stage" /\ loop' = "stage" /\ m' = 2 * m /\ UNCHANGED <<kind, params, input>>
  BY DEF IterativeStage
<1>2. ASSUME kind.way = "iterative" PROVE Gathered(element', m')
  BY <1>1, <1>2, GatheredStep DEF IterativeHolds
<1>3. ASSUME kind.way = "iterativeInverse" PROVE Restored(element', m')
  <2>1. Restored(element, m) /\ kind.way # "iterative"
    BY <1>1, <1>3 DEF IterativeHolds
  <2> QED BY <1>1, <2>1, RestoredStep
<1>4. loop' # "done"
  BY <1>1
<1> QED BY <1>1, <1>2, <1>3, <1>4, IterativeNext
-----------------------------------------------------------------------------
(* The invariant.  With it, m is always a number of blocks a stage can     *)
(* have (the inverse transform ends with 0 and never has N), so the        *)
(* entries a stage pairs are there, and a loop ends with all stages done.  *)

NTTInv ==
  /\ NTTTypeOK
  /\ element \in [Index -> 0 .. q - 1]
  /\ m \in Doublings \/ m = 0
  /\ kind.way = "inverse" => m < N
  /\ kind.way # "inverse" => m # 0
  /\ loop # "stage" => IF kind.way = "inverse" THEN m = 0 ELSE m = N
  /\ BlocksHoldResidues
  /\ InverseHolds
  /\ IterativeHolds

\* At the start the one block holds the input.
LEMMA InitBlocks ==
  ASSUME params \in Params, input \in [Index -> 0 .. q - 1]
  PROVE  BlocksHold(input, 1)
<1>1. N \in Nat \ {0, 1} /\ N \div 1 = N /\ q \in Nat \ {0, 1} /\ q \in Nat \ {0}
  BY IndexLength, ParamsModulus
<1>2. ASSUME NEW j \in 0 .. N - 1
      PROVE  input[0 * N + j] = BlockSum(input, j, N, 1, RootOf(1, 0), q) % q
  <2> DEFINE z == RootOf(1, 0)
             T == Terms(input, j, N, 1, z, q)
  <2>1. z = q - 1 /\ z \in Nat
    BY <1>1 DEF RootOf
  <2>2. j \in Index /\ j + 0 * N = j /\ 0 * N + j = j /\ input[j] \in 0 .. q - 1
    BY <1>1 DEF Index
  <2>3. Power(z, 0, q) = 1
    BY <1>1, <2>1, PowerSteps
  <2>4. 0 .. 1 - 1 = {0} /\ 0 \in 0 .. 1 - 1 /\ 1 \in Nat /\ 1 \in 0 .. 1 /\ 0 + 1 = 1
    OBVIOUS
  <2> HIDE DEF z
  <2>5. T[0] = input[j + 0 * N] * Power(z, 0, q)
    BY <2>4 DEF Terms
  <2>6. T[0] = input[j] /\ input[j] \in Int
    BY <2>2, <2>3, <2>5
  <2>7. \A i \in 0 .. 1 - 1 : T[i] \in Int
    BY <2>4, <2>6
  <2>8. BlockSum(input, j, N, 1, z, q) = Total(T, 1)
    BY ONLY <2>4, <2>7, BlockSumIsTotal
  <2> HIDE DEF T
  <2>9. Total(T, 0) = 0 /\ Total(T, 0 + 1) = Total(T, 0) + T[0]
    <3>1. Total(T, 0) = 0 /\ \A k \in 0 .. 1 - 1 : Total(T, k + 1) = Total(T, k) + T[k]
      BY ONLY <2>4, <2>7, TotalSteps
    <3> QED BY ONLY <2>4, <3>1
  <2>10. Total(T, 1) = input[j]
    BY <2>4, <2>6, <2>9
  <2>11. \A x \in 0 .. q - 1 : x % q = x
    BY ONLY <1>1, Remainders
  <2> QED BY <2>2, <2>8, <2>10, <2>11 DEF z
<1>3. 0 .. 1 - 1 = {0}
  OBVIOUS
<1> QED BY <1>1, <1>2, <1>3 DEF BlocksHold

\* The invariant holds at the start.
LEMMA InitInv == NTTInit => NTTInv
<1> SUFFICES ASSUME NEW k \in Kinds, NEW p \in Params, NEW x \in Inputs, StartKind(k, p, x)
             PROVE  NTTInv
  BY DEF NTTInit
<1>1. /\ kind = k /\ params = p /\ input = x /\ loop = "stage"
      /\ element = IF k.way \in {"forward", "inverse"} THEN x ELSE [i \in Index |-> x[ReverseBits[i]]]
      /\ m = IF k.way = "inverse" THEN N \div 2 ELSE 1
  BY DEF StartKind
<1>2. params \in Params /\ input \in [Index -> 0 .. q - 1] /\ N \in Nat \ {0, 1}
  BY <1>1, ParamsModulus, IndexLength
<1>3. element \in [Index -> 0 .. q - 1]
  <2>1. \A i \in Index : x[ReverseBits[i]] \in 0 .. q - 1
    BY <1>1, <1>2, Reversal
  <2> QED BY <1>1, <1>2, <2>1
<1>4. m \in Doublings /\ m \in 1 .. N /\ (k.way = "inverse" => m < N)
  <2>1. 1 \in Doublings /\ 1 \in 1 .. N
    BY Halves
  <2>2. PICK h \in Doublings : N = 2 * h
    BY <1>2, Halves
  <2>3. h \in 1 .. N
    BY Halves
  <2>4. N \div 2 = h /\ h < N
    BY <1>2, <2>2, <2>3
  <2> QED BY <1>1, <2>1, <2>2, <2>3, <2>4
<1>5. BlocksHoldResidues
  <2>1. kind.way = "forward" => element = input /\ m = 1
    BY <1>1
  <2>2. BlocksHold(input, 1)
    BY <1>2, InitBlocks
  <2> QED BY <2>1, <2>2, BlocksNow
<1>6. InverseHolds
  <2>1. SUFFICES ASSUME kind.way = "inverse"
                 PROVE  Undone(element, IF m = 0 THEN 1 ELSE 2 * m,
                               IF loop # "done" /\ (kind.by = "mu" \/ m = N \div 2) THEN 1 ELSE CycloOrderInv)
    BY DEF InverseHolds
  <2>2. element = input /\ m = N \div 2 /\ loop # "done"
    BY <1>1, <2>1
  <2>3. m # 0 /\ 2 * m = N
    <3>1. PICK h \in Doublings : N = 2 * h
      BY <1>2, Halves
    <3>2. h \in 1 .. N
      BY Halves
    <3>3. N \div 2 = h
      BY <1>2, <3>1, <3>2
    <3> QED BY <2>2, <3>1, <3>2, <3>3
  <2> QED BY <1>2, <2>2, <2>3, UndoneStarts
<1>7. IterativeHolds
  <2>1. ASSUME kind.way \in {"iterative", "iterativeInverse"} PROVE Gathered(element, 1) /\ Restored(element, 1)
    <3>1. \A i \in Index : element[i] = input[ReverseBits[i]]
      BY <1>1, <2>1
    <3> QED BY <1>2, <3>1, GatheredStarts, RestoredStarts
  <2>2. loop # "done" /\ (kind.way # "inverse" => m = 1)
    BY <1>1
  <2> QED BY <2>1, <2>2 DEF IterativeHolds
<1>8. NTTTypeOK
  BY <1>1, <1>4 DEF NTTTypeOK
<1> QED BY <1>1, <1>3, <1>4, <1>5, <1>6, <1>7, <1>8 DEF NTTInv

\* A step that only ends a loop.
LEMMA EndingStep ==
  ASSUME NTTInv, UNCHANGED <<kind, params, input, element, m>>,
         loop' \in {"stage", "scale", "done"},
         loop' = "scale" => kind.by = "mu" /\ kind.way \in {"inverse", "iterativeInverse"},
         loop' # "stage" => IF kind.way = "inverse" THEN m = 0 ELSE m = N,
         loop = "done" => loop' = "done",
         loop # "done" /\ loop' = "done" =>
           kind.way # "iterativeInverse" /\ (kind.way = "inverse" => kind.by # "mu" /\ m = 0)
  PROVE  NTTInv'
<1>1. NTTTypeOK'
  BY DEF NTTInv, NTTTypeOK
<1>2. q' = q /\ UNCHANGED <<kind, params, input>> /\ element' = element /\ m' = m
  BY DEF q
<1>3. BlocksHoldResidues'
  <2>1. BlocksHoldResidues' <=> (kind.way = "forward" => BlocksHold(element', m'))
    BY BlocksNext
  <2> QED BY <2>1, BlocksNow DEF NTTInv
<1>4. InverseHolds'
  <2> DEFINE k == IF m = 0 THEN 1 ELSE 2 * m
             c == IF loop # "done" /\ (kind.by = "mu" \/ m = N \div 2) THEN 1 ELSE CycloOrderInv
             c1 == IF loop' # "done" /\ (kind.by = "mu" \/ m = N \div 2) THEN 1 ELSE CycloOrderInv
  <2>1. SUFFICES ASSUME kind.way = "inverse" PROVE Undone(element, k, c1)
    <3>1. InverseHolds' <=>
            (kind.way = "inverse" =>
               Undone(element', IF m' = 0 THEN 1 ELSE 2 * m',
                      IF loop' # "done" /\ (kind.by = "mu" \/ m' = N \div 2) THEN 1 ELSE CycloOrderInv))
      BY InverseNext
    <3> QED BY <1>2, <3>1
  <2>2. Undone(element, k, c)
    BY <2>1 DEF NTTInv, InverseHolds
  <2>3. c = c1
    <3>1. N \div 2 # 0
      <4>1. N \in Nat \ {0, 1}
        BY IndexLength
      <4> QED BY <4>1
    <3>2. loop # "done" /\ loop' = "done" => kind.by # "mu" /\ m = 0
      BY <2>1
    <3> QED BY <3>1, <3>2
  <2> QED BY <2>2, <2>3
<1>5. IterativeHolds'
  <2>1. IterativeHolds
    BY DEF NTTInv
  <2> QED BY <1>2, <2>1, IterativeNext DEF IterativeHolds
<1> QED BY <1>1, <1>2, <1>3, <1>4, <1>5 DEF NTTInv

\* Every step keeps it.
LEMMA NextInv == NTTInv /\ [NTTNext]_nttVars => NTTInv'
<1> SUFFICES ASSUME NTTInv, [NTTNext]_nttVars PROVE NTTInv'
  OBVIOUS
<1>1. /\ kind \in Kinds /\ params \in Params /\ input \in Inputs /\ m \in 0 .. N
      /\ loop \in {"stage", "scale", "done"}
      /\ loop = "scale" => kind.by = "mu" /\ kind.way \in {"inverse", "iterativeInverse"}
      /\ element \in [Index -> 0 .. q - 1] /\ (m \in Doublings \/ m = 0) /\ BlocksHoldResidues
      /\ kind.way = "inverse" => m < N
      /\ kind.way # "inverse" => m # 0
      /\ loop # "stage" => IF kind.way = "inverse" THEN m = 0 ELSE m = N
      /\ InverseHolds /\ IterativeHolds
  BY DEF NTTInv, NTTTypeOK
<1>2. input \in [Index -> 0 .. q - 1] /\ N \in Nat \ {0, 1}
  BY <1>1, ParamsModulus, IndexLength
<1>3. \A k \in Doublings : k \in 1 .. N
  BY Halves
<1>4. CASE ForwardStage
  <2>1. kind.way = "forward" /\ m < N /\ m' = 2 * m /\ UNCHANGED <<kind, params, input, loop>> /\ loop = "stage"
    BY <1>4 DEF ForwardStage, ForwardStageAt
  <2>2. m \in Doublings /\ BlocksHold(element, m)
    BY <1>1, <2>1, BlocksNow
  <2>3. element' \in [Index -> 0 .. q - 1] /\ BlocksHold(element', m')
    BY <1>1, <1>2, <1>4, <2>2, ForwardStep
  <2>4. m' \in Doublings /\ m' \in 1 .. N
    BY <1>3, <2>1, <2>2, Halves
  <2>5. BlocksHoldResidues' /\ q' = q
    BY <2>1, <2>3, BlocksNext DEF q
  <2>6. NTTTypeOK'
    BY <1>1, <2>1, <2>4 DEF NTTTypeOK
  <2>7. InverseHolds' /\ IterativeHolds'
    BY <2>1, HoldsOtherwise
  <2> QED BY <2>1, <2>3, <2>4, <2>5, <2>6, <2>7 DEF NTTInv
<1>5. CASE ForwardReturn
  BY <1>5, EndingStep DEF ForwardReturn
<1>6. CASE InverseStage
  <2>1. kind.way = "inverse" /\ m >= 1 /\ m' = m \div 2 /\ UNCHANGED <<kind, params, input, loop>> /\ loop = "stage"
    BY <1>6 DEF InverseStage, InverseStageThen
  <2>2. m \in Doublings /\ m < N
    BY <1>1, <2>1
  <2>3. element' \in [Index -> 0 .. q - 1]
    BY <1>1, <1>6, <2>2, InverseStep
  <2>4. (m' \in Doublings \/ m' = 0) /\ m' \in 0 .. N /\ m' < N
    <3>1. CASE m = 1
      <4>1. 1 \div 2 = 0
        OBVIOUS
      <4> QED BY <1>2, <2>1, <3>1, <4>1
    <3>2. CASE m # 1
      <4>1. PICK h \in Doublings : m = 2 * h
        BY <2>2, <3>2, Halves
      <4>2. h \in 1 .. N
        BY <1>3
      <4>3. m' = h /\ h < N
        BY <1>2, <2>1, <2>2, <4>1, <4>2
      <4> QED BY <1>2, <4>2, <4>3
    <3> QED BY <3>1, <3>2
  <2>5. BlocksHoldResidues' /\ q' = q
    <3>1. BlocksHoldResidues' <=> (kind.way = "forward" => BlocksHold(element', m'))
      BY <2>1, BlocksNext
    <3> QED BY <2>1, <3>1 DEF q
  <2>6. NTTTypeOK'
    BY <1>1, <2>1, <2>4 DEF NTTTypeOK
  <2>7. InverseHolds'
    BY <1>1, <1>2, <1>6, <2>2, InverseHoldsStep
  <2>8. IterativeHolds'
    BY <2>1, HoldsOtherwise
  <2> QED BY <2>1, <2>3, <2>4, <2>5, <2>6, <2>7, <2>8 DEF NTTInv
<1>7. CASE InverseEnd
  BY <1>7, EndingStep DEF InverseEnd
<1>8. CASE IterativeStage
  <2>1. kind.way \in {"iterative", "iterativeInverse"} /\ m < N /\ m' = 2 * m
        /\ UNCHANGED <<kind, params, input, loop>> /\ loop = "stage"
    BY <1>8 DEF IterativeStage
  <2>2. m \in Doublings /\ kind.way # "inverse" /\ kind.way # "forward"
    BY <1>1, <2>1
  <2>3. element' \in [Index -> 0 .. q - 1]
    BY <1>1, <1>8, <2>2, IterativeStep
  <2>4. m' \in Doublings /\ m' \in 1 .. N
    BY <1>3, <2>1, <2>2, Halves
  <2>5. BlocksHoldResidues' /\ q' = q
    <3>1. BlocksHoldResidues' <=> (kind.way = "forward" => BlocksHold(element', m'))
      BY <2>1, BlocksNext
    <3> QED BY <2>1, <2>2, <3>1 DEF q
  <2>6. NTTTypeOK'
    BY <1>1, <2>1, <2>4 DEF NTTTypeOK
  <2>7. InverseHolds'
    BY <2>1, <2>2, HoldsOtherwise
  <2>8. IterativeHolds'
    BY <1>1, <1>2, <1>8, <2>2, IterativeHoldsStep
  <2> QED BY <2>1, <2>2, <2>3, <2>4, <2>5, <2>6, <2>7, <2>8 DEF NTTInv
<1>9. CASE IterativeEnd
  <2>1. kind.way \in {"iterative", "iterativeInverse"} /\ UNCHANGED <<kind, params, input, element, m>>
        /\ loop' = (IF kind.way = "iterative" THEN "done" ELSE "scale") /\ m = N /\ loop = "stage"
    BY <1>9 DEF IterativeEnd
  <2>2. loop' = "scale" => kind.by = "mu" /\ kind.way \in {"inverse", "iterativeInverse"}
    BY <1>1, <2>1 DEF Kinds
  <2> QED BY <2>1, <2>2, EndingStep
<1>10. CASE Scale
  <2>1. loop = "scale" /\ loop' = "done" /\ UNCHANGED <<kind, params, input, m>>
    BY <1>10 DEF Scale
  <2>2. element' \in [Index -> 0 .. q - 1]
    BY <1>1, <1>10, ScaleStep
  <2>3. kind.way # "forward"
    BY <1>1, <2>1
  <2>4. BlocksHoldResidues' /\ q' = q
    <3>1. BlocksHoldResidues' <=> (kind.way = "forward" => BlocksHold(element', m'))
      BY <2>1, BlocksNext
    <3> QED BY <2>1, <2>3, <3>1 DEF q
  <2>5. NTTTypeOK'
    BY <1>1, <2>1 DEF NTTTypeOK
  <2>6. IF kind.way = "inverse" THEN m = 0 ELSE m = N
    BY <1>1, <2>1
  <2>7. InverseHolds'
    <3>1. ASSUME kind.way = "inverse" PROVE Undone(element', 1, CycloOrderInv)
      <4>1. Undone(element, 1, 1)
        BY <1>1, <2>1, <2>6, <3>1 DEF InverseHolds
      <4> QED BY <1>1, <1>2, <1>10, <4>1, UndoneScaled
    <3>2. InverseHolds' <=>
            (kind.way = "inverse" =>
               Undone(element', IF m' = 0 THEN 1 ELSE 2 * m',
                      IF loop' # "done" /\ (kind.by = "mu" \/ m' = N \div 2) THEN 1 ELSE CycloOrderInv))
      BY <2>1, InverseNext
    <3> QED BY <2>1, <2>6, <3>1, <3>2
  <2>8. IterativeHolds'
    <3>1. ASSUME kind.way = "iterativeInverse" PROVE Restores(element')
      <4>1. Restored(element, N)
        BY <1>1, <2>1, <2>6, <3>1 DEF IterativeHolds
      <4> QED BY <1>1, <1>2, <1>10, <4>1, RestoredEnds
    <3> QED BY <1>1, <2>1, <3>1, IterativeNext
  <2> QED BY <1>1, <2>1, <2>2, <2>4, <2>5, <2>6, <2>7, <2>8 DEF NTTInv
<1>11. CASE UNCHANGED nttVars
  BY <1>1, <1>11, EndingStep DEF nttVars
<1> QED BY <1>4, <1>5, <1>6, <1>7, <1>8, <1>9, <1>10, <1>11 DEF NTTNext

\* The invariant holds throughout.
LEMMA InvAlways == NTTSpec => []NTTInv
<1>1. NTTInit => NTTInv
  BY InitInv
<1>2. NTTInv /\ [NTTNext]_nttVars => NTTInv'
  BY NextInv
<1> QED BY <1>1, <1>2, PTL DEF NTTSpec

\* NTTTypeOK: the types, and that only the Barrett forms end with a loop that
\* scales.
THEOREM NTTTypeCorrect == NTTSpec => []NTTTypeOK
<1>1. NTTInv => NTTTypeOK
  BY DEF NTTInv
<1> QED BY <1>1, InvAlways, PTL

\* StagesExact: for every length, modulus, root and input, and for every form
\* of the functions, each stage leaves residues; and after each stage of a
\* forward transform every block holds the input modulo X^len - z for the z its
\* table entry squares to, so no stage takes another's entry, root or bound.
THEOREM StagesAlwaysExact == NTTSpec => []StagesExact
<1>1. NTTInv => StagesExact
  BY DEF NTTInv, StagesExact, StagesLeaveResidues
<1> QED BY <1>1, InvAlways, PTL

\* TransformsExact: for every length, modulus, root and input, whichever
\* products it uses and with or without the shortcut for zeros, the forward
\* transform ends with the values at the odd powers of the root in bit-reversed
\* order, the inverse with the coefficients those values came from, the
\* iterative one with the values at the even powers, and its inverse undoes that.
THEOREM TransformsAlwaysExact == NTTSpec => []TransformsExact
<1>1. NTTInv => TransformsExact
  <2> SUFFICES ASSUME NTTInv PROVE TransformsExact
    OBVIOUS
  <2>1. /\ params \in Params /\ input \in [Index -> 0 .. q - 1] /\ element \in [Index -> 0 .. q - 1]
        /\ loop # "stage" => IF kind.way = "inverse" THEN m = 0 ELSE m = N
        /\ BlocksHoldResidues /\ InverseHolds /\ IterativeHolds
    <3>1. params \in Params /\ input \in Inputs
      BY DEF NTTInv, NTTTypeOK
    <3> QED BY <3>1, ParamsModulus DEF NTTInv
  <2>2. ForwardExact
    <3> SUFFICES ASSUME loop = "done", kind.way = "forward" PROVE element = Evaluations(input)
      BY DEF ForwardExact
    <3>1. BlocksHold(element, N)
      BY <2>1, BlocksNow
    <3> QED BY <2>1, <3>1, ForwardEnds
  <2>3. InverseExact
    <3> SUFFICES ASSUME loop = "done", kind.way = "inverse" PROVE Evaluations(element) = input
      BY DEF InverseExact
    <3>1. Undone(element, 1, CycloOrderInv)
      BY <2>1 DEF InverseHolds
    <3> QED BY <2>1, <3>1, InverseEnds
  <2>4. IterativeExact
    <3>1. ASSUME loop = "done", kind.way = "iterative" PROVE element = CyclicValues(input)
      <4>1. Gathered(element, N)
        BY <2>1, <3>1 DEF IterativeHolds
      <4> QED BY <2>1, <4>1, GatheredEnds
    <3>2. ASSUME loop = "done", kind.way = "iterativeInverse" PROVE CyclicValues(element) = input
      <4>1. Restores(element)
        BY <2>1, <3>2 DEF IterativeHolds
      <4> QED BY <2>1, <4>1, RestoresValues
    <3> QED BY <3>1, <3>2 DEF IterativeExact
  <2> QED BY <2>2, <2>3, <2>4 DEF TransformsExact
<1> QED BY <1>1, InvAlways, PTL
=============================================================================
