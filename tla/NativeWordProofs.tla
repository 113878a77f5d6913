-------------------------- MODULE NativeWordProofs --------------------------
(***************************************************************************)
(* What the other proofs about words rest on.  First the integers:         *)
(* quotients, remainders, order under products, the two estimates of a     *)
(* truncated quotient behind Barrett's and Shoup's reductions, induction,  *)
(* folds over the indices of a sequence, powers, congruences and sums.     *)
(* Then words, of every width: for every modulus the library admits and    *)
(* every operand the reductions of NativeWord are exact, the bits of a     *)
(* word add up, in either order, and a rounded quotient is a nearest one.  *)
(* Last the functions of single entries: up to the modulus they stay, and  *)
(* what they switch, reduce or round is the centred residue.               *)
(***************************************************************************)
EXTENDS NativeEntries, FiniteSetsExt, WellFoundedInduction, TLAPS

\* A quotient and a remainder of a natural number.
LEMMA DivNat ==
  ASSUME NEW x \in Nat, NEW d \in Nat \ {0}
  PROVE  x \div d \in Nat /\ x % d \in 0 .. d - 1 /\ x = d * (x \div d) + (x % d)
  BY SMT

\* The remainder of a natural number is a residue, and its own remainder.
LEMMA Residues ==
  ASSUME NEW x \in Nat, NEW d \in Nat \ {0}
  PROVE  /\ x % d \in 0 .. d - 1 /\ x % d \in Nat
         /\ x < d => x % d = x
         /\ 1 * x = x /\ x % 1 = 0
<1>1. x < d => x % d = x
  <2>1. ASSUME x < d PROVE x \in 0 .. d - 1 /\ x = 0 * d + x
    BY <2>1
  <2>2. x \in 0 .. d - 1 /\ x = 0 * d + x => x % d = x
    OBVIOUS
  <2> QED BY <2>1, <2>2
<1>2. x % d \in 0 .. d - 1
  BY DivNat
<1>3. x % 1 = 0
  OBVIOUS
<1> QED BY <1>1, <1>2, <1>3

\* The remainder, as a witness.
LEMMA DivWitness ==
  ASSUME NEW x \in Nat, NEW d \in Nat \ {0}
  PROVE  \E r \in 0 .. d - 1 : x = d * (x \div d) + r
  BY DivNat

\* Quotient and remainder, as witnesses.
LEMMA DivSplit ==
  ASSUME NEW x \in Nat, NEW d \in Nat \ {0}
  PROVE  \E q \in Nat, r \in 0 .. d - 1 : q = x \div d /\ r = x % d /\ x = d * q + r
  BY DivNat

\* Quotient and remainder are unique.
LEMMA DivUnique ==
  ASSUME NEW x \in Int, NEW d \in Nat \ {0}, NEW q \in Int, NEW r \in 0 .. d - 1, x = q * d + r
  PROVE  x % d = r /\ x \div d = q
  BY SMT

\* Multiplying by a natural number keeps an order.
LEMMA Monotone ==
  ASSUME NEW a \in Int, NEW b \in Int, NEW c \in Nat, a <= b
  PROVE  a * c <= b * c
  BY SMT

\* A positive factor cancels from a strict inequality.
LEMMA Cancel ==
  ASSUME NEW a \in Int, NEW b \in Int, NEW c \in Nat \ {0}, a * c < b * c
  PROVE  a < b
  BY Monotone

\* A positive factor cancels from an inequality.
LEMMA CancelLE ==
  ASSUME NEW a \in Int, NEW b \in Int, NEW c \in Nat \ {0}, a * c <= b * c
  PROVE  a <= b
  BY SMT

\* A quotient is below k when the number is below k times the divisor.
LEMMA DivBelow ==
  ASSUME NEW x \in Nat, NEW d \in Nat \ {0}, NEW k \in Nat, x < k * d
  PROVE  x \div d \in Nat /\ x \div d < k
<1>1. PICK q \in Nat, r \in 0 .. d - 1 : q = x \div d /\ x = d * q + r
  BY DivSplit
<1>2. q * d < k * d
  BY <1>1
<1>3. q < k
  BY ONLY <1>2, Cancel, q \in Nat, k \in Nat, d \in Nat \ {0}
<1> QED BY <1>1, <1>3

\* The product of naturals is natural, of integers an integer.
LEMMA ProductInteger ==
  /\ \A a, b \in Nat : a * b \in Nat
  /\ \A a, b \in Int : a * b \in Int
  BY SMT

\* A difference below N is the difference of the remainders, modulo N.
LEMMA DifferenceMod ==
  ASSUME NEW x \in Nat, NEW y \in Nat, NEW N \in Nat \ {0}, x - y \in 0 .. N - 1
  PROVE  ((x % N) - (y % N)) % N = x - y
<1>1. PICK h \in Nat, l \in 0 .. N - 1 : h = x \div N /\ l = x % N /\ x = N * h + l
  BY ONLY DivSplit, x \in Nat, N \in Nat \ {0}
<1>2. PICK k \in Nat, r \in 0 .. N - 1 : k = y \div N /\ r = y % N /\ y = N * k + r
  BY ONLY DivSplit, y \in Nat, N \in Nat \ {0}
<1>3. l - r = (k - h) * N + (x - y)
  <2>1. N * k \in Int /\ N * h \in Int
    BY ONLY ProductInteger, k \in Int, h \in Int, N \in Int
  <2>2. (k - h) * N = N * k - N * h
    BY ONLY k \in Int, h \in Int, N \in Int
  <2>3. x = N * h + l /\ y = N * k + r
    BY <1>1, <1>2
  <2> QED BY ONLY <2>1, <2>2, <2>3, x \in Nat, y \in Nat, l \in Int, r \in Int
<1> DEFINE d == x - y
           c == k - h
<1>4. l - r = c * N + d /\ d \in 0 .. N - 1 /\ c \in Int /\ l - r \in Int
  BY <1>3
<1> HIDE DEF d, c
<1>5. (l - r) % N = d
  BY ONLY <1>4, DivUnique, N \in Nat \ {0}
<1> QED BY <1>1, <1>2, <1>5 DEF d

\* Scaling an equation of four terms.
LEMMA ScaleSum ==
  ASSUME NEW k \in Int, NEW a \in Int, NEW b \in Int, NEW c \in Int, NEW d \in Int,
         a = b + c + d
  PROVE  k * a = k * b + k * c + k * d
  BY SMT

\* Three factors in any order.
LEMMA Reorder ==
  ASSUME NEW a \in Int, NEW b \in Int, NEW c \in Int
  PROVE  /\ (a * b) * c = a * (b * c)
         /\ (a * b) * c = b * (a * c)
         /\ (a * b) * c = (a * c) * b
         /\ a * b = b * a
  BY SMT

\* The remainder of an integer is a residue, and is its own remainder; a term
\* or a factor may be replaced by its remainder.
LEMMA Remainders ==
  ASSUME NEW m \in Nat \ {0}
  PROVE  /\ \A x \in Int : x % m \in 0 .. m - 1
         /\ \A x \in 0 .. m - 1 : x % m = x
         /\ \A x \in Int, b \in Int : ((x % m) * b) % m = (x * b) % m
         /\ \A x \in Int, b \in Int : (x + (b % m)) % m = (x + b) % m
         /\ \A x \in Int, b \in Int : (x - (b % m)) % m = (x - b) % m
<1>1. \A x \in Int : x % m \in 0 .. m - 1
  OBVIOUS
<1>2. \A x \in 0 .. m - 1 : x % m = x
  OBVIOUS
<1>3. ASSUME NEW x \in Int, NEW b \in Int
      PROVE  ((x % m) * b) % m = (x * b) % m
  <2> DEFINE r == x % m
             k == x \div m
             p == r * b
             q == p \div m
             s == p % m
             t == x * b
             c == k * b + q
  <2>1. x = m * k + r /\ r \in Int /\ k \in Int
    OBVIOUS
  <2> HIDE DEF r, k
  <2>2. p \in Int /\ k * b \in Int /\ t \in Int
    BY <2>1
  <2>3. t = (k * b) * m + p
    BY <2>1
  <2> HIDE DEF p, t
  <2>4. p = q * m + s /\ q \in Int /\ s \in 0 .. m - 1
    BY <2>2
  <2> HIDE DEF q, s
  <2>5. c * m = (k * b) * m + q * m /\ c \in Int /\ (k * b) * m \in Int /\ q * m \in Int
    BY <2>2, <2>4
  <2> HIDE DEF c
  <2>6. t = c * m + s
    BY ONLY <2>2, <2>3, <2>4, <2>5, s \in Int
  <2>7. t % m = s
    BY ONLY <2>2, <2>4, <2>5, <2>6, DivUnique, m \in Nat \ {0}
  <2> QED BY <2>7 DEF t, s, p, r
<1>4. ASSUME NEW x \in Int, NEW k \in Int
      PROVE  (x + k * m) % m = x % m
  <2> DEFINE q == x \div m
             s == x % m
             y == x + k * m
             d == q + k
  <2>1. x = q * m + s /\ q \in Int /\ s \in 0 .. m - 1
    OBVIOUS
  <2> HIDE DEF q, s
  <2>2. d \in Int /\ y \in Int /\ d * m = q * m + k * m /\ q * m \in Int /\ k * m \in Int
    BY <2>1
  <2>3. y = d * m + s
    <3> HIDE DEF d
    <3> QED BY <2>1, <2>2
  <2> HIDE DEF d, y
  <2>4. y % m = s
    BY ONLY <2>1, <2>2, <2>3, DivUnique, m \in Nat \ {0}
  <2> QED BY <2>4 DEF y, s
<1>5. ASSUME NEW x \in Int, NEW b \in Int
      PROVE  (x + (b % m)) % m = (x + b) % m /\ (x - (b % m)) % m = (x - b) % m
  <2> DEFINE k == b \div m
             r == b % m
             l == -k
  <2>1. b = k * m + r /\ k \in Int /\ r \in Int
    OBVIOUS
  <2> HIDE DEF k, r
  <2>2. l \in Int /\ l * m = -(k * m) /\ k * m \in Int
    BY <2>1
  <2> HIDE DEF l
  <2>3. x + b = (x + r) + k * m /\ x + r \in Int
    BY <2>1, <2>2
  <2>4. x - b = (x - r) + l * m /\ x - r \in Int
    BY <2>1, <2>2
  <2>5. (x + b) % m = (x + r) % m
    BY <1>4, <2>1, <2>3
  <2>6. (x - b) % m = (x - r) % m
    BY <1>4, <2>2, <2>4
  <2> QED BY <2>5, <2>6 DEF r
<1> QED BY <1>1, <1>2, <1>3, <1>5

\* The Barrett estimate.  With mu the truncated quotient of A * B by m and u
\* that of x by A, the truncated quotient v of u * mu by B is at most one
\* below that of x by m, for x less than half of A * B.
LEMMA BarrettEstimate ==
  ASSUME NEW x \in Nat, NEW A \in Nat \ {0}, NEW B \in Nat \ {0}, NEW m \in Nat \ {0},
         2 * A <= m, 2 * x < A * B,
         NEW mu \in Nat, mu = (A * B) \div m,
         NEW u \in Nat, u = x \div A,
         NEW v \in Nat, v = (u * mu) \div B
  PROVE  v * m <= x /\ x < v * m + 2 * m
<1>0. A * B \in Nat /\ u * mu \in Nat
  BY ProductInteger
<1>1. PICK s \in 0 .. m - 1 : A * B = m * mu + s
  <2> DEFINE p == A * B
  <2>1. p \in Nat /\ mu = p \div m
    BY <1>0
  <2> HIDE DEF p
  <2>2. \E s \in 0 .. m - 1 : p = m * mu + s
    BY ONLY <2>1, DivWitness, m \in Nat \ {0}
  <2> QED BY ONLY <2>2 DEF p
<1>2. PICK r \in 0 .. A - 1 : x = A * u + r
  BY DivWitness
<1>3. PICK t \in 0 .. B - 1 : u * mu = B * v + t
  <2> DEFINE p == u * mu
  <2>1. p \in Nat /\ v = p \div B
    BY <1>0
  <2> HIDE DEF p
  <2>2. \E t \in 0 .. B - 1 : p = B * v + t
    BY ONLY <2>1, DivWitness, B \in Nat \ {0}
  <2> QED BY ONLY <2>2 DEF p
<1>4. (u * A) * B = (v * m) * B + m * t + u * s
  <2>1. (u * A) * B = u * (A * B)
    OBVIOUS
  <2>2. u * (A * B) = u * (m * mu) + u * s
    BY <1>1
  <2>3. u * (m * mu) = m * (u * mu)
    OBVIOUS
  <2>4. m * (u * mu) = m * (B * v + t)
    BY ONLY <1>3
  <2>5. m * (B * v + t) = m * (B * v) + m * t
    OBVIOUS
  <2>6. m * (B * v) = (v * m) * B
    OBVIOUS
  <2> QED BY ONLY <2>1, <2>2, <2>3, <2>4, <2>5, <2>6
<1>5. /\ u * A \in Nat /\ v * m \in Nat /\ m * t \in Nat /\ u * s \in Nat
      /\ (u * A) * B \in Nat /\ (v * m) * B \in Nat /\ m * B \in Nat
  BY ProductInteger
<1>6. u * A = A * u /\ A * B = B * A
  BY SMT
<1>7. v * m <= x
  <2>1. (v * m) * B <= (u * A) * B
    BY ONLY <1>4, <1>5
  <2>2. v * m <= u * A
    BY <2>1, <1>5, CancelLE
  <2> QED BY ONLY <2>2, <1>2, <1>5, <1>6
<1>8. x < v * m + 2 * m
  <2>1. 2 * u < B
    <3>1. (2 * u) * A = 2 * (u * A)
      BY SMT
    <3>2. (2 * u) * A < B * A
      BY ONLY <3>1, <1>2, <1>6, 2 * x < A * B, x \in Nat, u * A \in Nat, A \in Nat
    <3> QED BY <3>2, Cancel
  <2>2. 2 * (u * s) <= m * B
    <3>1. (2 * u) * s <= B * s
      BY <2>1, Monotone
    <3>2. s * B <= m * B
      BY Monotone
    <3>3. (2 * u) * s = 2 * (u * s) /\ B * s = s * B
      BY SMT
    <3> QED BY ONLY <3>1, <3>2, <3>3
  <2>3. m * t <= m * B - m
    <3>1. t * m <= (B - 1) * m
      BY Monotone
    <3>2. t * m = m * t /\ (B - 1) * m = m * B - m
      BY SMT
    <3> QED BY ONLY <3>1, <3>2
  <2>4. (2 * (u * A)) * B < (2 * (v * m) + 3 * m) * B
    <3>1. (2 * (u * A)) * B = 2 * ((u * A) * B)
      BY SMT
    <3>2. 2 * ((u * A) * B) = 2 * ((v * m) * B) + 2 * (m * t) + 2 * (u * s)
      BY ONLY <1>4, <1>5, ScaleSum
    <3>3. (2 * (v * m) + 3 * m) * B = 2 * ((v * m) * B) + 3 * (m * B)
      BY SMT
    <3> QED BY ONLY <3>1, <3>2, <3>3, <2>2, <2>3, <1>5, m \in Nat \ {0}
  <2>5. 2 * (u * A) < 2 * (v * m) + 3 * m
    BY <2>4, <1>5, Cancel
  <2> QED BY ONLY <2>5, <1>2, <1>5, <1>6, 2 * A <= m, A \in Nat, m \in Nat, x \in Nat
<1> QED BY <1>7, <1>8

\* Shoup's estimate.  With c the truncated quotient of b * N by m, for b < m,
\* the truncated quotient v of x * c by N is at most one below x * b by m, for
\* x less than N.
LEMMA ShoupEstimate ==
  ASSUME NEW N \in Nat \ {0}, NEW m \in Nat \ {0}, NEW x \in 0 .. N - 1, NEW b \in 0 .. m - 1,
         NEW c \in Nat, c = (b * N) \div m,
         NEW v \in Nat, v = (x * c) \div N
  PROVE  v * m <= x * b /\ x * b < v * m + 2 * m
<1>0. b * N \in Nat /\ x * c \in Nat
  BY ProductInteger
<1>1. PICK s \in 0 .. m - 1 : b * N = m * c + s
  <2> DEFINE p == b * N
  <2>1. p \in Nat /\ c = p \div m
    BY <1>0
  <2> HIDE DEF p
  <2>2. \E s \in 0 .. m - 1 : p = m * c + s
    BY ONLY <2>1, DivWitness, m \in Nat \ {0}
  <2> QED BY ONLY <2>2 DEF p
<1>2. PICK t \in 0 .. N - 1 : x * c = N * v + t
  <2> DEFINE p == x * c
  <2>1. p \in Nat /\ v = p \div N
    BY <1>0
  <2> HIDE DEF p
  <2>2. \E t \in 0 .. N - 1 : p = N * v + t
    BY ONLY <2>1, DivWitness, N \in Nat \ {0}
  <2> QED BY ONLY <2>2 DEF p
<1>3. (x * b) * N = (v * m) * N + m * t + x * s
  <2>1. (x * b) * N = x * (b * N)
    OBVIOUS
  <2>2. x * (b * N) = x * (m * c) + x * s
    BY <1>1
  <2>3. x * (m * c) = m * (x * c)
    OBVIOUS
  <2>4. m * (x * c) = m * (N * v + t)
    BY ONLY <1>2
  <2>5. m * (N * v + t) = m * (N * v) + m * t
    OBVIOUS
  <2>6. m * (N * v) = (v * m) * N
    OBVIOUS
  <2> QED BY ONLY <2>1, <2>2, <2>3, <2>4, <2>5, <2>6
<1>4. /\ x * b \in Nat /\ v * m \in Nat /\ m * t \in Nat /\ x * s \in Nat
      /\ (x * b) * N \in Nat /\ (v * m) * N \in Nat /\ m * N \in Nat
  BY ProductInteger
<1>5. v * m <= x * b
  <2>1. (v * m) * N <= (x * b) * N
    BY ONLY <1>3, <1>4
  <2> QED BY <2>1, <1>4, CancelLE
<1>6. x * b < v * m + 2 * m
  <2>1. m * t <= m * N - m
    <3>1. t * m <= (N - 1) * m
      BY Monotone
    <3>2. t * m = m * t /\ (N - 1) * m = m * N - m
      BY SMT
    <3> QED BY ONLY <3>1, <3>2
  <2>2. x * s <= m * N
    <3>1. x * s <= N * s
      BY Monotone
    <3>2. s * N <= m * N
      BY Monotone
    <3>3. N * s = s * N
      BY SMT
    <3> QED BY ONLY <3>1, <3>2, <3>3
  <2>3. (v * m + 2 * m) * N = (v * m) * N + 2 * (m * N)
    BY SMT
  <2>4. (x * b) * N < (v * m + 2 * m) * N
    BY ONLY <1>3, <1>4, <2>1, <2>2, <2>3, m \in Nat \ {0}
  <2> QED BY <2>4, <1>4, Cancel
<1> QED BY <1>5, <1>6

-----------------------------------------------------------------------------
(* Induction.  The natural numbers are well-founded, so a set of them that *)
(* is closed under successor and holds 0 has no least number outside it:   *)
(* a fact about a set, which a proof can cite for the set of its choice.   *)

\* Induction over the naturals, for a set.
LEMMA Induction ==
  ASSUME NEW S, 0 \in S, \A n \in Nat : n \in S => n + 1 \in S
  PROVE  Nat \subseteq S
<1> DEFINE R == OpToRel(<, Nat)
           T == Nat \ S
<1>1. SUFFICES ASSUME T # {} PROVE FALSE
  OBVIOUS
<1>2. PICK x \in T : \A y \in T : ~ (<<y, x>> \in R)
  <2>1. IsWellFoundedOn(R, Nat)
    BY NatLessThanWellFounded
  <2>2. T \subseteq Nat
    OBVIOUS
  <2> HIDE DEF R, T
  <2> QED BY ONLY <2>1, <2>2, <1>1, WFMin
<1>3. \A y \in Nat : y < x => <<y, x>> \in R
  BY <1>2 DEF OpToRel
<1>4. x # 0 /\ x - 1 \in Nat /\ x - 1 < x
  OBVIOUS
<1>5. x - 1 \in S
  BY <1>2, <1>3, <1>4
<1> QED BY <1>4, <1>5

LEMMA MaxOf ==
  ASSUME NEW n \in Nat
  PROVE  \A S \in SUBSET (1 .. n) : S # {} => Max(S) \in S /\ \A y \in S : y <= Max(S)
<1> DEFINE P == {k \in Nat : \A S \in SUBSET (1 .. k) : S # {} => \E x \in S : \A y \in S : x >= y}
<1>1. 0 \in P
  <2>1. 1 .. 0 = {}
    OBVIOUS
  <2> QED BY <2>1
<1>2. ASSUME NEW k \in Nat, k \in P PROVE k + 1 \in P
  <2> SUFFICES ASSUME NEW S \in SUBSET (1 .. k + 1), S # {}
               PROVE  \E x \in S : \A y \in S : x >= y
    OBVIOUS
  <2>1. CASE k + 1 \in S
    <3>1. \A y \in S : k + 1 >= y
      BY k \in Nat, S \in SUBSET (1 .. k + 1)
    <3> QED BY <2>1, <3>1
  <2>2. CASE k + 1 \notin S
    <3>1. S \in SUBSET (1 .. k)
      BY <2>2
    <3> QED BY <3>1, <1>2
  <2> QED BY <2>1, <2>2
<1>3. Nat \subseteq P
  <2> HIDE DEF P
  <2> QED BY ONLY <1>1, <1>2, Induction
<1>4. SUFFICES ASSUME NEW S \in SUBSET (1 .. n), S # {} PROVE Max(S) \in S /\ \A y \in S : y <= Max(S)
  OBVIOUS
<1>5. \E x \in S : \A y \in S : x >= y
  BY <1>3, <1>4
<1>6. Max(S) \in S /\ \A y \in S : Max(S) >= y
  BY <1>5 DEF Max
<1> QED BY <1>6, S \in SUBSET (1 .. n)

\* The largest of the first numbers.
LEMMA MaxInterval ==
  ASSUME NEW n \in Nat, NEW k \in 1 .. n
  PROVE  /\ 1 .. k \in SUBSET (1 .. n) /\ 1 .. k # {} /\ 1 .. k - 1 \in SUBSET (1 .. n)
         /\ Max(1 .. k) = k /\ (1 .. k) \ {k} = 1 .. k - 1
<1>1. 1 .. k \in SUBSET (1 .. n) /\ 1 .. k # {} /\ k \in 1 .. k
  OBVIOUS
<1>2. Max(1 .. k) \in 1 .. k /\ \A y \in 1 .. k : y <= Max(1 .. k)
  BY <1>1, MaxOf
<1>3. Max(1 .. k) = k
  BY <1>1, <1>2
<1> QED BY <1>1, <1>3

(* Folds over the indices of a sequence.  A step takes an index and what   *)
(* was accumulated before it; the fold of the community modules is defined *)
(* on every set of indices, the largest index last.                        *)
Steps(n, A, F) == F \in [(1 .. n) \X A -> A]

Folds(n, A, base, F, h) ==
  /\ h[{}] = base
  /\ \A s \in SUBSET (1 .. n) :
       s # {} /\ h[s \ {Max(s)}] \in A => h[s] = F[<<Max(s), h[s \ {Max(s)}]>>]

Unrolls(n, A, base, F, f) ==
  /\ f \in [0 .. n -> A]
  /\ f[0] = base
  /\ \A k \in 1 .. n : f[k] = F[<<k, f[k - 1]>>]

\* A fold exists.
LEMMA FoldExists ==
  ASSUME NEW n \in Nat, NEW A, NEW base \in A, NEW F, Steps(n, A, F)
  PROVE  \E h : h \in [SUBSET (1 .. n) -> A] /\ Folds(n, A, base, F, h)
<1> DEFINE Good(k, h) ==
             /\ h[{}] = base
             /\ \A s \in SUBSET (1 .. k) : s # {} => h[s] = F[<<Max(s), h[s \ {Max(s)}]>>]
           Exists(k) == \E h \in [SUBSET (1 .. k) -> A] : Good(k, h)
           P == {k \in Nat : k <= n => Exists(k)}
<1> F \in [(1 .. n) \X A -> A]
  BY DEF Steps
<1>1. Exists(0)
  <2>1. SUBSET (1 .. 0) = {{}}
    OBVIOUS
  <2>2. [s \in SUBSET (1 .. 0) |-> base] \in [SUBSET (1 .. 0) -> A]
    OBVIOUS
  <2>3. Good(0, [s \in SUBSET (1 .. 0) |-> base])
    BY <2>1
  <2> QED BY <2>2, <2>3
<1>2. ASSUME NEW k \in Nat, k + 1 <= n, Exists(k) PROVE Exists(k + 1)
  <2>1. PICK g \in [SUBSET (1 .. k) -> A] : Good(k, g)
    BY <1>2
  <2>2. ASSUME NEW s \in SUBSET (1 .. k + 1), s # {}
        PROVE  Max(s) \in 1 .. n /\ s \ {Max(s)} \in SUBSET (1 .. k)
    <3> DEFINE m == Max(s)
    <3>1. m \in s /\ \A y \in s : y <= m
      BY <2>2, MaxOf, k + 1 \in Nat
    <3> HIDE DEF m
    <3>2. m \in 1 .. k + 1
      BY <3>1
    <3>3. ASSUME NEW y \in s, y # m PROVE y \in 1 .. k
      <4>1. y \in 1 .. k + 1 /\ y <= m
        BY <3>1
      <4> QED BY <4>1, <3>2, <3>3
    <3>4. m \in 1 .. n /\ s \ {m} \in SUBSET (1 .. k)
      BY <3>2, <3>3, <1>2
    <3> QED BY <3>4 DEF m
  <2> DEFINE h == [s \in SUBSET (1 .. k + 1) |->
                     IF s = {} THEN base ELSE F[<<Max(s), g[s \ {Max(s)}]>>]]
  <2>3. h \in [SUBSET (1 .. k + 1) -> A]
    BY <2>2
  <2>4. ASSUME NEW s \in SUBSET (1 .. k) PROVE s \in SUBSET (1 .. k + 1) /\ h[s] = g[s]
    <3>1. s \in SUBSET (1 .. k + 1)
      OBVIOUS
    <3>2. h[s] = IF s = {} THEN base ELSE F[<<Max(s), g[s \ {Max(s)}]>>]
      BY <3>1
    <3> QED BY <3>1, <3>2, <2>1
  <2>5. Good(k + 1, h)
    <3>1. h[{}] = base
      OBVIOUS
    <3>2. ASSUME NEW s \in SUBSET (1 .. k + 1), s # {}
          PROVE  h[s] = F[<<Max(s), h[s \ {Max(s)}]>>]
      <4>1. h[s] = F[<<Max(s), g[s \ {Max(s)}]>>]
        BY <3>2
      <4> HIDE DEF h
      <4> QED BY <4>1, <3>2, <2>2, <2>4
    <3> HIDE DEF h
    <3> QED BY <3>1, <3>2
  <2> HIDE DEF h, Good
  <2> QED BY <2>3, <2>5
<1> HIDE DEF Exists
<1>3. 0 \in P
  BY <1>1
<1>4. ASSUME NEW k \in Nat, k \in P PROVE k + 1 \in P
  BY <1>2, <1>4
<1>5. Nat \subseteq P
  <2> HIDE DEF P
  <2> QED BY ONLY <1>3, <1>4, Induction
<1>6. Exists(n)
  BY <1>5
<1> QED BY <1>6 DEF Exists, Folds

\* And takes its values one after the other.
LEMMA FoldUnroll ==
  ASSUME NEW n \in Nat, NEW A, NEW base \in A, NEW F, Steps(n, A, F), NEW g, Folds(n, A, base, F, g)
  PROVE  \E f : Unrolls(n, A, base, F, f) /\ f[n] = g[1 .. n]
<1> F \in [(1 .. n) \X A -> A] /\ g[{}] = base
  BY DEF Steps, Folds
<1> DEFINE P == {k \in Nat : k <= n => g[1 .. k] \in A}
<1>1. 0 \in P
  <2>1. 1 .. 0 = {}
    OBVIOUS
  <2> QED BY <2>1
<1>2. ASSUME NEW k \in 1 .. n, g[1 .. k - 1] \in A
      PROVE  g[1 .. k] = F[<<k, g[1 .. k - 1]>>]
  BY <1>2, MaxInterval DEF Folds
<1>3. ASSUME NEW k \in Nat, k \in P PROVE k + 1 \in P
  <2>1. SUFFICES ASSUME k + 1 <= n PROVE g[1 .. k + 1] \in A
    OBVIOUS
  <2>2. k + 1 \in 1 .. n /\ (k + 1) - 1 = k /\ g[1 .. k] \in A
    BY <1>3, <2>1
  <2>3. g[1 .. k + 1] = F[<<k + 1, g[1 .. k]>>]
    BY <1>2, <2>2
  <2> QED BY <2>2, <2>3
<1>4. Nat \subseteq P
  <2> HIDE DEF P
  <2> QED BY ONLY <1>1, <1>3, Induction
<1> DEFINE f == [k \in 0 .. n |-> g[1 .. k]]
<1>5. f \in [0 .. n -> A]
  BY <1>4
<1>6. 1 .. 0 = {}
  OBVIOUS
<1>7. \A k \in 1 .. n : k - 1 \in 0 .. n /\ k \in 0 .. n
  OBVIOUS
<1>8. f[0] = base /\ \A k \in 1 .. n : f[k] = F[<<k, f[k - 1]>>]
  BY <1>2, <1>5, <1>6, <1>7
<1>9. f[n] = g[1 .. n]
  OBVIOUS
<1> HIDE DEF f
<1> QED BY <1>5, <1>8, <1>9 DEF Unrolls

-----------------------------------------------------------------------------
(* Powers of a number, reduced at every multiplication.                    *)

Powers(x, M, N, pw) ==
  /\ pw \in [0 .. N -> Nat]
  /\ pw[0] = 1
  /\ \A i \in 1 .. N : pw[i] = (pw[i - 1] * x) % M

\* There are such powers.
LEMMA PowersExist ==
  ASSUME NEW x \in Nat, NEW M \in Nat \ {0}, NEW N \in Nat
  PROVE  \E pw : Powers(x, M, N, pw)
<1> DEFINE F == [p \in (1 .. N) \X Nat |-> (p[2] * x) % M]
<1>1. Steps(N, Nat, F)
  <2>1. \A p \in (1 .. N) \X Nat : p[2] * x \in Nat
    BY ProductInteger
  <2>2. \A y \in Nat : y % M \in Nat
    BY DivNat
  <2>3. \A p \in (1 .. N) \X Nat : (p[2] * x) % M \in Nat
    BY <2>1, <2>2
  <2> QED BY <2>3 DEF Steps
<1>2. \A k \in 1 .. N, a \in Nat : F[<<k, a>>] = (a * x) % M
  OBVIOUS
<1> HIDE DEF F
<1>3. PICK h : h \in [SUBSET (1 .. N) -> Nat] /\ Folds(N, Nat, 1, F, h)
  BY <1>1, FoldExists
<1>4. PICK f : Unrolls(N, Nat, 1, F, f) /\ f[N] = h[1 .. N]
  BY <1>1, <1>3, FoldUnroll
<1>5. \A k \in 1 .. N : f[k - 1] \in Nat
  BY <1>4 DEF Unrolls
<1>6. Powers(x, M, N, f)
  BY <1>2, <1>4, <1>5 DEF Unrolls, Powers
<1> QED BY <1>6

\* The powers are residues, and the power of a sum is the product of powers.
LEMMA PowersAdd ==
  ASSUME NEW x \in Nat, NEW M \in Nat \ {0, 1}, NEW N \in Nat, NEW pw, Powers(x, M, N, pw)
  PROVE  /\ \A i \in 0 .. N : pw[i] \in 0 .. M - 1
         /\ \A i, j \in 0 .. N : i + j <= N => pw[i + j] = (pw[i] * pw[j]) % M
<1>1. \A i \in 0 .. N : pw[i] \in Nat
  BY DEF Powers
<1>2. pw[0] = 1 /\ \A i \in 1 .. N : pw[i] = (pw[i - 1] * x) % M
  BY DEF Powers
<1>3. \A y \in Int, b \in Int : ((y % M) * b) % M = (y * b) % M
  <2>1. M \in Nat \ {0}
    OBVIOUS
  <2> QED BY ONLY <2>1, Remainders
<1>4. ASSUME NEW i \in 0 .. N PROVE pw[i] \in 0 .. M - 1
  <2>1. CASE i = 0
    BY <1>2, <2>1
  <2>2. CASE i # 0
    <3>1. i \in 1 .. N /\ i - 1 \in 0 .. N
      BY <2>2
    <3>2. pw[i - 1] * x \in Nat
      BY <1>1, <3>1, ProductInteger
    <3> QED BY <1>2, <3>1, <3>2, DivNat
  <2> QED BY <2>1, <2>2
<1>5. ASSUME NEW i \in 0 .. N
      PROVE  \A j \in 0 .. N : i + j <= N => pw[i + j] = (pw[i] * pw[j]) % M
  <2> DEFINE P == {j \in Nat : i + j <= N => pw[i + j] = (pw[i] * pw[j]) % M}
  <2>1. 0 \in P
    <3> DEFINE a == pw[i]
    <3>1. a \in 0 .. M - 1 /\ pw[0] = 1
      BY <1>2, <1>4
    <3> HIDE DEF a
    <3>2. a * 1 = a /\ a % M = a /\ i + 0 = i
      BY <3>1
    <3>3. pw[i + 0] = (a * pw[0]) % M
      BY <3>1, <3>2 DEF a
    <3> QED BY <3>3 DEF a
  <2>2. ASSUME NEW j \in Nat, j \in P PROVE j + 1 \in P
    <3>1. SUFFICES ASSUME i + (j + 1) <= N
                   PROVE  pw[i + (j + 1)] = (pw[i] * pw[j + 1]) % M
      OBVIOUS
    <3> DEFINE a == pw[i]
               b == pw[j]
    <3>2. /\ i + j <= N /\ i + (j + 1) \in 1 .. N /\ (i + (j + 1)) - 1 = i + j
          /\ j + 1 \in 1 .. N /\ (j + 1) - 1 = j /\ j \in 0 .. N
      BY <3>1
    <3>3. a \in Nat /\ b \in Nat
      BY <1>1, <3>2
    <3>4. pw[i + (j + 1)] = (pw[i + j] * x) % M /\ pw[j + 1] = (b * x) % M
      BY <1>2, <3>2
    <3>5. pw[i + j] = (a * b) % M
      BY <2>2, <3>2
    <3> HIDE DEF a, b
    <3>6. a * b \in Int /\ b * x \in Int /\ (b * x) % M \in Int
      BY <3>3
    <3>7. (((a * b) % M) * x) % M = ((a * b) * x) % M
      BY ONLY <1>3, <3>6, x \in Int, Zenon
    <3>8. (((b * x) % M) * a) % M = ((b * x) * a) % M
      BY ONLY <1>3, <3>3, <3>6, a \in Int, Zenon
    <3>9. (a * b) * x = (b * x) * a
      <4>1. a \in Int /\ b \in Int /\ x \in Int
        BY <3>3
      <4> DEFINE y == b * x
      <4>2. (a * b) * x = a * y
        BY ONLY <4>1, Reorder
      <4>3. y \in Int
        BY <3>6
      <4> HIDE DEF y
      <4>4. a * y = y * a
        BY ONLY <4>1, <4>3, Reorder
      <4> QED BY <4>2, <4>4 DEF y
    <3>10. ((b * x) % M) * a = a * ((b * x) % M)
      <4> DEFINE c == (b * x) % M
      <4>1. c \in Int /\ a \in Int
        BY <3>3, <3>6
      <4> HIDE DEF c
      <4>2. c * a = a * c
        BY ONLY <4>1, Reorder
      <4> QED BY <4>2 DEF c
    <3> QED BY <3>4, <3>5, <3>7, <3>8, <3>9, <3>10 DEF a, b
  <2>3. Nat \subseteq P
    <3> HIDE DEF P
    <3> QED BY ONLY <2>1, <2>2, Induction
  <2> QED BY <2>3
<1> QED BY <1>4, <1>5

\* Repeated, for the reduction by a modulus.
RepeatedMod(x, n, M) ==
  LET power[i \in 0 .. n] == IF i = 0 THEN 1 ELSE (power[i - 1] * x) % M IN power[n]

\* It computes those powers.
LEMMA RepeatedIsPower ==
  ASSUME NEW x \in Nat, NEW M \in Nat \ {0}, NEW N \in Nat, NEW pw, Powers(x, M, N, pw),
         NEW n \in 0 .. N
  PROVE  RepeatedMod(x, n, M) = pw[n]
<1> DEFINE Is(g) == g = [i \in 0 .. n |-> IF i = 0 THEN 1 ELSE (g[i - 1] * x) % M]
           power == CHOOSE g : Is(g)
           P == {i \in Nat : i <= n => power[i] = pw[i]}
<1>1. pw[0] = 1 /\ \A i \in 1 .. N : pw[i] = (pw[i - 1] * x) % M
  BY DEF Powers
<1>2. Is([i \in 0 .. n |-> pw[i]])
  <2>1. \A i \in 0 .. n : i # 0 => i \in 1 .. N /\ i - 1 \in 0 .. n
    OBVIOUS
  <2> QED BY <1>1, <2>1
<1>3. Is(power)
  BY <1>2
<1>4. RepeatedMod(x, n, M) = power[n]
  BY DEF RepeatedMod
<1> HIDE DEF power
<1>5. 0 \in P
  BY <1>1, <1>3
<1>6. ASSUME NEW i \in Nat, i \in P PROVE i + 1 \in P
  <2>1. SUFFICES ASSUME i + 1 <= n PROVE power[i + 1] = pw[i + 1]
    OBVIOUS
  <2>2. i + 1 \in 0 .. n /\ i + 1 \in 1 .. N /\ i + 1 # 0 /\ (i + 1) - 1 = i /\ power[i] = pw[i]
    BY <1>6, <2>1
  <2>3. power[i + 1] = (power[i] * x) % M
    BY <1>3, <2>2
  <2>4. pw[i + 1] = (pw[i] * x) % M
    BY <1>1, <2>2
  <2> QED BY <2>2, <2>3, <2>4
<1>7. Nat \subseteq P
  <2> HIDE DEF P
  <2> QED BY ONLY <1>5, <1>6, Induction
<1> QED BY <1>4, <1>7

-----------------------------------------------------------------------------
(* Congruences.                                                            *)

Congruent(a, b, M) == a % M = b % M

\* Sums, differences and products respect remainders.
LEMMA CongruentParts ==
  ASSUME NEW M \in Nat \ {0}, NEW a \in Int, NEW b \in Int, NEW c \in Int, NEW d \in Int,
         Congruent(a, c, M), Congruent(b, d, M)
  PROVE  /\ Congruent(a + b, c + d, M)
         /\ Congruent(a - b, c - d, M)
         /\ Congruent(a * b, c * d, M)
<1> a % M = c % M /\ b % M = d % M
  BY DEF Congruent
<1>1. ASSUME NEW x \in Int, NEW y \in Int
      PROVE  /\ (x + (y % M)) % M = (x + y) % M
             /\ (x - (y % M)) % M = (x - y) % M
             /\ ((x % M) * y) % M = (x * y) % M
  <2>1. /\ \A u \in Int, v \in Int : ((u % M) * v) % M = (u * v) % M
        /\ \A u \in Int, v \in Int : (u + (v % M)) % M = (u + v) % M
        /\ \A u \in Int, v \in Int : (u - (v % M)) % M = (u - v) % M
    BY ONLY Remainders, M \in Nat \ {0}
  <2> QED BY ONLY <2>1, x \in Int, y \in Int, Zenon
<1>2. ASSUME NEW x \in Int, NEW y \in Int, NEW z \in Int, y % M = z % M
      PROVE  /\ (x + y) % M = (x + z) % M
             /\ (x - y) % M = (x - z) % M
             /\ (y * x) % M = (z * x) % M
  <2>1. (x + (y % M)) % M = (x + y) % M /\ (x + (z % M)) % M = (x + z) % M
    BY ONLY <1>1, <1>2, Zenon
  <2>2. (x - (y % M)) % M = (x - y) % M /\ (x - (z % M)) % M = (x - z) % M
    BY ONLY <1>1, <1>2, Zenon
  <2>3. ((y % M) * x) % M = (y * x) % M /\ ((z % M) * x) % M = (z * x) % M
    BY ONLY <1>1, <1>2, Zenon
  <2> QED BY ONLY <2>1, <2>2, <2>3, <1>2, Zenon
<1>3. (a + b) % M = (c + d) % M
  <2>1. (a + b) % M = (a + d) % M
    BY ONLY <1>2, a \in Int, b \in Int, d \in Int, b % M = d % M
  <2>2. (d + a) % M = (d + c) % M
    BY ONLY <1>2, a \in Int, c \in Int, d \in Int, a % M = c % M
  <2>3. a + d = d + a /\ d + c = c + d
    OBVIOUS
  <2> QED BY ONLY <2>1, <2>2, <2>3
<1>4. (a - b) % M = (c - d) % M
  <2> DEFINE e == -d
  <2>1. (a - b) % M = (a - d) % M
    BY ONLY <1>2, a \in Int, b \in Int, d \in Int, b % M = d % M
  <2>2. e \in Int /\ a - d = e + a /\ e + c = c - d
    OBVIOUS
  <2> HIDE DEF e
  <2>3. (e + a) % M = (e + c) % M
    BY ONLY <2>2, <1>2, a \in Int, c \in Int, a % M = c % M
  <2> QED BY ONLY <2>1, <2>2, <2>3
<1>5. (a * b) % M = (c * d) % M
  <2>1. (a * b) % M = (c * b) % M
    BY ONLY <1>2, a \in Int, b \in Int, c \in Int, a % M = c % M
  <2>2. (b * c) % M = (d * c) % M
    BY ONLY <1>2, b \in Int, c \in Int, d \in Int, b % M = d % M
  <2>3. c * b = b * c /\ d * c = c * d
    OBVIOUS
  <2> QED BY ONLY <2>1, <2>2, <2>3
<1> QED BY <1>3, <1>4, <1>5 DEF Congruent

\* Sums respect remainders.
LEMMA CongruentSum ==
  ASSUME NEW M \in Nat \ {0}, NEW a \in Int, NEW b \in Int, NEW c \in Int, NEW d \in Int,
         Congruent(a, c, M), Congruent(b, d, M)
  PROVE  Congruent(a + b, c + d, M)
  BY ONLY CongruentParts, M \in Nat \ {0}, a \in Int, b \in Int, c \in Int, d \in Int,
          Congruent(a, c, M), Congruent(b, d, M)

\* Differences do.
LEMMA CongruentDifference ==
  ASSUME NEW M \in Nat \ {0}, NEW a \in Int, NEW b \in Int, NEW c \in Int, NEW d \in Int,
         Congruent(a, c, M), Congruent(b, d, M)
  PROVE  Congruent(a - b, c - d, M)
  BY ONLY CongruentParts, M \in Nat \ {0}, a \in Int, b \in Int, c \in Int, d \in Int,
          Congruent(a, c, M), Congruent(b, d, M)

\* Products do.
LEMMA CongruentProduct ==
  ASSUME NEW M \in Nat \ {0}, NEW a \in Int, NEW b \in Int, NEW c \in Int, NEW d \in Int,
         Congruent(a, c, M), Congruent(b, d, M)
  PROVE  Congruent(a * b, c * d, M)
  BY ONLY CongruentParts, M \in Nat \ {0}, a \in Int, b \in Int, c \in Int, d \in Int,
          Congruent(a, c, M), Congruent(b, d, M)

\* It is an equivalence, and residues that are congruent are equal.
LEMMA CongruentRelation ==
  ASSUME NEW M \in Nat \ {0}
  PROVE  /\ \A a : Congruent(a, a, M)
         /\ \A a, b : Congruent(a, b, M) => Congruent(b, a, M)
         /\ \A a, b, c : Congruent(a, b, M) /\ Congruent(b, c, M) => Congruent(a, c, M)
         /\ \A a \in Int : a % M \in 0 .. M - 1 /\ Congruent(a % M, a, M)
         /\ \A a, b \in 0 .. M - 1 : Congruent(a, b, M) => a = b
<1>1. \A a \in 0 .. M - 1 : a % M = a
  BY ONLY Remainders, M \in Nat \ {0}
<1>2. \A a \in Int : a % M \in 0 .. M - 1
  BY ONLY Remainders, M \in Nat \ {0}
<1> QED BY ONLY <1>1, <1>2, Zenon DEF Congruent

\* Minus one times a residue.
LEMMA MinusOneTimes ==
  ASSUME NEW M \in Nat \ {0, 1}, NEW x \in 0 .. M - 1
  PROVE  /\ Congruent((M - 1) * x, M - x, M)
         /\ Congruent((M - x) % M, M - x, M) /\ (M - x) % M \in 0 .. M - 1
         /\ Congruent((M - x) * (M - x), x * x, M)
<1>1. \A a \in Int, k \in Int : Congruent(a + k * M, a, M)
  <2> SUFFICES ASSUME NEW a \in Int, NEW k \in Int PROVE Congruent(a + k * M, a, M)
    OBVIOUS
  <2> DEFINE c == a \div M
             r == a % M
             e == c + k
             x0 == a + k * M
  <2>1. a = c * M + r /\ c \in Int /\ r \in 0 .. M - 1
    OBVIOUS
  <2> HIDE DEF c, r
  <2>2. x0 = e * M + r /\ e \in Int /\ x0 \in Int
    BY <2>1
  <2> HIDE DEF x0, e
  <2>3. M \in Nat \ {0}
    OBVIOUS
  <2>4. x0 % M = r
    BY ONLY <2>1, <2>2, <2>3, DivUnique
  <2> QED BY <2>4 DEF r, x0, Congruent
<1>2. (M - 1) * x = (M - x) + (x - 1) * M
  OBVIOUS
<1>3. (M - x) * (M - x) = x * x + (M - 2 * x) * M
  OBVIOUS
<1>4. M - x \in Int /\ x - 1 \in Int /\ x * x \in Int /\ M - 2 * x \in Int /\ M \in Nat \ {0}
  OBVIOUS
<1>5. Congruent((M - 1) * x, M - x, M)
  BY <1>1, <1>2, <1>4
<1>6. Congruent((M - x) * (M - x), x * x, M)
  BY <1>1, <1>3, <1>4
<1> QED BY <1>4, <1>5, <1>6, CongruentRelation

\* The residue that is minus another.
LEMMA Negated ==
  ASSUME NEW M \in Nat \ {0, 1}, NEW s \in 0 .. M - 1
  PROVE  /\ (M - s) % M \in 0 .. M - 1
         /\ \A x \in Int : Congruent(((M - s) % M) * x, -(s * x), M)
         /\ Congruent(((M - s) % M) * ((M - s) % M), s * s, M)
<1> DEFINE v == (M - s) % M
           n == -s
<1>1. M \in Nat \ {0} /\ s \in Int /\ n \in Int /\ M \in Int /\ n = 0 - s
  OBVIOUS
<1>2. v \in 0 .. M - 1 /\ Congruent(v, M - s, M)
  BY ONLY <1>1, MinusOneTimes, M \in Nat \ {0, 1}, s \in 0 .. M - 1
<1> HIDE DEF v
<1>3. v \in Int
  BY <1>1, <1>2
<1>4. Congruent(M, 0, M)
  <2>1. M = 1 * M + 0 /\ 0 \in 0 .. M - 1 /\ 1 \in Int
    BY <1>1
  <2>2. M % M = 0
    BY ONLY <1>1, <2>1, DivUnique
  <2>3. 0 % M = 0
    BY ONLY <1>1, <2>1, Remainders
  <2> QED BY <2>2, <2>3 DEF Congruent
<1>5. Congruent(s, s, M)
  BY DEF Congruent
<1>6. Congruent(M - s, 0 - s, M)
  BY ONLY <1>1, <1>4, <1>5, CongruentDifference, 0 \in Int
<1>7. Congruent(v, n, M)
  BY ONLY <1>1, <1>2, <1>6, CongruentRelation
<1>8. ASSUME NEW x \in Int PROVE Congruent(v * x, -(s * x), M)
  <2>1. Congruent(x, x, M)
    BY DEF Congruent
  <2>2. n * x = -(s * x)
    BY <1>1
  <2> HIDE DEF n
  <2>3. Congruent(v * x, n * x, M)
    BY ONLY <1>1, <1>3, <1>7, <2>1, CongruentProduct, x \in Int
  <2> QED BY <2>2, <2>3
<1>9. Congruent(v * v, s * s, M)
  <2>1. n * n = s * s
    BY <1>1
  <2> HIDE DEF n
  <2>2. Congruent(v * v, n * n, M)
    BY ONLY <1>1, <1>3, <1>7, CongruentProduct
  <2> QED BY <2>1, <2>2
<1> QED BY <1>2, <1>8, <1>9 DEF v

-----------------------------------------------------------------------------
(* Sums of the first terms of a function.                                  *)

Total(t, n) ==
  LET total[i \in 0 .. n] == IF i = 0 THEN 0 ELSE total[i - 1] + t[i - 1] IN total[n]

PartialSums(t, n, ps) ==
  /\ ps \in [0 .. n -> Int]
  /\ ps[0] = 0
  /\ \A i \in 1 .. n : ps[i] = ps[i - 1] + t[i - 1]

\* There are partial sums.
LEMMA PartialSumsExist ==
  ASSUME NEW n \in Nat, NEW t, \A i \in 0 .. n - 1 : t[i] \in Int
  PROVE  \E ps : PartialSums(t, n, ps)
<1> DEFINE A == Int
           F == [p \in (1 .. n) \X A |-> p[2] + t[p[1] - 1]]
<1>1. Steps(n, A, F)
  <2>1. \A p \in (1 .. n) \X A : p[1] - 1 \in 0 .. n - 1 /\ p[2] \in Int
    OBVIOUS
  <2>2. \A p \in (1 .. n) \X A : p[2] + t[p[1] - 1] \in A
    BY <2>1
  <2> QED BY <2>2 DEF Steps
<1>2. \A k \in 1 .. n, a \in A : F[<<k, a>>] = a + t[k - 1]
  OBVIOUS
<1>3. 0 \in A
  OBVIOUS
<1> HIDE DEF F, A
<1>4. PICK h : h \in [SUBSET (1 .. n) -> A] /\ Folds(n, A, 0, F, h)
  BY <1>1, <1>3, FoldExists
<1>5. PICK f : Unrolls(n, A, 0, F, f) /\ f[n] = h[1 .. n]
  BY <1>1, <1>3, <1>4, FoldUnroll
<1>6. \A k \in 1 .. n : f[k - 1] \in A
  BY <1>5 DEF Unrolls
<1>7. PartialSums(t, n, f)
  BY <1>2, <1>5, <1>6 DEF Unrolls, PartialSums, A
<1> QED BY <1>7

\* They are unique, whatever function defines them.
LEMMA PartialSumsUnique ==
  ASSUME NEW n \in Nat, NEW t, NEW ps, PartialSums(t, n, ps), NEW g, g[0] = 0,
         \A i \in 1 .. n : g[i] = g[i - 1] + t[i - 1]
  PROVE  \A i \in 0 .. n : g[i] = ps[i]
<1> DEFINE P == {i \in Nat : i <= n => g[i] = ps[i]}
<1>1. ps[0] = 0 /\ \A i \in 1 .. n : ps[i] = ps[i - 1] + t[i - 1]
  BY DEF PartialSums
<1>2. 0 \in P
  BY <1>1
<1>3. ASSUME NEW i \in Nat, i \in P PROVE i + 1 \in P
  <2>1. SUFFICES ASSUME i + 1 <= n PROVE g[i + 1] = ps[i + 1]
    OBVIOUS
  <2>2. i + 1 \in 1 .. n /\ (i + 1) - 1 = i /\ g[i] = ps[i]
    BY <1>3, <2>1
  <2>3. g[i + 1] = g[i] + t[i] /\ ps[i + 1] = ps[i] + t[i]
    BY <1>1, <2>2
  <2> QED BY <2>2, <2>3
<1>4. Nat \subseteq P
  <2> HIDE DEF P
  <2> QED BY ONLY <1>2, <1>3, Induction
<1> QED BY <1>4

\* The total is the last one.
LEMMA TotalIsLast ==
  ASSUME NEW n \in Nat, NEW t, NEW ps, PartialSums(t, n, ps)
  PROVE  Total(t, n) = ps[n]
<1> DEFINE Is(g) == g = [i \in 0 .. n |-> IF i = 0 THEN 0 ELSE g[i - 1] + t[i - 1]]
           total == CHOOSE g : Is(g)
<1>1. ps \in [0 .. n -> Int] /\ ps[0] = 0 /\ \A i \in 1 .. n : ps[i] = ps[i - 1] + t[i - 1]
  BY DEF PartialSums
<1>2. Is([i \in 0 .. n |-> ps[i]])
  <2>1. \A i \in 0 .. n : i # 0 => i \in 1 .. n /\ i - 1 \in 0 .. n
    OBVIOUS
  <2> QED BY <1>1, <2>1
<1>3. Is(total)
  BY <1>2
<1>4. Total(t, n) = total[n]
  BY DEF Total
<1> HIDE DEF total
<1>5. total[0] = 0 /\ \A i \in 1 .. n : total[i] = total[i - 1] + t[i - 1]
  <2>1. 0 \in 0 .. n /\ \A i \in 1 .. n : i \in 0 .. n /\ i # 0
    OBVIOUS
  <2> QED BY <1>3, <2>1
<1>6. \A i \in 0 .. n : total[i] = ps[i]
  <2> HIDE DEF Is
  <2> QED BY ONLY <1>5, PartialSumsUnique, PartialSums(t, n, ps), n \in Nat
<1> QED BY <1>4, <1>6

\* Totals, one term after the other.
LEMMA TotalSteps ==
  ASSUME NEW n \in Nat, NEW t, \A i \in 0 .. n - 1 : t[i] \in Int
  PROVE  /\ Total(t, 0) = 0
         /\ \A k \in 0 .. n : Total(t, k) \in Int
         /\ \A k \in 0 .. n - 1 : Total(t, k + 1) = Total(t, k) + t[k]
<1>1. PICK ps : PartialSums(t, n, ps)
  BY PartialSumsExist
<1>2. ASSUME NEW k \in 0 .. n PROVE Total(t, k) = ps[k]
  <2> DEFINE g == [i \in 0 .. k |-> ps[i]]
  <2>1. PartialSums(t, k, g)
    <3>1. \A i \in 0 .. k : i \in 0 .. n
      OBVIOUS
    <3>2. \A i \in 1 .. k : i \in 1 .. n /\ i \in 0 .. k /\ i - 1 \in 0 .. k
      OBVIOUS
    <3> QED BY <1>1, <3>1, <3>2 DEF PartialSums
  <2>2. k \in Nat /\ g[k] = ps[k]
    OBVIOUS
  <2> HIDE DEF g
  <2> QED BY <2>1, <2>2, TotalIsLast
<1>3. \A k \in 0 .. n - 1 : k \in 0 .. n /\ k + 1 \in 0 .. n /\ k + 1 \in 1 .. n /\ (k + 1) - 1 = k
  OBVIOUS
<1>4. 0 \in 0 .. n
  OBVIOUS
<1> QED BY <1>1, <1>2, <1>3, <1>4 DEF PartialSums

\* They are integers.
LEMMA TotalInteger ==
  ASSUME NEW n \in Nat, NEW t, \A i \in 0 .. n - 1 : t[i] \in Int
  PROVE  Total(t, n) \in Int
<1>1. \A k \in 0 .. n : Total(t, k) \in Int
  BY TotalSteps
<1>2. n \in 0 .. n
  OBVIOUS
<1> QED BY <1>1, <1>2

\* A total of 2 * n terms, modulo M, from those of its even and odd terms, when
\* the odd ones have a factor in common.
LEMMA TotalSplits ==
  ASSUME NEW M \in Nat \ {0}, NEW n \in Nat, NEW s \in Int, NEW t, NEW p, NEW r,
         \A i \in 0 .. 2 * n - 1 : t[i] \in Int,
         \A i \in 0 .. n - 1 : p[i] \in Int /\ r[i] \in Int,
         \A i \in 0 .. n - 1 : Congruent(t[2 * i], p[i], M) /\ Congruent(t[2 * i + 1], s * r[i], M)
  PROVE  Congruent(Total(t, 2 * n), Total(p, n) + s * Total(r, n), M)
<1> DEFINE Is(k) == Congruent(Total(t, 2 * k), Total(p, k) + s * Total(r, k), M)
           Q == {k \in Nat : k <= n => Is(k)}
<1>1. /\ Total(t, 0) = 0
      /\ \A k \in 0 .. 2 * n : Total(t, k) \in Int
      /\ \A k \in 0 .. 2 * n - 1 : Total(t, k + 1) = Total(t, k) + t[k]
  BY TotalSteps, 2 * n \in Nat
<1>2. /\ Total(p, 0) = 0 /\ Total(r, 0) = 0
      /\ \A k \in 0 .. n : Total(p, k) \in Int /\ Total(r, k) \in Int
      /\ \A k \in 0 .. n - 1 : Total(p, k + 1) = Total(p, k) + p[k] /\ Total(r, k + 1) = Total(r, k) + r[k]
  BY TotalSteps
<1>3. 0 \in Q
  <2>1. s * 0 = 0 /\ 0 + 0 = 0 /\ 2 * 0 = 0
    OBVIOUS
  <2> QED BY <1>1, <1>2, <2>1 DEF Congruent
<1>4. ASSUME NEW k \in Nat, k \in Q PROVE k + 1 \in Q
  <2>1. SUFFICES ASSUME k + 1 <= n PROVE Is(k + 1)
    OBVIOUS
  <2>2. /\ k \in 0 .. n - 1 /\ k \in 0 .. n /\ k + 1 \in 0 .. n
        /\ 2 * k \in 0 .. 2 * n - 1 /\ 2 * k + 1 \in 0 .. 2 * n - 1
        /\ 2 * k \in 0 .. 2 * n /\ 2 * k + 1 \in 0 .. 2 * n
        /\ (2 * k + 1) + 1 = 2 * (k + 1)
    BY <2>1
  <2> DEFINE a  == Total(t, 2 * k)
             a0 == t[2 * k]
             a1 == t[2 * k + 1]
             b  == Total(p, k)
             b0 == p[k]
             c  == Total(r, k)
             c0 == r[k]
             d  == s * c
             d0 == s * c0
  <2>3. a \in Int /\ a0 \in Int /\ a1 \in Int /\ b \in Int /\ b0 \in Int /\ c \in Int /\ c0 \in Int
    BY <1>1, <1>2, <2>2
  <2>4. Total(t, 2 * (k + 1)) = (a + a0) + a1
    <3>1. Total(t, 2 * k + 1) = a + a0
      BY <1>1, <2>2
    <3>2. Total(t, (2 * k + 1) + 1) = Total(t, 2 * k + 1) + a1
      BY <1>1, <2>2
    <3> QED BY <3>1, <3>2, <2>2
  <2>5. Total(p, k + 1) = b + b0 /\ Total(r, k + 1) = c + c0
    BY <1>2, <2>2
  <2>6. Congruent(a, b + d, M) /\ Congruent(a0, b0, M) /\ Congruent(a1, d0, M)
    BY <1>4, <2>2
  <2>7. d \in Int /\ d0 \in Int /\ s * (c + c0) = d + d0
    BY <2>3
  <2> HIDE DEF a, a0, a1, b, b0, c, c0, d, d0
  <2> DEFINE e  == b + d
             f  == a + a0
             g  == e + b0
  <2>8. e \in Int /\ f \in Int /\ g \in Int /\ Congruent(a, e, M) /\ g + d0 = (b + b0) + (d + d0)
    BY <2>3, <2>6, <2>7
  <2> HIDE DEF e
  <2>9. Congruent(f, g, M)
    BY ONLY <2>3, <2>6, <2>8, CongruentSum, M \in Nat \ {0}
  <2>10. Total(t, 2 * (k + 1)) = f + a1
    BY <2>4
  <2> HIDE DEF f, g
  <2>11. Congruent(f + a1, g + d0, M)
    BY ONLY <2>3, <2>6, <2>7, <2>8, <2>9, CongruentSum, M \in Nat \ {0}
  <2> QED BY ONLY <2>5, <2>7, <2>8, <2>10, <2>11
<1>5. Nat \subseteq Q
  <2> HIDE DEF Q
  <2> QED BY ONLY <1>3, <1>4, Induction
<1>6. Is(n)
  BY <1>5
<1> QED BY <1>6

\* A total of multiples is the multiple of a total.
LEMMA TotalScales ==
  ASSUME NEW M \in Nat \ {0}, NEW n \in Nat, NEW c \in Int, NEW t, NEW p,
         \A i \in 0 .. n - 1 : t[i] \in Int /\ p[i] \in Int /\ Congruent(t[i], c * p[i], M)
  PROVE  Congruent(Total(t, n), c * Total(p, n), M)
<1> DEFINE Is(k) == Congruent(Total(t, k), c * Total(p, k), M)
           Q == {k \in Nat : k <= n => Is(k)}
<1>1. /\ Total(t, 0) = 0 /\ Total(p, 0) = 0
      /\ \A k \in 0 .. n : Total(t, k) \in Int /\ Total(p, k) \in Int
      /\ \A k \in 0 .. n - 1 : Total(t, k + 1) = Total(t, k) + t[k] /\ Total(p, k + 1) = Total(p, k) + p[k]
  BY TotalSteps
<1>2. 0 \in Q
  <2>1. c * 0 = 0
    OBVIOUS
  <2> QED BY <1>1, <2>1 DEF Congruent
<1>3. ASSUME NEW k \in Nat, k \in Q PROVE k + 1 \in Q
  <2>1. SUFFICES ASSUME k + 1 <= n PROVE Is(k + 1)
    OBVIOUS
  <2>2. k \in 0 .. n - 1 /\ k \in 0 .. n
    BY <2>1
  <2> DEFINE a  == Total(t, k)
             a0 == t[k]
             b  == Total(p, k)
             b0 == p[k]
             d  == c * b
             d0 == c * b0
  <2>3. a \in Int /\ a0 \in Int /\ b \in Int /\ b0 \in Int
    BY <1>1, <2>2
  <2>4. Total(t, k + 1) = a + a0 /\ Total(p, k + 1) = b + b0
    BY <1>1, <2>2
  <2>5. Congruent(a, d, M) /\ Congruent(a0, d0, M)
    BY <1>3, <2>2
  <2>6. d \in Int /\ d0 \in Int /\ c * (b + b0) = d + d0
    BY <2>3
  <2> HIDE DEF a, a0, b, b0, d, d0
  <2>7. Congruent(a + a0, d + d0, M)
    BY ONLY <2>3, <2>5, <2>6, CongruentSum, M \in Nat \ {0}
  <2> QED BY ONLY <2>4, <2>6, <2>7
<1>4. Nat \subseteq Q
  <2> HIDE DEF Q
  <2> QED BY ONLY <1>2, <1>3, Induction
<1>5. Is(n)
  BY <1>4
<1> QED BY <1>5

\* A total is that of the sums of the terms half its length apart.
LEMMA TotalFolds ==
  ASSUME NEW n \in Nat, NEW t, \A i \in 0 .. 2 * n - 1 : t[i] \in Int,
         NEW h, \A i \in 0 .. n - 1 : h[i] = t[i] + t[n + i]
  PROVE  Total(t, 2 * n) = Total(h, n)
<1> DEFINE Is(k) == Total(t, k) + (Total(t, n + k) - Total(t, n)) = Total(h, k)
           Q == {k \in Nat : k <= n => Is(k)}
<1>1. /\ Total(t, 0) = 0
      /\ \A k \in 0 .. 2 * n : Total(t, k) \in Int
      /\ \A k \in 0 .. 2 * n - 1 : Total(t, k + 1) = Total(t, k) + t[k]
  BY TotalSteps, 2 * n \in Nat
<1>2. \A i \in 0 .. n - 1 : h[i] \in Int
  <2>1. \A i \in 0 .. n - 1 : i \in 0 .. 2 * n - 1 /\ n + i \in 0 .. 2 * n - 1
    OBVIOUS
  <2>2. \A i \in 0 .. n - 1 : t[i] \in Int /\ t[n + i] \in Int
    BY <2>1
  <2> QED BY <2>2
<1>3. /\ Total(h, 0) = 0
      /\ \A k \in 0 .. n : Total(h, k) \in Int
      /\ \A k \in 0 .. n - 1 : Total(h, k + 1) = Total(h, k) + h[k]
  BY <1>2, TotalSteps
<1>4. 0 \in Q
  <2>1. n + 0 = n /\ n \in 0 .. 2 * n /\ Total(t, n) \in Int
    BY <1>1
  <2> QED BY <1>1, <1>3, <2>1
<1>5. ASSUME NEW k \in Nat, k \in Q PROVE k + 1 \in Q
  <2>1. SUFFICES ASSUME k + 1 <= n PROVE Is(k + 1)
    OBVIOUS
  <2>2. /\ k \in 0 .. n - 1 /\ k \in 0 .. n /\ k \in 0 .. 2 * n /\ k \in 0 .. 2 * n - 1
        /\ n + k \in 0 .. 2 * n - 1 /\ n + k \in 0 .. 2 * n /\ n \in 0 .. 2 * n
        /\ (n + k) + 1 = n + (k + 1)
    BY <2>1
  <2> DEFINE a == Total(t, k)
             b == Total(t, n + k)
             c == Total(t, n)
             d == Total(h, k)
             a0 == t[k]
             b0 == t[n + k]
             h0 == h[k]
  <2>3. a \in Int /\ b \in Int /\ c \in Int /\ d \in Int /\ a0 \in Int /\ b0 \in Int
    BY <1>1, <1>3, <2>2
  <2>4. Total(t, k + 1) = a + a0 /\ Total(t, (n + k) + 1) = b + b0 /\ Total(h, k + 1) = d + h0
    BY <1>1, <1>3, <2>2
  <2>5. a + (b - c) = d /\ h0 = a0 + b0
    BY <1>5, <2>2
  <2>6. Total(t, n + (k + 1)) = b + b0
    BY <2>2, <2>4
  <2> HIDE DEF a, b, d, a0, b0, h0
  <2>7. (a + a0) + ((b + b0) - c) = d + h0
    <3> HIDE DEF c
    <3> QED BY <2>3, <2>5
  <2> QED BY <2>4, <2>6, <2>7
<1>6. Nat \subseteq Q
  <2> HIDE DEF Q
  <2> QED BY ONLY <1>4, <1>5, Induction
<1>7. Is(n)
  BY <1>6
<1>8. n + n = 2 * n /\ n \in 0 .. 2 * n /\ 2 * n \in 0 .. 2 * n /\ n \in 0 .. n
  OBVIOUS
<1>9. Total(t, n) \in Int /\ Total(t, 2 * n) \in Int /\ Total(h, n) \in Int
  BY <1>1, <1>3, <1>8
<1> QED BY <1>7, <1>8, <1>9

\* The terms of the two halves of a block together, when pt = v * p, and v
\* times the twiddle factor is 1 or -1: twice that of the one half or the other.
LEMMA PairSum ==
  ASSUME NEW M \in Nat \ {0}, NEW a \in Int, NEW b \in Int, NEW lo \in Int, NEW hi \in Int, NEW w \in Int,
         NEW F \in Int, NEW p \in Int, NEW pt \in Int, NEW v \in Int, NEW u \in {0, 1},
         Congruent(a, F * (lo + hi), M), Congruent(b, F * ((lo - hi) * w), M), Congruent(pt, v * p, M),
         Congruent(v * w, IF u = 0 THEN 1 ELSE -1, M)
  PROVE  Congruent(a * p + b * pt, (2 * F) * ((IF u = 0 THEN lo ELSE hi) * p), M)
<1> DEFINE A == F * (lo + hi)
           g == lo - hi
           B == F * (g * w)
           C == v * p
           D == F * (g * p)
           vw == v * w
           e == IF u = 0 THEN 1 ELSE -1
           lp == F * (lo * p)
           hp == F * (hi * p)
<1>1. A \in Int /\ g \in Int /\ B \in Int /\ C \in Int /\ D \in Int /\ vw \in Int /\ e \in Int /\ lp \in Int /\ hp \in Int
  <2>1. lo + hi \in Int /\ g \in Int /\ e \in Int
    OBVIOUS
  <2>2. g * w \in Int /\ g * p \in Int /\ lo * p \in Int /\ hi * p \in Int /\ A \in Int /\ C \in Int /\ vw \in Int
    <3> HIDE DEF g
    <3> QED BY ONLY <2>1, ProductInteger, w \in Int, p \in Int, lo \in Int, hi \in Int, F \in Int, v \in Int DEF A, C, vw
  <2>3. B \in Int /\ D \in Int /\ lp \in Int /\ hp \in Int
    <3> HIDE DEF g
    <3> QED BY ONLY <2>2, ProductInteger, F \in Int DEF B, D, lp, hp
  <2> QED BY <2>1, <2>2, <2>3
<1>2. B * C = D * vw
  <2> HIDE DEF g
  <2> DEFINE gw == g * w
             gp == g * p
  <2>1. gw \in Int /\ gp \in Int /\ g \in Int /\ C \in Int /\ vw \in Int
    <3>1. gw \in Int /\ gp \in Int
      BY ONLY <1>1, ProductInteger, w \in Int, p \in Int
    <3> QED BY <1>1, <3>1
  <2>2. gw * C = gp * vw
    <3>1. C = v * p /\ vw = v * w
      OBVIOUS
    <3>2. gw * (v * p) = g * (w * (v * p)) /\ w * (v * p) = p * (v * w) /\ g * (p * (v * w)) = gp * (v * w)
      <4>1. v * p \in Int /\ v * w \in Int
        BY <2>1
      <4>2. gw * (v * p) = g * (w * (v * p)) /\ g * (p * (v * w)) = gp * (v * w)
        <5> DEFINE x == v * p
                   y == v * w
        <5> HIDE DEF x, y
        <5>1. x \in Int /\ y \in Int
          BY <4>1 DEF x, y
        <5>2. (g * w) * x = g * (w * x) /\ (g * p) * y = g * (p * y)
          BY ONLY <2>1, <5>1, Reorder, w \in Int, p \in Int
        <5> QED BY <5>2 DEF x, y
      <4>3. w * (v * p) = p * (v * w)
        <5>1. (w * v) * p = w * (v * p) /\ (w * v) * p = (w * p) * v /\ (p * v) * w = p * (v * w) /\ (p * v) * w = (p * w) * v
              /\ w * p = p * w
          BY ONLY Reorder, w \in Int, v \in Int, p \in Int
        <5> QED BY ONLY <5>1
      <4> QED BY <4>2, <4>3
    <3> QED BY <3>2
  <2> HIDE DEF gw, gp, C, vw
  <2>3. (F * gw) * C = F * (gw * C) /\ (F * gp) * vw = F * (gp * vw)
    BY ONLY <2>1, Reorder, F \in Int
  <2> QED BY <2>2, <2>3 DEF gw, gp
<1>3. A * p = lp + hp /\ D = lp - hp
  <2> DEFINE x == lo * p
             y == hi * p
  <2>1. x \in Int /\ y \in Int /\ (lo + hi) * p = x + y /\ g * p = x - y
    OBVIOUS
  <2>2. (F * (lo + hi)) * p = F * ((lo + hi) * p)
    <3> DEFINE s == lo + hi
    <3>1. s \in Int
      OBVIOUS
    <3> HIDE DEF s
    <3>2. (F * s) * p = F * (s * p)
      BY ONLY <3>1, Reorder, F \in Int, p \in Int
    <3> QED BY <3>2 DEF s
  <2> HIDE DEF x, y, g
  <2>3. F * (x + y) = F * x + F * y /\ F * (x - y) = F * x - F * y
    BY ONLY <2>1, F \in Int
  <2> QED BY <2>1, <2>2, <2>3 DEF x, y
<1>4. Congruent(a, A, M) /\ Congruent(b, B, M) /\ Congruent(pt, C, M) /\ Congruent(vw, e, M) /\ Congruent(p, p, M)
      /\ Congruent(D, D, M)
  BY DEF Congruent
<1>5. (lp + hp) + D * e = (2 * F) * ((IF u = 0 THEN lo ELSE hi) * p)
  <2> DEFINE x == lo * p
             y == hi * p
             fx == F * x
             fy == F * y
  <2>1. x \in Int /\ y \in Int /\ fx \in Int /\ fy \in Int /\ (2 * F) * x = 2 * fx /\ (2 * F) * y = 2 * fy
    <3>1. x \in Int /\ y \in Int
      OBVIOUS
    <3> HIDE DEF x, y
    <3> QED BY <3>1
  <2>2. D = fx - fy /\ lp = fx /\ hp = fy
    BY <1>3
  <2> HIDE DEF D, lp, hp, fx, fy
  <2>3. CASE u = 0
    <3>1. D * e = D
      BY <1>1, <2>3
    <3>2. (lp + hp) + D = 2 * fx
      BY <2>1, <2>2
    <3> QED BY <2>1, <2>3, <3>1, <3>2
  <2>4. CASE u = 1
    <3>1. D * e = -D
      BY <1>1, <2>4
    <3>2. (lp + hp) + (-D) = 2 * fy
      BY <2>1, <2>2
    <3> QED BY <2>1, <2>4, <3>1, <3>2
  <2> QED BY <2>3, <2>4
<1> HIDE DEF A, B, C, D, vw, e, lp, hp
<1>6. Congruent(a * p, A * p, M)
  BY ONLY <1>1, <1>4, CongruentProduct, M \in Nat \ {0}, a \in Int, p \in Int
<1>7. Congruent(b * pt, B * C, M)
  BY ONLY <1>1, <1>4, CongruentProduct, M \in Nat \ {0}, b \in Int, pt \in Int
<1>8. Congruent(D * vw, D * e, M)
  BY ONLY <1>1, <1>4, CongruentProduct, M \in Nat \ {0}
<1> DEFINE s1 == a * p
           s2 == b * pt
           r1 == lp + hp
           r2 == D * e
           d2 == D * vw
<1>9. /\ s1 \in Int /\ s2 \in Int /\ r1 \in Int /\ r2 \in Int
      /\ Congruent(s1, r1, M) /\ Congruent(s2, d2, M) /\ Congruent(d2, r2, M)
  <2>1. s1 \in Int /\ s2 \in Int /\ r2 \in Int
    BY ONLY <1>1, ProductInteger, a \in Int, b \in Int, p \in Int, pt \in Int
  <2>2. r1 \in Int
    BY <1>1
  <2> QED BY <1>2, <1>3, <1>6, <1>7, <1>8, <2>1, <2>2
<1> HIDE DEF s1, s2, r1, r2, d2
<1>10. Congruent(s2, r2, M)
  BY ONLY <1>9, CongruentRelation, M \in Nat \ {0}
<1>11. Congruent(s1 + s2, r1 + r2, M)
  BY ONLY <1>9, <1>10, CongruentSum, M \in Nat \ {0}
<1> QED BY <1>5, <1>11 DEF s1, s2, r1, r2

-----------------------------------------------------------------------------
(* Sums of functions on an initial segment of the naturals.                *)

\* A sum that has all its terms from another is that sum.
LEMMA TotalSame ==
  ASSUME NEW n \in Nat, NEW t, NEW u, \A i \in 0 .. n - 1 : t[i] \in Int /\ u[i] = t[i]
  PROVE  Total(u, n) = Total(t, n)
<1> DEFINE Q == {k \in Nat : k <= n => Total(u, k) = Total(t, k)}
<1>1. /\ Total(t, 0) = 0 /\ Total(u, 0) = 0
      /\ \A k \in 0 .. n - 1 : Total(t, k + 1) = Total(t, k) + t[k] /\ Total(u, k + 1) = Total(u, k) + u[k]
  <2>1. \A i \in 0 .. n - 1 : t[i] \in Int /\ u[i] \in Int
    OBVIOUS
  <2> QED BY ONLY <2>1, TotalSteps, n \in Nat
<1>2. 0 \in Q
  BY <1>1
<1>3. ASSUME NEW k \in Nat, k \in Q PROVE k + 1 \in Q
  <2>1. SUFFICES ASSUME k + 1 <= n PROVE Total(u, k + 1) = Total(t, k + 1)
    OBVIOUS
  <2>2. k \in 0 .. n - 1 /\ Total(u, k) = Total(t, k) /\ u[k] = t[k]
    BY <1>3, <2>1
  <2> QED BY ONLY <1>1, <2>2
<1>4. Nat \subseteq Q
  <2> HIDE DEF Q
  <2> QED BY ONLY <1>2, <1>3, Induction
<1> QED BY <1>4

\* Nor does a sum change, but for a multiple of M, if its terms do no more.
LEMMA TotalCongruent ==
  ASSUME NEW M \in Nat \ {0}, NEW n \in Nat, NEW t, NEW u,
         \A i \in 0 .. n - 1 : t[i] \in Int /\ u[i] \in Int /\ Congruent(t[i], u[i], M)
  PROVE  Congruent(Total(t, n), Total(u, n), M)
<1>1. \A i \in 0 .. n - 1 : 1 * u[i] = u[i]
  OBVIOUS
<1>2. \A i \in 0 .. n - 1 : t[i] \in Int /\ u[i] \in Int /\ Congruent(t[i], 1 * u[i], M)
  BY <1>1
<1>3. 1 \in Int
  OBVIOUS
<1>4. Congruent(Total(t, n), 1 * Total(u, n), M)
  BY ONLY <1>2, <1>3, TotalScales, M \in Nat \ {0}, n \in Nat
<1>5. Total(u, n) \in Int
  <2>1. n \in 0 .. n /\ \A i \in 0 .. n - 1 : u[i] \in Int
    OBVIOUS
  <2> QED BY ONLY <2>1, TotalSteps, n \in Nat
<1>6. 1 * Total(u, n) = Total(u, n)
  BY ONLY <1>5
<1> QED BY ONLY <1>4, <1>6

\* The sum of sums.
LEMMA TotalAdds ==
  ASSUME NEW n \in Nat, NEW t, NEW u, NEW h,
         \A i \in 0 .. n - 1 : t[i] \in Int /\ u[i] \in Int /\ h[i] = t[i] + u[i]
  PROVE  Total(h, n) = Total(t, n) + Total(u, n)
<1> DEFINE Q == {k \in Nat : k <= n => Total(h, k) = Total(t, k) + Total(u, k)}
<1>1. \A i \in 0 .. n - 1 : t[i] \in Int /\ u[i] \in Int /\ h[i] \in Int
  OBVIOUS
<1>2. /\ Total(t, 0) = 0 /\ Total(u, 0) = 0 /\ Total(h, 0) = 0
      /\ \A k \in 0 .. n - 1 : /\ Total(t, k + 1) = Total(t, k) + t[k] /\ Total(u, k + 1) = Total(u, k) + u[k]
                               /\ Total(h, k + 1) = Total(h, k) + h[k]
      /\ \A k \in 0 .. n : Total(t, k) \in Int /\ Total(u, k) \in Int
  BY ONLY <1>1, TotalSteps, n \in Nat
<1>3. 0 \in Q
  BY <1>2
<1>4. ASSUME NEW k \in Nat, k \in Q PROVE k + 1 \in Q
  <2>1. SUFFICES ASSUME k + 1 <= n PROVE Total(h, k + 1) = Total(t, k + 1) + Total(u, k + 1)
    OBVIOUS
  <2>2. k \in 0 .. n - 1 /\ k \in 0 .. n /\ Total(h, k) = Total(t, k) + Total(u, k) /\ h[k] = t[k] + u[k]
        /\ t[k] \in Int /\ u[k] \in Int
    BY <1>4, <2>1
  <2> QED BY ONLY <1>2, <2>2
<1>5. Nat \subseteq Q
  <2> HIDE DEF Q
  <2> QED BY ONLY <1>3, <1>4, Induction
<1> QED BY <1>5

\* The multiple of a sum.
LEMMA TotalTimes ==
  ASSUME NEW n \in Nat, NEW c \in Int, NEW t, NEW h, \A i \in 0 .. n - 1 : t[i] \in Int /\ h[i] = c * t[i]
  PROVE  Total(h, n) = c * Total(t, n)
<1> DEFINE Q == {k \in Nat : k <= n => Total(h, k) = c * Total(t, k)}
<1>1. \A i \in 0 .. n - 1 : t[i] \in Int /\ h[i] \in Int
  OBVIOUS
<1>2. /\ Total(t, 0) = 0 /\ Total(h, 0) = 0
      /\ \A k \in 0 .. n - 1 : Total(t, k + 1) = Total(t, k) + t[k] /\ Total(h, k + 1) = Total(h, k) + h[k]
      /\ \A k \in 0 .. n : Total(t, k) \in Int
  BY ONLY <1>1, TotalSteps, n \in Nat
<1>3. 0 \in Q
  <2>1. c * 0 = 0
    OBVIOUS
  <2> QED BY <1>2, <2>1
<1>4. ASSUME NEW k \in Nat, k \in Q PROVE k + 1 \in Q
  <2>1. SUFFICES ASSUME k + 1 <= n PROVE Total(h, k + 1) = c * Total(t, k + 1)
    OBVIOUS
  <2>2. k \in 0 .. n - 1 /\ k \in 0 .. n /\ Total(h, k) = c * Total(t, k) /\ h[k] = c * t[k]
        /\ t[k] \in Int
    BY <1>4, <2>1
  <2> DEFINE a == Total(t, k)
             b == t[k]
  <2>3. a \in Int /\ b \in Int /\ Total(t, k + 1) = a + b /\ Total(h, k + 1) = c * a + c * b
    BY ONLY <1>2, <2>2
  <2> HIDE DEF a, b
  <2>4. c * (a + b) = c * a + c * b
    BY ONLY <2>3, c \in Int
  <2> QED BY ONLY <2>3, <2>4
<1>5. Nat \subseteq Q
  <2> HIDE DEF Q
  <2> QED BY ONLY <1>3, <1>4, Induction
<1> QED BY <1>5

\* A sum with one term.
LEMMA TotalSingle ==
  ASSUME NEW n \in Nat, NEW t, NEW k \in 0 .. n - 1, t[k] \in Int, \A i \in 0 .. n - 1 : i # k => t[i] = 0
  PROVE  Total(t, n) = t[k]
<1> DEFINE Q == {j \in Nat : j <= n => Total(t, j) = IF k < j THEN t[k] ELSE 0}
<1>1. \A i \in 0 .. n - 1 : t[i] \in Int
  OBVIOUS
<1>2. /\ Total(t, 0) = 0
      /\ \A j \in 0 .. n - 1 : Total(t, j + 1) = Total(t, j) + t[j]
  BY ONLY <1>1, TotalSteps, n \in Nat
<1>3. 0 \in Q
  BY <1>2
<1>4. ASSUME NEW j \in Nat, j \in Q PROVE j + 1 \in Q
  <2>1. SUFFICES ASSUME j + 1 <= n PROVE Total(t, j + 1) = IF k < j + 1 THEN t[k] ELSE 0
    OBVIOUS
  <2>2. j \in 0 .. n - 1 /\ Total(t, j) = IF k < j THEN t[k] ELSE 0
    BY <1>4, <2>1
  <2>3. Total(t, j + 1) = Total(t, j) + t[j]
    BY ONLY <1>2, <2>2
  <2>4. CASE j = k
    BY <2>2, <2>3, <2>4
  <2>5. CASE j # k
    <3>1. t[j] = 0
      BY <2>2, <2>5
    <3> QED BY <2>2, <2>3, <2>5, <3>1
  <2> QED BY <2>4, <2>5
<1>5. Nat \subseteq Q
  <2> HIDE DEF Q
  <2> QED BY ONLY <1>3, <1>4, Induction
<1>6. n \in Q /\ k < n
  BY <1>5
<1> QED BY <1>6

\* A sum of nothing but zeros.
LEMMA TotalZero ==
  ASSUME NEW n \in Nat, NEW t, \A i \in 0 .. n - 1 : t[i] = 0
  PROVE  Total(t, n) = 0
<1>1. \A i \in 0 .. n - 1 : t[i] \in Int /\ t[i] = 0 * t[i]
  OBVIOUS
<1>2. Total(t, n) = 0 * Total(t, n)
  BY ONLY <1>1, TotalTimes, n \in Nat, 0 \in Int
<1>3. Total(t, n) \in Int
  <2>1. n \in 0 .. n
    OBVIOUS
  <2> QED BY ONLY <1>1, <2>1, TotalSteps, n \in Nat
<1> QED BY ONLY <1>2, <1>3

\* A table of n rows and k columns, by rows and by columns, and its sums.
Transposed(f, g, n, k) ==
  \A i \in 0 .. n - 1, j \in 0 .. k - 1 : f[i][j] \in Int /\ g[j][i] = f[i][j]

Sums(r, f, n, k) == \A i \in 0 .. n - 1 : r[i] = Total(f[i], k)

\* A table is summed by rows or by columns.
LEMMA TotalSwaps ==
  ASSUME NEW n \in Nat, NEW k \in Nat, NEW f, NEW g, Transposed(f, g, n, k),
         NEW r, Sums(r, f, n, k), NEW c, Sums(c, g, k, n)
  PROVE  Total(r, n) = Total(c, k)
<1> DEFINE Upto(a) == [j \in 0 .. k - 1 |-> Total(g[j], a)]
           Q       == {a \in Nat : a <= n => Total(r, a) = Total(Upto(a), k)}
<1> USE DEF Transposed, Sums
<1>1. ASSUME NEW i \in 0 .. n - 1 PROVE Total(f[i], k) \in Int
  <2>1. \A j \in 0 .. k - 1 : f[i][j] \in Int
    OBVIOUS
  <2>2. k \in 0 .. k
    OBVIOUS
  <2> QED BY ONLY <2>1, <2>2, TotalSteps, k \in Nat
<1>2. ASSUME NEW j \in 0 .. k - 1
      PROVE  /\ Total(g[j], 0) = 0
             /\ \A a \in 0 .. n - 1 : Total(g[j], a + 1) = Total(g[j], a) + f[a][j]
             /\ \A a \in 0 .. n : Total(g[j], a) \in Int
  <2>1. \A i \in 0 .. n - 1 : g[j][i] = f[i][j] /\ g[j][i] \in Int
    OBVIOUS
  <2>2. /\ Total(g[j], 0) = 0
        /\ \A a \in 0 .. n - 1 : Total(g[j], a + 1) = Total(g[j], a) + g[j][a]
        /\ \A a \in 0 .. n : Total(g[j], a) \in Int
    BY ONLY <2>1, TotalSteps, n \in Nat
  <2> QED BY ONLY <2>1, <2>2
<1>3. \A i \in 0 .. n - 1 : r[i] \in Int
  BY <1>1
<1>4. /\ Total(r, 0) = 0
      /\ \A a \in 0 .. n - 1 : Total(r, a + 1) = Total(r, a) + r[a]
  BY ONLY <1>3, TotalSteps, n \in Nat
<1>5. \A a \in 0 .. n, j \in 0 .. k - 1 : Upto(a)[j] = Total(g[j], a)
  OBVIOUS
<1> HIDE DEF Upto
<1>6. 0 \in Q
  <2>1. \A j \in 0 .. k - 1 : Upto(0)[j] = 0
    BY <1>2, <1>5, 0 \in 0 .. n
  <2>2. Total(Upto(0), k) = 0
    BY ONLY <2>1, TotalZero, k \in Nat
  <2> QED BY <1>4, <2>2
<1>7. ASSUME NEW a \in Nat, a \in Q PROVE a + 1 \in Q
  <2>1. SUFFICES ASSUME a + 1 <= n PROVE Total(r, a + 1) = Total(Upto(a + 1), k)
    OBVIOUS
  <2>2. a \in 0 .. n - 1 /\ a \in 0 .. n /\ a + 1 \in 0 .. n /\ Total(r, a) = Total(Upto(a), k)
    BY <1>7, <2>1
  <2>3. \A j \in 0 .. k - 1 : /\ Upto(a)[j] \in Int /\ f[a][j] \in Int
                              /\ Upto(a + 1)[j] = Upto(a)[j] + f[a][j]
    BY <1>2, <1>5, <2>2
  <2>4. Total(Upto(a + 1), k) = Total(Upto(a), k) + Total(f[a], k)
    BY ONLY <2>3, TotalAdds, k \in Nat
  <2> QED BY <1>4, <2>2, <2>4
<1>8. Nat \subseteq Q
  <2> HIDE DEF Q
  <2> QED BY ONLY <1>6, <1>7, Induction
<1>9. Total(r, n) = Total(Upto(n), k)
  BY <1>8
<1>10. \A j \in 0 .. k - 1 : Upto(n)[j] = c[j] /\ c[j] \in Int
  BY <1>2, <1>5, n \in 0 .. n
<1>11. Total(Upto(n), k) = Total(c, k)
  BY ONLY <1>10, TotalSame, k \in Nat
<1> QED BY ONLY <1>9, <1>11

\* The order of the terms does not matter.
LEMMA TotalPermuted ==
  ASSUME NEW n \in Nat, NEW t, \A i \in 0 .. n - 1 : t[i] \in Int,
         NEW s, NEW v, \A i \in 0 .. n - 1 : /\ s[i] \in 0 .. n - 1 /\ v[i] \in 0 .. n - 1
                                             /\ s[v[i]] = i /\ v[s[i]] = i,
         NEW u, \A i \in 0 .. n - 1 : u[i] = t[s[i]]
  PROVE  Total(u, n) = Total(t, n)
<1> DEFINE f == [i \in 0 .. n - 1 |-> [j \in 0 .. n - 1 |-> IF s[i] = j THEN t[j] ELSE 0]]
           g == [j \in 0 .. n - 1 |-> [i \in 0 .. n - 1 |-> IF s[i] = j THEN t[j] ELSE 0]]
<1>1. \A i, j \in 0 .. n - 1 : f[i][j] = (IF s[i] = j THEN t[j] ELSE 0) /\ g[j][i] = f[i][j]
  OBVIOUS
<1>2. ASSUME NEW i \in 0 .. n - 1, NEW j \in 0 .. n - 1 PROVE f[i][j] \in Int
  <2>1. CASE s[i] = j
    BY <1>1, <2>1
  <2>2. CASE s[i] # j
    BY <1>1, <2>2
  <2> QED BY <2>1, <2>2
<1> HIDE DEF f, g
<1>3. ASSUME NEW i \in 0 .. n - 1 PROVE u[i] = Total(f[i], n)
  <2> DEFINE k == s[i]
  <2>1. k \in 0 .. n - 1 /\ f[i][k] = t[k] /\ f[i][k] \in Int /\ u[i] = t[k]
    BY <1>1
  <2>2. \A j \in 0 .. n - 1 : j # k => f[i][j] = 0
    BY <1>1
  <2> HIDE DEF k
  <2>3. Total(f[i], n) = f[i][k]
    BY ONLY <2>1, <2>2, TotalSingle, n \in Nat
  <2> QED BY ONLY <2>1, <2>3
<1>4. ASSUME NEW j \in 0 .. n - 1 PROVE t[j] = Total(g[j], n)
  <2> DEFINE k == v[j]
  <2>1. k \in 0 .. n - 1 /\ s[k] = j
    OBVIOUS
  <2>2. g[j][k] = t[j] /\ g[j][k] \in Int
    BY <1>1, <2>1
  <2>3. ASSUME NEW i \in 0 .. n - 1, i # k PROVE g[j][i] = 0
    <3>1. s[i] # j
      BY <2>3
    <3> QED BY <1>1, <3>1
  <2> HIDE DEF k
  <2>4. Total(g[j], n) = g[j][k]
    BY ONLY <2>1, <2>2, <2>3, TotalSingle, n \in Nat
  <2> QED BY ONLY <2>2, <2>4
<1>5. Transposed(f, g, n, n)
  BY ONLY <1>1, <1>2 DEF Transposed
<1>6. Sums(u, f, n, n)
  BY <1>3 DEF Sums
<1>7. Sums(t, g, n, n)
  BY <1>4 DEF Sums
<1> QED BY ONLY <1>5, <1>6, <1>7, TotalSwaps, n \in Nat

-----------------------------------------------------------------------------
(* Powers, as NativeEntries defines them.                                  *)

\* Power takes the values of a table of powers.
LEMMA PowerInTable ==
  ASSUME NEW x \in Nat, NEW M \in Nat \ {0, 1}, NEW K \in Nat, NEW pw, Powers(x, M, K, pw),
         NEW n \in 0 .. K
  PROVE  Power(x, n, M) = pw[n]
<1> DEFINE Is(g) == g = [i \in 0 .. n |-> IF i = 0 THEN 1 % M ELSE (g[i - 1] * x) % M]
           power == CHOOSE g : Is(g)
           P == {i \in Nat : i <= n => power[i] = pw[i]}
<1>1. pw[0] = 1 /\ \A i \in 1 .. K : pw[i] = (pw[i - 1] * x) % M
  BY DEF Powers
<1>2. 1 % M = 1
  <2>1. 1 \in Nat /\ M \in Nat \ {0} /\ 1 < M
    OBVIOUS
  <2> QED BY ONLY <2>1, Residues
<1>3. Is([i \in 0 .. n |-> pw[i]])
  <2>1. \A i \in 0 .. n : i # 0 => i \in 1 .. K /\ i - 1 \in 0 .. n
    OBVIOUS
  <2> QED BY <1>1, <1>2, <2>1
<1>4. Is(power)
  BY <1>3
<1>5. Power(x, n, M) = power[n]
  BY DEF Power
<1> HIDE DEF power
<1>6. 0 \in P
  BY <1>1, <1>2, <1>4
<1>7. ASSUME NEW i \in Nat, i \in P PROVE i + 1 \in P
  <2>1. SUFFICES ASSUME i + 1 <= n PROVE power[i + 1] = pw[i + 1]
    OBVIOUS
  <2>2. i + 1 \in 0 .. n /\ i + 1 \in 1 .. K /\ i + 1 # 0 /\ (i + 1) - 1 = i /\ power[i] = pw[i]
    BY <1>7, <2>1
  <2>3. power[i + 1] = (power[i] * x) % M
    BY <1>4, <2>2
  <2>4. pw[i + 1] = (pw[i] * x) % M
    BY <1>1, <2>2
  <2> QED BY <2>2, <2>3, <2>4
<1>8. Nat \subseteq P
  <2> HIDE DEF P
  <2> QED BY ONLY <1>6, <1>7, Induction
<1> QED BY <1>5, <1>8

\* Powers are residues, one product after the other.
LEMMA PowerSteps ==
  ASSUME NEW x \in Nat, NEW M \in Nat \ {0, 1}
  PROVE  /\ Power(x, 0, M) = 1
         /\ \A n \in Nat : Power(x, n, M) \in 0 .. M - 1
         /\ \A n \in Nat : Power(x, n + 1, M) = (Power(x, n, M) * x) % M
<1>1. ASSUME NEW n \in Nat
      PROVE  /\ Power(x, 0, M) = 1 /\ Power(x, n, M) \in 0 .. M - 1
             /\ Power(x, n + 1, M) = (Power(x, n, M) * x) % M
  <2>1. n + 1 \in Nat /\ M \in Nat \ {0}
    OBVIOUS
  <2>2. PICK pw : Powers(x, M, n + 1, pw)
    BY <2>1, PowersExist
  <2>3. 0 \in 0 .. n + 1 /\ n \in 0 .. n + 1 /\ n + 1 \in 0 .. n + 1 /\ n + 1 \in 1 .. n + 1 /\ (n + 1) - 1 = n
    OBVIOUS
  <2>4. Power(x, 0, M) = pw[0] /\ Power(x, n, M) = pw[n] /\ Power(x, n + 1, M) = pw[n + 1]
    BY <2>1, <2>2, <2>3, PowerInTable
  <2>5. pw[n] \in 0 .. M - 1
    BY <2>1, <2>2, <2>3, PowersAdd
  <2>6. pw[0] = 1 /\ pw[n + 1] = (pw[n] * x) % M
    BY <2>2, <2>3 DEF Powers
  <2> QED BY <2>4, <2>5, <2>6
<1> QED BY <1>1, 0 \in Nat

\* The power of a sum.
LEMMA PowerSum ==
  ASSUME NEW x \in Nat, NEW M \in Nat \ {0, 1}, NEW i \in Nat, NEW j \in Nat
  PROVE  Power(x, i + j, M) = (Power(x, i, M) * Power(x, j, M)) % M
<1>1. i + j \in Nat /\ M \in Nat \ {0}
  OBVIOUS
<1>2. PICK pw : Powers(x, M, i + j, pw)
  BY <1>1, PowersExist
<1>3. i \in 0 .. i + j /\ j \in 0 .. i + j /\ i + j \in 0 .. i + j /\ i + j <= i + j
  OBVIOUS
<1>4. Power(x, i, M) = pw[i] /\ Power(x, j, M) = pw[j] /\ Power(x, i + j, M) = pw[i + j]
  BY <1>1, <1>2, <1>3, PowerInTable
<1>5. pw[i + j] = (pw[i] * pw[j]) % M
  BY <1>1, <1>2, <1>3, PowersAdd
<1> QED BY <1>4, <1>5

\* The even powers of a square root, and the odd ones.
LEMMA PowersOfRoot ==
  ASSUME NEW M \in Nat \ {0, 1}, NEW s \in 0 .. M - 1, NEW z \in 0 .. M - 1, Congruent(s * s, z, M)
  PROVE  \A k \in Nat : /\ Power(s, 2 * k, M) = Power(z, k, M)
                        /\ Congruent(Power(s, 2 * k + 1, M), s * Power(z, k, M), M)
<1> DEFINE P == {k \in Nat : Power(s, 2 * k, M) = Power(z, k, M)}
<1>1. M \in Nat \ {0} /\ s \in Nat /\ z \in Nat /\ s \in Int /\ z \in Int /\ s * s \in Int
  OBVIOUS
<1>2. /\ Power(s, 0, M) = 1 /\ Power(z, 0, M) = 1
      /\ \A n \in Nat : /\ Power(s, n, M) \in 0 .. M - 1 /\ Power(z, n, M) \in 0 .. M - 1
                        /\ Power(s, n + 1, M) = (Power(s, n, M) * s) % M
                        /\ Power(z, n + 1, M) = (Power(z, n, M) * z) % M
  BY <1>1, PowerSteps
<1>3. 0 \in P
  <2>1. 2 * 0 = 0
    OBVIOUS
  <2> QED BY <1>2, <2>1
<1>4. ASSUME NEW k \in Nat
      PROVE  /\ Power(s, 2 * k + 1, M) \in Int
             /\ Congruent(Power(s, 2 * k + 1, M), s * Power(s, 2 * k, M), M)
  <2> DEFINE a == Power(s, 2 * k, M)
  <2>1. 2 * k \in Nat /\ a \in Int /\ Power(s, 2 * k + 1, M) = (a * s) % M
    BY <1>2
  <2> HIDE DEF a
  <2>2. a * s \in Int /\ a * s = s * a
    BY <1>1, <2>1
  <2>3. (a * s) % M \in 0 .. M - 1 /\ Congruent((a * s) % M, a * s, M)
    BY <1>1, <2>2, CongruentRelation
  <2> QED BY <2>1, <2>2, <2>3 DEF a
<1>5. ASSUME NEW k \in Nat, k \in P PROVE k + 1 \in P
  <2> DEFINE a == Power(s, 2 * k, M)
             b == Power(s, 2 * k + 1, M)
             sa == s * a
             c == s * s
  <2>1. /\ 2 * k \in Nat /\ 2 * k + 1 \in Nat /\ (2 * k + 1) + 1 = 2 * (k + 1)
        /\ a \in Int /\ b \in Int /\ Power(z, k, M) = a
    BY <1>2, <1>5
  <2>2. Power(s, 2 * (k + 1), M) = (b * s) % M /\ Power(z, k + 1, M) = (a * z) % M
    BY <1>2, <2>1
  <2>3. Congruent(b, sa, M)
    BY <1>4
  <2>4. sa \in Int /\ sa * s = a * c /\ c \in Int /\ Congruent(c, z, M)
    BY <1>1, <2>1, SMT
  <2> HIDE DEF a, b, sa, c
  <2>5. Congruent(s, s, M) /\ Congruent(a, a, M)
    BY <1>1, CongruentRelation
  <2>6. Congruent(b * s, sa * s, M)
    BY ONLY <1>1, <2>1, <2>3, <2>4, <2>5, CongruentProduct
  <2>7. Congruent(a * c, a * z, M)
    BY ONLY <1>1, <2>1, <2>4, <2>5, CongruentProduct
  <2>8. (b * s) % M = (a * z) % M
    BY <2>4, <2>6, <2>7 DEF Congruent
  <2>9. Power(s, 2 * (k + 1), M) = Power(z, k + 1, M)
    BY <2>2, <2>8
  <2> QED BY <2>9
<1>6. Nat \subseteq P
  <2> HIDE DEF P
  <2> QED BY ONLY <1>3, <1>5, Induction
<1> QED BY <1>4, <1>6

-----------------------------------------------------------------------------
(* Powers of two and words.                                                *)

\* The powers of two around a modulus.
LEMMA ModulusPowers ==
  ASSUME NEW m, BarrettModulus(m), NEW n, n = GetMSB(m) - 2
  PROVE  /\ n \in 1 .. W - 6 /\ m \in Nat \ {0} /\ m \in Word
         /\ 2^n \in Nat \ {0} /\ 2^(n + 7) \in Nat \ {0}
         /\ 2 * 2^n <= m /\ m < 4 * 2^n
         /\ 2^(n + 7) = 128 * 2^n
         /\ 2^(2 * GetMSB(m) + 3) = 2^n * 2^(n + 7)
         /\ 2^(2 * GetMSB(m) + 3) = 2 * 2^(2 * GetMSB(m) + 2)
         /\ 2^W \in Nat \ {0} /\ 16 * 2^n <= 2^W
<1>1. n \in 1 .. W - 6 /\ GetMSB(m) = n + 2 /\ W \in Nat /\ W > 7
  BY WordAssumption DEF BarrettModulus
<1>2. \A i \in 0 .. 2 * W : 2^i \in Nat \ {0}
  BY PowerAssumption
<1>3. \A i, j \in 0 .. 2 * W : i + j <= 2 * W => 2^(i + j) = 2^i * 2^j
  BY PowerAssumption
<1>4. 2^1 = 2
  BY PowerAssumption
<1>5. 2^2 = 4 /\ 2^3 = 8 /\ 2^4 = 16 /\ 2^7 = 128
  <2>1. 2^(1 + 1) = 2^1 * 2^1
    BY <1>1, <1>3
  <2>2. 2^2 = 4
    BY <2>1, <1>4
  <2>3. 2^(2 + 1) = 2^2 * 2^1
    BY <1>1, <1>3
  <2>4. 2^(2 + 2) = 2^2 * 2^2
    BY <1>1, <1>3
  <2>5. 2^3 = 8 /\ 2^4 = 16
    BY <2>2, <2>3, <2>4, <1>4
  <2>6. 2^(3 + 4) = 2^3 * 2^4
    BY <1>1, <1>3
  <2> QED BY <2>2, <2>5, <2>6
<1>6. 2^n \in Nat \ {0} /\ 2^(n + 7) \in Nat \ {0} /\ 2^W \in Nat \ {0}
  BY <1>1, <1>2
<1>7. 2^(n + 1) = 2^n * 2 /\ 2^(n + 2) = 2^n * 4 /\ 2^(n + 7) = 2^n * 128
  <2>1. 2^(n + 1) = 2^n * 2^1
    <3>1. n \in 0 .. 2 * W /\ 1 \in 0 .. 2 * W /\ n + 1 <= 2 * W
      BY <1>1
    <3> QED BY ONLY <3>1, <1>3, Zenon
  <2>2. 2^(n + 2) = 2^n * 2^2
    <3>1. n \in 0 .. 2 * W /\ 2 \in 0 .. 2 * W /\ n + 2 <= 2 * W
      BY <1>1
    <3> QED BY ONLY <3>1, <1>3, Zenon
  <2>3. 2^(n + 7) = 2^n * 2^7
    <3>1. n \in 0 .. 2 * W /\ 7 \in 0 .. 2 * W /\ n + 7 <= 2 * W
      BY <1>1
    <3> QED BY ONLY <3>1, <1>3, Zenon
  <2> QED BY <2>1, <2>2, <2>3, <1>4, <1>5
<1>8. 2^(2 * GetMSB(m) + 3) = 2^n * 2^(n + 7)
  <2>1. 2^(n + (n + 7)) = 2^n * 2^(n + 7)
    <3>1. n \in 0 .. 2 * W /\ (n + 7) \in 0 .. 2 * W /\ n + (n + 7) <= 2 * W
      BY <1>1
    <3> QED BY ONLY <3>1, <1>3, Zenon
  <2>2. n + (n + 7) = 2 * GetMSB(m) + 3
    BY <1>1
  <2> QED BY <2>1, <2>2
<1>9. 2^(2 * GetMSB(m) + 3) = 2 * 2^(2 * GetMSB(m) + 2)
  <2>1. 2^(1 + (2 * GetMSB(m) + 2)) = 2^1 * 2^(2 * GetMSB(m) + 2)
    <3>1. 1 \in 0 .. 2 * W /\ (2 * GetMSB(m) + 2) \in 0 .. 2 * W /\ 1 + (2 * GetMSB(m) + 2) <= 2 * W
      BY <1>1
    <3> QED BY ONLY <3>1, <1>3, Zenon
  <2>2. 1 + (2 * GetMSB(m) + 2) = 2 * GetMSB(m) + 3
    BY <1>1
  <2> QED BY <2>1, <2>2, <1>4
<1>10. 2 * 2^n <= m /\ m < 4 * 2^n
  <2>1. 2^(n + 1) <= m /\ m < 2^(n + 2)
    <3>1. n + 1 = GetMSB(m) - 1 /\ n + 2 = GetMSB(m)
      BY <1>1
    <3> QED BY <3>1 DEF BarrettModulus
  <2>2. m \in Int
    BY <1>6 DEF BarrettModulus, Word
  <2> QED BY ONLY <2>1, <2>2, <1>7, <1>6
<1>11. 16 * 2^n <= 2^W
  <2> DEFINE k == W - n - 4
  <2>1. k \in 0 .. 2 * W /\ 2^k \in Nat \ {0}
    BY <1>1, <1>2
  <2>2. 2^(n + (4 + k)) = 2^n * 2^(4 + k)
    <3>1. n \in 0 .. 2 * W /\ (4 + k) \in 0 .. 2 * W /\ n + (4 + k) <= 2 * W
      BY <1>1
    <3> QED BY ONLY <3>1, <1>3, Zenon
  <2>3. 2^(4 + k) = 16 * 2^k
    <3>1. 4 \in 0 .. 2 * W /\ k \in 0 .. 2 * W /\ 4 + k <= 2 * W
      BY <1>1
    <3> HIDE DEF k
    <3>2. 2^(4 + k) = 2^4 * 2^k
      BY ONLY <3>1, <1>3, Zenon
    <3> QED BY <3>2, <1>5
  <2>4. n + (4 + k) = W
    BY <1>1
  <2>5. 2^W = 2^n * (16 * 2^k)
    BY <2>2, <2>3, <2>4
  <2> HIDE DEF k
  <2>6. 1 * (16 * 2^n) <= 2^k * (16 * 2^n)
    BY <2>1, <1>6, Monotone
  <2>7. 2^k * (16 * 2^n) = 2^n * (16 * 2^k)
    BY <2>1, <1>6
  <2> QED BY <2>5, <2>6, <2>7, <1>6
<1>12. m \in Nat \ {0} /\ m \in Word
  BY <1>6, <1>10 DEF BarrettModulus, Word
<1> QED BY <1>1, <1>6, <1>7, <1>8, <1>9, <1>10, <1>11, <1>12

\* The size of a word.
LEMMA WordSize == 2^W \in Nat \ {0} /\ Word = 0 .. 2^W - 1 /\ 0 \in Word
<1>1. W \in 0 .. 2 * W
  BY WordAssumption
<1>2. 2^W \in Nat \ {0}
  BY <1>1, PowerAssumption
<1> QED BY <1>2 DEF Word

\* Wrapping leaves a word as it is, and yields a word.
LEMMA WrapWord ==
  /\ \A x \in Word : Wrap(x) = x
  /\ \A x \in Int : Wrap(x) \in Word
  BY WordSize, SMT DEF Wrap

\* The two words of a product stand for it.
LEMMA ProductWords ==
  ASSUME NEW a \in Nat, NEW b \in Nat
  PROVE  GetD(MultD(a, b)) = a * b
<1> DEFINE p == a * b
<1>1. p \in Nat
  BY ProductInteger
<1>2. MultD(a, b) = [hi |-> p \div 2^W, lo |-> p % 2^W]
  BY DEF MultD
<1> HIDE DEF p
<1>3. p = 2^W * (p \div 2^W) + (p % 2^W) /\ p \div 2^W \in Nat /\ p % 2^W \in 0 .. 2^W - 1
  BY <1>1, WordSize, DivNat
<1>4. GetD(MultD(a, b)) = p
  BY <1>2, <1>3, WordSize DEF GetD
<1> QED BY <1>4 DEF p

\* The shift of a double word whose result fits a word.
LEMMA ShiftD ==
  ASSUME NEW p \in Nat, NEW s \in 1 .. W - 1, p \div 2^s < 2^W
  PROVE  RShiftD([hi |-> p \div 2^W, lo |-> p % 2^W], s) = p \div 2^s
<1> DEFINE N == 2^W  S == 2^s  T == 2^(W - s)
<1>1. N \in Nat \ {0} /\ S \in Nat \ {0} /\ T \in Nat \ {0} /\ N = S * T
  <2>1. W \in Nat /\ s \in 0 .. 2 * W /\ W - s \in 0 .. 2 * W /\ s + (W - s) = W
    BY WordAssumption
  <2>2. 2^(s + (W - s)) = 2^s * 2^(W - s)
    BY <2>1, PowerAssumption
  <2> QED BY <2>1, <2>2, PowerAssumption, WordSize
<1>2. p \div S < N
  OBVIOUS
<1>3. RShiftD([hi |-> p \div N, lo |-> p % N], s) = ((p % N) \div S) + (((p \div N) * T) % N)
  BY DEF RShiftD, Wrap
<1> HIDE DEF N, S, T
<1>4. PICK h \in Nat, l \in 0 .. N - 1 : h = p \div N /\ l = p % N /\ p = N * h + l
  BY ONLY <1>1, DivSplit, p \in Nat
<1>5. PICK c \in Nat, d \in 0 .. S - 1 : c = l \div S /\ l = S * c + d
  <2>1. l \in Nat
    BY <1>1
  <2>2. \E c \in Nat, d \in 0 .. S - 1 : c = l \div S /\ d = l % S /\ l = S * c + d
    BY ONLY <2>1, <1>1, DivSplit
  <2> QED BY <2>2
<1>6. p = (h * T + c) * S + d
  <2>1. N * h = (h * T) * S
    BY <1>1
  <2>2. (h * T + c) * S = (h * T) * S + S * c
    BY <1>1
  <2> QED BY <2>1, <2>2, <1>1, <1>4, <1>5
<1>7. h * T \in Nat /\ h * T + c \in Int
  BY <1>1, ProductInteger
<1>8. p \div S = h * T + c
  BY ONLY <1>1, <1>6, <1>7, DivUnique, p \in Int, d \in 0 .. S - 1
<1>9. h * T < N
  BY <1>2, <1>7, <1>8, <1>1
<1>10. (h * T) % N = h * T
  BY <1>1, <1>7, <1>9
<1>11. ((p % N) \div S) + (((p \div N) * T) % N) = p \div S
  <2>1. (p % N) \div S = c /\ (p \div N) * T = h * T
    BY ONLY <1>4, <1>5
  <2>2. c \in Nat
    OBVIOUS
  <2> QED BY ONLY <2>1, <2>2, <1>7, <1>8, <1>10
<1> QED BY <1>3, <1>11 DEF N, S, T
-----------------------------------------------------------------------------
(* Barrett reduction.                                                      *)

\* For a dividend x below 2^(2n + 2) whose leading part u fits a word, what is
\* left after subtracting the estimated quotient is below twice the modulus,
\* and the one conditional subtraction makes it the remainder.
LEMMA BarrettReduces ==
  ASSUME NEW m, BarrettModulus(m), NEW n, n = GetMSB(m) - 2,
         NEW x \in Nat, x < 2^(2 * GetMSB(m) + 2)
  PROVE  LET u == x \div 2^n
             v == (u * ComputeMu(m)) \div 2^(n + 7)
         IN  /\ u \in Nat /\ v \in Nat /\ ComputeMu(m) \in Word
             /\ v * m <= x
             /\ x - v * m \in Word
             /\ x - v * m < 2 * m
             /\ CorrectedOnce(x - v * m, m) = x % m
<1> DEFINE A   == 2^n
           B   == 2^(n + 7)
           mu0 == ComputeMu(m)
           u   == x \div A
           v   == (u * mu0) \div B
<1>1. /\ A \in Nat \ {0} /\ B \in Nat \ {0} /\ m \in Nat \ {0} /\ 2 * A <= m /\ m < 4 * A
      /\ 2^(2 * GetMSB(m) + 3) = A * B /\ 2^(2 * GetMSB(m) + 3) = 2 * 2^(2 * GetMSB(m) + 2)
      /\ 2^W \in Nat \ {0} /\ 16 * A <= 2^W
  BY ModulusPowers
<1>2. mu0 \in Word /\ mu0 \in Nat /\ mu0 = (A * B) \div m
  <2>1. A * B \in Nat
    BY <1>1, ProductInteger
  <2>2. (A * B) \div m \in Nat /\ (A * B) \div m < 2^W
    BY <2>1, <1>1, DivNat DEF BarrettModulus
  <2>3. (A * B) \div m \in Word
    BY <2>2, <1>1 DEF Word
  <2>4. mu0 = Wrap((A * B) \div m)
    BY <1>1 DEF ComputeMu
  <2> QED BY <2>2, <2>3, <2>4, WrapWord
<1>3. 2 * x < A * B
  <2>1. 2^(2 * GetMSB(m) + 2) \in Int
    <3>1. 2 * GetMSB(m) + 2 \in 0 .. 2 * W
      BY WordAssumption DEF BarrettModulus
    <3> QED BY <3>1, PowerAssumption
  <2> QED BY <2>1, <1>1
<1> HIDE DEF A, B, mu0
<1>4. u \in Nat /\ u = x \div A
  BY <1>1, DivNat
<1>5. v \in Nat /\ v = (u * mu0) \div B
  <2>1. u * mu0 \in Nat
    BY <1>2, <1>4, ProductInteger
  <2> QED BY <2>1, <1>1, DivNat
<1> HIDE DEF u, v
<1>6. v * m <= x /\ x < v * m + 2 * m
  BY ONLY <1>1, <1>2, <1>3, <1>4, <1>5, BarrettEstimate, x \in Nat
<1>7. v * m \in Nat
  BY <1>1, <1>5, ProductInteger
<1>8. x - v * m \in 0 .. 2 * m - 1
  BY <1>1, <1>6, <1>7
<1>9. x - v * m \in Word
  BY <1>1, <1>8 DEF Word
<1>10. CorrectedOnce(x - v * m, m) = x % m
  <2>1. CASE x - v * m < m
    <3>1. x = v * m + (x - v * m) /\ x - v * m \in 0 .. m - 1
      BY <2>1, <1>1, <1>7, <1>8
    <3> DEFINE r == x - v * m
    <3>2. x = v * m + r /\ r \in 0 .. m - 1
      BY <3>1
    <3> HIDE DEF r
    <3>3. x % m = r
      BY ONLY <3>2, <1>1, <1>5, DivUnique, x \in Int
    <3>4. x % m = x - v * m
      BY <3>3 DEF r
    <3> QED BY <3>1, <3>4, <1>1 DEF CorrectedOnce
  <2>2. CASE x - v * m >= m
    <3>1. x - v * m - m \in 0 .. m - 1
      BY <2>2, <1>1, <1>7, <1>8
    <3>2. x = (v + 1) * m + (x - v * m - m)
      <4>1. (v + 1) * m = v * m + m
        BY <1>1, <1>5
      <4> QED BY <4>1, <1>1, <1>7
    <3>3. v + 1 \in Int
      BY <1>5
    <3>4. x % m = x - v * m - m
      BY ONLY <3>1, <3>2, <3>3, <1>1, DivUnique, x \in Int
    <3> QED BY <2>2, <3>4 DEF CorrectedOnce
  <2> QED BY <2>1, <2>2, <1>1, <1>7
<1> QED BY <1>2, <1>4, <1>5, <1>6, <1>8, <1>9, <1>10, <1>1 DEF A, B, mu0, u, v

\* Mod with mu, on a word below 2^(2n + 2), is the remainder.
THEOREM BarrettModExact ==
  ASSUME NEW m, BarrettModulus(m), NEW a \in Word, a < 2^(2 * GetMSB(m) + 2)
  PROVE  ModBarrett(a, m, ComputeMu(m)) = a % m
<1> DEFINE n   == GetMSB(m) - 2
           mu0 == ComputeMu(m)
           u   == a \div 2^n
           v   == (u * mu0) \div 2^(n + 7)
<1>1. a \in Nat
  BY WordSize
<1>2. /\ n \in 1 .. W - 6 /\ 2^n \in Nat \ {0} /\ m \in Nat \ {0}
  BY ModulusPowers
<1>3. /\ u \in Nat /\ v \in Nat /\ mu0 \in Word /\ a - v * m \in Word
      /\ CorrectedOnce(a - v * m, m) = a % m
  BY <1>1, BarrettReduces
<1>4. RShiftD([hi |-> 0, lo |-> a], n) = u
  <2>1. 2^(W - n) \in Nat
    <3>1. W - n \in 0 .. 2 * W
      BY <1>2, WordAssumption
    <3> QED BY <3>1, PowerAssumption
  <2>2. 0 * 2^(W - n) = 0
    BY <2>1
  <2>3. Wrap(0 * 2^(W - n)) = 0
    BY <2>2, WrapWord, WordSize
  <2> QED BY <2>3, <1>3 DEF RShiftD
<1>5. GetD(MultD(u, mu0)) = u * mu0
  BY <1>3, WordSize, ProductWords
<1>6. ModBarrett(a, m, mu0) = CorrectedOnce(Wrap(a - v * m), m)
  BY <1>4, <1>5 DEF ModBarrett, ModMu
<1>7. Wrap(a - v * m) = a - v * m
  BY <1>3, WrapWord
<1> QED BY <1>3, <1>6, <1>7
\* The product of two residues is a dividend, and its leading part a word.
LEMMA ResidueProduct ==
  ASSUME NEW m, BarrettModulus(m), NEW a \in 0 .. m - 1, NEW b \in 0 .. m - 1
  PROVE  /\ a * b \in Nat
         /\ a * b < 2^(2 * GetMSB(m) + 2)
         /\ (a * b) \div 2^(GetMSB(m) - 2) < 2^W
         /\ (a * b) \div 2^W < 2^W
<1> DEFINE n == GetMSB(m) - 2
           A == 2^n
           B == 2^(n + 7)
           N == 2^W
           K == 2^(2 * GetMSB(m) + 2)
           p == a * b
<1>1. /\ A \in Nat \ {0} /\ B = 128 * A /\ m \in Nat \ {0} /\ m < 4 * A
      /\ A * B = 2 * K /\ N \in Nat \ {0} /\ 16 * A <= N /\ m \in Word
  BY ModulusPowers
<1>2. K \in Int
  <2>1. 2 * GetMSB(m) + 2 \in 0 .. 2 * W
    BY WordAssumption DEF BarrettModulus
  <2> QED BY <2>1, PowerAssumption
<1>3. p \in Nat
  BY ProductInteger, <1>1
<1> HIDE DEF A, B, N, K
<1>4. p <= 4 * A * m /\ 4 * A * m <= 16 * (A * A)
  <2>1. a * b <= m * b
    BY <1>1, Monotone
  <2>2. b * m <= (4 * A) * m
    BY <1>1, Monotone
  <2>3. m * (4 * A) <= (4 * A) * (4 * A)
    BY <1>1, Monotone
  <2>4. m * b = b * m /\ m * (4 * A) = 4 * A * m /\ (4 * A) * (4 * A) = 16 * (A * A)
    BY <1>1
  <2>5. m * b \in Int /\ 4 * A * m \in Int /\ A * A \in Int
    BY <1>1
  <2> QED BY <2>1, <2>2, <2>3, <2>4, <2>5, <1>3
<1>5. p < K
  <2>1. A * B = 128 * (A * A) /\ A * A \in Nat \ {0} /\ 4 * A * m \in Int
    BY <1>1
  <2> HIDE DEF p
  <2> QED BY ONLY <2>1, <1>1, <1>2, <1>3, <1>4
<1>6. p \div A < N
  <2>1. 4 * A * m < 16 * (A * A)
    <3>1. m * (4 * A) <= (4 * A - 1) * (4 * A)
      BY <1>1, Monotone
    <3>2. (4 * A - 1) * (4 * A) = 16 * (A * A) - 4 * A /\ m * (4 * A) = 4 * A * m
      BY <1>1
    <3>3. A * A \in Int /\ 4 * A * m \in Int
      BY <1>1
    <3> QED BY ONLY <3>1, <3>2, <3>3, <1>1
  <2>2. A * A \in Int /\ 4 * A * m \in Int /\ (16 * A) * A = 16 * (A * A) /\ 16 * A \in Nat
    BY <1>1
  <2> HIDE DEF p
  <2>3. p < (16 * A) * A
    BY ONLY <2>1, <2>2, <1>3, <1>4
  <2>4. p \div A \in Nat /\ p \div A < 16 * A
    BY ONLY <2>2, <2>3, <1>1, <1>3, DivBelow
  <2> QED BY ONLY <2>2, <2>4, <1>1
<1>7. p \div N < N
  <2>1. a * b <= N * b
    BY <1>1, Monotone DEF Word, N
  <2>2. b < N /\ b \in Nat
    BY <1>1 DEF Word, N
  <2>3. b * N <= (N - 1) * N
    BY <2>2, <1>1, Monotone
  <2>4. N * b = b * N /\ (N - 1) * N = N * N - N /\ N * N \in Int /\ b * N \in Int
    BY <1>1
  <2>5. p < N * N
    BY ONLY <2>1, <2>3, <2>4, <1>1, <1>3 DEF p
  <2> HIDE DEF p
  <2> QED BY ONLY <2>5, <1>1, <1>3, DivBelow
<1> QED BY <1>3, <1>5, <1>6, <1>7 DEF A, N, K, p, n

\* Barrett multiplication of residues is exact: the overloads with a wider
\* integer, in const and in-place form.
THEOREM BarrettMulExact ==
  ASSUME NEW m, BarrettModulus(m), NEW a \in 0 .. m - 1, NEW b \in 0 .. m - 1
  PROVE  ModMulFastMu(a, b, m, ComputeMu(m)) = (a * b) % m
<1> DEFINE n   == GetMSB(m) - 2
           mu0 == ComputeMu(m)
           p   == a * b
           u   == p \div 2^n
           v   == (u * mu0) \div 2^(n + 7)
<1>1. /\ n \in 1 .. W - 6 /\ 2^n \in Nat \ {0} /\ m \in Nat \ {0} /\ a \in Nat /\ b \in Nat
      /\ W \in Nat
  BY ModulusPowers, WordAssumption
<1>2. p \in Nat /\ p < 2^(2 * GetMSB(m) + 2) /\ u < 2^W
  BY ResidueProduct
<1>3. /\ u \in Nat /\ v \in Nat /\ mu0 \in Word /\ p - v * m \in Word
      /\ CorrectedOnce(p - v * m, m) = p % m
  <2> HIDE DEF p
  <2> QED BY <1>2, BarrettReduces
<1>4. RShiftD(MultD(a, b), n) = u
  <2>1. MultD(a, b) = [hi |-> p \div 2^W, lo |-> p % 2^W]
    BY DEF MultD
  <2>2. n \in 1 .. W - 1
    BY <1>1
  <2> HIDE DEF p
  <2> QED BY <1>2, <2>1, <2>2, ShiftD
<1>5. GetD(MultD(u, mu0)) = u * mu0
  <2>1. mu0 \in Nat
    BY <1>3, WordSize
  <2> HIDE DEF u, mu0
  <2> QED BY <1>3, <2>1, ProductWords
<1>6. ModMulFastMu(a, b, m, mu0) = CorrectedOnce(Wrap(p - m * v), m)
  BY <1>4, <1>5 DEF ModMulFastMu
<1>7. Wrap(p - m * v) = p - v * m
  <2>1. m * v = v * m
    BY <1>1, <1>3
  <2> QED BY <2>1, <1>3, WrapWord
<1> QED BY <1>3, <1>6, <1>7
-----------------------------------------------------------------------------
(* The same without a wider integer.                                       *)

\* Where both shifts fit, the quotient's shift is below the word.
LEMMA ShiftRange ==
  ASSUME NEW m, BarrettModulus(m), ShiftsFit(m)
  PROVE  GetMSB(m) - 2 \in 1 .. W - 8
<1>1. GetMSB(m) \in 3 .. W - 4 /\ GetMSB(m) + 5 < W
  BY DEF BarrettModulus, ShiftsFit
<1> DEFINE g == GetMSB(m)
<1> HIDE DEF g
<1>2. g - 2 \in 1 .. W - 8
  BY <1>1, WordAssumption DEF g
<1> QED BY <1>2 DEF g

\* Reducing a dividend without a wider integer: the same remainder.
LEMMA BarrettModDExact ==
  ASSUME NEW m, BarrettModulus(m), ShiftsFit(m), NEW a \in Word, a < 2^(2 * GetMSB(m) + 2)
  PROVE  ModMuD(a, m, ComputeMu(m), GetMSB(m) - 2) = a % m
<1> DEFINE n   == GetMSB(m) - 2
           mu0 == ComputeMu(m)
           u   == a \div 2^n
           v   == (u * mu0) \div 2^(n + 7)
<1>1. a \in Nat /\ a < 2^W
  BY WordSize
<1>2. n \in 1 .. W - 8 /\ 2^n \in Nat \ {0} /\ m \in Nat \ {0} /\ W \in Nat
  <2>1. n \in 1 .. W - 6 /\ 2^n \in Nat \ {0} /\ m \in Nat \ {0}
    BY ModulusPowers
  <2> QED BY ONLY <2>1, ShiftRange, BarrettModulus(m), ShiftsFit(m), WordAssumption DEF n
<1>3. /\ u \in Nat /\ v \in Nat /\ mu0 \in Word /\ v * m <= a /\ a - v * m \in Word
      /\ CorrectedOnce(a - v * m, m) = a % m
  BY <1>1, BarrettReduces
<1>4. RShiftD([hi |-> 0, lo |-> a], n) = u
  <2>1. 2^(W - n) \in Nat
    <3>1. W - n \in 0 .. 2 * W
      BY <1>2
    <3> QED BY <3>1, PowerAssumption
  <2>2. 0 * 2^(W - n) = 0
    BY <2>1
  <2>3. Wrap(0 * 2^(W - n)) = 0
    BY <2>2, WrapWord, WordSize
  <2> QED BY <2>3, <1>3 DEF RShiftD
<1>5. v * m \in Nat /\ v <= v * m
  <2>1. 1 * v <= m * v
    BY <1>2, <1>3, Monotone
  <2>2. m * v = v * m /\ v * m \in Nat
    BY <1>2, <1>3
  <2> QED BY <2>1, <2>2, <1>3
<1>6. RShiftD(MultD(u, mu0), n + 7) = v
  <2>1. u * mu0 \in Nat
    <3>1. mu0 \in Nat
      BY <1>3, WordSize
    <3> QED BY <1>3, <3>1, ProductInteger
  <2>2. v < 2^W
    BY <1>1, <1>3, <1>5, WordSize
  <2>3. MultD(u, mu0) = [hi |-> (u * mu0) \div 2^W, lo |-> (u * mu0) % 2^W]
    BY DEF MultD
  <2>4. n + 7 \in 1 .. W - 1
    BY <1>2
  <2> HIDE DEF u, mu0
  <2> QED BY <2>1, <2>2, <2>3, <2>4, ShiftD
<1>7. MultD(v, m).lo = v * m
  <2>1. v * m \in Word
    BY <1>1, <1>3, <1>5, WordSize
  <2>2. MultD(v, m).lo = Wrap(v * m)
    BY DEF MultD, Wrap
  <2> QED BY <2>1, <2>2, WrapWord
<1>8. ModMuD(a, m, mu0, n) = CorrectedOnce(Wrap(a - v * m), m)
  BY <1>4, <1>6, <1>7 DEF ModMuD
<1>9. Wrap(a - v * m) = a - v * m
  BY <1>3, WrapWord
<1> QED BY <1>3, <1>8, <1>9

\* Barrett multiplication of residues is exact without a wider integer, too.
THEOREM BarrettMulDExact ==
  ASSUME NEW m, BarrettModulus(m), ShiftsFit(m), NEW a \in 0 .. m - 1, NEW b \in 0 .. m - 1
  PROVE  ModMulFastMuD(a, b, m, ComputeMu(m)) = (a * b) % m
<1> DEFINE n   == GetMSB(m) - 2
           mu0 == ComputeMu(m)
           p   == a * b
           u   == p \div 2^n
           v   == (u * mu0) \div 2^(n + 7)
<1>1. /\ n \in 1 .. W - 8 /\ 2^n \in Nat \ {0} /\ m \in Nat \ {0} /\ a \in Nat /\ b \in Nat
      /\ W \in Nat /\ m \in Word
  <2>1. n \in 1 .. W - 6 /\ 2^n \in Nat \ {0} /\ m \in Nat \ {0} /\ m \in Word
    BY ModulusPowers
  <2>2. n \in 1 .. W - 8 /\ W \in Nat
    BY ONLY <2>1, ShiftRange, BarrettModulus(m), ShiftsFit(m), WordAssumption DEF n
  <2> QED BY <2>1, <2>2
<1>2. p \in Nat /\ p < 2^(2 * GetMSB(m) + 2) /\ u < 2^W
  BY ResidueProduct
<1>3. /\ u \in Nat /\ v \in Nat /\ mu0 \in Word /\ v * m <= p /\ p - v * m \in Word
      /\ CorrectedOnce(p - v * m, m) = p % m
  <2> HIDE DEF p
  <2> QED BY <1>2, BarrettReduces
<1>4. RShiftD(MultD(a, b), n) = u
  <2>1. MultD(a, b) = [hi |-> p \div 2^W, lo |-> p % 2^W]
    BY DEF MultD
  <2>2. n \in 1 .. W - 1
    BY <1>1
  <2> HIDE DEF p
  <2> QED BY <1>2, <2>1, <2>2, ShiftD
<1>5. v < 2^W
  <2>1. a * b <= m * b
    BY <1>1, Monotone
  <2>2. v * m <= b * m
    <3>1. m * b = b * m /\ b * m \in Int /\ v * m \in Int
      BY <1>1, <1>3
    <3> QED BY <3>1, <2>1, <1>2, <1>3
  <2> HIDE DEF v
  <2>3. v <= b
    BY <2>2, <1>1, <1>3, CancelLE
  <2> QED BY <2>3, <1>1, <1>3, WordSize
<1>6. RShiftD(MultD(u, mu0), n + 7) = v
  <2>1. u * mu0 \in Nat
    <3>1. mu0 \in Nat
      BY <1>3, WordSize
    <3> HIDE DEF u, mu0
    <3> QED BY <1>3, <3>1, ProductInteger
  <2>2. MultD(u, mu0) = [hi |-> (u * mu0) \div 2^W, lo |-> (u * mu0) % 2^W]
    BY DEF MultD
  <2>3. n + 7 \in 1 .. W - 1
    BY <1>1
  <2> HIDE DEF u, mu0
  <2> QED BY <2>1, <1>5, <2>2, <2>3, ShiftD
<1>7. SubtractD(MultD(a, b), MultD(v, m)).lo = p - v * m
  <2>1. SubtractD(MultD(a, b), MultD(v, m)).lo = ((p % 2^W) - ((v * m) % 2^W)) % 2^W
    BY DEF SubtractD, MultD, Wrap
  <2>2. v * m \in Nat
    BY <1>1, <1>3, ProductInteger
  <2>3. p - v * m \in 0 .. 2^W - 1
    BY <1>3 DEF Word
  <2> DEFINE y == v * m
  <2> HIDE DEF p, v, y
  <2>4. ((p % 2^W) - (y % 2^W)) % 2^W = p - y
    BY <1>2, <2>2, <2>3, WordSize, DifferenceMod DEF y
  <2> QED BY <2>1, <2>4 DEF y
<1>8. ModMulFastMuD(a, b, m, mu0) = CorrectedOnce(p - v * m, m)
  BY <1>4, <1>6, <1>7 DEF ModMulFastMuD
<1> QED BY <1>3, <1>8

-----------------------------------------------------------------------------
(* Sums, differences and products by a constant.                           *)

\* The sum and the difference of two residues, with one conditional step, for
\* moduli that leave two bits of a word.
LEMMA SumsFit ==
  ASSUME NEW m \in Nat \ {0}, 4 * m < 2^W, NEW a \in 0 .. m - 1, NEW b \in 0 .. m - 1
  PROVE  /\ ModAddFast(a, b, m) = (a + b) % m
         /\ ModSubFast(a, b, m) = (a - b) % m
<1>1. m \in Nat \ {0} /\ 2^W \in Nat \ {0} /\ 4 * m < 2^W
  BY WordSize
<1>2. Wrap(a + b) = a + b
  <2>1. a + b \in Word
    BY <1>1 DEF Word
  <2> QED BY <2>1, WrapWord
<1>3. ModAddFast(a, b, m) = (a + b) % m
  <2>1. CASE a + b < m
    BY <2>1, <1>1, <1>2 DEF ModAddFast, CorrectedOnce
  <2>2. CASE a + b >= m
    <3> DEFINE p == a + b
               r == p - m
    <3>1. p = 1 * m + r /\ r \in 0 .. m - 1 /\ p \in Int
      BY <2>2, <1>1
    <3> HIDE DEF p, r
    <3>2. p % m = r
      BY ONLY <3>1, <1>1, DivUnique, 1 \in Int
    <3> USE DEF p, r
    <3> QED BY <2>2, <3>2, <1>2 DEF ModAddFast, CorrectedOnce
  <2> QED BY <2>1, <2>2, <1>1
<1>4. ModSubFast(a, b, m) = (a - b) % m
  <2>1. CASE a >= b
    BY <2>1, <1>1 DEF ModSubFast
  <2>2. CASE a < b
    <3> DEFINE p == a - b
               r == a + m - b
    <3>1. p = (-1) * m + r /\ r \in 0 .. m - 1 /\ p \in Int /\ -1 \in Int
      BY <2>2, <1>1
    <3>2. r \in Word
      BY <3>1, <1>1 DEF Word
    <3> HIDE DEF p, r
    <3>3. p % m = r
      BY ONLY <3>1, <1>1, DivUnique
    <3>4. Wrap(r) = r
      BY <3>2, WrapWord
    <3> QED BY <2>2, <3>3, <3>4 DEF ModSubFast, p, r
  <2> QED BY <2>1, <2>2, <1>1
<1> QED BY <1>3, <1>4

\* The moduli of the library leave them.
LEMMA SumsExact ==
  ASSUME NEW m, BarrettModulus(m), NEW a \in 0 .. m - 1, NEW b \in 0 .. m - 1
  PROVE  /\ ModAddFast(a, b, m) = (a + b) % m
         /\ ModSubFast(a, b, m) = (a - b) % m
<1>1. m \in Nat \ {0} /\ 4 * m < 2^W
  BY ModulusPowers
<1> QED BY ONLY <1>1, SumsFit, a \in 0 .. m - 1, b \in 0 .. m - 1

\* The product of any word by a residue known in advance.
LEMMA ShoupFits ==
  ASSUME NEW m \in Nat \ {0}, 4 * m < 2^W, NEW a \in Word, NEW b \in 0 .. m - 1
  PROVE  ModMulFastConst(a, b, m, PrepModMulConst(b, m)) = (a * b) % m
<1> DEFINE N == 2^W
           H == 2^(W - 1)
           c == PrepModMulConst(b, m)
           v == (a * c) \div N
           y == a * b - (v + 1) * m
<1>1. m \in Nat \ {0} /\ N \in Nat \ {0} /\ 4 * m < N /\ a \in Nat /\ a < N /\ b \in Nat
  <2>1. m \in Nat \ {0} /\ N \in Nat \ {0} /\ 4 * m < N
    BY WordSize
  <2>2. a \in Nat /\ a < N
    BY ONLY WordSize, a \in Word
  <2> QED BY ONLY <2>1, <2>2, b \in 0 .. m - 1
<1>2. H \in Nat \ {0} /\ N = 2 * H
  <2>1. 1 \in 0 .. 2 * W /\ W - 1 \in 0 .. 2 * W /\ 1 + (W - 1) <= 2 * W /\ 1 + (W - 1) = W
    BY WordAssumption
  <2>2. 2^(1 + (W - 1)) = 2^1 * 2^(W - 1)
    BY ONLY <2>1, PowerAssumption, Zenon
  <2> QED BY <2>1, <2>2, PowerAssumption
<1> HIDE DEF H
<1>3. c \in Nat /\ c < N /\ c = (b * N) \div m
  <2>1. b * N \in Nat
    BY <1>1, ProductInteger
  <2>2. b * N < N * m
    <3>1. b * N <= (m - 1) * N
      BY <1>1, Monotone
    <3>2. (m - 1) * N = N * m - N /\ N * m \in Int /\ b * N \in Int
      BY <1>1
    <3> QED BY <3>1, <3>2, <1>1
  <2>3. (b * N) \div m \in Nat /\ (b * N) \div m < N
    BY <2>1, <2>2, <1>1, DivBelow
  <2>4. (b * N) \div m \in Word
    BY ONLY <2>3, <1>1 DEF Word, N
  <2> QED BY <2>3, <2>4, WrapWord DEF PrepModMulConst
<1> HIDE DEF c
<1>4. v \in Nat /\ v = (a * c) \div N
  <2>1. a * c \in Nat
    BY <1>1, <1>3, ProductInteger
  <2> QED BY <2>1, <1>1, DivNat
<1> HIDE DEF v, N
<1>5. v * m <= a * b /\ a * b < v * m + 2 * m
  <2>1. a \in 0 .. N - 1
    BY ONLY <1>1
  <2> QED BY ONLY <2>1, <1>1, <1>3, <1>4, b \in 0 .. m - 1, ShoupEstimate
<1>6. a * b \in Nat /\ v * m \in Nat /\ (v + 1) * m = v * m + m
  BY <1>1, <1>4, ProductInteger
<1>7. y \in Int /\ -m <= y /\ y < m /\ a * b = (v + 1) * m + y
  BY ONLY <1>1, <1>5, <1>6 DEF y
<1>8. v + 1 \in Word
  <2>1. a * b <= N * b - b
    <3>1. a * b <= (N - 1) * b
      BY <1>1, Monotone
    <3>2. (N - 1) * b = N * b - b
      BY <1>1
    <3> QED BY <3>1, <3>2
  <2>2. v * m < (N - 1) * m
    <3>1. b * (N - 1) <= (m - 1) * (N - 1)
      BY <1>1, Monotone
    <3>2. b * (N - 1) = N * b - b /\ (m - 1) * (N - 1) = (N - 1) * m - (N - 1)
      BY <1>1
    <3>3. (N - 1) * m \in Int /\ N * b \in Int
      BY <1>1
    <3> QED BY ONLY <3>1, <3>2, <3>3, <2>1, <1>1, <1>5, <1>6
  <2>3. v < N - 1
    BY <2>2, <1>1, <1>4, Cancel
  <2> QED BY <2>3, <1>1, <1>4 DEF Word, N
<1>9. ModMulFastConst(a, b, m, c) =
        LET yprime == Signed(Wrap(y)) IN Wrap(IF yprime >= 0 THEN yprime ELSE yprime + m)
  <2>1. MultDHi(a, c) = v
    BY <1>4 DEF MultDHi, MultD, N
  <2>2. Wrap(v + 1) = v + 1
    BY <1>8, WrapWord
  <2> QED BY <2>1, <2>2 DEF ModMulFastConst, y
<1> HIDE DEF y
<1>10. CASE y >= 0
  <2>1. y \in Word /\ y < H
    BY <1>10, <1>1, <1>2, <1>7 DEF Word, N
  <2>2. ModMulFastConst(a, b, m, c) = y
    BY <2>1, <1>9, <1>10, WrapWord DEF Signed, H
  <2>3. (a * b) % m = y
    <3>1. y \in 0 .. m - 1 /\ v + 1 \in Int /\ a * b \in Int
      BY <1>10, <1>1, <1>4, <1>6, <1>7
    <3> DEFINE p == a * b
               q == v + 1
    <3>2. p = q * m + y /\ p \in Int /\ q \in Int
      BY <3>1, <1>7
    <3> HIDE DEF p, q
    <3>3. p % m = y
      BY ONLY <3>1, <3>2, <1>1, DivUnique
    <3> QED BY <3>3 DEF p
  <2> QED BY <2>2, <2>3 DEF c
<1>11. CASE y < 0
  <2>1. y + N \in Word /\ ~(y + N < H)
    BY <1>11, <1>1, <1>2, <1>7 DEF Word, N
  <2>2. Wrap(y) = y + N
    <3> DEFINE r == y + N
    <3>1. y = (-1) * N + r /\ r \in 0 .. N - 1 /\ -1 \in Int
      BY <2>1, <1>1, <1>7 DEF Word, N
    <3> HIDE DEF r
    <3>2. y % N = r
      BY ONLY <3>1, <1>1, <1>7, DivUnique
    <3> QED BY <3>2 DEF Wrap, N, r
  <2>3. Signed(Wrap(y)) = y
    BY <2>1, <2>2, <1>1, <1>7 DEF Signed, H, N
  <2>4. y + m \in Word /\ y + m \in 0 .. m - 1
    BY <1>11, <1>1, <1>7 DEF Word, N
  <2>5. ModMulFastConst(a, b, m, c) = y + m
    <3>1. ~(y >= 0) /\ Wrap(y + m) = y + m
      BY <2>4, <1>7, <1>11, WrapWord
    <3> QED BY ONLY <3>1, <2>3, <1>9
  <2>6. (a * b) % m = y + m
    <3> DEFINE p == a * b
               r == y + m
    <3>1. p = v * m + r /\ p \in Int /\ r \in 0 .. m - 1
      BY <2>4, <1>6, <1>7, <1>1
    <3> HIDE DEF p, r
    <3>2. p % m = r
      BY ONLY <3>1, <1>1, <1>4, DivUnique
    <3> QED BY <3>2 DEF p, r
  <2> QED BY <2>5, <2>6 DEF c
<1> QED BY <1>7, <1>10, <1>11

\* That product for the moduli of the library.
THEOREM ShoupMulExact ==
  ASSUME NEW m, BarrettModulus(m), NEW a \in Word, NEW b \in 0 .. m - 1
  PROVE  ModMulFastConst(a, b, m, PrepModMulConst(b, m)) = (a * b) % m
<1>1. m \in Nat \ {0} /\ 4 * m < 2^W
  BY ModulusPowers
<1> QED BY ONLY <1>1, ShoupFits, a \in Word, b \in 0 .. m - 1

\* The conditional reductions leave the remainder of any dividend.
LEMMA ReducedExact ==
  ASSUME NEW m, BarrettModulus(m), NEW a \in Word, a < 2^(2 * GetMSB(m) + 2)
  PROVE  /\ Reduced(a, m, ComputeMu(m)) = a % m
         /\ ShiftsFit(m) => ReducedD(a, m, ComputeMu(m)) = a % m
<1>1. m \in Nat \ {0} /\ a \in Nat
  BY ModulusPowers, WordSize
<1>2. CASE a >= m
  BY <1>2, BarrettModExact, BarrettModDExact DEF Reduced, ReducedD
<1>3. CASE ~(a >= m)
  <2>1. a % m = a
    BY <1>1, <1>3, Remainders
  <2> QED BY <1>3, <2>1 DEF Reduced, ReducedD
<1> QED BY <1>2, <1>3

-----------------------------------------------------------------------------
(* Powers of two, and the bits of a word.                                  *)

\* The powers of two up to the size of a word.
LEMMA PowersOfTwo ==
  /\ W \in Nat /\ W > 7 /\ 2^0 = 1
  /\ \A i \in 0 .. W : 2^i \in Nat \ {0} /\ 2^i <= 2^W
  /\ \A i \in 1 .. W : 2^i = 2 * 2^(i - 1)
<1>1. W \in Nat /\ W > 7
  BY WordAssumption
<1>2. \A i \in 0 .. W : i \in 0 .. 2 * W /\ 2^i \in Nat \ {0}
  BY <1>1, PowerAssumption
<1>3. \A i, j \in 0 .. 2 * W : i + j <= 2 * W => 2^(i + j) = 2^i * 2^j
  BY PowerAssumption
<1>4. 2^1 = 2
  BY PowerAssumption
<1>5. 2^0 = 1
  <2>1. 0 \in 0 .. 2 * W /\ 1 \in 0 .. 2 * W /\ 0 + 1 <= 2 * W
    BY <1>1
  <2>2. 2^(0 + 1) = 2^0 * 2^1
    BY ONLY <2>1, <1>3, Zenon
  <2>3. 2^0 \in Nat /\ 2 = 2^0 * 2
    BY <1>1, <1>2, <1>4, <2>2
  <2> QED BY <2>3
<1>6. ASSUME NEW i \in 0 .. W PROVE 2^i <= 2^W
  <2> DEFINE j == W - i
  <2>1. j \in 0 .. W /\ i + j = W
    BY <1>1
  <2> HIDE DEF j
  <2>2. i \in 0 .. 2 * W /\ j \in 0 .. 2 * W /\ i + j <= 2 * W
    BY <1>1, <2>1
  <2>3. 2^(i + j) = 2^i * 2^j
    BY ONLY <2>2, <1>3, Zenon
  <2>4. 2^i \in Nat \ {0} /\ 2^j \in Nat \ {0}
    BY <1>2, <2>1
  <2>5. 1 * 2^i <= 2^j * 2^i
    BY <2>4, Monotone
  <2>6. 2^j * 2^i = 2^i * 2^j
    BY <2>4
  <2> QED BY <2>1, <2>3, <2>4, <2>5, <2>6
<1>7. ASSUME NEW i \in 1 .. W PROVE 2^i = 2 * 2^(i - 1)
  <2> DEFINE j == i - 1
  <2>1. j \in 0 .. W /\ 1 + j = i
    BY <1>1
  <2> HIDE DEF j
  <2>2. 1 \in 0 .. 2 * W /\ j \in 0 .. 2 * W /\ 1 + j <= 2 * W
    BY <1>1, <2>1
  <2>3. 2^(1 + j) = 2^1 * 2^j
    BY ONLY <2>2, <1>3, Zenon
  <2> QED BY <2>1, <2>3, <1>4 DEF j
<1> QED BY <1>1, <1>2, <1>5, <1>6, <1>7

\* GetMSB is the length of a word.
LEMMA Length ==
  ASSUME NEW p \in Word
  PROVE  GetMSB(p) \in 0 .. W /\ p < 2^GetMSB(p)
<1> DEFINE Has(k) == \E n \in 0 .. W : p < 2^n /\ (n = 0 \/ 2^(n - 1) <= p)
           P == {k \in Nat : k <= W /\ p < 2^k => Has(k)}
<1>1. p \in Nat /\ p < 2^W /\ W \in Nat
  BY WordSize, PowersOfTwo
<1>2. 0 \in P
  <2>1. ASSUME p < 2^0 PROVE Has(0)
    <3>1. 0 \in 0 .. W
      BY <1>1
    <3> QED BY <2>1, <3>1
  <2> HIDE DEF Has
  <2> QED BY <2>1
<1>3. ASSUME NEW k \in Nat, k \in P PROVE k + 1 \in P
  <2>1. SUFFICES ASSUME k + 1 <= W, p < 2^(k + 1) PROVE Has(k + 1)
    OBVIOUS
  <2>2. k \in 0 .. W /\ k + 1 \in 0 .. W /\ (k + 1) - 1 = k /\ 2^k \in Nat
    BY <1>1, <2>1, PowersOfTwo
  <2>3. CASE p < 2^k
    BY <1>3, <2>2, <2>3
  <2>4. CASE ~(p < 2^k)
    <3>1. 2^k <= p
      BY <1>1, <2>2, <2>4
    <3>2. k + 1 \in 0 .. W /\ p < 2^(k + 1) /\ 2^((k + 1) - 1) <= p
      BY <2>1, <2>2, <3>1
    <3> QED BY <3>2
  <2> QED BY <2>3, <2>4
<1>4. Nat \subseteq P
  <2> HIDE DEF P
  <2> QED BY ONLY <1>2, <1>3, Induction
<1>5. \E n \in 0 .. W : p < 2^n /\ (n = 0 \/ 2^(n - 1) <= p)
  BY <1>1, <1>4
<1> QED BY <1>5 DEF GetMSB

\* Dropping the highest of the k lowest bits.
LEMMA LowBits ==
  ASSUME NEW p \in Nat, NEW k \in 1 .. W
  PROVE  /\ 2^(k - 1) \in Nat \ {0} /\ (p \div 2^(k - 1)) % 2 \in {0, 1}
         /\ p % 2^(k - 1) \in Nat /\ p % 2^k \in Nat
         /\ p % 2^k = (p % 2^(k - 1)) + ((p \div 2^(k - 1)) % 2) * 2^(k - 1)
<1> DEFINE D == 2^(k - 1)
<1>1. D \in Nat \ {0} /\ 2^k = 2 * D /\ 2 * D \in Nat \ {0}
  BY PowersOfTwo
<1> HIDE DEF D
<1>2. PICK q \in Nat, r \in 0 .. D - 1 : q = p \div D /\ r = p % D /\ p = D * q + r
  BY <1>1, DivSplit
<1>3. PICK u \in Nat, b \in 0 .. 1 : u = q \div 2 /\ b = q % 2 /\ q = 2 * u + b
  <2>1. PICK u \in Nat, b \in 0 .. 2 - 1 : u = q \div 2 /\ b = q % 2 /\ q = 2 * u + b
    BY DivSplit
  <2> QED BY <2>1
<1>4. b * D + r \in 0 .. 2 * D - 1
  <2>1. b = 0 \/ b = 1
    OBVIOUS
  <2>2. b * D = 0 \/ b * D = D
    BY <2>1, <1>1
  <2> QED BY <2>2, <1>1
<1>5. p = u * (2 * D) + (b * D + r)
  <2>1. D * q = D * (2 * u) + D * b
    BY <1>1, <1>3
  <2>2. D * (2 * u) = u * (2 * D) /\ D * b = b * D /\ u * (2 * D) \in Int /\ b * D \in Int
    BY <1>1
  <2> QED BY <1>2, <2>1, <2>2
<1>6. p % (2 * D) = b * D + r
  <2> DEFINE s == b * D + r
             M == 2 * D
  <2>1. M \in Nat \ {0} /\ s \in 0 .. M - 1 /\ p = u * M + s
    BY ONLY <1>1, <1>4, <1>5, p \in Nat, u \in Nat, D \in Nat \ {0}
  <2> HIDE DEF s, M
  <2>2. p % M = s
    BY ONLY <2>1, p \in Nat, u \in Nat, DivUnique
  <2> QED BY <2>2 DEF s, M
<1>7. b * D \in Nat /\ b * D + r = r + b * D /\ b \in {0, 1} /\ r \in Nat
  BY <1>1
<1>8. p % 2^k = (p % D) + ((p \div D) % 2) * D
  BY ONLY <1>1, <1>2, <1>3, <1>6, <1>7
<1>9. p % D \in Nat /\ (p \div D) % 2 \in {0, 1}
  BY ONLY <1>2, <1>3, <1>7
<1>10. p % 2^k \in Nat
  <2>1. p % 2^k = b * D + r
    BY ONLY <1>1, <1>6
  <2> QED BY ONLY <2>1, <1>7, r \in Nat
<1> QED BY <1>1, <1>8, <1>9, <1>10 DEF D

\* One is a word, and not the only one.
LEMMA One == 1 \in Word /\ 2^W \in Nat \ {0, 1}
<1>1. 1 \in 0 .. W /\ 2^1 = 2
  BY PowersOfTwo, PowerAssumption
<1>2. 2 <= 2^W
  BY <1>1, PowersOfTwo
<1> QED BY <1>2, WordSize

-----------------------------------------------------------------------------
(* Rounded quotients.                                                      *)

\* The rounded quotient is a word, and at most half the denominator off.
LEMMA RoundedNearest ==
  ASSUME NEW a \in Word, NEW q \in Word, q # 0
  PROVE  /\ RoundedQuotient(a, q) \in Word
         /\ -q <= 2 * (RoundedQuotient(a, q) * q - a)
         /\ 2 * (RoundedQuotient(a, q) * q - a) <= q
<1> DEFINE d == a \div q
           r == a % q
           up == d + 1
<1>1. a \in Nat /\ q \in Nat \ {0} /\ a < 2^W /\ 2^W \in Nat \ {0}
  BY WordSize
<1>2. r \in 0 .. q - 1 /\ a = q * d + r /\ d \in Nat
  BY ONLY <1>1, DivNat
<1>3. d <= a /\ (q # 1 => 2 * d <= a)
  <2>1. d * 1 <= d * q /\ (q # 1 => d * 2 <= d * q)
    <3>1. 1 * d <= q * d
      BY ONLY <1>1, <1>2, 1 <= q, Monotone
    <3>2. ASSUME q # 1 PROVE 2 * d <= q * d
      <4>1. 2 \in Int /\ q \in Int /\ 2 <= q
        BY <1>1, <3>2
      <4> QED BY ONLY <1>2, <4>1, Monotone
    <3> QED BY <1>1, <1>2, <3>1, <3>2
  <2>2. d * q = q * d /\ q * d \in Int
    BY <1>1, <1>2
  <2> QED BY <1>1, <1>2, <2>1, <2>2
<1>4. d * q = a - r /\ up * q = a - r + q
  <2>1. d * q = q * d /\ up * q = d * q + q
    BY <1>1, <1>2
  <2> QED BY <1>1, <1>2, <2>1
<1> HIDE DEF d, r
<1>5. CASE r > q \div 2
  <2>1. 2 * r > q /\ q # 1
    BY <1>1, <1>2, <1>5
  <2>2. RoundedQuotient(a, q) = up
    BY <1>5 DEF RoundedQuotient, d, r
  <2>3. up \in Nat /\ up <= a
    BY <1>1, <1>2, <1>3, <1>4, <2>1
  <2>4. up * q - a = q - r
    BY <1>1, <1>2, <1>4
  <2> HIDE DEF up
  <2> QED BY <1>1, <1>2, <2>1, <2>2, <2>3, <2>4, WordSize
<1>6. CASE ~(r > q \div 2)
  <2>1. 2 * r <= q
    BY <1>1, <1>2, <1>6
  <2>2. RoundedQuotient(a, q) = d
    BY <1>6 DEF RoundedQuotient, d, r
  <2>3. d * q - a = -r
    BY <1>1, <1>2, <1>4
  <2> QED BY <1>1, <1>2, <1>3, <2>1, <2>2, <2>3, WordSize
<1> QED BY <1>5, <1>6

-----------------------------------------------------------------------------
(* The reversal of bits.                                                   *)

\* The bits of an index, from the lowest, before each doubling.
Reverses(i, l, f) ==
  /\ f \in [0 .. l -> Nat]
  /\ f[0] = 0
  /\ \A k \in 1 .. l : f[k] = 2 * f[k - 1] + ((i \div 2^(k - 1)) % 2)

\* The bits of 2 * y + e above the lowest are those of y.
LEMMA BitsAbove ==
  ASSUME NEW y \in Nat, NEW e \in {0, 1}, NEW d \in Nat \ {0}
  PROVE  (2 * y + e) \div (2 * d) = y \div d /\ 2 * y + e \in Nat /\ (2 * y + e) % 2 = e
<1>1. PICK c \in Nat, r \in 0 .. d - 1 : c = y \div d /\ y = d * c + r
  BY DivSplit
<1> DEFINE x == 2 * y + e
           D == 2 * d
           R == 2 * r + e
           p == d * c
<1>2. p \in Int /\ c * D = 2 * p
  BY <1>1
<1>3. x = c * D + R /\ x \in Int /\ x \in Nat /\ R \in 0 .. D - 1 /\ D \in Nat \ {0} /\ c \in Int
  <2> HIDE DEF p
  <2> QED BY <1>1, <1>2 DEF p
<1>4. x = y * 2 + e /\ e \in 0 .. 2 - 1 /\ y \in Int /\ 2 \in Nat \ {0}
  OBVIOUS
<1> HIDE DEF x, D, R, p
<1>5. x \div D = c
  BY ONLY <1>3, DivUnique
<1>6. x % 2 = e
  BY ONLY <1>3, <1>4, DivUnique
<1> QED BY <1>1, <1>3, <1>5, <1>6 DEF x, D

\* A reversal of k bits is below 2^k.
LEMMA ReversalBounded ==
  ASSUME NEW l \in 1 .. W, NEW i \in Nat, NEW f, Reverses(i, l, f)
  PROVE  \A k \in 0 .. l : f[k] \in 0 .. 2^k - 1
<1> DEFINE P == {k \in Nat : k <= l => f[k] \in 0 .. 2^k - 1}
<1>1. W \in Nat /\ l \in Nat /\ 2^0 = 1 /\ \A k \in 0 .. l : k \in 0 .. W
  BY PowersOfTwo
<1>2. f[0] = 0 /\ \A k \in 1 .. l : f[k] = 2 * f[k - 1] + ((i \div 2^(k - 1)) % 2)
  BY DEF Reverses
<1>3. 0 \in P
  BY <1>1, <1>2
<1>4. ASSUME NEW k \in Nat, k \in P PROVE k + 1 \in P
  <2>1. SUFFICES ASSUME k + 1 <= l PROVE f[k + 1] \in 0 .. 2^(k + 1) - 1
    OBVIOUS
  <2>2. k + 1 \in 1 .. l /\ k + 1 \in 1 .. W /\ k \in 0 .. W /\ (k + 1) - 1 = k /\ f[k] \in 0 .. 2^k - 1
    BY <1>1, <1>4, <2>1
  <2>3. 2^k \in Nat \ {0} /\ 2^(k + 1) = 2 * 2^k
    BY <2>2, PowersOfTwo
  <2>4. i \div 2^k \in Nat
    BY <2>3, DivNat
  <2>5. (i \div 2^k) % 2 \in 0 .. 2 - 1
    BY <2>4, DivNat, 2 \in Nat \ {0}
  <2>6. f[k + 1] = 2 * f[k] + ((i \div 2^k) % 2)
    BY <1>2, <2>2
  <2> DEFINE d == (i \div 2^k) % 2
             c == 2^k
  <2> HIDE DEF d, c
  <2>7. 2 * f[k] + d \in 0 .. 2 * c - 1
    BY <2>2, <2>5 DEF d, c
  <2> QED BY <2>3, <2>6, <2>7 DEF d, c
<1>5. Nat \subseteq P
  <2> HIDE DEF P
  <2> QED BY ONLY <1>3, <1>4, Induction
<1> QED BY <1>5

\* Reversing 2 * y + e puts e on top of the reversal of y.
LEMMA ReversalShifts ==
  ASSUME NEW l \in 1 .. W, NEW y \in Nat, NEW e \in {0, 1},
         NEW f, Reverses(y, l, f), NEW g, Reverses(2 * y + e, l, g)
  PROVE  \A k \in 1 .. l : g[k] = e * 2^(k - 1) + f[k - 1]
<1> DEFINE Is(k) == g[k + 1] = e * 2^k + f[k]
           P == {k \in Nat : k + 1 <= l => Is(k)}
<1>1. W \in Nat /\ l \in Nat /\ 2^0 = 1 /\ \A k \in 1 .. l : k \in 1 .. W /\ k - 1 \in 0 .. W
  BY PowersOfTwo
<1>2. /\ f[0] = 0 /\ \A k \in 1 .. l : f[k] = 2 * f[k - 1] + ((y \div 2^(k - 1)) % 2)
      /\ g[0] = 0 /\ \A k \in 1 .. l : g[k] = 2 * g[k - 1] + (((2 * y + e) \div 2^(k - 1)) % 2)
      /\ \A k \in 0 .. l : f[k] \in Nat
  BY DEF Reverses
<1>3. 0 \in P
  <2>1. 1 \in 1 .. l /\ 1 - 1 = 0 /\ 0 + 1 = 1
    BY <1>1
  <2>2. g[1] = 2 * 0 + (((2 * y + e) \div 1) % 2)
    BY <1>1, <1>2, <2>1
  <2>3. (2 * y + e) \div 1 = 2 * y + e /\ 2 * y + e \in Nat
    OBVIOUS
  <2>4. (2 * y + e) % 2 = e
    BY BitsAbove, 1 \in Nat \ {0}
  <2>5. g[1] = e
    BY <2>2, <2>3, <2>4
  <2> QED BY <1>1, <1>2, <2>1, <2>5
<1>4. ASSUME NEW k \in Nat, k \in P PROVE k + 1 \in P
  <2>1. SUFFICES ASSUME (k + 1) + 1 <= l PROVE Is(k + 1)
    OBVIOUS
  <2>2. /\ k + 1 \in 1 .. l /\ (k + 1) + 1 \in 1 .. l /\ ((k + 1) + 1) - 1 = k + 1 /\ (k + 1) - 1 = k
        /\ k + 1 \in 1 .. W /\ k \in 0 .. W /\ k \in 0 .. l /\ Is(k)
    BY <1>1, <1>4, <2>1
  <2>3. 2^k \in Nat \ {0} /\ 2^(k + 1) = 2 * 2^k
    BY <2>2, PowersOfTwo
  <2> DEFINE b == (y \div 2^k) % 2
  <2>4. (2 * y + e) \div 2^(k + 1) = y \div 2^k
    <3> DEFINE d == 2^k
    <3>1. (2 * y + e) \div (2 * d) = y \div d
      BY ONLY <2>3, BitsAbove, y \in Nat, e \in {0, 1}
    <3> QED BY <2>3, <3>1
  <2>5. g[(k + 1) + 1] = 2 * g[k + 1] + b
    BY <1>2, <2>2, <2>4
  <2>6. f[k + 1] = 2 * f[k] + b /\ g[k + 1] = e * 2^k + f[k] /\ f[k] \in Nat
    BY <1>2, <2>2
  <2>7. b \in Int
    <3>1. y \div 2^k \in Nat
      BY <2>3, DivNat
    <3> QED BY <3>1, DivNat, 2 \in Nat \ {0}
  <2> DEFINE c == 2^k
  <2> HIDE DEF b, c
  <2>8. 2 * (e * c + f[k]) + b = e * (2 * c) + (2 * f[k] + b)
    BY <2>3, <2>6, <2>7 DEF c
  <2> QED BY <2>3, <2>5, <2>6, <2>8 DEF c
<1>5. Nat \subseteq P
  <2> HIDE DEF P
  <2> QED BY ONLY <1>3, <1>4, Induction
<1>6. ASSUME NEW k \in 1 .. l PROVE g[k] = e * 2^(k - 1) + f[k - 1]
  <2>1. k - 1 \in Nat /\ (k - 1) + 1 = k /\ (k - 1) + 1 <= l
    OBVIOUS
  <2>2. Is(k - 1)
    BY <1>5, <2>1
  <2> QED BY <2>1, <2>2
<1> QED BY <1>6

-----------------------------------------------------------------------------
(* Integers and their remainders.                                          *)

\* An integer by its quotient and remainder.
LEMMA IntSplit ==
  ASSUME NEW d \in Nat \ {0}, NEW x \in Int
  PROVE  x \div d \in Int /\ x % d \in 0 .. d - 1 /\ x = (x \div d) * d + (x % d)
BY SMT

\* Multiples of M make no difference, and nothing else makes none.
LEMMA CongruentMultiple ==
  ASSUME NEW M \in Nat \ {0}
  PROVE  /\ \A a, k \in Int : Congruent(a + k * M, a, M)
         /\ \A a, b \in Int : Congruent(a, b, M) => \E k \in Int : a = b + k * M
<1>1. ASSUME NEW a \in Int, NEW k \in Int PROVE Congruent(a + k * M, a, M)
  <2> DEFINE c == a \div M
             r == a % M
             e == c + k
             x0 == a + k * M
  <2>1. c \in Int /\ r \in 0 .. M - 1 /\ a = c * M + r
    BY ONLY IntSplit, M \in Nat \ {0}, a \in Int
  <2> HIDE DEF c, r
  <2>2. e \in Int /\ x0 \in Int /\ e * M = c * M + k * M /\ c * M \in Int /\ k * M \in Int
    BY <2>1
  <2>3. x0 = e * M + r
    <3> HIDE DEF e
    <3> QED BY <2>1, <2>2
  <2> HIDE DEF e, x0
  <2>4. x0 % M = r
    BY ONLY <2>1, <2>2, <2>3, DivUnique, M \in Nat \ {0}
  <2> QED BY <2>4 DEF Congruent, x0, r
<1>2. ASSUME NEW a \in Int, NEW b \in Int, Congruent(a, b, M) PROVE \E k \in Int : a = b + k * M
  <2> DEFINE c == a \div M
             d == b \div M
             r == b % M
  <2>1. c \in Int /\ r \in 0 .. M - 1 /\ a = c * M + r
    BY ONLY IntSplit, M \in Nat \ {0}, a \in Int, Congruent(a, b, M) DEF Congruent
  <2>2. d \in Int /\ b = d * M + r
    BY ONLY IntSplit, M \in Nat \ {0}, b \in Int
  <2> HIDE DEF c, d, r
  <2>3. (c - d) * M = c * M - d * M /\ c - d \in Int /\ c * M \in Int /\ d * M \in Int
    BY <2>1, <2>2
  <2>4. a = b + (c - d) * M
    BY ONLY <2>1, <2>2, <2>3, r \in Int
  <2> QED BY <2>3, <2>4
<1> QED BY <1>1, <1>2

-----------------------------------------------------------------------------
(* Bounded sums, powers of roots, and residues that have inverses.         *)

\* A sum of n terms up to c.
LEMMA TotalBounded ==
  ASSUME NEW n \in Nat, NEW c \in Nat, NEW t, \A i \in 0 .. n - 1 : t[i] \in 0 .. c
  PROVE  Total(t, n) \in 0 .. n * c
<1> DEFINE Q == {k \in Nat : k <= n => Total(t, k) \in 0 .. k * c}
<1>1. \A i \in 0 .. n - 1 : t[i] \in Int
  OBVIOUS
<1>2. Total(t, 0) = 0 /\ \A k \in 0 .. n - 1 : Total(t, k + 1) = Total(t, k) + t[k]
  BY ONLY <1>1, TotalSteps, n \in Nat
<1>3. 0 \in Q
  BY <1>2
<1>4. ASSUME NEW k \in Nat, k \in Q PROVE k + 1 \in Q
  <2>1. SUFFICES ASSUME k + 1 <= n PROVE Total(t, k + 1) \in 0 .. (k + 1) * c
    OBVIOUS
  <2>2. k \in 0 .. n - 1 /\ Total(t, k) \in 0 .. k * c /\ t[k] \in 0 .. c /\ Total(t, k + 1) = Total(t, k) + t[k]
    BY <1>2, <1>4, <2>1
  <2>3. (k + 1) * c = k * c + c /\ k * c \in Nat
    BY ONLY k \in Nat, c \in Nat
  <2> DEFINE a == Total(t, k)
             b == t[k]
             p == k * c
  <2>4. a \in 0 .. p /\ b \in 0 .. c /\ p \in Nat
    BY <2>2, <2>3
  <2> HIDE DEF a, b, p
  <2>5. a + b \in 0 .. p + c
    BY ONLY <2>4, c \in Nat
  <2> QED BY <2>2, <2>3, <2>5 DEF a, b, p
<1>5. Nat \subseteq Q
  <2> HIDE DEF Q
  <2> QED BY ONLY <1>3, <1>4, Induction
<1> QED BY <1>5

\* A sum whose terms from c on are zero.
LEMMA TotalTail ==
  ASSUME NEW n \in Nat, NEW c \in 0 .. n, NEW t, \A i \in 0 .. n - 1 : t[i] \in Int,
         \A i \in c .. n - 1 : t[i] = 0
  PROVE  Total(t, n) = Total(t, c)
<1> DEFINE Q == {k \in Nat : c + k <= n => Total(t, c + k) = Total(t, c)}
<1>1. \A k \in 0 .. n - 1 : Total(t, k + 1) = Total(t, k) + t[k]
  BY ONLY TotalSteps, n \in Nat, \A i \in 0 .. n - 1 : t[i] \in Int
<1>2. \A k \in 0 .. n : Total(t, k) \in Int
  BY ONLY TotalSteps, n \in Nat, \A i \in 0 .. n - 1 : t[i] \in Int
<1>3. 0 \in Q
  <2>1. c + 0 = c
    OBVIOUS
  <2> QED BY <2>1
<1>4. ASSUME NEW k \in Nat, k \in Q PROVE k + 1 \in Q
  <2>1. SUFFICES ASSUME c + (k + 1) <= n PROVE Total(t, c + (k + 1)) = Total(t, c)
    OBVIOUS
  <2>2. c + k \in 0 .. n - 1 /\ c + k \in c .. n - 1 /\ c + (k + 1) = (c + k) + 1 /\ c + k \in 0 .. n
    BY <2>1
  <2>3. Total(t, c + k) = Total(t, c) /\ t[c + k] = 0
    BY <1>4, <2>2
  <2>4. Total(t, (c + k) + 1) = Total(t, c + k) + 0 /\ Total(t, c + k) \in Int
    BY <1>1, <1>2, <2>2, <2>3
  <2> QED BY ONLY <2>2, <2>3, <2>4
<1>5. Nat \subseteq Q
  <2> HIDE DEF Q
  <2> QED BY ONLY <1>3, <1>4, Induction
<1>6. n - c \in Nat /\ c + (n - c) = n
  OBVIOUS
<1>7. n - c \in Q
  BY <1>5, <1>6
<1> QED BY <1>6, <1>7

\* A sum, from the sums of its first terms and of the rest.
LEMMA TotalJoins ==
  ASSUME NEW a \in Nat, NEW b \in Nat, NEW t, \A i \in 0 .. a + b - 1 : t[i] \in Int,
         NEW u, \A i \in 0 .. b - 1 : u[i] = t[a + i]
  PROVE  Total(t, a + b) = Total(t, a) + Total(u, b)
<1> DEFINE Q == {k \in Nat : k <= b => Total(t, a + k) = Total(t, a) + Total(u, k)}
<1>1. a + b \in Nat /\ a \in 0 .. a + b
  OBVIOUS
<1>2. /\ \A k \in 0 .. a + b - 1 : Total(t, k + 1) = Total(t, k) + t[k]
      /\ \A k \in 0 .. a + b : Total(t, k) \in Int
  BY ONLY <1>1, TotalSteps, \A i \in 0 .. a + b - 1 : t[i] \in Int
<1>3. \A i \in 0 .. b - 1 : u[i] \in Int
  BY ONLY a \in Nat, b \in Nat, \A i \in 0 .. a + b - 1 : t[i] \in Int, \A i \in 0 .. b - 1 : u[i] = t[a + i]
<1>4. /\ Total(u, 0) = 0 /\ \A k \in 0 .. b - 1 : Total(u, k + 1) = Total(u, k) + u[k]
      /\ \A k \in 0 .. b : Total(u, k) \in Int
  BY ONLY <1>3, TotalSteps, b \in Nat
<1>5. 0 \in Q
  <2>1. a + 0 = a /\ Total(t, a) \in Int
    BY <1>1, <1>2
  <2> QED BY <1>4, <2>1
<1>6. ASSUME NEW k \in Nat, k \in Q PROVE k + 1 \in Q
  <2>1. SUFFICES ASSUME k + 1 <= b PROVE Total(t, a + (k + 1)) = Total(t, a) + Total(u, k + 1)
    OBVIOUS
  <2>2. a + k \in 0 .. a + b - 1 /\ a + (k + 1) = (a + k) + 1 /\ k \in 0 .. b - 1 /\ k \in 0 .. b
    BY <2>1
  <2>3. Total(t, (a + k) + 1) = Total(t, a + k) + t[a + k] /\ Total(u, k + 1) = Total(u, k) + t[a + k]
        /\ Total(t, a + k) = Total(t, a) + Total(u, k)
    BY <1>2, <1>4, <1>6, <2>2
  <2>4. Total(t, a) \in Int /\ Total(u, k) \in Int /\ t[a + k] \in Int
    BY <1>1, <1>2, <1>4, <2>2
  <2> QED BY ONLY <2>2, <2>3, <2>4
<1>7. Nat \subseteq Q
  <2> HIDE DEF Q
  <2> QED BY ONLY <1>5, <1>6, Induction
<1> QED BY <1>7

\* The powers of inverses are inverses.
LEMMA InversePowers ==
  ASSUME NEW m \in Nat \ {0, 1}, NEW a \in Nat, NEW b \in Nat, (a * b) % m = 1
  PROVE  \A k \in Nat : (Power(a, k, m) * Power(b, k, m)) % m = 1
<1> DEFINE S == {k \in Nat : (Power(a, k, m) * Power(b, k, m)) % m = 1}
<1>1. /\ Power(a, 0, m) = 1 /\ Power(b, 0, m) = 1
      /\ \A k \in Nat : /\ Power(a, k, m) \in 0 .. m - 1 /\ Power(b, k, m) \in 0 .. m - 1
                        /\ Power(a, k + 1, m) = (Power(a, k, m) * a) % m
                        /\ Power(b, k + 1, m) = (Power(b, k, m) * b) % m
  BY PowerSteps
<1>2. 1 % m = 1 /\ m \in Nat \ {0}
  BY Residues
<1>3. 0 \in S
  <2>1. 1 * 1 = 1
    OBVIOUS
  <2> QED BY <1>1, <1>2, <2>1
<1>4. ASSUME NEW k \in Nat, k \in S PROVE k + 1 \in S
  <2> DEFINE x == Power(a, k, m)
             y == Power(b, k, m)
             x1 == (x * a) % m
             y1 == (y * b) % m
  <2>1. x \in 0 .. m - 1 /\ y \in 0 .. m - 1 /\ Power(a, k + 1, m) = x1 /\ Power(b, k + 1, m) = y1
        /\ (x * y) % m = 1
    BY <1>1, <1>4
  <2> HIDE DEF x, y
  <2>2. x \in Int /\ y \in Int /\ x * a \in Int /\ y * b \in Int /\ x * y \in Int /\ a * b \in Int
    BY <2>1
  <2>3. x1 \in Int /\ y1 \in Int /\ Congruent(x1, x * a, m) /\ Congruent(y1, y * b, m)
    <3>1. \A u \in Int : u % m \in 0 .. m - 1 /\ Congruent(u % m, u, m)
      BY ONLY <1>2, CongruentRelation
    <3> QED BY ONLY <3>1, <2>2, m \in Nat
  <2> HIDE DEF x1, y1
  <2>4. Congruent(x1 * y1, (x * a) * (y * b), m)
    BY ONLY <1>2, <2>2, <2>3, CongruentProduct
  <2>5. (x * a) * (y * b) = (x * y) * (a * b)
    BY ONLY <2>2, a \in Int, b \in Int
  <2>6. Congruent(x * y, 1, m) /\ Congruent(a * b, 1, m)
    BY <1>2, <2>1 DEF Congruent
  <2>7. Congruent((x * y) * (a * b), 1 * 1, m)
    BY ONLY <1>2, <2>2, <2>6, CongruentProduct, 1 \in Int
  <2>8. (x1 * y1) % m = (1 * 1) % m
    BY <2>4, <2>5, <2>7 DEF Congruent
  <2>9. (x1 * y1) % m = 1
    BY <1>2, <2>8
  <2> QED BY <2>1, <2>9
<1>5. Nat \subseteq S
  <2> HIDE DEF S
  <2> QED BY ONLY <1>3, <1>4, Induction
<1> QED BY <1>5

\* The powers of a root repeat.
LEMMA PowersRepeat ==
  ASSUME NEW m \in Nat \ {0, 1}, NEW x \in Nat, NEW n \in Nat \ {0}, Power(x, n, m) = 1
  PROVE  \A k \in Nat : Power(x, k % n, m) = Power(x, k, m)
<1> DEFINE Q == {q \in Nat : Power(x, n * q, m) = 1}
<1>1. Power(x, 0, m) = 1 /\ \A k \in Nat : Power(x, k, m) \in 0 .. m - 1
  BY ONLY PowerSteps, m \in Nat \ {0, 1}, x \in Nat
<1>2. 1 % m = 1 /\ \A u \in 0 .. m - 1 : u % m = u
  <2>1. \A u \in 0 .. m - 1 : u % m = u
    BY ONLY Remainders, m \in Nat \ {0, 1}
  <2>2. 1 \in 0 .. m - 1
    OBVIOUS
  <2> QED BY ONLY <2>1, <2>2
<1>3. 0 \in Q
  <2>1. n * 0 = 0
    OBVIOUS
  <2> QED BY <1>1, <2>1
<1>4. ASSUME NEW q \in Nat, q \in Q PROVE q + 1 \in Q
  <2>1. n * (q + 1) = n * q + n /\ n * q \in Nat
    BY ONLY n \in Nat, q \in Nat
  <2>2. Power(x, n * q + n, m) = (Power(x, n * q, m) * Power(x, n, m)) % m
    BY ONLY <2>1, PowerSum, m \in Nat \ {0, 1}, x \in Nat, n \in Nat
  <2>3. Power(x, n * q, m) = 1
    BY <1>4
  <2>4. 1 * 1 = 1
    OBVIOUS
  <2>5. Power(x, n * (q + 1), m) = 1
    BY ONLY <1>2, <2>1, <2>2, <2>3, <2>4, Power(x, n, m) = 1
  <2> QED BY <2>5
<1>5. Nat \subseteq Q
  <2> HIDE DEF Q
  <2> QED BY ONLY <1>3, <1>4, Induction
<1>6. ASSUME NEW k \in Nat PROVE Power(x, k % n, m) = Power(x, k, m)
  <2>1. PICK q \in Nat, r \in 0 .. n - 1 : q = k \div n /\ r = k % n /\ k = n * q + r
    BY DivSplit
  <2>2. n * q \in Nat /\ r \in Nat
    BY ONLY ProductInteger, n \in Nat, q \in Nat, r \in 0 .. n - 1
  <2>3. Power(x, n * q + r, m) = (Power(x, n * q, m) * Power(x, r, m)) % m
    BY ONLY <2>2, PowerSum, m \in Nat \ {0, 1}, x \in Nat
  <2>4. Power(x, n * q, m) = 1
    BY <1>5
  <2>5. Power(x, r, m) \in 0 .. m - 1
    BY ONLY <1>1, <2>2
  <2>6. 1 * Power(x, r, m) = Power(x, r, m)
    BY ONLY <2>5
  <2>7. Power(x, n * q + r, m) = Power(x, r, m)
    BY ONLY <1>2, <2>3, <2>4, <2>5, <2>6
  <2> QED BY ONLY <2>1, <2>7
<1> QED BY <1>6

\* The power of a power.
LEMMA PowerOfPower ==
  ASSUME NEW m \in Nat \ {0, 1}, NEW x \in Nat, NEW a \in Nat
  PROVE  \A j \in Nat : Power(Power(x, a, m), j, m) = Power(x, a * j, m)
<1> DEFINE w == Power(x, a, m)
           Q == {j \in Nat : Power(w, j, m) = Power(x, a * j, m)}
<1>1. w \in Nat /\ Power(x, 0, m) = 1
  <2>1. Power(x, a, m) \in 0 .. m - 1 /\ Power(x, 0, m) = 1
    BY PowerSteps
  <2> QED BY <2>1
<1>2. 0 \in Q
  <2>1. Power(w, 0, m) = 1
    <3> HIDE DEF w
    <3> QED BY ONLY <1>1, PowerSteps, m \in Nat \ {0, 1}
  <2>2. a * 0 = 0
    OBVIOUS
  <2> QED BY <1>1, <2>1, <2>2
<1>3. ASSUME NEW j \in Nat, j \in Q PROVE j + 1 \in Q
  <2>1. Power(w, j + 1, m) = (Power(w, j, m) * w) % m
    <3> HIDE DEF w
    <3> QED BY ONLY <1>1, PowerSteps, m \in Nat \ {0, 1}, j \in Nat
  <2>2. a * (j + 1) = a * j + a /\ a * j \in Nat
    BY ONLY a \in Nat, j \in Nat
  <2>3. Power(x, a * j + a, m) = (Power(x, a * j, m) * w) % m
    BY ONLY <2>2, PowerSum, m \in Nat \ {0, 1}, x \in Nat, a \in Nat
  <2> HIDE DEF w
  <2> QED BY <1>3, <2>1, <2>2, <2>3
<1>4. Nat \subseteq Q
  <2> HIDE DEF Q
  <2> QED BY ONLY <1>2, <1>3, Induction
<1> QED BY <1>4

\* Every residue but zero has an inverse.
Field(m) == m \in Nat \ {0, 1} /\ \A x \in 1 .. m - 1 : HasInverse(x, m)

\* There are no zero divisors then.
LEMMA NoZeroDivisors ==
  ASSUME NEW m, Field(m), NEW a \in Int, NEW b \in Int,
         Congruent(a * b, 0, m), ~Congruent(a, 0, m)
  PROVE  Congruent(b, 0, m)
<1> DEFINE c == a % m
<1>1. m \in Nat \ {0, 1} /\ m \in Nat \ {0} /\ 0 \in Int /\ 1 \in Int
  BY DEF Field
<1>2. c \in 0 .. m - 1 /\ Congruent(c, a, m)
  BY ONLY <1>1, CongruentRelation, a \in Int
<1>3. \A x \in 0 .. m - 1 : x % m = x
  BY ONLY <1>1, Remainders
<1>4. c # 0
  <2>1. 0 % m = 0
    BY ONLY <1>1, <1>3
  <2> QED BY <2>1 DEF Congruent
<1> HIDE DEF c
<1>5. PICK y \in 0 .. m - 1 : (c * y) % m = 1
  <2>1. c \in 1 .. m - 1
    BY ONLY <1>1, <1>2, <1>4
  <2> QED BY <2>1 DEF Field, HasInverse
<1>6. c \in Int /\ y \in Int
  BY ONLY <1>1, <1>2, y \in 0 .. m - 1
<1>7. c * y \in Int /\ a * b \in Int /\ c * b \in Int /\ y * (a * b) \in Int /\ y * (c * b) \in Int
  BY ONLY <1>6, ProductInteger, a \in Int, b \in Int
<1>8. /\ \A x : Congruent(x, x, m)
      /\ \A x, u : Congruent(x, u, m) => Congruent(u, x, m)
      /\ \A x, u, v : Congruent(x, u, m) /\ Congruent(u, v, m) => Congruent(x, v, m)
  BY ONLY <1>1, CongruentRelation
<1>9. Congruent(c * y, 1, m)
  <2>1. 1 % m = 1
    BY ONLY <1>1, <1>3
  <2> QED BY ONLY <1>5, <2>1 DEF Congruent
<1>10. Congruent((c * y) * b, 1 * b, m)
  BY ONLY <1>1, <1>7, <1>8, <1>9, CongruentProduct, b \in Int
<1>11. Congruent(c * b, a * b, m)
  BY ONLY <1>1, <1>2, <1>6, <1>8, CongruentProduct, a \in Int, b \in Int
<1>12. Congruent(c * b, 0, m)
  BY ONLY <1>8, <1>11, Congruent(a * b, 0, m)
<1>13. Congruent(y * (c * b), y * 0, m)
  BY ONLY <1>1, <1>6, <1>7, <1>8, <1>12, CongruentProduct
<1>14. (c * y) * b = y * (c * b) /\ 1 * b = b /\ y * 0 = 0
  BY ONLY <1>6, Reorder, b \in Int
<1> QED BY ONLY <1>8, <1>10, <1>13, <1>14

\* The powers of a root of one that is not one sum to zero.
LEMMA GeometricSum ==
  ASSUME NEW m, Field(m), NEW w \in 0 .. m - 1, w # 1, NEW n \in Nat, Power(w, n, m) = 1,
         NEW t, \A j \in 0 .. n - 1 : t[j] = Power(w, j, m)
  PROVE  Congruent(Total(t, n), 0, m)
<1> DEFINE S(k) == Total(t, k)
           P(k) == Power(w, k, m)
           Q == {k \in Nat : k <= n => Congruent((w - 1) * S(k), P(k) - 1, m)}
<1>1. m \in Nat \ {0, 1} /\ m \in Nat \ {0} /\ w \in Nat /\ w - 1 \in Int
  BY DEF Field
<1>2. P(0) = 1 /\ \A k \in Nat : P(k) \in 0 .. m - 1 /\ P(k + 1) = (P(k) * w) % m
  BY ONLY <1>1, PowerSteps
<1>3. \A k \in Nat : P(k) \in Int
  BY ONLY <1>1, <1>2
<1> HIDE DEF P
<1>4. \A j \in 0 .. n - 1 : t[j] \in Int /\ t[j] = P(j)
  BY <1>3 DEF P
<1>5. /\ S(0) = 0 /\ \A k \in 0 .. n : S(k) \in Int
      /\ \A k \in 0 .. n - 1 : S(k + 1) = S(k) + P(k)
  <2>1. /\ S(0) = 0 /\ \A k \in 0 .. n : S(k) \in Int
        /\ \A k \in 0 .. n - 1 : S(k + 1) = S(k) + t[k]
    BY ONLY <1>4, TotalSteps, n \in Nat
  <2> HIDE DEF S
  <2> QED BY ONLY <1>4, <2>1
<1> HIDE DEF S
<1>6. /\ \A x : Congruent(x, x, m)
      /\ \A x, u : Congruent(x, u, m) => Congruent(u, x, m)
      /\ \A x, u, v : Congruent(x, u, m) /\ Congruent(u, v, m) => Congruent(x, v, m)
      /\ \A x \in Int : Congruent(x % m, x, m)
  BY ONLY <1>1, CongruentRelation
<1>7. 0 \in Q
  <2>1. (w - 1) * 0 = 0 /\ 1 - 1 = 0
    BY ONLY <1>1
  <2> QED BY <1>2, <1>5, <1>6, <2>1
<1>8. ASSUME NEW k \in Nat, k \in Q PROVE k + 1 \in Q
  <2>1. SUFFICES ASSUME k + 1 <= n PROVE Congruent((w - 1) * S(k + 1), P(k + 1) - 1, m)
    OBVIOUS
  <2>2. k \in 0 .. n - 1 /\ k \in 0 .. n /\ k <= n
    BY <2>1
  <2> DEFINE s == S(k)
             p == P(k)
             q == P(k + 1)
             v == w - 1
  <2>3. s \in Int /\ p \in Int /\ q \in Int /\ S(k + 1) = s + p /\ q = (p * w) % m /\ v \in Int /\ w \in Int
        /\ w = v + 1
    <3>1. s \in Int /\ S(k + 1) = s + p
      BY <1>5, <2>2
    <3>2. p \in Int /\ q \in Int /\ q = (p * w) % m
      BY <1>2, <1>3
    <3>3. v \in Int /\ w \in Int /\ w = v + 1
      BY <1>1
    <3> QED BY ONLY <3>1, <3>2, <3>3
  <2>4. Congruent(v * s, p - 1, m)
    BY <1>8, <2>2
  <2> HIDE DEF s, p, q, v
  <2>5. v * (s + p) = v * s + v * p /\ v * s \in Int /\ v * p \in Int /\ p * w \in Int
    BY ONLY <2>3, ProductInteger
  <2>6. p * w = v * p + p
    BY ONLY <2>3
  <2>7. Congruent(v * s + v * p, (p - 1) + v * p, m)
    BY ONLY <1>1, <1>6, <2>3, <2>4, <2>5, CongruentSum, p - 1 \in Int
  <2>8. (p - 1) + v * p = p * w - 1
    BY ONLY <2>3, <2>5, <2>6
  <2>9. Congruent(p * w - 1, q - 1, m)
    <3>1. Congruent(p * w, q, m)
      BY ONLY <1>6, <2>3, <2>5
    <3> QED BY ONLY <1>1, <1>6, <2>3, <2>5, <3>1, CongruentDifference, 1 \in Int
  <2>10. Congruent(v * (s + p), q - 1, m)
    BY ONLY <1>6, <2>5, <2>7, <2>8, <2>9
  <2> QED BY <2>3, <2>10 DEF q, v
<1>9. Nat \subseteq Q
  <2> HIDE DEF Q
  <2> QED BY ONLY <1>7, <1>8, Induction
<1>10. Congruent((w - 1) * S(n), 0, m)
  <2>1. n \in Q /\ n <= n
    BY <1>9
  <2>2. Congruent((w - 1) * S(n), P(n) - 1, m)
    BY <2>1
  <2>3. P(n) - 1 = 0
    BY DEF P
  <2> QED BY ONLY <2>2, <2>3
<1>11. ~Congruent(w - 1, 0, m)
  <2>1. ASSUME Congruent(w - 1, 0, m) PROVE FALSE
    <3>1. Congruent((w - 1) + 1, 0 + 1, m)
      BY ONLY <1>1, <1>6, <2>1, CongruentSum, 0 \in Int, 1 \in Int
    <3>2. (w - 1) + 1 = w /\ 0 + 1 = 1 /\ 1 \in 0 .. m - 1
      BY ONLY <1>1
    <3>3. w = 1
      BY ONLY <1>1, <3>1, <3>2, CongruentRelation, w \in 0 .. m - 1
    <3> QED BY <3>3
  <2> QED BY <2>1
<1>12. S(n) \in Int
  BY <1>5
<1>13. Congruent(S(n), 0, m)
  BY ONLY <1>1, <1>10, <1>11, <1>12, NoZeroDivisors, Field(m)
<1> QED BY <1>13 DEF S

\* Scaling a sum that was reduced.
LEMMA ScaledResidue ==
  ASSUME NEW m \in Nat \ {0, 1}, NEW t \in Int, NEW c \in Int
  PROVE  ((t % m) * c) % m \in 0 .. m - 1 /\ Congruent(((t % m) * c) % m, c * t, m)
<1> DEFINE e == t % m
           a == e * c
<1>1. m \in Nat \ {0} /\ e \in 0 .. m - 1 /\ Congruent(e, t, m) /\ Congruent(c, c, m)
  BY CongruentRelation
<1>2. e \in Int
  <2> HIDE DEF e
  <2> QED BY ONLY <1>1
<1> HIDE DEF e
<1>3. Congruent(e * c, t * c, m)
  BY ONLY <1>1, <1>2, CongruentProduct, t \in Int, c \in Int
<1>4. a \in Int /\ t * c = c * t
  BY ONLY <1>2, ProductInteger, t \in Int, c \in Int
<1>5. Congruent(a, c * t, m)
  BY ONLY <1>3, <1>4
<1> HIDE DEF a
<1>6. a % m \in 0 .. m - 1 /\ Congruent(a % m, a, m)
  BY ONLY <1>1, <1>4, CongruentRelation
<1>7. Congruent(a % m, c * t, m)
  BY ONLY <1>5, <1>6 DEF Congruent
<1> QED BY ONLY <1>6, <1>7 DEF a, e

-----------------------------------------------------------------------------
(* The value of a polynomial, of n coefficients, at a residue.             *)

\* The value of the n coefficients v at w.
ValueAt(v, w, n, m) == Total([i \in 0 .. n - 1 |-> v[i] * Power(w, i, m)], n)

\* The powers, and the terms.
LEMMA AtTerms ==
  ASSUME NEW m \in Nat \ {0, 1}, NEW w \in 0 .. m - 1, NEW n \in Nat, NEW v, \A i \in 0 .. n - 1 : v[i] \in Int
  PROVE  /\ \A i \in 0 .. n - 1 : Power(w, i, m) \in Int /\ v[i] * Power(w, i, m) \in Int
         /\ ValueAt(v, w, n, m) \in Int
<1>1. w \in Nat /\ \A i \in 0 .. n - 1 : i \in Nat
  OBVIOUS
<1>2. \A i \in Nat : Power(w, i, m) \in 0 .. m - 1
  BY ONLY <1>1, PowerSteps, m \in Nat \ {0, 1}
<1>3. \A i \in 0 .. n - 1 : Power(w, i, m) \in Int
  BY ONLY <1>1, <1>2, m \in Nat
<1>4. \A i \in 0 .. n - 1 : v[i] * Power(w, i, m) \in Int
  BY ONLY <1>3, ProductInteger, \A i \in 0 .. n - 1 : v[i] \in Int
<1> DEFINE t == [i \in 0 .. n - 1 |-> v[i] * Power(w, i, m)]
<1>5. \A i \in 0 .. n - 1 : t[i] \in Int
  BY <1>4
<1>6. ValueAt(v, w, n, m) = Total(t, n)
  BY DEF ValueAt
<1> HIDE DEF t
<1>7. Total(t, n) \in Int
  BY ONLY <1>5, TotalInteger, n \in Nat
<1> QED BY <1>3, <1>4, <1>6, <1>7

\* A sum of polynomials, modulo m.
LEMMA AtSum ==
  ASSUME NEW m \in Nat \ {0, 1}, NEW w \in 0 .. m - 1, NEW n \in Nat, NEW f, NEW g, NEW h,
         \A i \in 0 .. n - 1 : f[i] \in Int /\ g[i] \in Int /\ h[i] \in Int /\ Congruent(f[i], g[i] + h[i], m)
  PROVE  Congruent(ValueAt(f, w, n, m), ValueAt(g, w, n, m) + ValueAt(h, w, n, m), m)
<1> DEFINE p(i) == Power(w, i, m)
           a == [i \in 0 .. n - 1 |-> f[i] * p(i)]
           b == [i \in 0 .. n - 1 |-> g[i] * p(i)]
           c == [i \in 0 .. n - 1 |-> h[i] * p(i)]
           d == [i \in 0 .. n - 1 |-> b[i] + c[i]]
<1>1. /\ \A i \in 0 .. n - 1 : p(i) \in Int
      /\ \A i \in 0 .. n - 1 : f[i] * p(i) \in Int /\ g[i] * p(i) \in Int /\ h[i] * p(i) \in Int
  <2>1. \A i \in 0 .. n - 1 : f[i] \in Int
    OBVIOUS
  <2>2. \A i \in 0 .. n - 1 : g[i] \in Int
    OBVIOUS
  <2>3. \A i \in 0 .. n - 1 : h[i] \in Int
    OBVIOUS
  <2>4. \A i \in 0 .. n - 1 : Power(w, i, m) \in Int /\ f[i] * Power(w, i, m) \in Int
    BY ONLY <2>1, AtTerms, m \in Nat \ {0, 1}, w \in 0 .. m - 1, n \in Nat
  <2>5. \A i \in 0 .. n - 1 : Power(w, i, m) \in Int /\ g[i] * Power(w, i, m) \in Int
    BY ONLY <2>2, AtTerms, m \in Nat \ {0, 1}, w \in 0 .. m - 1, n \in Nat
  <2>6. \A i \in 0 .. n - 1 : Power(w, i, m) \in Int /\ h[i] * Power(w, i, m) \in Int
    BY ONLY <2>3, AtTerms, m \in Nat \ {0, 1}, w \in 0 .. m - 1, n \in Nat
  <2> QED BY <2>4, <2>5, <2>6
<1>2. ValueAt(f, w, n, m) = Total(a, n) /\ ValueAt(g, w, n, m) = Total(b, n) /\ ValueAt(h, w, n, m) = Total(c, n)
  BY DEF ValueAt
<1>3. \A x : Congruent(x, x, m)
  BY ONLY CongruentRelation, m \in Nat \ {0, 1}
<1> HIDE DEF p
<1>4. ASSUME NEW i \in 0 .. n - 1
      PROVE  a[i] \in Int /\ b[i] \in Int /\ c[i] \in Int /\ d[i] = b[i] + c[i] /\ d[i] \in Int
             /\ Congruent(a[i], d[i], m)
  <2> DEFINE x == f[i]
             y == g[i]
             z == h[i]
             e == p(i)
  <2>1. x \in Int /\ y \in Int /\ z \in Int /\ e \in Int /\ Congruent(x, y + z, m)
        /\ x * e \in Int /\ y * e \in Int /\ z * e \in Int
    BY <1>1
  <2>2. a[i] = x * e /\ b[i] = y * e /\ c[i] = z * e /\ d[i] = y * e + z * e
    OBVIOUS
  <2> HIDE DEF x, y, z, e, a, b, c, d
  <2>3. y + z \in Int /\ (y + z) * e = y * e + z * e
    BY ONLY <2>1
  <2>4. Congruent(x * e, (y + z) * e, m)
    BY ONLY <1>3, <2>1, <2>3, CongruentProduct, m \in Nat \ {0}
  <2>5. y * e + z * e \in Int
    BY ONLY <2>1
  <2> QED BY ONLY <2>1, <2>2, <2>3, <2>4, <2>5
<1> HIDE DEF a, b, c, d
<1>5. Total(d, n) = Total(b, n) + Total(c, n)
  BY ONLY <1>4, TotalAdds, n \in Nat
<1>6. Congruent(Total(a, n), Total(d, n), m)
  BY ONLY <1>4, TotalCongruent, n \in Nat, m \in Nat \ {0}
<1> QED BY <1>2, <1>5, <1>6

\* The vector w of o entries is x, of n integers, with zeros after it.
Padded(w, x, n, o) ==
  (\A i \in 0 .. n - 1 : w[i] = x[i] /\ x[i] \in Int) /\ \A i \in n .. o - 1 : w[i] = 0

\* A polynomial that is padded with zeros.
LEMMA AtPadded ==
  ASSUME NEW m \in Nat \ {0, 1}, NEW w \in 0 .. m - 1, NEW o \in Nat, NEW n \in 0 .. o, NEW f, NEW x,
         Padded(f, x, n, o)
  PROVE  ValueAt(f, w, o, m) = ValueAt(x, w, n, m)
<1> DEFINE p(i) == Power(w, i, m)
           s == [i \in 0 .. o - 1 |-> f[i] * p(i)]
           t == [i \in 0 .. n - 1 |-> x[i] * p(i)]
<1>1. \A i \in 0 .. n - 1 : f[i] = x[i] /\ x[i] \in Int
  BY DEF Padded
<1>2. \A i \in n .. o - 1 : f[i] = 0
  BY DEF Padded
<1>3. \A i \in 0 .. o - 1 : f[i] \in Int
  <2>1. \A i \in 0 .. o - 1 : i \in 0 .. n - 1 \/ i \in n .. o - 1
    OBVIOUS
  <2> QED BY ONLY <1>1, <1>2, <2>1, 0 \in Int
<1>4. \A i \in 0 .. o - 1 : p(i) \in Int /\ f[i] * p(i) \in Int
  BY ONLY <1>3, AtTerms, m \in Nat \ {0, 1}, w \in 0 .. m - 1, o \in Nat
<1>5. ValueAt(f, w, o, m) = Total(s, o) /\ ValueAt(x, w, n, m) = Total(t, n)
  BY DEF ValueAt
<1> HIDE DEF p
<1>6. \A i \in 0 .. o - 1 : s[i] \in Int
  BY <1>4
<1>7. \A i \in n .. o - 1 : s[i] = 0
  <2>1. ASSUME NEW i \in n .. o - 1 PROVE s[i] = 0
    <3>1. i \in 0 .. o - 1 /\ f[i] = 0
      BY <1>2
    <3>2. s[i] = 0 * p(i) /\ p(i) \in Int
      BY <1>4, <3>1
    <3> HIDE DEF s
    <3> QED BY ONLY <3>2
  <2> QED BY <2>1
<1>8. \A i \in 0 .. n - 1 : t[i] \in Int /\ s[i] = t[i]
  <2>1. \A i \in 0 .. n - 1 : i \in 0 .. o - 1
    OBVIOUS
  <2> QED BY <1>1, <1>4, <2>1
<1> HIDE DEF s, t
<1>9. Total(s, o) = Total(s, n)
  BY ONLY <1>6, <1>7, TotalTail, o \in Nat, n \in 0 .. o
<1>10. Total(s, n) = Total(t, n)
  <2>1. n \in Nat
    OBVIOUS
  <2> QED BY ONLY <1>8, <2>1, TotalSame
<1> QED BY <1>5, <1>9, <1>10

\* The polynomial h of n coefficients and g of one more, which vanishes, have the
\* sum f.
Reduces(f, g, h, n, m) ==
  /\ \A i \in 0 .. n : f[i] \in Int /\ g[i] \in Int
  /\ \A i \in 0 .. n - 1 : h[i] \in Int /\ Congruent(f[i], h[i] + g[i], m)
  /\ Congruent(f[n], g[n], m)

\* Then h has the values of f.
LEMMA ReducedValue ==
  ASSUME NEW m \in Nat \ {0, 1}, NEW w \in 0 .. m - 1, NEW n \in Nat, NEW f, NEW g, NEW h,
         Reduces(f, g, h, n, m), Congruent(ValueAt(g, w, n + 1, m), 0, m)
  PROVE  Congruent(ValueAt(h, w, n, m), ValueAt(f, w, n + 1, m), m)
<1> DEFINE e == [i \in 0 .. n |-> IF i < n THEN h[i] ELSE 0]
           o == n + 1
<1>1. o \in Nat /\ n \in 0 .. o /\ o - 1 = n
  OBVIOUS
<1>2. /\ \A i \in 0 .. n : f[i] \in Int /\ g[i] \in Int
      /\ \A i \in 0 .. n - 1 : h[i] \in Int /\ Congruent(f[i], h[i] + g[i], m)
      /\ Congruent(f[n], g[n], m)
  BY DEF Reduces
<1>3. (\A i \in 0 .. n - 1 : e[i] = h[i]) /\ e[n] = 0
  OBVIOUS
<1> HIDE DEF e
<1>4. ASSUME NEW i \in 0 .. o - 1
      PROVE  f[i] \in Int /\ e[i] \in Int /\ g[i] \in Int /\ Congruent(f[i], e[i] + g[i], m)
  <2>1. i \in 0 .. n /\ (i = n \/ i \in 0 .. n - 1)
    OBVIOUS
  <2>2. CASE i = n
    <3>1. 0 + g[n] = g[n]
      BY <1>2, <2>1, <2>2
    <3> QED BY <1>2, <1>3, <2>1, <2>2, <3>1
  <2>3. CASE i \in 0 .. n - 1
    BY <1>2, <1>3, <2>1, <2>3
  <2> QED BY <2>1, <2>2, <2>3
<1>5. Padded(e, h, n, o)
  <2>1. \A i \in n .. o - 1 : i = n
    BY ONLY <1>1, n \in Nat
  <2> QED BY <1>2, <1>3, <2>1 DEF Padded
<1>6. ValueAt(e, w, o, m) = ValueAt(h, w, n, m)
  BY ONLY <1>1, <1>5, AtPadded, m \in Nat \ {0, 1}, w \in 0 .. m - 1
<1>7. Congruent(ValueAt(f, w, o, m), ValueAt(e, w, o, m) + ValueAt(g, w, o, m), m)
  BY ONLY <1>1, <1>4, AtSum, m \in Nat \ {0, 1}, w \in 0 .. m - 1
<1>8. ValueAt(e, w, o, m) \in Int /\ ValueAt(g, w, o, m) \in Int
  <2>1. \A i \in 0 .. o - 1 : e[i] \in Int
    BY <1>4
  <2>2. \A i \in 0 .. o - 1 : g[i] \in Int
    BY <1>4
  <2>3. ValueAt(e, w, o, m) \in Int
    BY ONLY <1>1, <2>1, AtTerms, m \in Nat \ {0, 1}, w \in 0 .. m - 1
  <2>4. ValueAt(g, w, o, m) \in Int
    BY ONLY <1>1, <2>2, AtTerms, m \in Nat \ {0, 1}, w \in 0 .. m - 1
  <2> QED BY <2>3, <2>4
<1> DEFINE E == ValueAt(e, w, o, m)
           G == ValueAt(g, w, o, m)
           F == ValueAt(f, w, o, m)
<1>9. E \in Int /\ G \in Int /\ Congruent(F, E + G, m) /\ Congruent(G, 0, m)
  BY <1>7, <1>8
<1> HIDE DEF E, G, F
<1>10. Congruent(E + G, E + 0, m)
  BY ONLY <1>9, CongruentSum, CongruentRelation, m \in Nat \ {0}, 0 \in Int
<1>11. E + 0 = E
  BY <1>9
<1>12. Congruent(E, F, m)
  BY ONLY <1>9, <1>10, <1>11, CongruentRelation, m \in Nat \ {0}
<1> QED BY <1>6, <1>12 DEF E, F

\* The polynomial with all coefficients c.
LEMMA AtConstant ==
  ASSUME NEW m, Field(m), NEW w \in 0 .. m - 1, w # 1, NEW n \in Nat, Power(w, n, m) = 1,
         NEW c \in Int, NEW g, \A i \in 0 .. n - 1 : g[i] = c
  PROVE  Congruent(ValueAt(g, w, n, m), 0, m)
<1> DEFINE t == [i \in 0 .. n - 1 |-> Power(w, i, m)]
           h == [i \in 0 .. n - 1 |-> g[i] * Power(w, i, m)]
<1>1. m \in Nat \ {0, 1} /\ m \in Nat \ {0} /\ w \in Nat
  BY DEF Field
<1>2. \A i \in 0 .. n - 1 : t[i] = Power(w, i, m) /\ t[i] \in Int
  <2>1. \A i \in 0 .. n - 1 : i \in Nat
    OBVIOUS
  <2>2. \A i \in Nat : Power(w, i, m) \in 0 .. m - 1
    BY ONLY <1>1, PowerSteps
  <2>3. \A i \in 0 .. n - 1 : Power(w, i, m) \in Int
    BY ONLY <1>1, <2>1, <2>2
  <2> QED BY <2>3
<1>3. \A i \in 0 .. n - 1 : h[i] = c * t[i]
  OBVIOUS
<1>4. ValueAt(g, w, n, m) = Total(h, n)
  BY DEF ValueAt
<1> HIDE DEF t, h
<1>5. Total(h, n) = c * Total(t, n) /\ Total(t, n) \in Int
  <2>1. \A i \in 0 .. n - 1 : t[i] \in Int /\ h[i] = c * t[i]
    BY ONLY <1>2, <1>3
  <2>2. \A i \in 0 .. n - 1 : t[i] \in Int
    BY ONLY <1>2
  <2>3. Total(h, n) = c * Total(t, n)
    BY ONLY <2>1, TotalTimes, n \in Nat, c \in Int
  <2> QED BY ONLY <2>2, <2>3, TotalInteger, n \in Nat
<1>6. Congruent(Total(t, n), 0, m)
  <2>1. \A i \in 0 .. n - 1 : t[i] = Power(w, i, m)
    BY ONLY <1>2
  <2> QED BY ONLY <2>1, GeometricSum, Field(m), w \in 0 .. m - 1, w # 1, n \in Nat, Power(w, n, m) = 1
<1>7. Congruent(c * Total(t, n), c * 0, m)
  BY ONLY <1>1, <1>5, <1>6, CongruentProduct, CongruentRelation, c \in Int, 0 \in Int
<1>8. c * 0 = 0
  OBVIOUS
<1> QED BY ONLY <1>4, <1>5, <1>7, <1>8

\* The upper half of the coefficients is subtracted from the lower half.
LEMMA Folded ==
  ASSUME NEW m \in Nat \ {0, 1}, NEW w \in 0 .. m - 1, NEW p \in Nat, Congruent(Power(w, p, m), -1, m),
         NEW f, \A i \in 0 .. 2 * p - 1 : f[i] \in Int,
         NEW g, \A i \in 0 .. p - 1 : g[i] \in Int /\ Congruent(g[i], f[i] - f[i + p], m)
  PROVE  Congruent(ValueAt(g, w, p, m), ValueAt(f, w, 2 * p, m), m)
<1> DEFINE q(i) == Power(w, i, m)
           t == [i \in 0 .. 2 * p - 1 |-> f[i] * q(i)]
           u == [i \in 0 .. p - 1 |-> t[p + i]]
           lo == [i \in 0 .. p - 1 |-> f[i] * q(i)]
           s == [i \in 0 .. p - 1 |-> g[i] * q(i)]
           d == [i \in 0 .. p - 1 |-> lo[i] + u[i]]
           P == Power(w, p, m)
<1>1. w \in Nat /\ m \in Nat \ {0} /\ 2 * p \in Nat /\ 2 * p = p + p
  OBVIOUS
<1>2. P \in Int /\ \A i \in Nat : q(i) \in Int /\ Congruent(q(p + i), P * q(i), m)
  <2>1. \A i \in Nat : Power(w, i, m) \in 0 .. m - 1
    BY ONLY <1>1, PowerSteps, m \in Nat \ {0, 1}
  <2>2. \A i \in Nat : Power(w, i, m) \in Int
    BY ONLY <1>1, <2>1
  <2>3. \A i \in Nat : Power(w, p + i, m) = (Power(w, p, m) * Power(w, i, m)) % m
    BY ONLY <1>1, PowerSum, m \in Nat \ {0, 1}, p \in Nat
  <2>4. \A i \in Nat : Power(w, p, m) * Power(w, i, m) \in Int
    BY ONLY <2>2, ProductInteger, p \in Nat
  <2>5. \A i \in Nat : Congruent(Power(w, p + i, m), Power(w, p, m) * Power(w, i, m), m)
    BY ONLY <1>1, <2>3, <2>4, CongruentRelation
  <2> QED BY ONLY <2>2, <2>5, p \in Nat
<1>3. Congruent(P, -1, m)
  OBVIOUS
<1>4. ValueAt(f, w, 2 * p, m) = Total(t, 2 * p) /\ ValueAt(g, w, p, m) = Total(s, p)
  BY DEF ValueAt
<1> HIDE DEF q, P
<1>5. \A i \in 0 .. 2 * p - 1 : t[i] \in Int /\ t[i] = f[i] * q(i)
  <2>1. \A i \in 0 .. 2 * p - 1 : i \in Nat
    OBVIOUS
  <2>2. \A i \in 0 .. 2 * p - 1 : f[i] * q(i) \in Int
    BY ONLY <1>2, <2>1, ProductInteger, \A i \in 0 .. 2 * p - 1 : f[i] \in Int
  <2> QED BY <2>2
<1>6. ASSUME NEW i \in 0 .. p - 1
      PROVE  /\ u[i] = t[p + i] /\ lo[i] = t[i] /\ lo[i] \in Int /\ u[i] \in Int /\ d[i] = lo[i] + u[i] /\ d[i] \in Int
             /\ s[i] \in Int /\ Congruent(s[i], d[i], m)
  <2>1. i \in Nat /\ i \in 0 .. 2 * p - 1 /\ p + i \in 0 .. 2 * p - 1 /\ p + i = i + p
    OBVIOUS
  <2> DEFINE a == f[i]
             b == f[p + i]
             c == g[i]
             e == q(i)
             h == q(p + i)
  <2>2. a \in Int /\ b \in Int /\ c \in Int /\ e \in Int /\ h \in Int /\ Congruent(c, a - b, m)
        /\ Congruent(h, P * e, m)
    BY <1>2, <2>1
  <2>3. u[i] = b * h /\ lo[i] = a * e /\ d[i] = a * e + b * h /\ s[i] = c * e /\ t[i] = a * e /\ t[p + i] = b * h
    BY <2>1
  <2> HIDE DEF a, b, c, e, h, u, lo, d, s, t
  <2>4. a * e \in Int /\ b * h \in Int /\ c * e \in Int /\ P * e \in Int /\ a * e + b * h \in Int
        /\ (-1) * e \in Int /\ b * (P * e) \in Int /\ b * ((-1) * e) \in Int
    <3>1. a * e \in Int /\ b * h \in Int /\ c * e \in Int /\ P * e \in Int /\ (-1) * e \in Int
      BY ONLY <1>2, <2>2, ProductInteger, -1 \in Int
    <3>2. b * (P * e) \in Int /\ b * ((-1) * e) \in Int
      BY ONLY <2>2, <3>1, ProductInteger
    <3> QED BY <3>1, <3>2
  <2>5. \A x : Congruent(x, x, m)
    BY ONLY <1>1, CongruentRelation
  <2>6. Congruent(P * e, (-1) * e, m)
    BY ONLY <1>1, <1>2, <1>3, <2>2, <2>5, CongruentProduct, -1 \in Int
  <2>7. Congruent(h, (-1) * e, m)
    BY ONLY <2>2, <2>6 DEF Congruent
  <2>8. Congruent(b * h, b * ((-1) * e), m)
    BY ONLY <1>1, <2>2, <2>4, <2>5, <2>7, CongruentProduct
  <2>9. Congruent(a * e + b * h, a * e + b * ((-1) * e), m)
    BY ONLY <1>1, <2>4, <2>5, <2>8, CongruentSum
  <2>10. a * e + b * ((-1) * e) = (a - b) * e /\ a - b \in Int
    <3>1. (a - b) * e = a * e - b * e /\ b * ((-1) * e) = -(b * e) /\ b * e \in Int
      BY ONLY <2>2
    <3> QED BY ONLY <2>2, <2>4, <3>1
  <2>11. Congruent(c * e, (a - b) * e, m)
    BY ONLY <1>1, <2>2, <2>5, <2>10, CongruentProduct
  <2>12. Congruent(c * e, a * e + b * h, m)
    BY ONLY <2>9, <2>10, <2>11 DEF Congruent
  <2> QED BY ONLY <2>3, <2>4, <2>12
<1> HIDE DEF t, u, lo, s, d
<1>7. Total(t, 2 * p) = Total(t, p) + Total(u, p)
  <2>1. \A i \in 0 .. p + p - 1 : t[i] \in Int
    BY ONLY <1>1, <1>5
  <2>2. \A i \in 0 .. p - 1 : u[i] = t[p + i]
    BY ONLY <1>6
  <2>3. Total(t, p + p) = Total(t, p) + Total(u, p)
    BY ONLY <2>1, <2>2, TotalJoins, p \in Nat
  <2> QED BY ONLY <1>1, <2>3
<1>8. Total(t, p) = Total(lo, p)
  <2>1. \A i \in 0 .. p - 1 : lo[i] \in Int /\ t[i] = lo[i]
    BY ONLY <1>6
  <2> QED BY ONLY <2>1, TotalSame, p \in Nat
<1>9. Total(d, p) = Total(lo, p) + Total(u, p)
  BY ONLY <1>6, TotalAdds, p \in Nat
<1>10. Congruent(Total(s, p), Total(d, p), m)
  BY ONLY <1>1, <1>6, TotalCongruent, p \in Nat
<1> QED BY ONLY <1>4, <1>7, <1>8, <1>9, <1>10

-----------------------------------------------------------------------------
(* Power series with integer coefficients, and Newton's iteration for      *)
(* the inverse of one.                                                     *)

\* Series, and their product.
Series == [Nat -> Int]
Cauchy(a, b) == [k \in Nat |-> Total([i \in 0 .. k |-> a[i] * b[k - i]], k + 1)]

\* A coefficient of a product of two series is a sum of integers.
LEMMA CauchyTerms ==
  ASSUME NEW a \in Series, NEW b \in Series, NEW k \in Nat, NEW t, \A i \in 0 .. k : t[i] = a[i] * b[k - i]
  PROVE  /\ Cauchy(a, b)[k] = Total(t, k + 1) /\ Cauchy(a, b)[k] \in Int
         /\ \A i \in 0 .. k : t[i] \in Int
<1> DEFINE s == [i \in 0 .. k |-> a[i] * b[k - i]]
<1>1. \A i \in 0 .. k : i \in Nat /\ k - i \in Nat
  OBVIOUS
<1>2. \A i \in 0 .. k : a[i] \in Int /\ b[k - i] \in Int
  BY <1>1 DEF Series
<1>3. \A i \in 0 .. k : a[i] * b[k - i] \in Int
  BY ONLY <1>2, ProductInteger
<1>4. k + 1 \in Nat /\ (k + 1) - 1 = k
  OBVIOUS
<1>5. \A i \in 0 .. (k + 1) - 1 : s[i] \in Int /\ t[i] = s[i]
  BY <1>3, <1>4
<1>6. Cauchy(a, b)[k] = Total(s, k + 1)
  BY DEF Cauchy
<1> HIDE DEF s
<1>7. Total(t, k + 1) = Total(s, k + 1)
  BY ONLY <1>4, <1>5, TotalSame
<1>8. Total(s, k + 1) \in Int
  BY ONLY <1>4, <1>5, TotalInteger
<1>9. \A i \in 0 .. k : t[i] \in Int
  BY ONLY <1>4, <1>5
<1> QED BY ONLY <1>6, <1>7, <1>8, <1>9

\* A product of two series is a series.
LEMMA CauchySeries ==
  ASSUME NEW a \in Series, NEW b \in Series
  PROVE  Cauchy(a, b) \in Series
<1>1. ASSUME NEW k \in Nat PROVE Cauchy(a, b)[k] \in Int
  <2> DEFINE t == [i \in 0 .. k |-> a[i] * b[k - i]]
  <2>1. \A i \in 0 .. k : t[i] = a[i] * b[k - i]
    OBVIOUS
  <2> HIDE DEF t
  <2> QED BY ONLY <2>1, CauchyTerms, a \in Series, b \in Series, k \in Nat
<1>2. Cauchy(a, b) = [k \in Nat |-> Cauchy(a, b)[k]]
  BY DEF Cauchy
<1> QED BY ONLY <1>1, <1>2 DEF Series

\* A coefficient of a product when one factor has no coefficients from c on.
LEMMA CauchyUpTo ==
  ASSUME NEW a \in Series, NEW b \in Series, NEW k \in Nat, NEW c \in 0 .. k + 1,
         \A i \in c .. k : a[i] = 0,
         NEW t, \A i \in 0 .. c - 1 : t[i] = a[i] * b[k - i]
  PROVE  Cauchy(a, b)[k] = Total(t, c)
<1> DEFINE s == [i \in 0 .. k |-> a[i] * b[k - i]]
<1>1. k + 1 \in Nat /\ (k + 1) - 1 = k /\ c \in Nat
  OBVIOUS
<1>2. \A i \in 0 .. k : s[i] = a[i] * b[k - i] /\ i \in Nat /\ k - i \in Nat
  OBVIOUS
<1>3. \A i \in c .. k : s[i] = 0
  <2>1. \A i \in c .. k : i \in 0 .. k /\ a[i] = 0 /\ b[k - i] \in Int
    BY <1>2 DEF Series
  <2>2. \A x \in Int : 0 * x = 0
    OBVIOUS
  <2> HIDE DEF s
  <2> QED BY ONLY <1>2, <2>1, <2>2
<1>4. \A i \in 0 .. c - 1 : i \in 0 .. k
  OBVIOUS
<1> HIDE DEF s
<1>5. Cauchy(a, b)[k] = Total(s, k + 1) /\ \A i \in 0 .. k : s[i] \in Int
  BY ONLY <1>2, CauchyTerms, a \in Series, b \in Series, k \in Nat
<1>6. Total(s, k + 1) = Total(s, c)
  BY ONLY <1>1, <1>3, <1>5, TotalTail, c \in 0 .. k + 1
<1>7. \A i \in 0 .. c - 1 : s[i] \in Int /\ t[i] = s[i]
  BY <1>2, <1>4, <1>5
<1>8. Total(t, c) = Total(s, c)
  BY ONLY <1>1, <1>7, TotalSame
<1> QED BY ONLY <1>5, <1>6, <1>8

\* Products of series commute.
LEMMA CauchyCommutes ==
  ASSUME NEW a \in Series, NEW b \in Series, NEW k \in Nat
  PROVE  Cauchy(a, b)[k] = Cauchy(b, a)[k]
<1> DEFINE s == [i \in 0 .. k |-> k - i]
           t == [i \in 0 .. k |-> a[i] * b[k - i]]
           u == [i \in 0 .. k |-> b[i] * a[k - i]]
           n == k + 1
<1>1. n \in Nat /\ n - 1 = k
  OBVIOUS
<1>2. \A i \in 0 .. k : s[i] \in 0 .. k /\ s[s[i]] = i /\ s[i] = k - i /\ k - (k - i) = i
  OBVIOUS
<1>3. \A i \in 0 .. k : t[i] = a[i] * b[k - i]
  OBVIOUS
<1>4. \A i \in 0 .. k : u[i] = b[i] * a[k - i]
  OBVIOUS
<1>5. \A i \in 0 .. k : a[i] \in Int /\ b[i] \in Int
  BY DEF Series
<1> HIDE DEF s, t, u, n
<1>6. \A i \in 0 .. k : u[i] = t[s[i]]
  <2>1. ASSUME NEW i \in 0 .. k PROVE b[i] * a[k - i] = a[k - i] * b[i]
    <3>1. b[i] \in Int /\ a[k - i] \in Int
      BY <1>2, <1>5
    <3> QED BY ONLY <3>1, Reorder
  <2> QED BY ONLY <1>2, <1>3, <1>4, <2>1
<1>7. Cauchy(a, b)[k] = Total(t, k + 1) /\ \A i \in 0 .. k : t[i] \in Int
  BY ONLY <1>3, CauchyTerms, a \in Series, b \in Series, k \in Nat
<1>8. Cauchy(b, a)[k] = Total(u, k + 1)
  BY ONLY <1>4, CauchyTerms, a \in Series, b \in Series, k \in Nat
<1>9. \A i \in 0 .. n - 1 : /\ t[i] \in Int /\ u[i] = t[s[i]]
                            /\ s[i] \in 0 .. n - 1 /\ s[s[i]] = i
  BY ONLY <1>1, <1>2, <1>6, <1>7
<1>10. Total(u, n) = Total(t, n)
  BY ONLY <1>1, <1>9, TotalPermuted
<1> QED BY ONLY <1>7, <1>8, <1>10 DEF n

\* They associate.
LEMMA CauchyAssociates ==
  ASSUME NEW a \in Series, NEW b \in Series, NEW c \in Series, NEW n \in Nat
  PROVE  Cauchy(Cauchy(a, b), c)[n] = Cauchy(a, Cauchy(b, c))[n]
<1> DEFINE ab == Cauchy(a, b)
           bc == Cauchy(b, c)
           F(k, i) == IF i <= k THEN a[i] * (b[k - i] * c[n - k]) ELSE 0
           f == [k \in 0 .. n |-> [i \in 0 .. n |-> F(k, i)]]
           g == [i \in 0 .. n |-> [k \in 0 .. n |-> F(k, i)]]
           r == [k \in 0 .. n |-> ab[k] * c[n - k]]
           s == [i \in 0 .. n |-> a[i] * bc[n - i]]
           N == n + 1
<1>1. N \in Nat /\ N - 1 = n
  OBVIOUS
<1>2. ab \in Series /\ bc \in Series
  BY CauchySeries
<1>3. \A x, y \in Int : x * y \in Int
  BY ONLY ProductInteger
<1>4. /\ \A i \in Nat : a[i] \in Int /\ b[i] \in Int /\ c[i] \in Int /\ ab[i] \in Int /\ bc[i] \in Int
  BY <1>2 DEF Series
<1>5. \A k \in 0 .. n : k \in Nat /\ n - k \in Nat
  OBVIOUS
<1>6. /\ \A k, i \in 0 .. n : f[k][i] = F(k, i) /\ g[i][k] = F(k, i)
      /\ \A k \in 0 .. n : r[k] = ab[k] * c[n - k]
      /\ \A i \in 0 .. n : s[i] = a[i] * bc[n - i]
  OBVIOUS
<1> HIDE DEF f, g, r, s, N, ab, bc
<1>7. \A k, i \in 0 .. n : F(k, i) \in Int
  <2>1. ASSUME NEW k \in 0 .. n, NEW i \in 0 .. n, i <= k PROVE a[i] * (b[k - i] * c[n - k]) \in Int
    <3>1. i \in Nat /\ k - i \in Nat /\ n - k \in Nat
      BY ONLY <2>1, n \in Nat
    <3>2. b[k - i] * c[n - k] \in Int /\ a[i] \in Int
      BY ONLY <1>3, <1>4, <3>1
    <3> QED BY ONLY <1>3, <3>2
  <2> QED BY ONLY <2>1, 0 \in Int
<1>8. ASSUME NEW k \in 0 .. n PROVE r[k] = Total(f[k], N)
  <2> DEFINE t == [i \in 0 .. k |-> a[i] * b[k - i]]
             h == [i \in 0 .. k |-> F(k, i)]
             x == c[n - k]
  <2>1. k \in Nat /\ n - k \in Nat /\ k + 1 \in 0 .. N /\ k + 1 \in Nat /\ (k + 1) - 1 = k
        /\ x \in Int /\ ab[k] \in Int
    BY <1>1, <1>4
  <2>2. \A i \in 0 .. k : i \in 0 .. n /\ i \in Nat /\ k - i \in Nat /\ i <= k /\ t[i] = a[i] * b[k - i] /\ h[i] = F(k, i)
    BY <2>1
  <2>3. \A i \in k + 1 .. N - 1 : i \in 0 .. n /\ ~(i <= k)
    BY <1>1
  <2> HIDE DEF t, h
  <2>4. ab[k] = Total(t, k + 1) /\ \A i \in 0 .. k : t[i] \in Int
    BY ONLY <2>1, <2>2, CauchyTerms, a \in Series, b \in Series DEF ab
  <2>5. \A i \in 0 .. k : h[i] = x * t[i]
    <3>1. ASSUME NEW i \in 0 .. k PROVE F(k, i) = x * (a[i] * b[k - i])
      <4>1. F(k, i) = a[i] * (b[k - i] * x)
        BY ONLY <2>2
      <4>2. a[i] \in Int /\ b[k - i] \in Int /\ x \in Int
        BY ONLY <1>4, <2>1, <2>2
      <4>3. a[i] * b[k - i] \in Int
        BY ONLY <1>3, <4>2
      <4>4. (a[i] * b[k - i]) * x = a[i] * (b[k - i] * x) /\ (a[i] * b[k - i]) * x = x * (a[i] * b[k - i])
        BY ONLY <4>2, <4>3, Reorder
      <4> QED BY ONLY <4>1, <4>4
    <3> HIDE DEF F, x
    <3> QED BY ONLY <2>2, <3>1
  <2> HIDE DEF F, x
  <2>6. Total(h, k + 1) = x * Total(t, k + 1)
    <3>1. \A i \in 0 .. (k + 1) - 1 : t[i] \in Int /\ h[i] = x * t[i]
      BY ONLY <2>1, <2>4, <2>5
    <3> QED BY ONLY <2>1, <3>1, TotalTimes
  <2>7. \A i \in 0 .. N - 1 : f[k][i] \in Int
    BY ONLY <1>1, <1>6, <1>7, k \in 0 .. n
  <2>8. \A i \in k + 1 .. N - 1 : f[k][i] = 0
    BY ONLY <1>6, <2>3, k \in 0 .. n DEF F
  <2>9. Total(f[k], N) = Total(f[k], k + 1)
    BY ONLY <1>1, <2>1, <2>7, <2>8, TotalTail
  <2>10. Total(f[k], k + 1) = Total(h, k + 1)
    <3>1. \A i \in 0 .. (k + 1) - 1 : h[i] \in Int /\ f[k][i] = h[i]
      BY ONLY <1>6, <1>7, <2>1, <2>2, k \in 0 .. n
    <3> QED BY ONLY <2>1, <3>1, TotalSame
  <2>11. r[k] = ab[k] * x /\ ab[k] * x = x * ab[k]
    <3>1. r[k] = ab[k] * x
      BY ONLY <1>6, k \in 0 .. n DEF x
    <3> QED BY ONLY <2>1, <3>1, Reorder
  <2> QED BY ONLY <2>4, <2>6, <2>9, <2>10, <2>11
<1>9. ASSUME NEW i \in 0 .. n PROVE s[i] = Total(g[i], N)
  <2> DEFINE d == n - i
             t == [j \in 0 .. d |-> b[j] * c[d - j]]
             u == [j \in 0 .. d |-> g[i][i + j]]
             x == a[i]
  <2>1. i \in Nat /\ d \in Nat /\ d + 1 \in Nat /\ (d + 1) - 1 = d /\ i + (d + 1) = N /\ x \in Int /\ bc[d] \in Int
    BY <1>1, <1>4, <1>5 DEF N
  <2>2. \A j \in 0 .. d : /\ j \in Nat /\ d - j \in Nat /\ t[j] = b[j] * c[d - j] /\ u[j] = g[i][i + j]
                          /\ i + j \in 0 .. n /\ i <= i + j /\ (i + j) - i = j /\ n - (i + j) = d - j
    BY <2>1
  <2>3. \A k \in 0 .. i - 1 : k \in 0 .. n /\ ~(i <= k)
    OBVIOUS
  <2> HIDE DEF t, u
  <2>4. bc[d] = Total(t, d + 1) /\ \A j \in 0 .. d : t[j] \in Int
    BY ONLY <2>1, <2>2, CauchyTerms, b \in Series, c \in Series DEF bc
  <2>5. \A j \in 0 .. d : u[j] = x * t[j]
    <3>1. ASSUME NEW j \in 0 .. d PROVE u[j] = x * t[j]
      <4>1. u[j] = F(i + j, i)
        BY ONLY <1>6, <2>2, i \in 0 .. n
      <4>2. F(i + j, i) = a[i] * (b[(i + j) - i] * c[n - (i + j)])
        BY ONLY <2>2
      <4>3. b[(i + j) - i] = b[j] /\ c[n - (i + j)] = c[d - j]
        BY ONLY <2>2
      <4> HIDE DEF F, d
      <4> QED BY ONLY <2>2, <4>1, <4>2, <4>3
    <3> HIDE DEF F, x, d
    <3> QED BY ONLY <3>1
  <2> HIDE DEF F, x, d
  <2>6. Total(u, d + 1) = x * Total(t, d + 1)
    <3>1. \A j \in 0 .. (d + 1) - 1 : t[j] \in Int /\ u[j] = x * t[j]
      BY ONLY <2>1, <2>4, <2>5
    <3> QED BY ONLY <2>1, <3>1, TotalTimes
  <2>7. \A k \in 0 .. i + (d + 1) - 1 : g[i][k] \in Int
    BY ONLY <1>1, <1>6, <1>7, <2>1, i \in 0 .. n
  <2>8. \A k \in 0 .. i - 1 : g[i][k] = 0
    BY ONLY <1>6, <2>3, i \in 0 .. n DEF F
  <2>9. Total(g[i], i) = 0
    BY ONLY <2>1, <2>8, TotalZero
  <2>10. \A j \in 0 .. (d + 1) - 1 : u[j] = g[i][i + j]
    BY ONLY <2>1, <2>2
  <2>11. Total(g[i], i + (d + 1)) = Total(g[i], i) + Total(u, d + 1)
    <3> DEFINE e == d + 1
               v == g[i]
    <3>1. i \in Nat /\ e \in Nat /\ \A k \in 0 .. i + e - 1 : v[k] \in Int
      BY <2>1, <2>7
    <3>2. \A j \in 0 .. e - 1 : u[j] = v[i + j]
      BY <2>10
    <3> HIDE DEF e, v
    <3>3. Total(v, i + e) = Total(v, i) + Total(u, e)
      BY ONLY <3>1, <3>2, TotalJoins
    <3> QED BY <3>3 DEF e, v
  <2>12. x * bc[d] \in Int
    BY ONLY <1>3, <2>1
  <2>13. s[i] = x * bc[d]
    BY ONLY <1>6, i \in 0 .. n DEF x, d
  <2>14. Total(g[i], N) = 0 + x * bc[d]
    BY ONLY <2>1, <2>4, <2>6, <2>9, <2>11
  <2> QED BY ONLY <2>12, <2>13, <2>14
<1> HIDE DEF F
<1>10. Transposed(f, g, N, N)
  <2>1. \A k, i \in 0 .. N - 1 : f[k][i] \in Int /\ g[i][k] = f[k][i]
    BY ONLY <1>1, <1>6, <1>7
  <2> QED BY ONLY <2>1 DEF Transposed
<1>11. Sums(r, f, N, N) /\ Sums(s, g, N, N)
  BY ONLY <1>1, <1>8, <1>9 DEF Sums
<1>12. Total(r, N) = Total(s, N)
  BY ONLY <1>1, <1>10, <1>11, TotalSwaps
<1>13. Cauchy(ab, c)[n] = Total(r, n + 1)
  BY ONLY <1>2, <1>6, CauchyTerms, c \in Series, n \in Nat
<1>14. Cauchy(a, bc)[n] = Total(s, n + 1)
  BY ONLY <1>2, <1>6, CauchyTerms, a \in Series, n \in Nat
<1> QED BY ONLY <1>12, <1>13, <1>14 DEF N, ab, bc

\* Two series agree in the coefficients below n, modulo m.
Agree(a, b, n, m) == \A k \in Nat : k < n => Congruent(a[k], b[k], m)

\* Agreement is an equivalence.
LEMMA AgreeRelation ==
  ASSUME NEW m \in Nat \ {0}
  PROVE  /\ \A a, n : Agree(a, a, n, m)
         /\ \A a, b, n : Agree(a, b, n, m) => Agree(b, a, n, m)
         /\ \A a, b, c, n : Agree(a, b, n, m) /\ Agree(b, c, n, m) => Agree(a, c, n, m)
<1>1. /\ \A a : Congruent(a, a, m)
      /\ \A a, b : Congruent(a, b, m) => Congruent(b, a, m)
      /\ \A a, b, c : Congruent(a, b, m) /\ Congruent(b, c, m) => Congruent(a, c, m)
  BY ONLY CongruentRelation, m \in Nat \ {0}
<1> QED BY ONLY <1>1 DEF Agree

\* Products of series that agree do.
LEMMA CauchyAgrees ==
  ASSUME NEW m \in Nat \ {0}, NEW a \in Series, NEW b \in Series, NEW c \in Series, NEW d \in Series,
         NEW n \in Nat, Agree(a, c, n, m), Agree(b, d, n, m)
  PROVE  Agree(Cauchy(a, b), Cauchy(c, d), n, m)
<1> SUFFICES ASSUME NEW k \in Nat, k < n PROVE Congruent(Cauchy(a, b)[k], Cauchy(c, d)[k], m)
  BY DEF Agree
<1> DEFINE t == [i \in 0 .. k |-> a[i] * b[k - i]]
           u == [i \in 0 .. k |-> c[i] * d[k - i]]
<1>1. \A i \in 0 .. k : i \in Nat /\ k - i \in Nat /\ i < n /\ k - i < n
  OBVIOUS
<1>2. \A i \in 0 .. k : t[i] = a[i] * b[k - i] /\ u[i] = c[i] * d[k - i]
  OBVIOUS
<1> HIDE DEF t, u
<1>3. Cauchy(a, b)[k] = Total(t, k + 1) /\ \A i \in 0 .. k : t[i] \in Int
  BY ONLY <1>2, CauchyTerms, a \in Series, b \in Series, k \in Nat
<1>4. Cauchy(c, d)[k] = Total(u, k + 1) /\ \A i \in 0 .. k : u[i] \in Int
  BY ONLY <1>2, CauchyTerms, c \in Series, d \in Series, k \in Nat
<1>5. ASSUME NEW i \in 0 .. k PROVE Congruent(t[i], u[i], m)
  <2>1. a[i] \in Int /\ b[k - i] \in Int /\ c[i] \in Int /\ d[k - i] \in Int
    BY <1>1 DEF Series
  <2>2. Congruent(a[i], c[i], m) /\ Congruent(b[k - i], d[k - i], m)
    BY <1>1 DEF Agree
  <2>3. Congruent(a[i] * b[k - i], c[i] * d[k - i], m)
    BY ONLY <2>1, <2>2, CongruentProduct, m \in Nat \ {0}
  <2> QED BY ONLY <1>2, <2>3
<1>6. k + 1 \in Nat /\ (k + 1) - 1 = k
  OBVIOUS
<1>7. \A i \in 0 .. (k + 1) - 1 : t[i] \in Int /\ u[i] \in Int /\ Congruent(t[i], u[i], m)
  BY ONLY <1>3, <1>4, <1>5, <1>6
<1>8. Congruent(Total(t, k + 1), Total(u, k + 1), m)
  BY ONLY <1>6, <1>7, TotalCongruent, m \in Nat \ {0}
<1> QED BY ONLY <1>3, <1>4, <1>8

\* The series that is one.
Unit == [k \in Nat |-> IF k = 0 THEN 1 ELSE 0]

\* Unit is the series that multiplies to the other factor.
LEMMA CauchyOne ==
  ASSUME NEW a \in Series, NEW k \in Nat
  PROVE  Unit \in Series /\ Cauchy(a, Unit)[k] = a[k]
<1> DEFINE t == [i \in 0 .. k |-> a[i] * Unit[k - i]]
<1>1. Unit \in Series
  BY DEF Unit, Series
<1>2. \A i \in 0 .. k : t[i] = a[i] * Unit[k - i]
  OBVIOUS
<1>3. \A i \in 0 .. k : Unit[k - i] = IF i = k THEN 1 ELSE 0
  BY DEF Unit
<1>4. \A i \in 0 .. k : a[i] \in Int
  BY DEF Series
<1> HIDE DEF t
<1>5. Cauchy(a, Unit)[k] = Total(t, k + 1)
  BY ONLY <1>1, <1>2, CauchyTerms, a \in Series, k \in Nat
<1>6. \A i \in 0 .. k : t[i] = IF i = k THEN a[i] ELSE 0
  <2>1. \A x \in Int : x * 1 = x /\ x * 0 = 0
    OBVIOUS
  <2> QED BY ONLY <1>2, <1>3, <1>4, <2>1
<1>7. k + 1 \in Nat /\ k \in 0 .. (k + 1) - 1 /\ (k + 1) - 1 = k /\ k \in 0 .. k
  OBVIOUS
<1>8. t[k] = a[k] /\ t[k] \in Int
  BY ONLY <1>4, <1>6, <1>7
<1>9. \A i \in 0 .. (k + 1) - 1 : i # k => t[i] = 0
  BY ONLY <1>6, <1>7
<1>10. Total(t, k + 1) = t[k]
  BY ONLY <1>7, <1>8, <1>9, TotalSingle
<1> QED BY ONLY <1>1, <1>5, <1>8, <1>10

\* c is twice a less b.
Corrects(c, a, b, n, m) == \A k \in Nat : k < n => Congruent(c[k], 2 * a[k] - b[k], m)

\* So are its products of theirs.
LEMMA CauchyCorrects ==
  ASSUME NEW m \in Nat \ {0}, NEW a \in Series, NEW b \in Series, NEW c \in Series, NEW g \in Series,
         NEW n \in Nat, Corrects(c, a, b, n, m)
  PROVE  Corrects(Cauchy(c, g), Cauchy(a, g), Cauchy(b, g), n, m)
<1> SUFFICES ASSUME NEW k \in Nat, k < n
             PROVE  Congruent(Cauchy(c, g)[k], 2 * Cauchy(a, g)[k] - Cauchy(b, g)[k], m)
  BY DEF Corrects
<1> DEFINE t == [i \in 0 .. k |-> a[i] * g[k - i]]
           u == [i \in 0 .. k |-> b[i] * g[k - i]]
           v == [i \in 0 .. k |-> c[i] * g[k - i]]
           d == [i \in 0 .. k |-> 2 * t[i]]
           e == [i \in 0 .. k |-> (-1) * u[i]]
           s == [i \in 0 .. k |-> d[i] + e[i]]
<1>1. \A i \in 0 .. k : i \in Nat /\ k - i \in Nat /\ i < n
  OBVIOUS
<1>a. \A i \in 0 .. k : t[i] = a[i] * g[k - i]
  OBVIOUS
<1>b. \A i \in 0 .. k : u[i] = b[i] * g[k - i]
  OBVIOUS
<1>c. \A i \in 0 .. k : v[i] = c[i] * g[k - i]
  OBVIOUS
<1>2. \A i \in 0 .. k : d[i] = 2 * t[i] /\ e[i] = (-1) * u[i] /\ s[i] = d[i] + e[i]
  OBVIOUS
<1> HIDE DEF t, u, v, d, e, s
<1>3. Cauchy(a, g)[k] = Total(t, k + 1) /\ Cauchy(a, g)[k] \in Int /\ \A i \in 0 .. k : t[i] \in Int
  BY ONLY Zenon, <1>a, CauchyTerms, a \in Series, g \in Series, k \in Nat
<1>4. Cauchy(b, g)[k] = Total(u, k + 1) /\ Cauchy(b, g)[k] \in Int /\ \A i \in 0 .. k : u[i] \in Int
  BY ONLY Zenon, <1>b, CauchyTerms, b \in Series, g \in Series, k \in Nat
<1>5. Cauchy(c, g)[k] = Total(v, k + 1) /\ Cauchy(c, g)[k] \in Int /\ \A i \in 0 .. k : v[i] \in Int
  BY ONLY Zenon, <1>c, CauchyTerms, c \in Series, g \in Series, k \in Nat
<1>6. ASSUME NEW i \in 0 .. k PROVE d[i] \in Int /\ e[i] \in Int /\ s[i] \in Int /\ Congruent(v[i], s[i], m)
  <2> DEFINE A == a[i]
             B == b[i]
             C == c[i]
             G == g[k - i]
  <2>1. A \in Int /\ B \in Int /\ C \in Int /\ G \in Int
    BY <1>1 DEF Series
  <2>2. Congruent(C, 2 * A - B, m)
    BY <1>1 DEF Corrects
  <2>3. t[i] = A * G /\ u[i] = B * G /\ v[i] = C * G /\ d[i] = 2 * t[i] /\ e[i] = (-1) * u[i] /\ s[i] = d[i] + e[i]
    BY <1>a, <1>b, <1>c, <1>2
  <2> HIDE DEF A, B, C, G
  <2>4. A * G \in Int /\ B * G \in Int /\ 2 * A - B \in Int /\ (2 * A - B) * G = 2 * (A * G) + (-1) * (B * G)
    BY ONLY <2>1
  <2>5. Congruent(C * G, (2 * A - B) * G, m)
    <3>1. Congruent(G, G, m)
      BY ONLY CongruentRelation, m \in Nat \ {0}
    <3> QED BY ONLY <2>1, <2>2, <2>4, <3>1, CongruentProduct, m \in Nat \ {0}
  <2> DEFINE p == A * G
             q == B * G
  <2>6. p \in Int /\ q \in Int /\ d[i] = 2 * p /\ e[i] = (-1) * q
    BY <2>3, <2>4
  <2> HIDE DEF p, q
  <2>7. d[i] \in Int /\ e[i] \in Int /\ d[i] + e[i] \in Int
    BY ONLY <2>6
  <2> QED BY ONLY <2>3, <2>4, <2>5, <2>7
<1>7. k + 1 \in Nat /\ (k + 1) - 1 = k
  OBVIOUS
<1>8. Total(d, k + 1) = 2 * Total(t, k + 1)
  <2>1. \A i \in 0 .. (k + 1) - 1 : t[i] \in Int /\ d[i] = 2 * t[i]
    BY ONLY <1>2, <1>3, <1>7
  <2> QED BY ONLY <1>7, <2>1, TotalTimes, 2 \in Int
<1>9. Total(e, k + 1) = (-1) * Total(u, k + 1)
  <2>1. \A i \in 0 .. (k + 1) - 1 : u[i] \in Int /\ e[i] = (-1) * u[i]
    BY ONLY <1>2, <1>4, <1>7
  <2> QED BY ONLY <1>7, <2>1, TotalTimes, -1 \in Int
<1>10. Total(s, k + 1) = Total(d, k + 1) + Total(e, k + 1)
  <2>1. \A i \in 0 .. (k + 1) - 1 : d[i] \in Int /\ e[i] \in Int /\ s[i] = d[i] + e[i]
    BY ONLY <1>2, <1>6, <1>7
  <2> QED BY ONLY <1>7, <2>1, TotalAdds
<1>11. Congruent(Total(v, k + 1), Total(s, k + 1), m)
  <2>1. \A i \in 0 .. (k + 1) - 1 : v[i] \in Int /\ s[i] \in Int /\ Congruent(v[i], s[i], m)
    BY ONLY <1>5, <1>6, <1>7
  <2> QED BY ONLY <1>7, <2>1, TotalCongruent, m \in Nat \ {0}
<1>12. 2 * Total(t, k + 1) + (-1) * Total(u, k + 1) = 2 * Total(t, k + 1) - Total(u, k + 1)
  BY ONLY <1>3, <1>4
<1> QED BY ONLY <1>3, <1>4, <1>5, <1>8, <1>9, <1>10, <1>11, <1>12

\* The square of a series that starts as one does, with twice as many
\* coefficients.
LEMMA SquareNearOne ==
  ASSUME NEW m \in Nat \ {0}, NEW e \in Series, NEW h \in Nat \ {0}, Agree(e, Unit, h, m)
  PROVE  Corrects(Unit, e, Cauchy(e, e), 2 * h, m)
<1> SUFFICES ASSUME NEW k \in Nat, k < 2 * h
             PROVE  Congruent(Unit[k], 2 * e[k] - Cauchy(e, e)[k], m)
  BY DEF Corrects
<1> DEFINE t == [i \in 0 .. k |-> e[i] * e[k - i]]
           lo == [i \in 0 .. k |-> IF i = 0 THEN e[k] ELSE 0]
           hi == [i \in 0 .. k |-> IF i = k THEN e[k] ELSE 0]
           s == [i \in 0 .. k |-> lo[i] + hi[i]]
<1>0. \A x : Congruent(x, x, m)
  BY ONLY CongruentRelation, m \in Nat \ {0}
<1>1. \A i \in Nat : e[i] \in Int
  BY DEF Series
<1>2. \A i \in 0 .. k : t[i] = e[i] * e[k - i] /\ i \in Nat /\ k - i \in Nat
  OBVIOUS
<1>3. Congruent(e[0], 1, m) /\ \A i \in Nat : i # 0 /\ i < h => Congruent(e[i], 0, m)
  <2>1. Unit[0] = 1 /\ \A i \in Nat : i # 0 => Unit[i] = 0
    BY DEF Unit
  <2>2. 0 \in Nat /\ 0 < h
    OBVIOUS
  <2> QED BY ONLY <2>1, <2>2, Agree(e, Unit, h, m) DEF Agree
<1> HIDE DEF t
<1>4. Cauchy(e, e)[k] = Total(t, k + 1) /\ Cauchy(e, e)[k] \in Int /\ \A i \in 0 .. k : t[i] \in Int
  BY ONLY <1>2, CauchyTerms, e \in Series, k \in Nat
<1>5. k + 1 \in Nat /\ (k + 1) - 1 = k /\ 0 \in 0 .. k /\ k \in 0 .. k /\ k - k = 0 /\ k - 0 = k /\ 0 \in Nat
  OBVIOUS
<1>6. CASE k = 0
  <2>1. Congruent(t[0], 1 * 1, m)
    <3>1. t[0] = e[0] * e[0] /\ e[0] \in Int
      BY ONLY <1>1, <1>2, <1>5, <1>6
    <3> QED BY ONLY <1>3, <3>1, CongruentProduct, m \in Nat \ {0}, 1 \in Int
  <2>2. Total(t, k + 1) = t[0] /\ t[0] \in Int
    <3>1. 0 \in 0 .. (k + 1) - 1 /\ \A i \in 0 .. (k + 1) - 1 : i # 0 => t[i] = 0
      BY ONLY <1>6
    <3>2. t[0] \in Int
      BY ONLY <1>4, <1>5
    <3> QED BY ONLY <1>5, <3>1, <3>2, TotalSingle
  <2>3. Congruent(2 * e[0], 2 * 1, m) /\ e[0] \in Int /\ 2 * e[0] \in Int
    <3>1. e[0] \in Int
      BY ONLY <1>1, <1>5
    <3>2. 2 * e[0] \in Int
      BY ONLY <3>1
    <3> QED BY ONLY <1>0, <1>3, <3>1, <3>2, CongruentProduct, m \in Nat \ {0}, 1 \in Int, 2 \in Int
  <2>4. 1 * 1 = 1 /\ 2 * 1 = 2 /\ 2 - 1 = 1
    OBVIOUS
  <2>5. Congruent(2 * e[0] - t[0], 2 - 1, m)
    BY ONLY <2>1, <2>2, <2>3, <2>4, CongruentDifference, m \in Nat \ {0}, 1 \in Int, 2 \in Int
  <2>6. Congruent(1, 2 * e[0] - t[0], m)
    BY ONLY <2>4, <2>5, CongruentRelation, m \in Nat \ {0}
  <2>7. Unit[k] = 1
    BY <1>6 DEF Unit
  <2> QED BY ONLY <1>4, <1>6, <2>2, <2>6, <2>7
<1>7. CASE k # 0
  <2>1. \A i \in 0 .. k : lo[i] = (IF i = 0 THEN e[k] ELSE 0) /\ hi[i] = (IF i = k THEN e[k] ELSE 0)
                          /\ s[i] = lo[i] + hi[i]
    OBVIOUS
  <2>2. e[k] \in Int
    BY ONLY <1>1, k \in Nat
  <2> HIDE DEF lo, hi, s
  <2>3. \A i \in 0 .. k : lo[i] \in Int /\ hi[i] \in Int /\ s[i] \in Int
                          /\ s[i] = IF i = 0 \/ i = k THEN e[k] ELSE 0
    <3>1. 0 + 0 = 0 /\ \A x \in Int : x + 0 = x /\ 0 + x = x
      OBVIOUS
    <3>2. \A i \in 0 .. k : lo[i] \in Int /\ hi[i] \in Int
      BY ONLY <2>1, <2>2, 0 \in Int
    <3>3. \A i \in 0 .. k : s[i] = IF i = 0 \/ i = k THEN e[k] ELSE 0
      BY ONLY <1>7, <2>1, <2>2, <3>1
    <3> QED BY ONLY <2>2, <3>2, <3>3, 0 \in Int
  <2>4. ASSUME NEW i \in 0 .. k PROVE Congruent(t[i], s[i], m)
    <3> DEFINE x == e[i]
               y == e[k - i]
    <3>1. x \in Int /\ y \in Int /\ t[i] = x * y
      BY ONLY <1>1, <1>2
    <3>2. x * 1 = x /\ 1 * y = y /\ x * 0 = 0 /\ 0 * y = 0
      <4> HIDE DEF x, y
      <4> QED BY ONLY <3>1
    <3>3. CASE i = 0
      <4>1. Congruent(x, 1, m) /\ y = e[k] /\ s[i] = e[k]
        BY ONLY <1>3, <1>5, <2>3, <3>3
      <4> HIDE DEF x, y
      <4>2. Congruent(x * y, 1 * y, m)
        BY ONLY <1>0, <3>1, <4>1, CongruentProduct, m \in Nat \ {0}, 1 \in Int
      <4> QED BY ONLY <3>1, <3>2, <4>1, <4>2
    <3>4. CASE i = k
      <4>1. Congruent(y, 1, m) /\ x = e[k] /\ s[i] = e[k]
        BY ONLY <1>3, <1>5, <2>3, <3>4
      <4> HIDE DEF x, y
      <4>2. Congruent(x * y, x * 1, m)
        BY ONLY <1>0, <3>1, <4>1, CongruentProduct, m \in Nat \ {0}, 1 \in Int
      <4> QED BY ONLY <3>1, <3>2, <4>1, <4>2
    <3>5. CASE i # 0 /\ i # k
      <4>1. s[i] = 0
        BY ONLY <2>3, <3>5
      <4>2. i < h \/ k - i < h
        BY ONLY <1>2, k < 2 * h, h \in Nat \ {0}, k \in Nat
      <4>3. i \in Nat /\ k - i \in Nat /\ k - i # 0
        BY ONLY <1>2, <3>5, k \in Nat
      <4>4. Congruent(x, 0, m) \/ Congruent(y, 0, m)
        BY ONLY <1>3, <3>5, <4>2, <4>3
      <4> HIDE DEF x, y
      <4>5. Congruent(x, 0, m) => Congruent(x * y, 0 * y, m)
        BY ONLY <1>0, <3>1, CongruentProduct, m \in Nat \ {0}, 0 \in Int
      <4>6. Congruent(y, 0, m) => Congruent(x * y, x * 0, m)
        BY ONLY <1>0, <3>1, CongruentProduct, m \in Nat \ {0}, 0 \in Int
      <4> QED BY ONLY <3>1, <3>2, <4>1, <4>4, <4>5, <4>6
    <3> QED BY ONLY <3>3, <3>4, <3>5
  <2>5. \A i \in 0 .. (k + 1) - 1 : t[i] \in Int /\ s[i] \in Int /\ Congruent(t[i], s[i], m)
    BY ONLY <1>4, <1>5, <2>3, <2>4
  <2>6. Congruent(Total(t, k + 1), Total(s, k + 1), m)
    BY ONLY <1>5, <2>5, TotalCongruent, m \in Nat \ {0}
  <2>7. Total(s, k + 1) = Total(lo, k + 1) + Total(hi, k + 1)
    <3>1. \A i \in 0 .. (k + 1) - 1 : lo[i] \in Int /\ hi[i] \in Int /\ s[i] = lo[i] + hi[i]
      BY ONLY <1>5, <2>1, <2>3
    <3> QED BY ONLY <1>5, <3>1, TotalAdds
  <2>8. Total(lo, k + 1) = e[k]
    <3>1. 0 \in 0 .. (k + 1) - 1 /\ lo[0] = e[k] /\ \A i \in 0 .. (k + 1) - 1 : i # 0 => lo[i] = 0
      BY ONLY <1>5, <2>1
    <3> QED BY ONLY <1>5, <2>2, <3>1, TotalSingle
  <2>9. Total(hi, k + 1) = e[k]
    <3>1. k \in 0 .. (k + 1) - 1 /\ hi[k] = e[k] /\ \A i \in 0 .. (k + 1) - 1 : i # k => hi[i] = 0
      BY ONLY <1>5, <2>1
    <3> QED BY ONLY <1>5, <2>2, <3>1, TotalSingle
  <2> DEFINE x == e[k]
             c == Cauchy(e, e)[k]
  <2>10. Congruent(c, x + x, m) /\ x \in Int /\ c \in Int
    BY ONLY <1>4, <2>2, <2>6, <2>7, <2>8, <2>9
  <2>11. Unit[k] = 0
    BY <1>7 DEF Unit
  <2> HIDE DEF x, c
  <2>12. 2 * x \in Int /\ x + x = 2 * x /\ 2 * x - 2 * x = 0
    BY ONLY <2>10
  <2>13. Congruent(2 * x - c, 2 * x - 2 * x, m)
    BY ONLY <1>0, <2>10, <2>12, CongruentDifference, m \in Nat \ {0}
  <2>14. Congruent(0, 2 * x - c, m)
    BY ONLY <2>12, <2>13, CongruentRelation, m \in Nat \ {0}
  <2> QED BY ONLY <2>11, <2>14 DEF x, c
<1> QED BY <1>6, <1>7

\* Products of series may be reordered and regrouped.
LEMMA CauchyAlgebra ==
  ASSUME NEW a \in Series, NEW b \in Series
  PROVE  /\ Cauchy(a, b) \in Series /\ Cauchy(a, b) = Cauchy(b, a)
         /\ \A c \in Series : Cauchy(Cauchy(a, b), c) = Cauchy(a, Cauchy(b, c))
<1>1. \A f, g : f \in Series /\ g \in Series /\ (\A k \in Nat : f[k] = g[k]) => f = g
  BY DEF Series
<1>2. Cauchy(a, b) \in Series /\ Cauchy(b, a) \in Series
  BY CauchySeries
<1>3. \A k \in Nat : Cauchy(a, b)[k] = Cauchy(b, a)[k]
  BY CauchyCommutes
<1>4. ASSUME NEW c \in Series PROVE Cauchy(Cauchy(a, b), c) = Cauchy(a, Cauchy(b, c))
  <2>1. Cauchy(b, c) \in Series
    BY CauchySeries
  <2>2. Cauchy(Cauchy(a, b), c) \in Series /\ Cauchy(a, Cauchy(b, c)) \in Series
    BY ONLY <1>2, <2>1, CauchySeries, a \in Series, c \in Series
  <2>3. \A k \in Nat : Cauchy(Cauchy(a, b), c)[k] = Cauchy(a, Cauchy(b, c))[k]
    BY CauchyAssociates
  <2> QED BY ONLY <1>1, <2>2, <2>3
<1> QED BY ONLY <1>1, <1>2, <1>3, <1>4

\* A step of Newton's iteration doubles the number of coefficients in which h
\* is the inverse of g.
LEMMA NewtonDoubles ==
  ASSUME NEW m \in Nat \ {0}, NEW h \in Series, NEW g \in Series, NEW t \in Series, NEW f \in Series,
         NEW n \in Nat \ {0}, Agree(Cauchy(h, g), Unit, n, m),
         Agree(t, Cauchy(Cauchy(h, h), g), 2 * n, m), Corrects(f, h, t, 2 * n, m)
  PROVE  Agree(Cauchy(f, g), Unit, 2 * n, m)
<1> DEFINE e  == Cauchy(h, g)
           hh == Cauchy(h, h)
           tt == Cauchy(hh, g)
           ee == Cauchy(e, e)
<1>1. 2 * n \in Nat
  OBVIOUS
<1>2. e \in Series /\ hh \in Series
  BY CauchySeries
<1>3. tt \in Series /\ ee \in Series
  BY ONLY <1>2, CauchySeries, g \in Series
<1>4. Cauchy(tt, g) = ee
  <2>1. tt = Cauchy(h, e)
    BY CauchyAlgebra
  <2>2. Cauchy(Cauchy(h, e), g) = Cauchy(h, Cauchy(e, g))
    BY ONLY <1>2, CauchyAlgebra, h \in Series, g \in Series
  <2>3. Cauchy(e, g) = Cauchy(g, e)
    BY ONLY <1>2, CauchyAlgebra, g \in Series
  <2>4. Cauchy(Cauchy(h, g), e) = Cauchy(h, Cauchy(g, e))
    BY ONLY <1>2, CauchyAlgebra, h \in Series, g \in Series
  <2> QED BY ONLY <2>1, <2>2, <2>3, <2>4
<1>5. Corrects(Cauchy(f, g), e, Cauchy(t, g), 2 * n, m)
  BY ONLY <1>1, CauchyCorrects, m \in Nat \ {0}, h \in Series, g \in Series, t \in Series, f \in Series,
          Corrects(f, h, t, 2 * n, m)
<1>6. Agree(Cauchy(t, g), ee, 2 * n, m)
  <2>1. Agree(g, g, 2 * n, m)
    BY ONLY AgreeRelation, m \in Nat \ {0}
  <2>2. Agree(t, tt, 2 * n, m)
    OBVIOUS
  <2> HIDE DEF tt, ee
  <2>3. Agree(Cauchy(t, g), Cauchy(tt, g), 2 * n, m)
    BY ONLY <1>1, <1>3, <2>1, <2>2, CauchyAgrees, m \in Nat \ {0}, t \in Series, g \in Series
  <2> QED BY ONLY <1>4, <2>3
<1>7. Corrects(Unit, e, ee, 2 * n, m)
  <2>1. Agree(e, Unit, n, m)
    OBVIOUS
  <2> HIDE DEF e
  <2> QED BY ONLY <1>2, <2>1, SquareNearOne, m \in Nat \ {0}, n \in Nat \ {0}
<1>8. Cauchy(f, g) \in Series /\ Cauchy(t, g) \in Series /\ \A k \in Nat : Unit[k] \in Int
  <2>1. \A k \in Nat : Unit[k] \in Int
    BY DEF Unit
  <2> QED BY ONLY <2>1, CauchySeries, f \in Series, t \in Series, g \in Series
<1> DEFINE fg == Cauchy(f, g)
           tg == Cauchy(t, g)
<1> HIDE DEF e, hh, tt, ee, fg, tg
<1>9. ASSUME NEW k \in Nat, k < 2 * n PROVE Congruent(fg[k], Unit[k], m)
  <2>1. e[k] \in Int /\ ee[k] \in Int /\ fg[k] \in Int /\ tg[k] \in Int
    BY <1>2, <1>3, <1>8 DEF fg, tg, Series
  <2>2. Congruent(fg[k], 2 * e[k] - tg[k], m) /\ Congruent(tg[k], ee[k], m) /\ Congruent(Unit[k], 2 * e[k] - ee[k], m)
    BY <1>5, <1>6, <1>7, <1>9 DEF Corrects, Agree, fg, tg
  <2> DEFINE x == 2 * e[k]
             y == tg[k]
             z == ee[k]
  <2>3. x \in Int /\ y \in Int /\ z \in Int
    BY <2>1
  <2>4. Congruent(fg[k], x - y, m) /\ Congruent(y, z, m) /\ Congruent(Unit[k], x - z, m) /\ Congruent(x, x, m)
    BY <2>2 DEF Congruent
  <2> HIDE DEF x, y, z
  <2>5. Congruent(x - y, x - z, m)
    BY ONLY <2>3, <2>4, CongruentDifference, m \in Nat \ {0}
  <2> QED BY ONLY <2>4, <2>5 DEF Congruent
<1> QED BY ONLY <1>9 DEF Agree, fg

\* A vector as a series.
SeriesOf(v, n) == [i \in Nat |-> IF i < n THEN v[i] ELSE 0]

\* The coefficients of a vector's series.
LEMMA SeriesOfVector ==
  ASSUME NEW n \in Nat, NEW v, \A i \in 0 .. n - 1 : v[i] \in Int
  PROVE  /\ SeriesOf(v, n) \in Series
         /\ \A i \in Nat : SeriesOf(v, n)[i] = IF i < n THEN v[i] ELSE 0
         /\ \A i \in 0 .. n - 1 : SeriesOf(v, n)[i] = v[i]
         /\ \A i \in Nat : i >= n => SeriesOf(v, n)[i] = 0
<1>1. \A i \in Nat : i < n => i \in 0 .. n - 1
  OBVIOUS
<1>2. \A i \in Nat : SeriesOf(v, n)[i] = IF i < n THEN v[i] ELSE 0
  BY DEF SeriesOf
<1>3. \A i \in Nat : (IF i < n THEN v[i] ELSE 0) \in Int
  BY <1>1
<1>4. SeriesOf(v, n) \in Series
  BY ONLY <1>3 DEF SeriesOf, Series
<1>5. \A i \in 0 .. n - 1 : i \in Nat /\ i < n
  OBVIOUS
<1>6. \A i \in Nat : i >= n => ~(i < n)
  OBVIOUS
<1> QED BY ONLY <1>2, <1>4, <1>5, <1>6

-----------------------------------------------------------------------------
(* Division with remainder by a palindrome, by way of the inverse series.  *)

\* A series of quotients: what is multiplied by the inverse of g, multiplied
\* by g.
LEMMA QuotientAgrees ==
  ASSUME NEW m \in Nat \ {0}, NEW q \in Nat, NEW a \in Series, NEW f \in Series, NEW g \in Series, NEW s \in Series,
         Agree(Cauchy(f, g), Unit, q, m), Agree(s, Cauchy(a, f), q, m)
  PROVE  Agree(Cauchy(s, g), a, q, m)
<1> DEFINE af == Cauchy(a, f)
           fg == Cauchy(f, g)
<1>1. af \in Series /\ fg \in Series /\ Unit \in Series
  <2>1. Unit \in Series
    BY DEF Unit, Series
  <2> QED BY <2>1, CauchySeries
<1>2. Cauchy(af, g) = Cauchy(a, fg)
  BY CauchyAlgebra
<1>3. Agree(g, g, q, m) /\ Agree(a, a, q, m) /\ Agree(s, af, q, m) /\ Agree(fg, Unit, q, m)
  BY AgreeRelation
<1> HIDE DEF af, fg
<1>4. Agree(Cauchy(s, g), Cauchy(af, g), q, m)
  BY ONLY <1>1, <1>3, CauchyAgrees, m \in Nat \ {0}, q \in Nat, s \in Series, g \in Series
<1>5. Agree(Cauchy(a, fg), Cauchy(a, Unit), q, m)
  BY ONLY <1>1, <1>3, CauchyAgrees, m \in Nat \ {0}, q \in Nat, a \in Series
<1>6. Agree(Cauchy(a, Unit), a, q, m)
  <2>1. \A k \in Nat : Cauchy(a, Unit)[k] = a[k]
    BY ONLY CauchyOne, a \in Series
  <2> QED BY ONLY <2>1 DEF Agree, Congruent
<1> QED BY ONLY <1>2, <1>4, <1>5, <1>6, AgreeRelation, m \in Nat \ {0}

\* The powers of w as a series.
PowerSeries(w, m) == [k \in Nat |-> Power(w, k, m)]

\* A palindrome that vanishes at w.
Vanishes(g, w, n, m) ==
  /\ \A i \in 0 .. n : g[i] \in Int /\ g[i] = g[n - i]
  /\ Congruent(ValueAt(g, w, n + 1, m), 0, m)

\* A coefficient of the product of such a polynomial and the powers of w.
LEMMA PalindromeVanishes ==
  ASSUME NEW m \in Nat \ {0, 1}, NEW w \in 0 .. m - 1, NEW n \in Nat, NEW g, Vanishes(g, w, n, m),
         NEW j \in Nat, n <= j
  PROVE  Congruent(Cauchy(SeriesOf(g, n + 1), PowerSeries(w, m))[j], 0, m)
<1> DEFINE N == n + 1
           p(i) == Power(w, i, m)
           G == SeriesOf(g, N)
           V == PowerSeries(w, m)
           t == [i \in 0 .. n |-> G[i] * V[j - i]]
           v == [i \in 0 .. n |-> g[i] * p(n - i)]
           s == [i \in 0 .. n |-> g[i] * p(i)]
           u == [i \in 0 .. n |-> p(j - n) * v[i]]
           back == [i \in 0 .. n |-> n - i]
<1>1. m \in Nat \ {0} /\ w \in Nat /\ N \in Nat /\ N - 1 = n /\ j - n \in Nat /\ N \in 0 .. j + 1
  OBVIOUS
<1>2. \A i \in Nat : p(i) \in Int
  <2>1. \A i \in Nat : Power(w, i, m) \in 0 .. m - 1
    BY ONLY <1>1, PowerSteps, m \in Nat \ {0, 1}
  <2> QED BY <2>1
<1>3. \A i \in 0 .. n : g[i] \in Int /\ g[i] = g[n - i]
  BY DEF Vanishes
<1>4. \A i \in 0 .. n : /\ i \in Nat /\ n - i \in Nat /\ j - i \in Nat /\ (j - n) + (n - i) = j - i
                        /\ back[i] \in 0 .. n /\ back[i] = n - i /\ back[back[i]] = i
  OBVIOUS
<1>5. G \in Series /\ V \in Series /\ (\A i \in 0 .. n : G[i] = g[i]) /\ (\A i \in Nat : V[i] = p(i))
      /\ \A i \in N .. j : G[i] = 0
  <2>1. \A i \in 0 .. N - 1 : g[i] \in Int
    BY ONLY <1>1, <1>3
  <2>2. G \in Series /\ (\A i \in 0 .. N - 1 : G[i] = g[i]) /\ \A i \in Nat : i >= N => G[i] = 0
    <3> HIDE DEF N
    <3> QED BY ONLY <1>1, <2>1, SeriesOfVector
  <2>3. V \in Series /\ \A i \in Nat : V[i] = p(i)
    BY <1>2 DEF PowerSeries, Series
  <2>4. \A i \in N .. j : i \in Nat /\ i >= N
    BY ONLY <1>1, j \in Nat
  <2> HIDE DEF G, V, N, p
  <2> QED BY ONLY <1>1, <2>2, <2>3, <2>4
<1>6. \A i \in 0 .. n : t[i] = G[i] * V[j - i]
  OBVIOUS
<1>7. \A i \in 0 .. n : v[i] = g[i] * p(n - i)
  OBVIOUS
<1>8. \A i \in 0 .. n : s[i] = g[i] * p(i)
  OBVIOUS
<1>9. \A i \in 0 .. n : u[i] = p(j - n) * v[i]
  OBVIOUS
<1>10. Congruent(Total(s, N), 0, m)
  <2>1. ValueAt(g, w, N, m) = Total(s, N)
    BY <1>1 DEF ValueAt
  <2> QED BY <2>1 DEF Vanishes
<1> HIDE DEF t, v, s, u, back, G, V, N, p
<1>11. \A i \in 0 .. n : s[i] \in Int /\ v[i] \in Int /\ u[i] \in Int
  <2>1. \A i \in 0 .. n : s[i] \in Int /\ v[i] \in Int
    BY ONLY <1>2, <1>3, <1>4, <1>7, <1>8, ProductInteger
  <2>2. \A i \in 0 .. n : u[i] \in Int
    BY ONLY <1>1, <1>2, <1>9, <2>1, ProductInteger
  <2> QED BY ONLY <2>1, <2>2
<1>12. Cauchy(G, V)[j] = Total(t, N)
  <2>1. \A i \in 0 .. N - 1 : t[i] = G[i] * V[j - i]
    BY ONLY <1>1, <1>6
  <2> QED BY ONLY <1>1, <1>5, <2>1, CauchyUpTo, j \in Nat
<1>13. \A i \in 0 .. n : t[i] \in Int /\ Congruent(t[i], u[i], m)
  <2>1. ASSUME NEW i \in 0 .. n PROVE t[i] \in Int /\ Congruent(t[i], u[i], m)
    <3> DEFINE x == g[i]
               y == p(j - n)
               z == p(n - i)
               c == p(j - i)
    <3>1. x \in Int /\ y \in Int /\ z \in Int /\ c \in Int
      BY ONLY <1>1, <1>2, <1>3, <1>4
    <3>2. t[i] = x * c /\ u[i] = y * (x * z)
      BY ONLY <1>4, <1>5, <1>6, <1>7, <1>9
    <3>3. c = (y * z) % m
      <4>1. Power(w, (j - n) + (n - i), m) = (Power(w, j - n, m) * Power(w, n - i, m)) % m
        BY ONLY <1>1, <1>4, PowerSum, m \in Nat \ {0, 1}
      <4> QED BY ONLY <1>4, <4>1 DEF p
    <3> HIDE DEF x, y, z, c
    <3>4. y * z \in Int /\ x * c \in Int /\ x * (y * z) = y * (x * z) /\ x * (y * z) \in Int
      <4>1. y * z \in Int /\ x * c \in Int /\ x * y \in Int
        BY ONLY <3>1, ProductInteger
      <4>2. x * (y * z) \in Int
        BY ONLY <3>1, <4>1, ProductInteger
      <4>3. (x * y) * z = x * (y * z) /\ (x * y) * z = y * (x * z)
        BY ONLY <3>1, Reorder
      <4> QED BY ONLY <4>1, <4>2, <4>3
    <3>5. Congruent(c, y * z, m) /\ Congruent(x, x, m)
      BY ONLY <1>1, <3>3, <3>4, CongruentRelation
    <3>6. Congruent(x * c, x * (y * z), m)
      BY ONLY <1>1, <3>1, <3>4, <3>5, CongruentProduct
    <3> QED BY ONLY <3>2, <3>4, <3>6
  <2> QED BY <2>1
<1>14. Total(u, N) = p(j - n) * Total(v, N)
  <2>1. \A i \in 0 .. N - 1 : v[i] \in Int /\ u[i] = p(j - n) * v[i]
    BY ONLY <1>1, <1>9, <1>11
  <2>2. p(j - n) \in Int
    BY ONLY <1>1, <1>2
  <2> QED BY ONLY <1>1, <2>1, <2>2, TotalTimes
<1>15. Total(v, N) = Total(s, N)
  <2>1. \A i \in 0 .. n : v[i] = s[back[i]]
    BY ONLY <1>3, <1>4, <1>7, <1>8
  <2>2. \A i \in 0 .. N - 1 : s[i] \in Int /\ v[i] = s[back[i]] /\ back[i] \in 0 .. N - 1 /\ back[back[i]] = i
    BY ONLY <1>1, <1>4, <1>11, <2>1
  <2> QED BY ONLY <1>1, <2>2, TotalPermuted
<1>16. Congruent(Total(t, N), Total(u, N), m)
  <2>1. \A i \in 0 .. N - 1 : t[i] \in Int /\ u[i] \in Int /\ Congruent(t[i], u[i], m)
    BY ONLY <1>1, <1>11, <1>13
  <2> QED BY ONLY <1>1, <2>1, TotalCongruent
<1>17. Congruent(Total(u, N), 0, m)
  <2> DEFINE x == p(j - n)
             y == Total(s, N)
  <2>1. x \in Int /\ y \in Int /\ Congruent(y, 0, m) /\ Total(u, N) = x * y
    <3>1. \A i \in 0 .. N - 1 : s[i] \in Int
      BY ONLY <1>1, <1>11
    <3>2. Total(s, N) \in Int
      BY ONLY <1>1, <3>1, TotalInteger
    <3> QED BY ONLY <1>1, <1>2, <1>10, <1>14, <1>15, <3>2
  <2> HIDE DEF x, y
  <2>2. Congruent(x, x, m) /\ x * 0 = 0
    BY ONLY <2>1 DEF Congruent
  <2>3. Congruent(x * y, x * 0, m)
    BY ONLY <1>1, <2>1, <2>2, CongruentProduct, 0 \in Int
  <2> QED BY ONLY <2>1, <2>2, <2>3
<1> QED BY ONLY <1>12, <1>16, <1>17 DEF Congruent, G, V, N

\* The coefficients of a product of degree below n + q, from the highest.
Reversed(r, p, o) == \A j \in 0 .. o - 1 : r[j] = p[o - 1 - j]

\* A multiple of a palindrome vanishes where the palindrome does, its
\* coefficients taken from the highest.
LEMMA MultipleVanishes ==
  ASSUME NEW m \in Nat \ {0, 1}, NEW w \in 0 .. m - 1, NEW n \in Nat, NEW q \in Nat \ {0}, NEW o, o = n + q,
         NEW g, Vanishes(g, w, n, m),
         NEW s \in Series, \A i \in Nat : i >= q => s[i] = 0,
         NEW r, Reversed(r, Cauchy(s, SeriesOf(g, n + 1)), o)
  PROVE  Congruent(ValueAt(r, w, o, m), 0, m)
<1> DEFINE G == SeriesOf(g, n + 1)
           V == PowerSeries(w, m)
           P == Cauchy(s, G)
           Q == Cauchy(G, V)
           d == o - 1
           p(i) == Power(w, i, m)
           t == [i \in 0 .. q - 1 |-> s[i] * Q[d - i]]
           z == [i \in 0 .. q - 1 |-> 0]
           u == [i \in 0 .. d |-> r[i] * p(i)]
           v == [i \in 0 .. d |-> V[i] * P[d - i]]
<1>1. m \in Nat \ {0} /\ o \in Nat /\ d \in Nat /\ d + 1 = o /\ o - 1 = d /\ q \in 0 .. d + 1 /\ n + 1 \in Nat /\ (n + 1) - 1 = n
  OBVIOUS
<1>2. V \in Series /\ \A i \in Nat : V[i] = p(i) /\ p(i) \in Int
  <2>1. \A i \in Nat : Power(w, i, m) \in 0 .. m - 1
    BY ONLY PowerSteps, m \in Nat \ {0, 1}, w \in 0 .. m - 1
  <2>2. \A i \in Nat : Power(w, i, m) \in Int
    BY <2>1
  <2> QED BY <2>2 DEF PowerSeries, Series
<1>3. G \in Series
  <2>1. \A i \in 0 .. n : g[i] \in Int
    BY DEF Vanishes
  <2> QED BY ONLY <1>1, <2>1, SeriesOfVector
<1>4. P \in Series /\ Q \in Series
  BY ONLY <1>2, <1>3, CauchySeries, s \in Series
<1>5. \A j \in Nat : n <= j => Congruent(Q[j], 0, m)
  BY ONLY PalindromeVanishes, m \in Nat \ {0, 1}, w \in 0 .. m - 1, n \in Nat, Vanishes(g, w, n, m)
<1>6. \A i \in 0 .. d : r[i] = P[d - i]
  BY DEF Reversed
<1>7. \A i \in 0 .. q - 1 : i \in Nat /\ d - i \in Nat /\ n <= d - i
  OBVIOUS
<1>8. \A i \in q .. d : i \in Nat /\ i >= q
  OBVIOUS
<1>9. \A i \in 0 .. q - 1 : t[i] = s[i] * Q[d - i]
  OBVIOUS
<1>10. \A i \in 0 .. q - 1 : z[i] = 0
  OBVIOUS
<1>11. \A i \in 0 .. d : u[i] = r[i] * p(i)
  OBVIOUS
<1>12. \A i \in 0 .. d : v[i] = V[i] * P[d - i]
  OBVIOUS
<1>13. ValueAt(r, w, o, m) = Total(u, o)
  BY DEF ValueAt
<1>14. Cauchy(P, V) = Cauchy(s, Q) /\ Cauchy(P, V) = Cauchy(V, P)
  BY ONLY <1>2, <1>3, <1>4, CauchyAlgebra, s \in Series
<1> HIDE DEF G, V, P, Q, p, t, z, u, v, d
<1>15. Cauchy(s, Q)[d] = Total(t, q)
  <2>1. \A i \in q .. d : s[i] = 0
    BY ONLY <1>8, \A i \in Nat : i >= q => s[i] = 0
  <2> QED BY ONLY <1>1, <1>4, <1>9, <2>1, CauchyUpTo, s \in Series
<1>16. Congruent(Total(t, q), Total(z, q), m)
  <2>1. ASSUME NEW i \in 0 .. q - 1 PROVE t[i] \in Int /\ z[i] \in Int /\ Congruent(t[i], z[i], m)
    <3> DEFINE x == s[i]
               y == Q[d - i]
    <3>1. x \in Int /\ y \in Int /\ Congruent(y, 0, m) /\ t[i] = x * y /\ z[i] = 0
      <4>1. x \in Int
        BY ONLY <1>7, s \in Series DEF Series
      <4>2. y \in Int
        BY ONLY <1>4, <1>7 DEF Series
      <4> QED BY ONLY <1>5, <1>7, <1>9, <1>10, <4>1, <4>2
    <3> HIDE DEF x, y
    <3>2. Congruent(x, x, m) /\ x * 0 = 0 /\ x * y \in Int
      <4>1. x * y \in Int
        BY ONLY <3>1, ProductInteger
      <4> QED BY ONLY <3>1, <4>1 DEF Congruent
    <3>3. Congruent(x * y, x * 0, m)
      BY ONLY <1>1, <3>1, <3>2, CongruentProduct, 0 \in Int
    <3> QED BY ONLY <3>1, <3>2, <3>3, 0 \in Int
  <2> QED BY ONLY <1>1, <2>1, TotalCongruent, q \in Nat \ {0}
<1>17. Total(z, q) = 0
  BY ONLY <1>10, TotalZero, q \in Nat \ {0}
<1>18. Cauchy(V, P)[d] = Total(v, d + 1) /\ \A i \in 0 .. d : v[i] \in Int
  BY ONLY <1>1, <1>2, <1>4, <1>12, CauchyTerms
<1>19. \A i \in 0 .. d : u[i] = v[i]
  <2>1. ASSUME NEW i \in 0 .. d PROVE u[i] = v[i]
    <3> DEFINE x == r[i]
               y == p(i)
    <3>1. i \in Nat /\ d - i \in Nat
      BY ONLY <1>1
    <3>2. x \in Int
      BY ONLY <1>4, <1>6, <3>1 DEF Series
    <3>3. y \in Int /\ u[i] = x * y /\ v[i] = y * x
      BY ONLY <1>2, <1>6, <1>11, <1>12, <3>1
    <3> HIDE DEF x, y
    <3> QED BY ONLY <3>2, <3>3, Reorder
  <2> QED BY ONLY <2>1
<1>20. Total(u, o) = Total(v, o)
  <2>1. \A i \in 0 .. o - 1 : v[i] \in Int /\ u[i] = v[i]
    BY ONLY <1>1, <1>18, <1>19
  <2> QED BY ONLY <1>1, <2>1, TotalSame
<1> QED BY ONLY <1>1, <1>13, <1>14, <1>15, <1>16, <1>17, <1>18, <1>20

\* What DropDividing takes from its tables and its argument: the quotient of
\* the q highest coefficients, and the coefficients that it subtracts.
Quotients(s, h, e, c, m, n, q, o) ==
  /\ \A i \in Nat : i >= q => s[i] = 0
  /\ \A i \in 0 .. n - 1 : h[i] \in 0 .. m - 1 /\ Congruent(h[i], e[i] - c[o - 1 - i], m)

\* The remainder has the values of the vector where the palindrome vanishes.
LEMMA RemainderValue ==
  ASSUME NEW m \in Nat \ {0, 1}, NEW w \in 0 .. m - 1, NEW n \in Nat, NEW q \in Nat \ {0}, NEW o, o = n + q,
         NEW g, Vanishes(g, w, n, m), NEW f \in Series, Agree(Cauchy(f, SeriesOf(g, n + 1)), Unit, q, m),
         NEW e, \A i \in 0 .. o - 1 : e[i] \in 0 .. m - 1,
         NEW a \in Series, \A k \in 0 .. q - 1 : a[k] = e[o - 1 - k],
         NEW s \in Series, Agree(s, Cauchy(a, f), q, m),
         NEW h, Quotients(s, h, e, Cauchy(s, SeriesOf(g, n + 1)), m, n, q, o)
  PROVE  Congruent(ValueAt(h, w, n, m), ValueAt(e, w, o, m), m)
<1> DEFINE G == SeriesOf(g, n + 1)
           P == Cauchy(s, G)
           r == [j \in 0 .. o - 1 |-> P[o - 1 - j]]
           H == [j \in 0 .. o - 1 |-> IF j < n THEN h[j] ELSE 0]
<1>1. m \in Nat \ {0} /\ o \in Nat /\ n \in 0 .. o /\ n + 1 \in Nat /\ (n + 1) - 1 = n /\ q \in Nat
  OBVIOUS
<1>2. G \in Series
  <2>1. \A i \in 0 .. n : g[i] \in Int
    BY DEF Vanishes
  <2> QED BY ONLY <1>1, <2>1, SeriesOfVector
<1>3. P \in Series
  BY ONLY <1>2, CauchySeries, s \in Series
<1>4. Agree(P, a, q, m)
  BY ONLY <1>1, <1>2, QuotientAgrees, f \in Series, a \in Series, s \in Series,
          Agree(Cauchy(f, G), Unit, q, m), Agree(s, Cauchy(a, f), q, m)
<1>5. /\ \A i \in Nat : i >= q => s[i] = 0
      /\ \A i \in 0 .. n - 1 : h[i] \in 0 .. m - 1 /\ Congruent(h[i], e[i] - P[o - 1 - i], m)
  BY DEF Quotients
<1>6. Congruent(ValueAt(r, w, o, m), 0, m)
  <2>1. Reversed(r, Cauchy(s, SeriesOf(g, n + 1)), o)
    BY DEF Reversed
  <2> HIDE DEF r
  <2> QED BY ONLY <1>5, <2>1, MultipleVanishes, m \in Nat \ {0, 1}, w \in 0 .. m - 1, n \in Nat, q \in Nat \ {0},
                  o = n + q, Vanishes(g, w, n, m), s \in Series
<1>7. \A j \in 0 .. o - 1 : /\ r[j] = P[o - 1 - j] /\ H[j] = (IF j < n THEN h[j] ELSE 0)
                            /\ j \in Nat /\ o - 1 - j \in Nat
  OBVIOUS
<1>8. \A j \in 0 .. o - 1 : e[j] \in Int /\ \A x \in 0 .. m - 1 : x \in Int
  OBVIOUS
<1> HIDE DEF P, G, r, H
<1>9. ASSUME NEW j \in 0 .. o - 1
      PROVE  e[j] \in Int /\ H[j] \in Int /\ r[j] \in Int /\ Congruent(e[j], H[j] + r[j], m)
  <2> DEFINE x == e[j]
             y == H[j]
             z == r[j]
  <2>1. x \in Int /\ z \in Int
    BY ONLY <1>3, <1>7, <1>8 DEF Series
  <2>2. CASE j < n
    <3>1. j \in 0 .. n - 1
      BY ONLY <2>2, <1>7, n \in Nat
    <3>2. y \in Int /\ Congruent(y, x - z, m)
      BY ONLY <1>5, <1>7, <1>8, <2>2, <3>1
    <3> HIDE DEF x, y, z
    <3>3. x - z \in Int /\ (x - z) + z = x /\ Congruent(z, z, m) /\ y + z \in Int
      BY ONLY <2>1, <3>2 DEF Congruent
    <3>4. Congruent(y + z, (x - z) + z, m)
      BY ONLY <1>1, <2>1, <3>2, <3>3, CongruentSum
    <3>5. Congruent(x, y + z, m)
      BY ONLY <3>3, <3>4 DEF Congruent
    <3> QED BY ONLY <2>1, <3>2, <3>5 DEF x, y, z
  <2>3. CASE ~(j < n)
    <3>1. o - 1 - j \in 0 .. q - 1 /\ o - 1 - j < q /\ o - 1 - (o - 1 - j) = j
      BY ONLY <1>1, <2>3, o = n + q, j \in 0 .. o - 1
    <3>2. a[o - 1 - j] = x
      BY ONLY <3>1, \A k \in 0 .. q - 1 : a[k] = e[o - 1 - k]
    <3>3. Congruent(z, x, m) /\ y = 0
      BY ONLY <1>4, <1>7, <2>3, <3>1, <3>2 DEF Agree
    <3> HIDE DEF x, y, z
    <3>4. y + z = z /\ y \in Int
      BY ONLY <2>1, <3>3
    <3> QED BY ONLY <2>1, <3>3, <3>4 DEF Congruent, x, y, z
  <2> QED BY ONLY <2>2, <2>3
<1>10. Congruent(ValueAt(e, w, o, m), ValueAt(H, w, o, m) + ValueAt(r, w, o, m), m)
  BY ONLY <1>1, <1>9, AtSum, m \in Nat \ {0, 1}, w \in 0 .. m - 1
<1>11. ValueAt(H, w, o, m) = ValueAt(h, w, n, m)
  <2>1. \A i \in 0 .. n - 1 : i \in 0 .. o - 1 /\ i < n
    BY ONLY <1>1
  <2>2. \A i \in n .. o - 1 : i \in 0 .. o - 1 /\ ~(i < n)
    BY ONLY <1>1
  <2>3. Padded(H, h, n, o)
    BY ONLY <1>5, <1>7, <1>8, <2>1, <2>2 DEF Padded
  <2> QED BY ONLY <1>1, <2>3, AtPadded, m \in Nat \ {0, 1}, w \in 0 .. m - 1
<1> DEFINE x == ValueAt(H, w, o, m)
           y == ValueAt(r, w, o, m)
           z == ValueAt(e, w, o, m)
<1>12. x \in Int /\ y \in Int /\ z \in Int
  <2>1. \A i \in 0 .. o - 1 : e[i] \in Int /\ H[i] \in Int /\ r[i] \in Int
    BY ONLY <1>9
  <2> QED BY ONLY <1>1, <2>1, AtTerms, m \in Nat \ {0, 1}, w \in 0 .. m - 1
<1>13. Congruent(z, x + y, m) /\ Congruent(y, 0, m) /\ Congruent(x, x, m)
  BY ONLY <1>6, <1>10 DEF Congruent
<1> HIDE DEF x, y, z
<1>14. Congruent(x + y, x + 0, m) /\ x + 0 = x
  <2>1. x + 0 = x
    BY ONLY <1>12
  <2> QED BY ONLY <1>1, <1>12, <1>13, <2>1, CongruentSum, 0 \in Int
<1> QED BY ONLY <1>11, <1>13, <1>14 DEF Congruent, x, z

-----------------------------------------------------------------------------
(* What the functions of single entries return for entries up to the       *)
(* modulus.                                                                *)

\* A word modulus that leaves room for sums.
Roomy(M) == M \in Nat \ {0, 1} /\ 4 * M < 2^W

\* Values up to such a modulus are words, and sums of four of them do not
\* wrap around.
LEMMA RoomyFacts ==
  ASSUME NEW M, Roomy(M)
  PROVE  /\ M \in Nat \ {0} /\ M \in Nat \ {0, 1} /\ 4 * M < 2^W /\ 0 .. M \subseteq Word /\ 2^W \in Nat \ {0}
         /\ \A x \in 0 .. 4 * M : Wrap(x) = x
         /\ \A a, b \in Int : a - b = M \/ a - b = -M \/ a = b => Congruent(a, b, M)
<1>1. M \in Nat \ {0} /\ M \in Nat \ {0, 1} /\ 4 * M < 2^W /\ 2^W \in Nat \ {0}
  BY WordSize DEF Roomy
<1>2. 0 .. M \subseteq Word /\ 0 .. 4 * M \subseteq Word
  <2> DEFINE S == 2^W
  <2>1. S \in Nat \ {0} /\ 4 * M < S /\ Word = 0 .. S - 1
    BY <1>1, WordSize
  <2> HIDE DEF S
  <2> QED BY <1>1, <2>1
<1>3. \A x \in 0 .. 4 * M : Wrap(x) = x
  BY <1>2, WrapWord
<1>4. ASSUME NEW a \in Int, NEW b \in Int, a - b = M \/ a - b = -M \/ a = b
      PROVE  Congruent(a, b, M)
  <2>1. \A c, k \in Int : Congruent(c + k * M, c, M)
    BY ONLY <1>1, CongruentMultiple
  <2>2. Congruent(b + 1 * M, b, M) /\ Congruent(b + (-1) * M, b, M) /\ Congruent(b, b, M)
    BY <2>1 DEF Congruent
  <2>3. a = b + 1 * M \/ a = b + (-1) * M \/ a = b
    BY <1>1, <1>4
  <2> QED BY ONLY <2>2, <2>3
<1> QED BY <1>1, <1>2, <1>3, <1>4

\* Sums and differences stay up to the modulus.
LEMMA SumEntries ==
  ASSUME NEW M, Roomy(M), NEW x \in 0 .. M, NEW y \in 0 .. M - 1
  PROVE  /\ ModAddFast(x, y, M) \in 0 .. M /\ Congruent(ModAddFast(x, y, M), x + y, M)
         /\ ModSubFast(x, y, M) \in 0 .. M /\ Congruent(ModSubFast(x, y, M), x - y, M)
         /\ ModSubFast(0, x, M) \in 0 .. M /\ Congruent(ModSubFast(0, x, M), -x, M)
<1>1. M \in Nat \ {0} /\ \A z \in 0 .. 4 * M : Wrap(z) = z
  BY RoomyFacts
<1>2. \A a, b \in Int : a - b = M \/ a - b = -M \/ a = b => Congruent(a, b, M)
  BY RoomyFacts
<1>3. Wrap(x + y) = x + y /\ (x < y => Wrap(x + M - y) = x + M - y) /\ Wrap(0 + M - x) = 0 + M - x
  BY <1>1
<1>4. ModAddFast(x, y, M) = IF x + y >= M THEN (x + y) - M ELSE x + y
  BY <1>3 DEF ModAddFast, CorrectedOnce
<1>5. ModSubFast(x, y, M) = IF x < y THEN x + M - y ELSE x - y
  BY <1>3 DEF ModSubFast
<1>6. ModSubFast(0, x, M) = IF 0 < x THEN M - x ELSE 0
  <2>1. 0 + M - x = M - x /\ (~(0 < x) => 0 - x = 0)
    BY <1>1
  <2> QED BY <1>3, <2>1 DEF ModSubFast
<1>7. /\ ModAddFast(x, y, M) \in 0 .. M /\ ModAddFast(x, y, M) \in Int
      /\ ModSubFast(x, y, M) \in 0 .. M /\ ModSubFast(x, y, M) \in Int
      /\ ModSubFast(0, x, M) \in 0 .. M /\ ModSubFast(0, x, M) \in Int
  BY <1>1, <1>4, <1>5, <1>6
<1>8. /\ ModAddFast(x, y, M) - (x + y) \in {-M, 0}
      /\ ModSubFast(x, y, M) - (x - y) \in {M, 0}
      /\ ModSubFast(0, x, M) - (-x) \in {M, 0}
  BY <1>1, <1>4, <1>5, <1>6
<1>9. x + y \in Int /\ x - y \in Int /\ -x \in Int /\ x \in Int /\ y \in Int
  OBVIOUS
<1>10. ASSUME NEW a \in Int, NEW b \in Int, a - b \in {-M, 0, M} PROVE Congruent(a, b, M)
  BY <1>1, <1>2, <1>10
<1> QED BY ONLY <1>7, <1>8, <1>9, <1>10

\* Products with a factor are residues of them.
LEMMA ProductEntries ==
  ASSUME NEW M, Roomy(M), NEW x \in Int, NEW y \in Int
  PROVE  /\ EltwiseMultMod(x, y, M) \in 0 .. M /\ Congruent(EltwiseMultMod(x, y, M), x * y, M)
         /\ EltwiseFMAMod(x, y % M, M) \in 0 .. M /\ Congruent(EltwiseFMAMod(x, y % M, M), x * y, M)
<1>1. M \in Nat \ {0} /\ x * y \in Int /\ y % M \in Int
  <2>1. M \in Nat \ {0}
    BY RoomyFacts
  <2> QED BY ONLY <2>1, ProductInteger, Remainders, x \in Int, y \in Int
<1>2. x * (y % M) \in Int
  BY ONLY <1>1, ProductInteger, x \in Int
<1>3. Congruent(x * (y % M), x * y, M)
  <2>1. Congruent(x, x, M) /\ Congruent(y % M, y, M)
    BY ONLY <1>1, CongruentRelation, x \in Int, y \in Int
  <2> QED BY ONLY <1>1, <2>1, CongruentProduct, x \in Int, y \in Int
<1>4. /\ (x * y) % M \in 0 .. M - 1 /\ Congruent((x * y) % M, x * y, M)
      /\ (x * (y % M)) % M \in 0 .. M - 1 /\ Congruent((x * (y % M)) % M, x * (y % M), M)
  BY ONLY <1>1, <1>2, CongruentRelation
<1>5. \A z \in 0 .. M - 1 : z \in 0 .. M
  BY <1>1
<1>6. Congruent((x * (y % M)) % M, x * y, M)
  BY ONLY <1>1, <1>3, <1>4, CongruentRelation
<1> QED BY <1>4, <1>5, <1>6 DEF EltwiseMultMod, EltwiseFMAMod

-----------------------------------------------------------------------------
(* Entries that stand for centred residues.                                *)

\* Half of a modulus.
LEMMA HalfFacts ==
  ASSUME NEW M, Roomy(M)
  PROVE  Half(M) \in Nat /\ 2 * Half(M) <= M /\ M <= 2 * Half(M) + 1 /\ Half(M) < M
<1>1. M \in Nat \ {0, 1} /\ 2 \in Nat \ {0}
  BY RoomyFacts
<1>2. M \div 2 \in Nat /\ M % 2 \in 0 .. 1 /\ M = 2 * (M \div 2) + (M % 2)
  BY ONLY <1>1, DivNat
<1> DEFINE h == M \div 2
<1>3. h \in Nat /\ 2 * h <= M /\ M <= 2 * h + 1 /\ h < M
  <2> HIDE DEF h
  <2> QED BY ONLY <1>1, <1>2 DEF h
<1> QED BY <1>3 DEF Half

\* The centred residue of an entry is that of the residue it stands for.
LEMMA CentreOfEntry ==
  ASSUME NEW M, Roomy(M), NEW x \in 0 .. M
  PROVE  /\ Centre(x, M) \in Int /\ Congruent(Centre(x, M), x, M)
         /\ (IF x % M > M \div 2 THEN (x % M) - M ELSE x % M) = Centre(x, M)
<1>1. M \in Nat \ {0} /\ Half(M) \in Nat /\ Half(M) < M
  BY RoomyFacts, HalfFacts
<1>2. Centre(x, M) = IF x > Half(M) THEN x - M ELSE x
  BY DEF Centre
<1>3. Centre(x, M) \in Int /\ (Centre(x, M) - x = -M \/ Centre(x, M) = x)
  BY <1>1, <1>2
<1>4. Congruent(Centre(x, M), x, M)
  <2>1. x \in Int
    OBVIOUS
  <2> QED BY ONLY <1>3, <2>1, RoomyFacts, Roomy(M)
<1>5. CASE x = M
  <2>1. x = 1 * M + 0 /\ 0 \in 0 .. M - 1 /\ x \in Int
    BY <1>1, <1>5
  <2>2. x % M = 0
    BY ONLY <1>1, <2>1, DivUnique, 1 \in Int
  <2> QED BY <1>1, <1>2, <1>3, <1>4, <1>5, <2>2 DEF Half
<1>6. CASE x # M
  <2>1. x \in 0 .. M - 1
    BY <1>1, <1>6
  <2>2. x % M = x
    BY ONLY <1>1, <2>1, Remainders
  <2> QED BY <1>2, <1>3, <1>4, <2>2 DEF Half
<1> QED BY <1>5, <1>6

\* A switch of modulus keeps the centred residue.
LEMMA SwitchEntries ==
  ASSUME NEW M, Roomy(M), NEW n, Roomy(n), NEW x \in 0 .. M
  PROVE  /\ SwitchEntry(x, M, n) \in 0 .. n /\ Congruent(SwitchEntry(x, M, n), Centre(x, M), n)
         /\ n <= M => SwitchEntry(x, M, n) = Centre(x, M) % n
<1>1. M \in Nat \ {0} /\ n \in Nat \ {0} /\ Half(M) \in Nat /\ Half(M) < M /\ M <= 2 * Half(M) + 1
  BY RoomyFacts, HalfFacts
<1>2. Centre(x, M) = (IF x > Half(M) THEN x - M ELSE x) /\ Centre(x, M) \in Int
  BY <1>1 DEF Centre
<1>3. ASSUME n > M PROVE SwitchEntry(x, M, n) \in 0 .. n /\ Congruent(SwitchEntry(x, M, n), Centre(x, M), n)
  <2>1. SwitchEntry(x, M, n) = IF x > Half(M) THEN Wrap(x + (n - M)) ELSE x
    BY <1>3 DEF SwitchEntry, EltwiseCmpAdd
  <2>2. x + (n - M) \in 0 .. n /\ x + (n - M) \in 0 .. 4 * n
    BY <1>1, <1>3
  <2>3. Wrap(x + (n - M)) = x + (n - M)
    BY <2>2, RoomyFacts
  <2>4. SwitchEntry(x, M, n) \in 0 .. n
    BY <1>1, <1>3, <2>1, <2>2, <2>3
  <2>5. SwitchEntry(x, M, n) - Centre(x, M) = n \/ SwitchEntry(x, M, n) = Centre(x, M)
    BY <1>1, <1>2, <2>1, <2>3
  <2>6. SwitchEntry(x, M, n) \in Int
    BY <2>4
  <2> QED BY ONLY <1>2, <2>4, <2>5, <2>6, RoomyFacts, Roomy(n)
<1>4. ASSUME ~(n > M) PROVE SwitchEntry(x, M, n) = Centre(x, M) % n
  <2> DEFINE d == (M - n) % n
  <2>1. SwitchEntry(x, M, n) = IF x > Half(M) THEN (x - d) % n ELSE x % n
    BY <1>4 DEF SwitchEntry, EltwiseCmpSubMod
  <2>2. (x - d) % n = (x - M) % n
    <3>1. M - n \in Int /\ x \in Int /\ x - M \in Int /\ x - (M - n) = (x - M) + 1 * n
      BY <1>1
    <3>2. (x - d) % n = (x - (M - n)) % n
      BY ONLY <1>1, <3>1, Remainders
    <3>3. Congruent((x - M) + 1 * n, x - M, n)
      BY ONLY <1>1, <3>1, CongruentMultiple, 1 \in Int
    <3> QED BY <3>1, <3>2, <3>3 DEF Congruent
  <2> HIDE DEF d
  <2> QED BY <1>2, <2>1, <2>2
<1>5. Centre(x, M) % n \in 0 .. n - 1 /\ Congruent(Centre(x, M) % n, Centre(x, M), n)
  BY ONLY <1>1, <1>2, CongruentRelation
<1>6. \A z \in 0 .. n - 1 : z \in 0 .. n
  BY <1>1
<1>7. ~(n > M) <=> n <= M
  BY <1>1
<1> QED BY ONLY <1>3, <1>4, <1>5, <1>6, <1>7

\* A reduction modulo a smaller number, two too, takes the centred residue's.
LEMMA ModEntries ==
  ASSUME NEW M, Roomy(M), M % 2 = 1, NEW n \in Nat \ {0, 1}, n < M, NEW x \in 0 .. M
  PROVE  ModEntry(x, M, n) = Centre(x, M) % n /\ ModEntry(x, M, n) \in 0 .. M
<1>1. M \in Nat \ {0} /\ n \in Nat \ {0} /\ Half(M) \in Nat /\ Half(M) < M /\ 4 * M < 2^W /\ 2^W \in Nat \ {0}
  BY RoomyFacts, HalfFacts
<1>2. Roomy(n)
  <2> DEFINE S == 2^W
  <2>1. S \in Nat /\ 4 * M < S
    BY <1>1
  <2> HIDE DEF S
  <2>2. 4 * n < S
    BY <1>1, <2>1
  <2> QED BY <2>2 DEF Roomy, S
<1>3. Centre(x, M) = (IF x > Half(M) THEN x - M ELSE x) /\ Centre(x, M) \in Int
  BY <1>1 DEF Centre
<1>4. ModEntry(x, M, n) = Centre(x, M) % n
  <2>1. CASE n = 2
    <3>1. ModEntry(x, M, n) = IF x > Half(M) THEN (x + 1) % 2 ELSE x % 2
      BY <2>1 DEF ModEntry, FlippedAboveHalf
    <3>2. (x + 1) % 2 = (x - M) % 2
      <4>1. M \div 2 \in Int /\ M = (M \div 2) * 2 + 1
        <5>1. M \in Int
          BY <1>1
        <5> QED BY ONLY <5>1, IntSplit, 2 \in Nat \ {0}, M % 2 = 1
      <4> DEFINE k == M \div 2 + 1
      <4>2. k \in Int /\ x - M \in Int /\ x + 1 = (x - M) + k * 2
        BY <1>1, <4>1
      <4> HIDE DEF k
      <4>3. Congruent((x - M) + k * 2, x - M, 2)
        BY ONLY <4>2, CongruentMultiple, 2 \in Nat \ {0}
      <4> QED BY <4>2, <4>3 DEF Congruent
    <3> QED BY <1>3, <2>1, <3>1, <3>2
  <2>2. CASE n # 2
    <3>1. ModEntry(x, M, n) = SwitchEntry(x, M, n) /\ n <= M
      BY <1>1, <2>2 DEF ModEntry
    <3> QED BY <1>2, <3>1, SwitchEntries
  <2> QED BY <2>1, <2>2
<1>5. Centre(x, M) % n \in 0 .. n - 1
  BY ONLY <1>1, <1>3, Remainders
<1> QED BY <1>1, <1>4, <1>5

\* A quotient rounded to a nearest integer is no larger than what is divided.
LEMMA RoundsBelow ==
  ASSUME NEW a \in Nat, NEW d \in Nat \ {0}, NEW p \in 0 .. d, NEW t \in Int, 2 * (t * d - a * p) <= d
  PROVE  t <= a
<1> SUFFICES ASSUME a + 1 <= t PROVE FALSE
  OBVIOUS
<1>1. (a + 1) * d <= t * d
  BY Monotone
<1>2. (a + 1) * d = a * d + d
  OBVIOUS
<1>3. p * a <= d * a
  BY Monotone
<1>4. p * a = a * p /\ d * a = a * d /\ a * p \in Int /\ a * d \in Int /\ t * d \in Int
  OBVIOUS
<1> DEFINE ap == a * p
           ad == a * d
           td == t * d
<1>5. ad + d <= td /\ ap <= ad /\ ap \in Int /\ ad \in Int /\ td \in Int /\ 2 * (td - ap) <= d
  BY <1>1, <1>2, <1>3, <1>4
<1> HIDE DEF ap, ad, td
<1> QED BY ONLY <1>5, d \in Nat \ {0}

\* The size of an entry, or the entry of a size with the sign of another.
OfSize(x, M, t, y) == y = IF x > Half(M) THEN M - t ELSE t

\* A nearest integer to the product of a and p / d.
NearestTo(a, p, d, t) == -d <= 2 * (t * d - a * p) /\ 2 * (t * d - a * p) <= d

\* An entry rounded by its size, whatever its sign, is near the quotient.
LEMMA RoundedEntry ==
  ASSUME NEW M, Roomy(M), NEW x \in 0 .. M, NEW d \in Nat \ {0}, NEW p \in 0 .. d,
         NEW a, OfSize(x, M, x, a), NEW t \in Nat, NearestTo(a, p, d, t), NEW y, OfSize(x, M, t, y)
  PROVE  /\ t <= a /\ y \in 0 .. M /\ (x > Half(M) => Wrap(M - t) = M - t) /\ (~(x > Half(M)) => t % M = t)
         /\ 2 * (Centre(y, M) * d - Centre(x, M) * p) \in -d .. d
         /\ Centre(y, M) = IF x > Half(M) THEN y - M ELSE y
<1> /\ a = IF x > Half(M) THEN M - x ELSE x
    /\ y = IF x > Half(M) THEN M - t ELSE t
    /\ -d <= 2 * (t * d - a * p) /\ 2 * (t * d - a * p) <= d
  BY DEF OfSize, NearestTo
<1>1. M \in Nat \ {0} /\ Half(M) \in Nat /\ 2 * Half(M) <= M /\ M <= 2 * Half(M) + 1 /\ Half(M) < M
  BY RoomyFacts, HalfFacts
<1>2. a \in Nat
  BY <1>1
<1>3. t <= a
  BY <1>2, RoundsBelow
<1>4. Centre(x, M) = IF x > Half(M) THEN -a ELSE a
  BY <1>1 DEF Centre
<1>5. Centre(y, M) = IF x > Half(M) THEN -t ELSE t
  BY <1>1, <1>3 DEF Centre
<1>6. y \in 0 .. M /\ t \in 0 .. M
  BY <1>1, <1>3
<1>7. x > Half(M) => Wrap(M - t) = M - t
  <2>1. M - t \in 0 .. 4 * M
    BY <1>1, <1>6
  <2> QED BY <2>1, RoomyFacts
<1>8. ~(x > Half(M)) => t % M = t
  <2>1. ~(x > Half(M)) => t \in 0 .. M - 1
    BY <1>1, <1>3
  <2> QED BY <1>1, <2>1, Remainders
<1> DEFINE td == t * d
           ap == a * p
<1>9. td \in Int /\ ap \in Int /\ (-t) * d = -td /\ (-a) * p = -ap
  BY <1>2
<1>10. Centre(y, M) * d - Centre(x, M) * p = IF x > Half(M) THEN -td + ap ELSE td - ap
  <2>1. CASE x > Half(M)
    <3>1. Centre(y, M) * d = -td /\ Centre(x, M) * p = -ap
      BY <1>4, <1>5, <1>9, <2>1
    <3> HIDE DEF td, ap
    <3> QED BY <1>9, <2>1, <3>1
  <2>2. CASE ~(x > Half(M))
    BY <1>4, <1>5, <2>2
  <2> QED BY <2>1, <2>2
<1>11. -d <= 2 * (td - ap) /\ 2 * (td - ap) <= d
  OBVIOUS
<1> HIDE DEF td, ap
<1>12. 2 * (Centre(y, M) * d - Centre(x, M) * p) \in -d .. d
  <2>1. 2 * (-td + ap) \in -d .. d /\ 2 * (td - ap) \in -d .. d
    BY ONLY <1>9, <1>11, d \in Nat \ {0}
  <2> QED BY <1>10, <2>1
<1>13. Centre(y, M) = IF x > Half(M) THEN y - M ELSE y
  BY <1>1, <1>3, <1>5
<1> QED BY <1>3, <1>6, <1>7, <1>8, <1>12, <1>13

\* Divisions of an entry.
LEMMA DivideEntries ==
  ASSUME NEW M, Roomy(M), NEW x \in 0 .. M, NEW d \in Word, d # 0
  PROVE  /\ DivideEntry(x, M, d) \in 0 .. M
         /\ 2 * (Centre(DivideEntry(x, M, d), M) * d - Centre(x, M) * 1) \in -d .. d
         /\ Centre(DivideEntry(x, M, d), M) = IF x > Half(M) THEN DivideEntry(x, M, d) - M ELSE DivideEntry(x, M, d)
<1> DEFINE a == IF x > Half(M) THEN M - x ELSE x
           t == RoundedQuotient(a, d)
           y == IF x > Half(M) THEN M - t ELSE t
<1>1. M \in Nat \ {0} /\ 0 .. M \subseteq Word /\ d \in Nat \ {0} /\ Half(M) \in Nat
  BY RoomyFacts, HalfFacts, WordSize
<1>2. a \in 0 .. M /\ a \in Nat /\ a \in 0 .. 4 * M
  BY <1>1
<1>3. Wrap(a) = a /\ a \in Word
  BY <1>1, <1>2, RoomyFacts
<1>4. DivideEntry(x, M, d) = IF x > Half(M) THEN Wrap(M - t) ELSE t
  <2>1. CASE x > Half(M)
    BY <1>3, <2>1 DEF DivideEntry
  <2>2. CASE ~(x > Half(M))
    BY <2>2 DEF DivideEntry
  <2> QED BY <2>1, <2>2
<1> HIDE DEF a
<1>5. t \in Word /\ -d <= 2 * (t * d - a) /\ 2 * (t * d - a) <= d
  BY <1>3, RoundedNearest
<1>6. t \in Nat /\ a * 1 = a /\ 1 \in 0 .. d
  BY <1>1, <1>2, <1>5, WordSize
<1> HIDE DEF t, y
<1>7. /\ y \in 0 .. M /\ (x > Half(M) => Wrap(M - t) = M - t)
      /\ 2 * (Centre(y, M) * d - Centre(x, M) * 1) \in -d .. d
      /\ Centre(y, M) = IF x > Half(M) THEN y - M ELSE y
  <2>1. NearestTo(a, 1, d, t)
    BY <1>5, <1>6 DEF NearestTo
  <2>2. OfSize(x, M, x, a)
    BY DEF a, OfSize
  <2>3. OfSize(x, M, t, y)
    BY DEF y, OfSize
  <2> QED BY ONLY <1>1, <1>6, <2>1, <2>2, <2>3, RoundedEntry, Roomy(M), x \in 0 .. M
<1>8. DivideEntry(x, M, d) = y
  BY <1>4, <1>7 DEF y
<1> QED BY <1>7, <1>8

\* What a product and a quotient by doubles may round to.
LEMMA RoundedProducts ==
  ASSUME NEW a \in Nat, NEW d \in Nat \ {0}, NEW p \in Nat, NEW t \in RoundedProduct(a, p, d)
  PROVE  t \in Nat /\ NearestTo(a, p, d, t)
<1> DEFINE ap == a * p
           g == 2 * a * p + d
           r == g \div (2 * d)
           s == g % (2 * d)
           rd == r * d
<1>1. ap \in Nat /\ 2 * d \in Nat \ {0} /\ 2 * a * p = 2 * ap
  OBVIOUS
<1>2. g \in Nat /\ g = 2 * ap + d
  BY <1>1
<1> HIDE DEF g
<1>3. r \in Nat /\ s \in 0 .. 2 * d - 1 /\ g = (2 * d) * r + s
  BY ONLY <1>1, <1>2, DivNat
<1>4. t = r \/ (s = 0 /\ t = r - 1)
  BY DEF RoundedProduct, g
<1> HIDE DEF r, s
<1>5. rd \in Nat /\ (2 * d) * r = 2 * rd /\ (r - 1) * d = rd - d
  BY ONLY <1>3, d \in Nat \ {0}
<1>6. t * d = rd \/ (s = 0 /\ t * d = rd - d)
  BY ONLY <1>4, <1>5
<1>7. s = 0 => r # 0
  <2> SUFFICES ASSUME s = 0, r = 0 PROVE FALSE
    OBVIOUS
  <2>1. (2 * d) * r = 0
    OBVIOUS
  <2> HIDE DEF ap
  <2> QED BY <1>1, <1>2, <1>3, <2>1
<1>8. t \in Nat
  BY <1>3, <1>4, <1>7
<1> HIDE DEF rd, ap
<1>9. 2 * ap + d = 2 * rd + s
  BY <1>2, <1>3, <1>5
<1> DEFINE td == t * d
<1>10. td = rd \/ (s = 0 /\ td = rd - d)
  BY <1>6
<1> HIDE DEF td
<1>11. -d <= 2 * (td - ap) /\ 2 * (td - ap) <= d
  BY ONLY <1>1, <1>3, <1>5, <1>9, <1>10, d \in Nat \ {0}
<1> QED BY <1>8, <1>11 DEF td, ap, NearestTo

\* Multiplications of an entry by a fraction.
LEMMA MultiplyEntries ==
  ASSUME NEW M, Roomy(M), NEW x \in 0 .. M, NEW d \in Nat \ {0}, NEW p \in 0 .. d, NEW y \in MultiplyEntry(x, M, p, d)
  PROVE  /\ y \in 0 .. M
         /\ 2 * (Centre(y, M) * d - Centre(x, M) * p) \in -d .. d
         /\ Centre(y, M) = IF x > Half(M) THEN y - M ELSE y
<1> DEFINE a == IF x > Half(M) THEN M - x ELSE x
<1>1. M \in Nat \ {0} /\ 0 .. M \subseteq Word /\ Half(M) \in Nat
  BY RoomyFacts, HalfFacts, WordSize
<1>2. a \in 0 .. M /\ a \in Nat /\ a \in 0 .. 4 * M
  BY <1>1
<1>3. Wrap(a) = a
  BY <1>2, RoomyFacts
<1>4. PICK t \in RoundedProduct(a, p, d) : y = IF x > Half(M) THEN Wrap(M - t) ELSE t % M
  <2>1. CASE x > Half(M)
    BY <1>3, <2>1 DEF MultiplyEntry
  <2>2. CASE ~(x > Half(M))
    BY <2>2 DEF MultiplyEntry
  <2> QED BY <2>1, <2>2
<1>5. OfSize(x, M, x, a)
  BY DEF OfSize
<1> HIDE DEF a
<1>6. t \in Nat /\ NearestTo(a, p, d, t)
  <2>1. p \in Nat
    OBVIOUS
  <2> QED BY ONLY <1>2, <2>1, RoundedProducts, t \in RoundedProduct(a, p, d), d \in Nat \ {0}
<1> DEFINE z == IF x > Half(M) THEN M - t ELSE t
<1>7. OfSize(x, M, t, z)
  BY DEF OfSize
<1> HIDE DEF z
<1>8. /\ z \in 0 .. M /\ (x > Half(M) => Wrap(M - t) = M - t) /\ (~(x > Half(M)) => t % M = t)
      /\ 2 * (Centre(z, M) * d - Centre(x, M) * p) \in -d .. d
      /\ Centre(z, M) = IF x > Half(M) THEN z - M ELSE z
  BY ONLY <1>1, <1>5, <1>6, <1>7, RoundedEntry, Roomy(M), x \in 0 .. M, d \in Nat \ {0}, p \in 0 .. d
<1>9. y = z
  BY <1>4, <1>7, <1>8 DEF OfSize
<1> QED BY <1>8, <1>9
=============================================================================
