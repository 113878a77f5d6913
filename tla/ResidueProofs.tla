--------------------------- MODULE ResidueProofs ---------------------------
(***************************************************************************)
(* Residues: the vectors of them, the loop that inverts one, and the       *)
(* numbers they stand for.                                                 *)
(*                                                                         *)
(* ModInverse, for every pair of arguments: what it returns is the inverse *)
(* that the vector's ModInverseEq assigns, no signed word overflows, and   *)
(* it divides by zero only when there is no inverse.  The inductive        *)
(* invariant is the classical one: x and y are coefficients of the         *)
(* argument for the two remainders, their signs alternate and their sizes  *)
(* satisfy |x| * rest + |y| * a = mod, and the arguments are combinations  *)
(* of the remainders, so that a common factor survives.                    *)
(*                                                                         *)
(* NativeVectorT, for every length and every set of moduli up to           *)
(* MAX_MODULUS_SIZE bits: entries are words through every chain of calls,  *)
(* and below the modulus when no function is used that leaves them         *)
(* unreduced, which is what makes a switch of the modulus keep the centred *)
(* values.                                                                 *)
(*                                                                         *)
(* HexlDCRTPolyImpl, for every number and choice of towers that leaves the *)
(* room BasisAssumption asks for: a coefficient keeps its number through   *)
(* the changes of basis.  The Chinese remainder theorem is proved first,   *)
(* from inverses modulo each tower: residues are those of one number below *)
(* the product, and the sum of the terms residue * HatInv * Hat is that    *)
(* number and a multiple of the product.  Each conversion is then a count  *)
(* of such multiples.  The inductive invariant adds to the residues being  *)
(* reduced what BEHZ needs of earlier calls: that in the basis with Bsk    *)
(* they stand for a number small enough to be divided, and after           *)
(* FastRNSFloorq, in the towers of Bsk alone, for one small enough to be   *)
(* converted back.                                                         *)
(***************************************************************************)
EXTENDS ModInverse, NativeVector, RNS, NativeWordProofs, SequenceTheorems

-----------------------------------------------------------------------------
(* The loop.                                                               *)

\* x and y express the two remainders through the argument.
Bezout ==
  /\ \E k \in Int : x * argument = a + k * mod
  /\ \E k \in Int : y * argument = rest + k * mod

\* The remainders express the arguments.
Expressed ==
  /\ \E i, j \in Int : argument = i * a + j * rest
  /\ \E i, j \in Int : mod = i * a + j * rest

Sized ==
  /\ a >= 1
  /\ (x >= 0 /\ y <= 0) \/ (x <= 0 /\ y >= 0)
  /\ Abs(x) * rest + Abs(y) * a = mod
  /\ Abs(x) <= mod /\ Abs(y) <= mod
  /\ mod > 1 /\ Abs(x) < mod

Inv ==
  /\ InverseTypeOK
  /\ pc \in {"loop", "trapped"} => Bezout /\ Expressed /\ Sized
  /\ pc = "threw" => x = 1 /\ y = 0
  /\ pc = "done" => Abs(x) <= mod /\ Abs(y) <= mod
  /\ ReturnsInverse
  /\ TrapsOnlyWithoutInverse

\* Arguments are integers of the right signs.
LEMMA Arguments == InverseTypeOK => argument \in Nat /\ mod \in Nat \ {0} /\ mod <= SignedMax /\ SignedMax \in Nat
  BY InverseAssumption DEF InverseTypeOK

\* Every product of the loop is an integer.
LEMMA IntegerProducts == \A i, j \in Int : i * j \in Int
  BY ProductInteger

\* The invariant holds initially.
LEMMA InitInv == InverseInit => Inv
<1> SUFFICES ASSUME InverseInit PROVE Inv
  OBVIOUS
<1>1. argument \in Nat /\ mod \in Nat \ {0} /\ mod <= SignedMax
  BY InverseAssumption DEF InverseInit
<1>2. a \in 0 .. mod - 1 /\ a = argument % mod /\ argument \div mod \in Int
      /\ argument = mod * (argument \div mod) + a
  BY <1>1 DEF InverseInit
<1>3. InverseTypeOK
  BY <1>1, <1>2 DEF InverseInit, InverseTypeOK
<1>4. ASSUME pc \in {"loop", "trapped"} PROVE Bezout /\ Expressed /\ Sized
  <2>1. a >= 1 /\ x = 1 /\ y = 0 /\ rest = mod
    BY <1>4, <1>2 DEF InverseInit
  <2> DEFINE q == argument \div mod
  <2>2. q \in Int /\ argument = mod * q + a
    BY <1>2
  <2> HIDE DEF q
  <2>3. x * argument = a + q * mod /\ y * argument = rest + (-1) * mod
    BY <2>1, <2>2, <1>1, <1>2
  <2>4. argument = 1 * a + q * rest /\ mod = 0 * a + 1 * rest
    BY <2>1, <2>2, <1>1, <1>2
  <2>5. Bezout
    BY <2>2, <2>3 DEF Bezout
  <2>6. Expressed
    BY <2>2, <2>4 DEF Expressed
  <2>7. Sized
    <3>1. Abs(x) = 1 /\ Abs(y) = 0
      BY <2>1 DEF Abs
    <3>2. 1 * rest + 0 * a = mod
      BY <2>1, <1>1, <1>2
    <3> QED BY <3>1, <3>2, <2>1, <1>1, <1>2 DEF Sized
  <2> QED BY <2>5, <2>6, <2>7
<1>5. pc # "done" /\ pc # "trapped" /\ x = 1 /\ y = 0
  BY DEF InverseInit
<1> QED BY <1>3, <1>4, <1>5 DEF Inv, ReturnsInverse, TrapsOnlyWithoutInverse

\* An iteration keeps the invariant, and its product is no larger than mod.
LEMMA IterateInv ==
  ASSUME Inv, Iterate
  PROVE  Inv'
<1> DEFINE q == a \div rest
           r == a % rest
<1>1. /\ argument \in Nat /\ mod \in Nat \ {0} /\ a \in Nat /\ rest \in Nat \ {0}
      /\ x \in Int /\ y \in Int /\ a > 1
  BY Arguments DEF Inv, InverseTypeOK, Iterate
<1>2. q \in Nat /\ r \in 0 .. rest - 1 /\ a = rest * q + r
  BY <1>1, DivNat
<1>3. a' = rest /\ rest' = r /\ x' = y /\ y' = x - q * y /\ argument' = argument /\ mod' = mod
      /\ pc' = "loop" /\ pc = "loop"
  BY DEF Iterate
<1> HIDE DEF q, r
<1>4. Bezout /\ Expressed /\ Sized
  BY <1>3 DEF Inv
<1>5. InverseTypeOK'
  BY <1>1, <1>2, <1>3, IntegerProducts DEF Inv, InverseTypeOK
<1>6. Bezout'
  <2>1. PICK k \in Int : x * argument = a + k * mod
    BY <1>4 DEF Bezout
  <2>2. PICK l \in Int : y * argument = rest + l * mod
    BY <1>4 DEF Bezout
  <2>3. (x - q * y) * argument = r + (k - q * l) * mod
    <3>1. (x - q * y) * argument = x * argument - q * (y * argument)
      BY <1>1, <1>2
    <3>2. q * (y * argument) = q * rest + q * (l * mod)
      BY <2>2, <1>1, <1>2
    <3>3. (k - q * l) * mod = k * mod - q * (l * mod)
      BY <1>1, <1>2
    <3>4. q * rest = rest * q /\ q * rest \in Int /\ k * mod \in Int /\ q * (l * mod) \in Int
          /\ x * argument \in Int /\ q * (y * argument) \in Int
      BY <1>1, <1>2
    <3> QED BY ONLY <3>1, <3>2, <3>3, <3>4, <2>1, <1>1, <1>2
  <2>4. k - q * l \in Int
    BY <1>2
  <2> QED BY <2>2, <2>3, <2>4, <1>3 DEF Bezout
<1>7. Expressed'
  <2>1. ASSUME NEW n \in Int, NEW i \in Int, NEW j \in Int, n = i * a + j * rest
        PROVE  \E k, l \in Int : n = k * rest + l * r
    <3>1. n = (i * q + j) * rest + i * r
      <4>1. i * a = (i * q) * rest + i * r
        BY <1>1, <1>2
      <4>2. (i * q + j) * rest = (i * q) * rest + j * rest
        BY <1>1, <1>2
      <4>3. (i * q) * rest \in Int /\ j * rest \in Int /\ i * r \in Int
        BY <1>1, <1>2
      <4> QED BY ONLY <4>1, <4>2, <4>3, <2>1
    <3>2. i * q + j \in Int
      BY <1>2
    <3> QED BY <3>1, <3>2
  <2>2. argument \in Int /\ mod \in Int
    BY <1>1
  <2> QED BY <2>1, <2>2, <1>3, <1>4 DEF Expressed
<1>8. Sized'
  <2> DEFINE X == Abs(x)
             Y == Abs(y)
  <2>1. X \in Nat /\ Y \in Nat /\ X * rest + Y * a = mod /\ mod > 1
    BY <1>1, <1>4 DEF Sized, Abs
  <2>2. q * y \in Int /\ (y <= 0 => q * y <= 0) /\ (y >= 0 => q * y >= 0)
    <3>1. CASE y <= 0
      <4>1. y * q <= 0 * q
        BY <3>1, <1>1, <1>2, Monotone
      <4> QED BY <4>1, <3>1, <1>1, <1>2
    <3>2. CASE y >= 0
      <4>1. 0 * q <= y * q
        BY <3>2, <1>1, <1>2, Monotone
      <4> QED BY <4>1, <3>2, <1>1, <1>2
    <3> QED BY <3>1, <3>2, <1>1
  <2>3. (y >= 0 /\ x - q * y <= 0) \/ (y <= 0 /\ x - q * y >= 0)
    <3> DEFINE p == q * y
    <3>1. p \in Int /\ (y <= 0 => p <= 0) /\ (y >= 0 => p >= 0)
      BY <2>2
    <3> HIDE DEF p
    <3>2. (y >= 0 /\ x - p <= 0) \/ (y <= 0 /\ x - p >= 0)
      BY ONLY <3>1, <1>1, <1>4 DEF Sized
    <3> QED BY <3>2 DEF p
  <2>4. Abs(x - q * y) = X + q * Y
    <3> DEFINE p == q * y
    <3>1. p \in Int /\ (y <= 0 => p <= 0) /\ (y >= 0 => p >= 0)
      BY <2>2
    <3>2. q * Y = Abs(p)
      <4>1. q * (-y) = -p /\ q * 0 = 0
        BY <1>1, <1>2
      <4> QED BY <4>1, <3>1, <1>1 DEF Abs
    <3> HIDE DEF p
    <3>3. Abs(x - p) = Abs(x) + Abs(p)
      BY ONLY <3>1, <1>1, <1>4 DEF Sized, Abs
    <3> QED BY <3>2, <3>3 DEF p
  <2> HIDE DEF X, Y
  <2>5. Y * r + (X + q * Y) * rest = mod
    <3>1. Y * a = Y * (rest * q) + Y * r
      BY <2>1, <1>1, <1>2
    <3>2. (X + q * Y) * rest = X * rest + Y * (rest * q)
      BY <2>1, <1>1, <1>2
    <3>3. Y * (rest * q) \in Int /\ X * rest \in Int /\ Y * r \in Int
      BY <2>1, <1>1, <1>2
    <3> QED BY ONLY <3>1, <3>2, <3>3, <2>1, <1>1
  <2>6. X + q * Y \in Nat /\ q * Y \in Nat /\ Y * r \in Nat
    BY <2>1, <1>1, <1>2, ProductInteger
  <2>7. X + q * Y <= mod
    <3> DEFINE Z == X + q * Y
    <3>1. Z \in Nat /\ Y * r + Z * rest = mod
      BY <2>5, <2>6
    <3> HIDE DEF Z
    <3>2. 1 * Z <= rest * Z /\ rest * Z = Z * rest /\ Z * rest \in Int
      BY <3>1, <1>1, Monotone
    <3>3. Z <= mod
      BY ONLY <3>1, <3>2, <2>6, <1>1
    <3> QED BY <3>3 DEF Z
  <2>8. Y < mod
    <3>1. 2 * Y <= a * Y /\ a * Y = Y * a /\ Y * a \in Int
      BY <2>1, <1>1, Monotone
    <3>2. X * rest \in Nat
      BY <2>1, <1>1, ProductInteger
    <3> QED BY ONLY <3>1, <3>2, <2>1, <1>1
  <2>9. rest >= 1
    BY <1>1
  <2>10. Abs(x') = Y /\ Abs(y') = X + q * Y
    BY <2>4, <1>3 DEF X, Y
  <2>11. Abs(x') * rest' + Abs(y') * a' = mod'
    BY <2>5, <2>10, <1>3
  <2>12. a' >= 1 /\ ((x' >= 0 /\ y' <= 0) \/ (x' <= 0 /\ y' >= 0))
    BY <2>3, <2>9, <1>3
  <2>13. Abs(x') <= mod' /\ Abs(y') <= mod' /\ mod' > 1 /\ Abs(x') < mod'
    <3>1. Y <= mod
      BY ONLY <2>1, <2>8, <1>1
    <3> QED BY <3>1, <2>1, <2>7, <2>8, <2>10, <1>3
  <2> QED BY <2>11, <2>12, <2>13 DEF Sized
<1> QED BY <1>3, <1>5, <1>6, <1>7, <1>8 DEF Inv, ReturnsInverse, TrapsOnlyWithoutInverse

\* A trap keeps the invariant: the remainder left is a common factor.
LEMMA TrapInv ==
  ASSUME Inv, Trap
  PROVE  Inv'
<1>1. /\ argument \in Nat /\ mod \in Nat \ {0} /\ a \in Nat /\ a > 1 /\ rest = 0
      /\ pc = "loop" /\ pc' = "trapped" /\ Bezout /\ Expressed /\ Sized
  BY Arguments DEF Inv, InverseTypeOK, Trap
<1>2. UNCHANGED <<argument, mod, a, rest, x, y>>
  BY DEF Trap
<1>3. PICK i \in Int : argument = i * a
  <2>1. PICK f \in Int, g \in Int : argument = f * a + g * rest
    BY <1>1 DEF Expressed
  <2> QED BY <2>1, <1>1
<1>4. PICK j \in Int : mod = j * a
  <2>1. PICK f \in Int, g \in Int : mod = f * a + g * rest
    BY <1>1 DEF Expressed
  <2> QED BY <2>1, <1>1
<1>5. ASSUME Invertible PROVE FALSE
  <2>1. PICK k \in 0 .. mod - 1 : (k * argument) % mod = 1
    BY <1>5 DEF Invertible
  <2> DEFINE p == k * argument
             d == p \div mod
  <2>2. p \in Nat
    BY <1>1, ProductInteger
  <2>3. p % mod = 1
    BY <2>1
  <2> HIDE DEF p
  <2>4. d \in Int /\ p = mod * d + 1
    BY <2>2, <2>3, <1>1
  <2> HIDE DEF d
  <2> DEFINE c == k * i - j * d
  <2>5. c * a = 1
    <3>1. p = (k * i) * a
      BY <1>1, <1>3 DEF p
    <3>2. mod * d = (j * d) * a
      BY <1>1, <1>4, <2>4
    <3>3. c * a = (k * i) * a - (j * d) * a
      BY <1>1, <2>4
    <3>4. (k * i) * a \in Int /\ (j * d) * a \in Int
      BY <1>1, <2>4
    <3> QED BY ONLY <3>1, <3>2, <3>3, <3>4, <2>4
  <2>6. c \in Int
    BY <2>4
  <2> HIDE DEF c
  <2>7. CASE c <= 0
    <3>1. c * a <= 0 * a
      BY <2>6, <2>7, <1>1, Monotone
    <3> QED BY <3>1, <2>5, <1>1
  <2>8. CASE c >= 1
    <3>1. 1 * a <= c * a
      BY <2>6, <2>8, <1>1, Monotone
    <3> QED BY <3>1, <2>5, <1>1
  <2> QED BY <2>6, <2>7, <2>8
<1>6. Bezout' /\ Expressed' /\ Sized' /\ (Invertible' <=> Invertible)
  BY <1>1, <1>2 DEF Bezout, Expressed, Sized, Invertible
<1> QED BY <1>1, <1>2, <1>5, <1>6 DEF Inv, InverseTypeOK, ReturnsInverse, TrapsOnlyWithoutInverse

\* Returning keeps the invariant: the last coefficient is the inverse.
LEMMA ReturnInv ==
  ASSUME Inv, ReturnInverse
  PROVE  Inv'
<1>1. /\ argument \in Nat /\ mod \in Nat \ {0} /\ mod > 1 /\ a = 1 /\ x \in Int /\ y \in Int
      /\ Abs(x) < mod /\ Abs(y) <= mod /\ Bezout
      /\ pc = "loop" /\ pc' = "done" /\ x' = (IF x < 0 THEN x + mod ELSE x)
      /\ argument' = argument /\ mod' = mod /\ y' = y /\ a' = a /\ rest' = rest
  BY Arguments DEF Inv, InverseTypeOK, ReturnInverse, Sized
<1>2. x' \in 0 .. mod - 1 /\ Abs(x') <= mod
  BY <1>1 DEF Abs
<1>3. (x' * argument) % mod = 1
  <2>1. PICK k \in Int : x * argument = 1 + k * mod
    BY <1>1 DEF Bezout
  <2>2. PICK l \in Int : x' * argument = l * mod + 1
    <3>1. CASE x < 0
      <4>1. (x + mod) * argument = x * argument + argument * mod /\ (k + argument) * mod = k * mod + argument * mod
        BY <1>1
      <4>2. k + argument \in Int /\ argument * mod \in Int /\ k * mod \in Int
        BY <1>1
      <4>3. (x + mod) * argument = (k + argument) * mod + 1
        BY ONLY <4>1, <4>2, <2>1
      <4> QED BY <4>2, <4>3, <3>1, <1>1
    <3>2. CASE ~(x < 0)
      <4>1. 1 + k * mod = k * mod + 1
        BY <1>1
      <4> QED BY <4>1, <2>1, <3>2, <1>1
    <3> QED BY <3>1, <3>2
  <2> DEFINE p == x' * argument
  <2>3. p = l * mod + 1 /\ p \in Int /\ 1 \in 0 .. mod - 1
    BY <2>2, <1>1, <1>2
  <2> HIDE DEF p
  <2>4. p % mod = 1
    BY ONLY <2>3, <1>1, DivUnique, l \in Int
  <2> QED BY <2>4 DEF p
<1>4. ReturnsInverse' /\ Invertible'
  BY <1>1, <1>2, <1>3 DEF ReturnsInverse, Invertible
<1>5. InverseTypeOK'
  BY <1>1, <1>2 DEF Inv, InverseTypeOK
<1>6. Abs(y') <= mod' /\ Abs(x') <= mod'
  BY <1>1, <1>2
<1> QED BY <1>1, <1>4, <1>5, <1>6 DEF Inv, TrapsOnlyWithoutInverse

\* The invariant is inductive.
LEMMA InvStep == Inv /\ [InverseNext]_inverseVars => Inv'
<1> SUFFICES ASSUME Inv, [InverseNext]_inverseVars PROVE Inv'
  OBVIOUS
<1>1. CASE UNCHANGED inverseVars
  <2>1. (Invertible' <=> Invertible) /\ (Bezout' <=> Bezout) /\ (Expressed' <=> Expressed) /\ (Sized' <=> Sized)
    BY <1>1 DEF inverseVars, Invertible, Bezout, Expressed, Sized
  <2> QED BY <1>1, <2>1 DEF inverseVars, Inv, InverseTypeOK, ReturnsInverse, TrapsOnlyWithoutInverse
<1> QED BY <1>1, IterateInv, TrapInv, ReturnInv DEF InverseNext

\* Within the invariant nothing overflows.
LEMMA InvNoOverflow == Inv => NoOverflow
<1> SUFFICES ASSUME Inv PROVE NoOverflow
  OBVIOUS
<1>1. /\ mod \in Nat \ {0} /\ mod <= SignedMax /\ SignedMax \in Nat /\ x \in Int /\ y \in Int
      /\ a \in Nat /\ rest \in Nat
  BY Arguments DEF Inv, InverseTypeOK
<1>2. Abs(x) <= mod /\ Abs(y) <= mod
  BY <1>1 DEF Inv, Sized, Abs, InverseTypeOK
<1>3. Abs(x) <= SignedMax /\ Abs(y) <= SignedMax
  BY <1>1, <1>2 DEF Abs
<1>4. ASSUME pc = "loop", a > 1, rest # 0 PROVE Abs((a \div rest) * y) <= SignedMax
  <2> DEFINE q == a \div rest
             Y == Abs(y)
  <2>1. q \in Nat /\ q <= a
    <3>1. PICK c \in Nat, r \in 0 .. rest - 1 : c = q /\ a = rest * c + r
      BY <1>1, <1>4, DivSplit
    <3>2. 1 * c <= rest * c
      BY <1>1, <1>4, Monotone
    <3>3. rest * c \in Int
      BY <1>1
    <3> QED BY ONLY <3>1, <3>2, <3>3, <1>1
  <2>2. Y \in Nat /\ Abs(x) \in Nat /\ Abs(x) * rest + Y * a = mod
    BY <1>1, <1>4 DEF Inv, Sized, Abs
  <2> HIDE DEF q
  <2>3. Abs(q * y) = q * Y
    <3>1. CASE y < 0
      <4>1. y * q <= 0 * q /\ q * (-y) = -(q * y) /\ q * y = y * q /\ q * y \in Int /\ 0 * q = 0
        BY <3>1, <1>1, <2>1, Monotone
      <4>2. CASE q * y < 0
        BY <4>1, <4>2, <3>1 DEF Abs
      <4>3. CASE q * y = 0
        BY <4>1, <4>3, <3>1 DEF Abs
      <4> QED BY <4>1, <4>2, <4>3
    <3>2. CASE ~(y < 0)
      <4>1. 0 * q <= y * q /\ q * y = y * q /\ q * y \in Int /\ 0 * q = 0
        BY <3>2, <1>1, <2>1, Monotone
      <4> QED BY <4>1, <3>2 DEF Abs
    <3> QED BY <3>1, <3>2
  <2> HIDE DEF Y
  <2>4. q * Y <= a * Y
    BY <2>1, <2>2, <1>1, Monotone
  <2>5. a * Y = Y * a /\ Abs(x) * rest \in Nat /\ q * Y \in Int /\ Y * a \in Int
    BY <2>1, <2>2, <1>1, ProductInteger
  <2> QED BY ONLY <2>2, <2>3, <2>4, <2>5, <1>1 DEF q
<1> QED BY <1>3, <1>4 DEF NoOverflow

\* The loop's variables keep their types.
THEOREM InverseTypeCorrect == InverseSpec => []InverseTypeOK
<1>1. Inv => InverseTypeOK
  BY DEF Inv
<1> QED BY <1>1, InitInv, InvStep, PTL DEF InverseSpec

\* What is returned is the inverse.
THEOREM InverseCorrect == InverseSpec => []ReturnsInverse
<1>1. Inv => ReturnsInverse
  BY DEF Inv
<1> QED BY <1>1, InitInv, InvStep, PTL DEF InverseSpec

\* No signed word overflows.
THEOREM InverseNoOverflow == InverseSpec => []NoOverflow
BY InvNoOverflow, InitInv, InvStep, PTL DEF InverseSpec

\* The division by zero is reached only by arguments without an inverse, and
\* those never return.
THEOREM InverseTraps == InverseSpec => []TrapsOnlyWithoutInverse
<1>1. Inv => TrapsOnlyWithoutInverse
  BY DEF Inv
<1> QED BY <1>1, InitInv, InvStep, PTL DEF InverseSpec

\* The inverse that the loop returns is the one that ModInverseEq assigns, and
\* there is none for the arguments it dies on.
THEOREM LoopComputesInverse ==
  InverseSpec => []/\ pc = "done" /\ mod > 1 => HasInverse(argument, mod) /\ x = InverseOf(argument, mod)
                   /\ pc = "trapped" => ~HasInverse(argument, mod)
<1> DEFINE Agrees == /\ pc = "done" /\ mod > 1 => HasInverse(argument, mod) /\ x = InverseOf(argument, mod)
                     /\ pc = "trapped" => ~HasInverse(argument, mod)
<1>1. Inv => Agrees
  <2> SUFFICES ASSUME Inv PROVE Agrees
    OBVIOUS
  <2>1. argument \in Nat /\ mod \in Nat \ {0}
    BY Arguments DEF Inv
  <2>2. ASSUME NEW k \in 0 .. mod - 1 PROVE argument * k = k * argument /\ k \in Int
    BY <2>1
  <2>3. pc = "trapped" => ~HasInverse(argument, mod)
    BY <2>2 DEF Inv, TrapsOnlyWithoutInverse, Invertible, HasInverse
  <2>4. ASSUME pc = "done", mod > 1 PROVE HasInverse(argument, mod) /\ x = InverseOf(argument, mod)
    <3> DEFINE z == InverseOf(argument, mod)
    <3>1. x \in 0 .. mod - 1 /\ (x * argument) % mod = 1
      BY <2>4 DEF Inv, ReturnsInverse
    <3>2. (argument * x) % mod = 1
      BY <2>2, <3>1
    <3>3. \E k \in 0 .. mod - 1 : (argument * k) % mod = 1
      BY <3>1, <3>2
    <3>4. z \in 0 .. mod - 1 /\ (argument * z) % mod = 1
      BY <3>3 DEF InverseOf
    <3> HIDE DEF z
    <3>5. x = z
      <4> DEFINE nx == argument * x
                 nz == argument * z
      <4>1. /\ x \in Int /\ z \in Int /\ nx \in Int /\ nz \in Int
            /\ x * nz = z * nx /\ x * 1 = x /\ z * 1 = z
        <5>1. x \in Int /\ z \in Int /\ argument \in Int
          BY <2>1, <3>1, <3>4
        <5>2. nx \in Int /\ nz \in Int
          BY ONLY <5>1, ProductInteger
        <5>3. x * (argument * z) = z * (argument * x)
          BY ONLY <5>1
        <5> QED BY <5>1, <5>2, <5>3
      <4>2. 1 % mod = 1
        <5>1. 1 \in Nat /\ 1 < mod
          BY <2>1, <2>4
        <5> QED BY ONLY <5>1, <2>1, Residues
      <4>3. Congruent(nx, 1, mod) /\ Congruent(nz, 1, mod) /\ Congruent(x, x, mod) /\ Congruent(z, z, mod)
        BY <3>2, <3>4, <4>2 DEF Congruent
      <4> HIDE DEF nx, nz
      <4>4. Congruent(x * nz, x * 1, mod) /\ Congruent(z * nx, z * 1, mod)
        BY ONLY <2>1, <4>1, <4>3, CongruentProduct, 1 \in Int
      <4>5. Congruent(z, x, mod) /\ Congruent(x, z, mod)
        BY <4>1, <4>4 DEF Congruent
      <4> QED BY ONLY <2>1, <3>1, <3>4, <4>5, CongruentRelation
    <3> QED BY <3>3, <3>5 DEF HasInverse, z
  <2> QED BY <2>3, <2>4
<1>2. InverseSpec => []Inv
  BY InitInv, InvStep, PTL DEF InverseSpec
<1>3. InverseSpec => []Agrees
  BY <1>1, <1>2, PTL
<1> QED BY <1>3

-----------------------------------------------------------------------------
(* Single entries, of any size.                                            *)

\* The moduli leave two bits of a word.
LEMMA ModuliRoomy ==
  ASSUME VectorAssumption, NEW m \in Moduli
  PROVE  /\ Roomy(m) /\ m \in Nat \ {0} /\ m \in Nat \ {0, 1}
         /\ \A z \in 0 .. m - 1 : z \in Int /\ z \in 0 .. m /\ z \in Word /\ z < m
<1> DEFINE S == 2^W
           Z == 2^MaxBits
           T == 2^(W - 2)
<1>1. W \in Nat /\ W > 7 /\ MaxBits \in 1 .. W - 2 /\ m \in 2 .. Z - 1
  BY PowersOfTwo DEF VectorAssumption
<1>2. Z \in Nat /\ T \in Nat /\ S \in Nat /\ S = 4 * T
  <2>1. W \in 1 .. W /\ W - 1 \in 1 .. W /\ W - 2 \in 0 .. W /\ (W - 1) - 1 = W - 2 /\ MaxBits \in 0 .. W
    BY <1>1
  <2>2. 2^W = 2 * 2^(W - 1) /\ 2^(W - 1) = 2 * 2^(W - 2)
    BY <2>1, PowersOfTwo
  <2> QED BY <2>1, <2>2, PowersOfTwo
<1>3. Z <= T
  <2> DEFINE j == (W - 2) - MaxBits
  <2>1. j \in Nat /\ MaxBits \in 0 .. 2 * W /\ j \in 0 .. 2 * W /\ MaxBits + j <= 2 * W /\ MaxBits + j = W - 2
    BY <1>1
  <2> HIDE DEF j
  <2>2. 2^(MaxBits + j) = 2^MaxBits * 2^j /\ 2^j \in Nat \ {0}
    BY ONLY <2>1, PowerAssumption
  <2>3. 1 * Z <= 2^j * Z /\ 2^j * Z = Z * 2^j
    BY ONLY <1>2, <2>2, Monotone
  <2> QED BY <1>2, <2>1, <2>2, <2>3
<1> HIDE DEF S, Z, T
<1>4. 4 * m < S /\ m \in Nat \ {0, 1}
  BY <1>1, <1>2, <1>3
<1>5. Roomy(m)
  BY <1>4 DEF Roomy, S
<1>6. 0 .. m \subseteq Word
  BY <1>5, RoomyFacts
<1> QED BY <1>4, <1>5, <1>6

\* Sums and differences are words, and residues of residues.
LEMMA AnySums ==
  ASSUME NEW m, Roomy(m), NEW u \in Word, NEW w \in 0 .. m - 1
  PROVE  /\ ModAddFast(u, w, m) \in Word /\ (u < m => ModAddFast(u, w, m) \in 0 .. m - 1)
         /\ ModSubFast(u, w, m) \in Word /\ (u < m => ModSubFast(u, w, m) \in 0 .. m - 1)
<1>1. m \in Nat \ {0} /\ 4 * m < 2^W /\ u \in Nat /\ w \in Nat
  BY RoomyFacts, WordSize
<1>2. \A v \in Int : Wrap(v) \in Word
  BY WrapWord
<1> DEFINE s == Wrap(u + w)
           d == Wrap(u + m - w)
<1>3. s \in Word /\ d \in Word
  BY <1>1, <1>2
<1>4. ModAddFast(u, w, m) = (IF s >= m THEN s - m ELSE s) /\ ModSubFast(u, w, m) = IF u < w THEN d ELSE u - w
  BY DEF ModAddFast, ModSubFast, CorrectedOnce
<1> HIDE DEF s, d
<1>5. ModAddFast(u, w, m) \in Word /\ ModSubFast(u, w, m) \in Word
  BY <1>1, <1>3, <1>4, WordSize
<1>6. ASSUME u < m PROVE ModAddFast(u, w, m) \in 0 .. m - 1 /\ ModSubFast(u, w, m) \in 0 .. m - 1
  <2>1. u \in 0 .. m - 1
    BY <1>1, <1>6
  <2>2. ModAddFast(u, w, m) = (u + w) % m /\ ModSubFast(u, w, m) = (u - w) % m
    BY ONLY <1>1, <2>1, SumsFit, w \in 0 .. m - 1
  <2>3. u + w \in Int /\ u - w \in Int
    BY <1>1
  <2> QED BY ONLY <1>1, <2>2, <2>3, Remainders
<1> QED BY <1>5, <1>6

\* What a function that reduces returns.
LEMMA AnyProducts ==
  ASSUME NEW m, Roomy(m), NEW u \in Word, NEW w \in Word
  PROVE  /\ EltwiseMultMod(u, w, m) \in 0 .. m - 1 /\ EltwiseFMAMod(u, w, m) \in 0 .. m - 1
         /\ ModAdd(u, w, m) \in 0 .. m - 1 /\ Power(u, w, m) \in 0 .. m - 1 /\ u % m \in 0 .. m - 1
<1>1. m \in Nat \ {0} /\ m \in Nat \ {0, 1} /\ u \in Nat /\ w \in Nat /\ 0 .. m \subseteq Word
  BY RoomyFacts, WordSize
<1>2. u * w \in Int
  BY <1>1, ProductInteger
<1>3. (u * w) % m \in 0 .. m - 1 /\ u % m \in 0 .. m - 1 /\ w % m \in 0 .. m - 1
  BY ONLY <1>1, <1>2, Remainders
<1>4. u % m \in Word /\ u % m < m
  BY <1>1, <1>3
<1>5. ModAdd(u, w, m) \in 0 .. m - 1
  BY <1>3, <1>4, AnySums DEF ModAdd
<1>6. Power(u, w, m) \in 0 .. m - 1
  BY ONLY <1>1, PowerSteps
<1> QED BY <1>3, <1>5, <1>6 DEF EltwiseMultMod, EltwiseFMAMod

\* A switch of the modulus keeps the centred value of a residue.
LEMMA AnySwitch ==
  ASSUME NEW m, Roomy(m), NEW n, Roomy(n), NEW u \in Word
  PROVE  /\ SwitchEntry(u, m, n) \in Word
         /\ u < m => SwitchEntry(u, m, n) = Centre(u, m) % n /\ SwitchEntry(u, m, n) \in 0 .. n - 1
<1>1. m \in Nat \ {0} /\ n \in Nat \ {0} /\ u \in Nat /\ 0 .. n \subseteq Word
  BY RoomyFacts, WordSize
<1>2. SwitchEntry(u, m, n) \in Word
  <2>1. u + (n - m) \in Int /\ u - ((m - n) % n) \in Int /\ u \in Int
    BY <1>1
  <2>2. Wrap(u + (n - m)) \in Word
    BY <2>1, WrapWord
  <2>3. (u - ((m - n) % n)) % n \in 0 .. n - 1 /\ u % n \in 0 .. n - 1
    BY ONLY <1>1, <2>1, Remainders
  <2>4. \A z \in 0 .. n - 1 : z \in Word
    BY <1>1
  <2> QED BY <2>2, <2>3, <2>4 DEF SwitchEntry, EltwiseCmpAdd, EltwiseCmpSubMod
<1>3. ASSUME u < m PROVE SwitchEntry(u, m, n) = Centre(u, m) % n /\ SwitchEntry(u, m, n) \in 0 .. n - 1
  <2>1. u \in 0 .. m
    BY <1>1, <1>3
  <2>2. /\ SwitchEntry(u, m, n) \in 0 .. n /\ Congruent(SwitchEntry(u, m, n), Centre(u, m), n)
        /\ n <= m => SwitchEntry(u, m, n) = Centre(u, m) % n
    BY ONLY <2>1, SwitchEntries, Roomy(m), Roomy(n)
  <2>3. Centre(u, m) \in Int
    BY <2>1, CentreOfEntry
  <2>4. Centre(u, m) % n \in 0 .. n - 1
    BY ONLY <1>1, <2>3, Remainders
  <2>5. CASE n > m
    <3>1. SwitchEntry(u, m, n) = IF u > Half(m) THEN Wrap(u + (n - m)) ELSE u
      BY <2>5 DEF SwitchEntry, EltwiseCmpAdd
    <3>2. u + (n - m) \in 0 .. n - 1 /\ u + (n - m) \in Word /\ u \in 0 .. n - 1
      BY <1>1, <1>3, <2>5
    <3>3. SwitchEntry(u, m, n) \in 0 .. n - 1
      BY <3>1, <3>2, WrapWord
    <3>4. SwitchEntry(u, m, n) % n = SwitchEntry(u, m, n)
      BY ONLY <1>1, <3>3, Remainders
    <3> QED BY <2>2, <3>3, <3>4 DEF Congruent
  <2>6. CASE n <= m
    BY <2>2, <2>4, <2>6
  <2> QED BY <1>1, <2>5, <2>6
<1> QED BY <1>2, <1>3

\* The parity of the centred value, for odd moduli.
LEMMA AnyParity ==
  ASSUME NEW m, Roomy(m), NEW u \in Word
  PROVE  /\ FlippedAboveHalf(u, m) \in 0 .. 1
         /\ m % 2 = 1 => FlippedAboveHalf(u, m) = Centre(u, m) % 2
<1>1. m \in Nat \ {0} /\ u \in Nat
  BY RoomyFacts, WordSize
<1>2. FlippedAboveHalf(u, m) \in 0 .. 1
  BY <1>1 DEF FlippedAboveHalf
<1>3. ASSUME m % 2 = 1 PROVE (u + 1) % 2 = (u - m) % 2
  <2>1. m \div 2 \in Int /\ m = (m \div 2) * 2 + 1
    <3>1. m \in Int
      BY <1>1
    <3> QED BY ONLY <3>1, IntSplit, 2 \in Nat \ {0}, m % 2 = 1
  <2> DEFINE k == m \div 2 + 1
  <2>2. k \in Int /\ u - m \in Int /\ u + 1 = (u - m) + k * 2
    BY <1>1, <2>1
  <2> HIDE DEF k
  <2>3. Congruent((u - m) + k * 2, u - m, 2)
    BY ONLY <2>2, CongruentMultiple, 2 \in Nat \ {0}
  <2> QED BY <2>2, <2>3 DEF Congruent
<1> QED BY <1>2, <1>3 DEF FlippedAboveHalf, Centre

\* Roundings return words.
LEMMA AnyRounding ==
  ASSUME NEW m, Roomy(m), NEW u \in Word, NEW d \in Word, d # 0, NEW p \in Nat
  PROVE  /\ DivideEntry(u, m, d) \in Word
         /\ \A z \in MultiplyEntry(u, m, p, d) : z \in Word
<1>1. m \in Nat \ {0} /\ 0 .. m \subseteq Word /\ u \in Nat /\ u \in Word /\ d \in Nat \ {0}
  BY RoomyFacts, WordSize
<1>2. \A v \in Int : Wrap(v) \in Word
  BY WrapWord
<1>3. Wrap(m - u) \in Word /\ Wrap(m - u) \in Nat
  <2>1. m - u \in Int
    BY <1>1
  <2> QED BY <1>2, <2>1, WordSize
<1>4. ASSUME NEW w \in {u, Wrap(m - u)} PROVE RoundedQuotient(w, d) \in Word
  <2>1. w \in Word
    BY <1>1, <1>3
  <2> QED BY <2>1, RoundedNearest
<1>5. DivideEntry(u, m, d) \in Word
  <2>1. RoundedQuotient(Wrap(m - u), d) \in Nat /\ RoundedQuotient(u, d) \in Word
    BY <1>4, WordSize
  <2>2. m - RoundedQuotient(Wrap(m - u), d) \in Int
    BY <1>1, <2>1
  <2>3. Wrap(m - RoundedQuotient(Wrap(m - u), d)) \in Word
    BY <1>2, <2>2
  <2> QED BY <2>1, <2>3 DEF DivideEntry
<1>6. ASSUME NEW z \in MultiplyEntry(u, m, p, d) PROVE z \in Word
  <2>1. CASE u > Half(m)
    <3>1. PICK t \in RoundedProduct(Wrap(m - u), p, d) : z = Wrap(m - t)
      BY <2>1 DEF MultiplyEntry
    <3>2. t \in Nat
      BY ONLY <1>1, <1>3, RoundedProducts, t \in RoundedProduct(Wrap(m - u), p, d), p \in Nat
    <3>3. m - t \in Int
      BY <1>1, <3>2
    <3> QED BY <1>2, <3>1, <3>3
  <2>2. CASE ~(u > Half(m))
    <3>1. PICK t \in RoundedProduct(u, p, d) : z = t % m
      BY <2>2 DEF MultiplyEntry
    <3>2. t \in Nat
      BY ONLY <1>1, RoundedProducts, t \in RoundedProduct(u, p, d), p \in Nat
    <3>3. t % m \in 0 .. m - 1
      BY <1>1, <3>2
    <3> QED BY <1>1, <3>1, <3>3
  <2> QED BY <2>1, <2>2
<1> QED BY <1>5, <1>6

-----------------------------------------------------------------------------
(* Vectors.                                                                *)

\* A word, and a residue where no function is used that leaves anything else.
Kept(u, m) == u \in Word /\ (Extra = {} => u < m)

VecInv ==
  /\ modulus \in Moduli
  /\ data \in [Index -> Word]
  /\ \A i \in Index : Kept(data[i], modulus)

\* The parameters, and the modulus of a vector.
LEMMA VectorFacts ==
  ASSUME VectorAssumption
  PROVE  /\ N \in Nat \ {0} /\ Index = 1 .. N /\ Scalars \subseteq Word
         /\ \A m \in Moduli : /\ Roomy(m) /\ m \in Nat \ {0} /\ m \in Nat \ {0, 1}
                              /\ \A z \in 0 .. m - 1 : z \in Word /\ Kept(z, m)
         /\ \A m \in Moduli, b \in Word : b % m \in 0 .. m - 1
<1>1. ASSUME NEW m \in Moduli
      PROVE  /\ Roomy(m) /\ m \in Nat \ {0} /\ m \in Nat \ {0, 1}
             /\ \A z \in 0 .. m - 1 : z \in Word /\ Kept(z, m)
  BY ModuliRoomy DEF Kept
<1>2. ASSUME NEW m \in Moduli, NEW b \in Word PROVE b % m \in 0 .. m - 1
  <2>1. b \in Int
    BY WordSize
  <2> QED BY ONLY <1>1, <2>1, Remainders
<1> QED BY <1>1, <1>2 DEF VectorAssumption, Index

\* A vector assigned entry by entry.
LEMMA VectorStep ==
  ASSUME modulus' \in Moduli, data' = [i \in Index |-> data'[i]], \A i \in Index : Kept(data'[i], modulus')
  PROVE  VecInv'
BY DEF VecInv, Kept, Index

\* One whose modulus stays.
LEMMA SameModulus ==
  ASSUME VecInv, UNCHANGED modulus, data' = [i \in Index |-> data'[i]],
         \A i \in Index : Kept(data'[i], modulus)
  PROVE  VecInv'
BY VectorStep DEF VecInv

\* A scalar is reduced, whether it is below the modulus or not.
LEMMA ScalarReduced ==
  ASSUME VectorAssumption, VecInv, NEW b \in Scalars
  PROVE  ReducedScalar(b) \in 0 .. modulus - 1 /\ ReducedScalar(b) \in Word
<1>1. modulus \in Moduli /\ b \in Word
  BY VectorFacts DEF VecInv
<1>2. b \in Nat /\ modulus \in Nat \ {0} /\ b % modulus \in 0 .. modulus - 1
      /\ \A z \in 0 .. modulus - 1 : z \in Word
  BY <1>1, VectorFacts, WordSize
<1> QED BY <1>2 DEF ReducedScalar

\* Sums and differences.
LEMMA SumsKept ==
  ASSUME VectorAssumption, VecInv, NEW i \in Index, NEW w \in 0 .. modulus - 1
  PROVE  Kept(ModAddFast(data[i], w, modulus), modulus) /\ Kept(ModSubFast(data[i], w, modulus), modulus)
<1>1. Roomy(modulus) /\ modulus \in Nat \ {0} /\ data[i] \in Word /\ (Extra = {} => data[i] < modulus)
  BY VectorFacts DEF VecInv, Kept
<1>2. /\ ModAddFast(data[i], w, modulus) \in Word
      /\ ModSubFast(data[i], w, modulus) \in Word
      /\ data[i] < modulus => /\ ModAddFast(data[i], w, modulus) \in 0 .. modulus - 1
                              /\ ModSubFast(data[i], w, modulus) \in 0 .. modulus - 1
  BY ONLY <1>1, AnySums, w \in 0 .. modulus - 1
<1> QED BY <1>1, <1>2 DEF Kept

\* Every modular operation keeps the invariant.
LEMMA ModularKeeps ==
  ASSUME VectorAssumption, VecInv, Modular
  PROVE  VecInv'
<1>1. /\ modulus \in Moduli /\ Roomy(modulus) /\ modulus \in Nat \ {0} /\ Scalars \subseteq Word
      /\ \A i \in Index : data[i] \in Word /\ Kept(data[i], modulus)
      /\ \A z \in 0 .. modulus - 1 : z \in Word /\ Kept(z, modulus)
  BY VectorFacts DEF VecInv
<1>2. ASSUME NEW i \in Index, NEW w \in Word
      PROVE  /\ Kept(EltwiseMultMod(data[i], w, modulus), modulus)
             /\ Kept(EltwiseFMAMod(data[i], w, modulus), modulus)
             /\ Kept(ModAdd(data[i], w, modulus), modulus)
             /\ Kept(Power(data[i], w, modulus), modulus)
  BY <1>1, AnyProducts
<1>3. ASSUME NEW b \in Scalars, ModAddEq(b) \/ ModSubEq(b) \/ ModMulEq(b) \/ ModExpEq(b) PROVE VecInv'
  <2> DEFINE bv == ReducedScalar(b)
  <2>1. bv \in 0 .. modulus - 1 /\ bv \in Word
    BY ScalarReduced
  <2> HIDE DEF bv
  <2>2. UNCHANGED modulus /\ data' = [i \in Index |-> data'[i]]
    BY <1>3 DEF ModAddEq, ModSubEq, ModMulEq, ModExpEq, ModExp, Each
  <2>3. ASSUME NEW i \in Index PROVE Kept(data'[i], modulus)
    <3>1. data'[i] \in {ModAddFast(data[i], bv, modulus), ModSubFast(data[i], bv, modulus),
                        EltwiseFMAMod(data[i], bv, modulus), Power(data[i], bv, modulus)}
      BY <1>3 DEF ModAddEq, ModSubEq, ModMulEq, ModExpEq, ModExp, Each, bv
    <3> QED BY <1>2, <2>1, <3>1, SumsKept
  <2> QED BY <2>2, <2>3, SameModulus
<1>4. ASSUME NEW v \in Vectors(modulus), ModAddVectorEq(v) \/ ModSubVectorEq(v) \/ ModMulVectorEq(v) PROVE VecInv'
  <2>1. UNCHANGED modulus /\ data' = [i \in Index |-> data'[i]]
    BY <1>4 DEF ModAddVectorEq, ModSubVectorEq, ModMulVectorEq, EachAt
  <2>2. ASSUME NEW i \in Index PROVE Kept(data'[i], modulus)
    <3>1. v[i] \in 0 .. modulus - 1 /\ v[i] \in Word
      BY <1>1 DEF Vectors
    <3>2. data'[i] \in {ModAddFast(data[i], v[i], modulus), ModSubFast(data[i], v[i], modulus),
                        EltwiseMultMod(data[i], v[i], modulus)}
      BY <1>4 DEF ModAddVectorEq, ModSubVectorEq, ModMulVectorEq, EachAt
    <3> QED BY <1>2, <3>1, <3>2, SumsKept
  <2> QED BY <2>1, <2>2, SameModulus
<1>5. ASSUME NEW v \in Vectors(modulus), NEW b \in Scalars, MultAccEqNoCheck(v, b) PROVE VecInv'
  <2> DEFINE bv == ReducedScalar(b)
  <2>1. bv \in 0 .. modulus - 1 /\ bv \in Word
    BY ScalarReduced
  <2>2. UNCHANGED modulus /\ data' = [i \in Index |-> data'[i]]
    BY <1>5 DEF MultAccEqNoCheck, EachAt
  <2>3. ASSUME NEW i \in Index PROVE Kept(data'[i], modulus)
    <3> DEFINE w == ModMulFastConst(v[i], bv, modulus, PrepModMulConst(bv, modulus))
    <3>1. v[i] \in 0 .. modulus - 1 /\ v[i] \in Word
      BY <1>1 DEF Vectors
    <3>2. data'[i] = ModAddFast(data[i], w, modulus)
      BY <1>5 DEF MultAccEqNoCheck, EachAt
    <3>3. w \in 0 .. modulus - 1
      <4> HIDE DEF bv
      <4>1. modulus \in Nat \ {0} /\ 4 * modulus < 2^W /\ v[i] \in Int /\ bv \in Int
        BY <1>1, <2>1, <3>1, RoomyFacts
      <4>2. w = (v[i] * bv) % modulus
        BY ONLY <2>1, <3>1, <4>1, ShoupFits
      <4>3. v[i] * bv \in Int
        BY ONLY <4>1, ProductInteger
      <4>4. (v[i] * bv) % modulus \in 0 .. modulus - 1
        BY ONLY <4>1, <4>3, Remainders
      <4> QED BY ONLY <4>2, <4>4
    <3> HIDE DEF w
    <3> QED BY <3>2, <3>3, SumsKept
  <2> QED BY <2>2, <2>3, SameModulus
<1>6. ASSUME NEW k \in Index, NEW b \in Scalars, ModAddAtIndexEq(k, b) PROVE VecInv'
  <2>1. UNCHANGED modulus /\ data' = [i \in Index |-> data'[i]]
    BY <1>6 DEF ModAddAtIndexEq, EachAt
  <2>2. ASSUME NEW i \in Index PROVE Kept(data'[i], modulus)
    <3>1. data'[i] \in {ModAdd(data[i], b, modulus), data[i]}
      BY <1>6 DEF ModAddAtIndexEq, EachAt
    <3> QED BY <1>1, <1>2, <3>1
  <2> QED BY <2>1, <2>2, SameModulus
<1>7. ASSUME ModInverseEq PROVE VecInv'
  <2> DEFINE bad  == {i \in Index : data[i] % modulus = 0}
             done == {i \in Index : \A j \in bad : i < j}
  <2>1. UNCHANGED modulus /\ data' = [i \in Index |-> data'[i]]
    BY <1>7 DEF ModInverseEq, EachAt
  <2>2. ASSUME NEW i \in Index PROVE Kept(data'[i], modulus)
    <3>1. data'[i] = IF i \in done THEN InverseOf(data[i], modulus) ELSE data[i]
      BY <1>7 DEF ModInverseEq, EachAt
    <3>2. i \in done => HasInverse(data[i], modulus)
      BY <1>7 DEF ModInverseEq
    <3> HIDE DEF done
    <3>3. HasInverse(data[i], modulus) => InverseOf(data[i], modulus) \in 0 .. modulus - 1
      BY DEF HasInverse, InverseOf
    <3> QED BY <1>1, <3>1, <3>2, <3>3
  <2> QED BY <2>1, <2>2, SameModulus
<1> QED BY <1>3, <1>4, <1>5, <1>6, <1>7 DEF Modular

\* Every switch of the modulus does.
LEMMA SwitchingKeeps ==
  ASSUME VectorAssumption, VecInv, Switching
  PROVE  VecInv'
<1>1. /\ modulus \in Moduli /\ Roomy(modulus) /\ modulus \in Nat \ {0, 1}
      /\ \A i \in Index : data[i] \in Word /\ (Extra = {} => data[i] < modulus)
      /\ \A m \in Moduli : \A z \in 0 .. m - 1 : z \in Word /\ Kept(z, m)
      /\ \A m \in Moduli : Roomy(m) /\ m \in Nat \ {0}
  BY VectorFacts DEF VecInv, Kept
<1>2. ASSUME NEW nm \in Moduli, SwitchModulus(nm) PROVE VecInv'
  <2>1. modulus' = nm /\ data' = [i \in Index |-> data'[i]]
    BY <1>2 DEF SwitchModulus
  <2>2. ASSUME NEW i \in Index PROVE Kept(data'[i], nm)
    <3>1. data'[i] = SwitchEntry(data[i], modulus, nm)
      BY <1>2 DEF SwitchModulus
    <3>2. /\ SwitchEntry(data[i], modulus, nm) \in Word
          /\ data[i] < modulus => SwitchEntry(data[i], modulus, nm) \in 0 .. nm - 1
      BY <1>1, AnySwitch
    <3> QED BY <1>1, <3>1, <3>2 DEF Kept
  <2> QED BY <2>1, <2>2, VectorStep
<1>3. ASSUME NEW nm \in Moduli, LazySwitchModulus(nm) PROVE VecInv'
  <2>1. modulus' = nm /\ data' = [i \in Index |-> data'[i]]
    BY <1>3 DEF LazySwitchModulus
  <2>2. ASSUME NEW i \in Index PROVE Kept(data'[i], nm)
    <3>1. data'[i] = data[i] % nm
      BY <1>3 DEF LazySwitchModulus, EltwiseReduceMod
    <3>2. data[i] % nm \in 0 .. nm - 1
      BY <1>1, VectorFacts
    <3> QED BY <1>1, <3>1, <3>2
  <2> QED BY <2>1, <2>2, VectorStep
<1>4. ASSUME ModByTwoEq PROVE VecInv'
  <2>1. UNCHANGED modulus /\ data' = [i \in Index |-> data'[i]]
    BY <1>4 DEF ModByTwoEq, Each
  <2>2. ASSUME NEW i \in Index PROVE Kept(data'[i], modulus)
    <3>1. data'[i] = FlippedAboveHalf(data[i], modulus)
      BY <1>4 DEF ModByTwoEq, Each
    <3>2. FlippedAboveHalf(data[i], modulus) \in 0 .. 1
      BY <1>1, AnyParity
    <3>3. FlippedAboveHalf(data[i], modulus) \in 0 .. modulus - 1
      BY <1>1, <3>2
    <3> QED BY <1>1, <3>1, <3>3
  <2> QED BY <2>1, <2>2, SameModulus
<1> QED BY <1>2, <1>3, <1>4 DEF Switching

\* So does every assignment of a list.
LEMMA AssignListKeeps ==
  ASSUME VectorAssumption, VecInv, NEW n \in 0 .. N, NEW list \in [1 .. n -> Scalars], AssignList(list)
  PROVE  VecInv'
<1>1. modulus \in Moduli /\ modulus \in Nat \ {0} /\ Scalars \subseteq Word
      /\ \A z \in 0 .. modulus - 1 : Kept(z, modulus)
  BY VectorFacts DEF VecInv
<1>2. Len(list) = n /\ n \in Nat
  <2>1. n \in Nat
    BY VectorFacts
  <2>2. list \in Seq(Scalars) /\ DOMAIN list = 1 .. n
    BY <2>1
  <2> QED BY <2>1, <2>2
<1>3. UNCHANGED modulus /\ data' = [i \in Index |-> data'[i]]
  BY DEF AssignList, EachAt
<1>4. ASSUME NEW i \in Index PROVE Kept(data'[i], modulus)
  <2>1. data'[i] = IF i <= n THEN list[i] % modulus ELSE 0
    BY <1>2 DEF AssignList, EachAt
  <2>2. ASSUME i <= n PROVE list[i] % modulus \in 0 .. modulus - 1
    <3>1. i \in 1 .. n
      BY <1>2, <2>2, VectorFacts
    <3>2. list[i] \in Word
      BY <1>1, <3>1
    <3> QED BY <1>1, <3>2, VectorFacts
  <2>3. 0 \in 0 .. modulus - 1
    BY <1>1
  <2> QED BY <1>1, <2>1, <2>2, <2>3
<1> QED BY <1>3, <1>4, SameModulus

\* And the functions that leave entries unreduced leave words.
LEMMA LeavingKeeps ==
  ASSUME VectorAssumption, VecInv, Leaving
  PROVE  VecInv'
<1>1. /\ modulus \in Moduli /\ Roomy(modulus) /\ Scalars \subseteq Word /\ Extra # {}
      /\ \A i \in Index : data[i] \in Word
      /\ \A m \in Moduli : Roomy(m) /\ \A z \in 0 .. m - 1 : z \in Word
  BY VectorFacts DEF VecInv, Leaving
<1>2. SUFFICES UNCHANGED modulus /\ data' = [i \in Index |-> data'[i]] /\ \A i \in Index : data'[i] \in Word
  BY <1>1, SameModulus DEF Kept
<1>3. ASSUME NEW d \in Scalars, DivideAndRoundEq(d)
      PROVE  UNCHANGED modulus /\ data' = [i \in Index |-> data'[i]] /\ \A i \in Index : data'[i] \in Word
  <2>1. ASSUME NEW i \in Index PROVE DivideEntry(data[i], modulus, d) \in Word
    BY <1>1, <1>3, AnyRounding, 0 \in Nat DEF DivideAndRoundEq
  <2> QED BY <1>3, <2>1 DEF DivideAndRoundEq, Each
<1>4. ASSUME NEW p \in Scalars, NEW d \in Scalars, MultiplyAndRoundEq(p, d)
      PROVE  UNCHANGED modulus /\ data' = [i \in Index |-> data'[i]] /\ \A i \in Index : data'[i] \in Word
  <2> DEFINE rounded == [i \in Index |-> MultiplyEntry(data[i], modulus, p, d)]
  <2>1. d # 0 /\ d \in Word /\ p \in Nat
    BY <1>1, <1>4, WordSize DEF MultiplyAndRoundEq
  <2>2. UNCHANGED modulus /\ data' \in [Index -> UNION Range(rounded)] /\ \A i \in Index : data'[i] \in rounded[i]
    BY <1>4 DEF MultiplyAndRoundEq
  <2>3. data' = [i \in Index |-> data'[i]]
    BY <2>2
  <2>4. ASSUME NEW i \in Index PROVE data'[i] \in Word
    <3>1. data'[i] \in MultiplyEntry(data[i], modulus, p, d)
      BY <2>2
    <3> QED BY <1>1, <2>1, <3>1, AnyRounding
  <2> QED BY <2>2, <2>3, <2>4
<1>5. ASSUME NEW nm \in Moduli, ModEq(nm)
      PROVE  UNCHANGED modulus /\ data' = [i \in Index |-> data'[i]] /\ \A i \in Index : data'[i] \in Word
  <2>1. ASSUME NEW i \in Index PROVE ModEntry(data[i], modulus, nm) \in Word
    <3>1. SwitchEntry(data[i], modulus, nm) \in Word
      BY <1>1, AnySwitch
    <3>2. FlippedAboveHalf(data[i], modulus) \in Word
      <4>1. 0 .. 1 \subseteq Word
        BY One, WordSize
      <4> QED BY <1>1, <4>1, AnyParity
    <3> QED BY <3>1, <3>2 DEF ModEntry
  <2> QED BY <1>5, <2>1 DEF ModEq, Each
<1>6. ASSUME NEW b \in Scalars, AssignValue(b)
      PROVE  UNCHANGED modulus /\ data' = [i \in Index |-> data'[i]] /\ \A i \in Index : data'[i] \in Word
  BY <1>1, <1>6, WordSize DEF AssignValue, EachAt
<1>7. ASSUME NEW v \in Vectors(modulus), MultWithOutMod(v)
      PROVE  UNCHANGED modulus /\ data' = [i \in Index |-> data'[i]] /\ \A i \in Index : data'[i] \in Word
  <2>1. ASSUME NEW i \in Index PROVE Wrap(data[i] * v[i]) \in Word
    <3>1. data[i] \in Int /\ v[i] \in Int
      BY <1>1, WordSize DEF Vectors
    <3>2. data[i] * v[i] \in Int
      BY ONLY <3>1, ProductInteger
    <3> QED BY <3>2, WrapWord
  <2> QED BY <1>7, <2>1 DEF MultWithOutMod, EachAt
<1> QED BY <1>3, <1>4, <1>5, <1>6, <1>7 DEF Leaving

\* The invariant of every chain of calls.
LEMMA VectorInvariant == VectorAssumption => (Spec => []VecInv)
<1> SUFFICES ASSUME VectorAssumption PROVE Spec => []VecInv
  OBVIOUS
<1>1. Init => VecInv
  <2> SUFFICES ASSUME Init PROVE VecInv
    OBVIOUS
  <2>1. modulus \in Moduli /\ data = [i \in Index |-> 0]
    BY DEF Init
  <2>2. Kept(0, modulus) /\ 0 \in Word
    <3>1. modulus \in Nat \ {0} /\ \A z \in 0 .. modulus - 1 : z \in Word /\ Kept(z, modulus)
      BY <2>1, VectorFacts
    <3>2. 0 \in 0 .. modulus - 1
      BY <3>1
    <3> QED BY <3>1, <3>2
  <2> QED BY <2>1, <2>2 DEF VecInv
<1>2. VecInv /\ [Next]_vars => VecInv'
  <2> SUFFICES ASSUME VecInv, [Next]_vars PROVE VecInv'
    OBVIOUS
  <2>1. CASE UNCHANGED vars
    BY <2>1 DEF vars, VecInv, Kept
  <2>2. CASE \E list \in UNION {[1 .. n -> Scalars] : n \in 0 .. N} : AssignList(list)
    <3>1. PICK n \in 0 .. N : \E list \in [1 .. n -> Scalars] : AssignList(list)
      BY <2>2
    <3> QED BY <3>1, AssignListKeeps
  <2> QED BY <2>1, <2>2, ModularKeeps, SwitchingKeeps, LeavingKeeps DEF Next
<1> QED BY <1>1, <1>2, PTL DEF Spec

\* Whatever is called, those functions included that leave entries unreduced,
\* the entries are words.
THEOREM VectorTypeCorrect == VectorAssumption => (Spec => []TypeOK)
<1> SUFFICES ASSUME VectorAssumption PROVE Spec => []TypeOK
  OBVIOUS
<1>1. VecInv => TypeOK
  BY DEF VecInv, TypeOK
<1> QED BY <1>1, VectorInvariant, PTL

\* No chain of modular operations, switches and assignments ever leaves an
\* entry that is not below the modulus: the functions without a reduction are
\* handed what they trust.
THEOREM EntriesStayBelow == VectorAssumption /\ Extra = {} => (Spec => []EntriesBelowModulus)
<1> SUFFICES ASSUME VectorAssumption, Extra = {} PROVE Spec => []EntriesBelowModulus
  OBVIOUS
<1>1. VecInv => EntriesBelowModulus
  BY DEF VecInv, Kept, EntriesBelowModulus
<1> QED BY <1>1, VectorInvariant, PTL

\* What the entries stand for, as centred values, survives every switch of the
\* modulus, every reduction modulo two of an odd one and every rounding, for
\* vectors of any length and any moduli: the comparisons with half the modulus
\* and the conditional subtractions never take an entry for one of the other
\* sign.
THEOREM VectorKeepsCentres == VectorAssumption => (Spec => CentresKept)
<1> SUFFICES ASSUME VectorAssumption PROVE Spec => CentresKept
  OBVIOUS
<1> DEFINE Switched ==
             \A nm \in Moduli :
               SwitchModulus(nm) =>
                 \A i \in Index :
                   Extra = {} \/ data[i] < modulus => data'[i] = Centre(data[i], modulus) % nm
           Halved ==
             ModByTwoEq /\ modulus % 2 = 1 => \A i \in Index : data'[i] = Centre(data[i], modulus) % 2
           Rounded ==
             /\ "DivideAndRound" \in Extra =>
                  \A q \in Scalars :
                    DivideAndRoundEq(q) =>
                      \A i \in Index : data[i] <= modulus => IsRounded(data'[i], data[i], modulus, 1, q)
             /\ "MultiplyAndRound" \in Extra =>
                  \A p, q \in Scalars :
                    p < q /\ MultiplyAndRoundEq(p, q) =>
                      \A i \in Index : data[i] <= modulus => IsRounded(data'[i], data[i], modulus, p, q)
<1>1. VecInv => Switched
  <2> SUFFICES ASSUME VecInv, NEW nm \in Moduli, SwitchModulus(nm), NEW i \in Index, Extra = {} \/ data[i] < modulus
               PROVE  data'[i] = Centre(data[i], modulus) % nm
    OBVIOUS
  <2>1. Roomy(modulus) /\ Roomy(nm) /\ data[i] \in Word /\ data[i] < modulus
    BY VectorFacts DEF VecInv, Kept
  <2>2. data'[i] = SwitchEntry(data[i], modulus, nm)
    BY DEF SwitchModulus
  <2> QED BY <2>1, <2>2, AnySwitch
<1>2. VecInv => Halved
  <2> SUFFICES ASSUME VecInv, ModByTwoEq, modulus % 2 = 1, NEW i \in Index
               PROVE  data'[i] = Centre(data[i], modulus) % 2
    OBVIOUS
  <2>1. Roomy(modulus) /\ data[i] \in Word
    BY VectorFacts DEF VecInv
  <2>2. data'[i] = FlippedAboveHalf(data[i], modulus)
    BY DEF ModByTwoEq, Each
  <2> QED BY <2>1, <2>2, AnyParity
<1>3. VecInv => Rounded
  <2> SUFFICES ASSUME VecInv, NEW i \in Index, NEW d \in Scalars, data[i] <= modulus
               PROVE  /\ DivideAndRoundEq(d) => IsRounded(data'[i], data[i], modulus, 1, d)
                      /\ \A p \in Scalars :
                           p < d /\ MultiplyAndRoundEq(p, d) => IsRounded(data'[i], data[i], modulus, p, d)
    OBVIOUS
  <2>1. Roomy(modulus) /\ data[i] \in 0 .. modulus /\ d \in Word
    <3>1. Roomy(modulus) /\ data[i] \in Word /\ d \in Word
      BY VectorFacts DEF VecInv
    <3> QED BY <3>1, RoomyFacts, WordSize
  <2>2. ASSUME DivideAndRoundEq(d) PROVE IsRounded(data'[i], data[i], modulus, 1, d)
    <3> DEFINE z == DivideEntry(data[i], modulus, d)
    <3>1. d # 0 /\ data'[i] = z
      BY <2>2 DEF DivideAndRoundEq, Each
    <3>2. /\ 2 * (Centre(z, modulus) * d - Centre(data[i], modulus) * 1) \in -d .. d
          /\ Centre(z, modulus) = IF data[i] > Half(modulus) THEN z - modulus ELSE z
      BY <2>1, <3>1, DivideEntries
    <3> HIDE DEF z
    <3> QED BY <3>1, <3>2 DEF IsRounded
  <2>3. ASSUME NEW p \in Scalars, p < d, MultiplyAndRoundEq(p, d) PROVE IsRounded(data'[i], data[i], modulus, p, d)
    <3> DEFINE z == data'[i]
    <3>1. d # 0 /\ z \in MultiplyEntry(data[i], modulus, p, d)
      BY <2>3 DEF MultiplyAndRoundEq
    <3>2. p \in 0 .. d /\ d \in Nat \ {0}
      <4>1. p \in Word /\ d \in Word
        BY <2>1, VectorFacts
      <4> QED BY <2>3, <3>1, <4>1, WordSize
    <3>3. /\ 2 * (Centre(z, modulus) * d - Centre(data[i], modulus) * p) \in -d .. d
          /\ Centre(z, modulus) = IF data[i] > Half(modulus) THEN z - modulus ELSE z
      BY ONLY <2>1, <3>1, <3>2, MultiplyEntries
    <3> HIDE DEF z
    <3> QED BY <3>3 DEF IsRounded, z
  <2> QED BY <2>2, <2>3
<1>4. Spec => []VecInv
  BY VectorInvariant
<1> HIDE DEF Switched, Halved, Rounded
<1>5. Spec => [][Switched /\ Halved /\ Rounded]_vars
  BY <1>1, <1>2, <1>3, <1>4, PTL
<1>6. [][Switched /\ Halved /\ Rounded]_vars => [][Switched]_vars /\ [][Halved]_vars /\ [][Rounded]_vars
  BY PTL
<1>7. ([][Switched]_vars <=> SwitchKeepsCentre) /\ ([][Halved]_vars <=> ParityOfCentre) /\ ([][Rounded]_vars <=> RoundsCentre)
  BY DEF Switched, Halved, Rounded, SwitchKeepsCentre, ParityOfCentre, RoundsCentre
<1> QED BY <1>5, <1>6, <1>7 DEF CentresKept

-----------------------------------------------------------------------------
(* Numbers that have an inverse modulo m.                                  *)
IsUnit(n, m) == \E z \in Int : Congruent(n * z, 1, m)

\* u is v and k times m.
Apart(u, v, k, m) == u = v + k * m

\* Numbers a multiple apart are congruent, and the other way round.
LEMMA ApartCongruent ==
  ASSUME NEW m \in Nat \ {0}, NEW u \in Int, NEW v \in Int, NEW k \in Int, Apart(u, v, k, m)
  PROVE  Congruent(u, v, m)
<1>1. Congruent(v + k * m, v, m)
  BY ONLY CongruentMultiple, m \in Nat \ {0}, v \in Int, k \in Int
<1> QED BY ONLY <1>1, Apart(u, v, k, m) DEF Apart

\* Congruent numbers are a multiple apart.
LEMMA CongruentApart ==
  ASSUME NEW m \in Nat \ {0}, NEW u \in Int, NEW v \in Int, Congruent(u, v, m)
  PROVE  \E k \in Int : Apart(u, v, k, m)
<1>1. \E k \in Int : u = v + k * m
  BY ONLY CongruentMultiple, m \in Nat \ {0}, u \in Int, v \in Int, Congruent(u, v, m)
<1> QED BY ONLY <1>1 DEF Apart

\* What such a number times its inverse is.
LEMMA InvertibleApart ==
  ASSUME NEW m \in Nat \ {0}, NEW n \in Int, IsUnit(n, m)
  PROVE  \E z, i \in Int : n * z = 1 + i * m
<1>1. PICK z \in Int : Congruent(n * z, 1, m)
  BY DEF IsUnit
<1>2. n * z \in Int
  OBVIOUS
<1>3. PICK i \in Int : Apart(n * z, 1, i, m)
  BY ONLY <1>1, <1>2, CongruentApart, m \in Nat \ {0}, 1 \in Int
<1> QED BY ONLY <1>3, z \in Int, i \in Int DEF Apart

\* Two factors of a number one more than a multiple are inverse.
LEMMA ApartInvertible ==
  ASSUME NEW m \in Nat \ {0}, NEW n \in Int, NEW z \in Int, NEW i \in Int, n * z = 1 + i * m
  PROVE  IsUnit(n, m)
<1>1. Apart(n * z, 1, i, m) /\ n * z \in Int
  BY DEF Apart
<1>2. Congruent(n * z, 1, m)
  BY ONLY <1>1, ApartCongruent, m \in Nat \ {0}, 1 \in Int, i \in Int
<1> QED BY ONLY <1>2, z \in Int DEF IsUnit

\* InvMod finds the inverse.
LEMMA InverseFound ==
  ASSUME NEW m \in Nat \ {0, 1}, NEW n \in Int, IsUnit(n, m)
  PROVE  InvMod(n, m) \in 0 .. m - 1 /\ Congruent(n * InvMod(n, m), 1, m)
<1>1. PICK z \in Int : Congruent(n * z, 1, m)
  BY DEF IsUnit
<1> DEFINE w == z % m
           v == n % m
<1>2. v \in 0 .. m - 1 /\ v \in Int /\ Congruent(v, n, m) /\ w \in 0 .. m - 1 /\ w \in Int /\ Congruent(w, z, m)
  <2>1. \A k \in Int : k % m \in 0 .. m - 1 /\ Congruent(k % m, k, m)
    BY ONLY CongruentRelation, m \in Nat \ {0}
  <2>2. \A k \in 0 .. m - 1 : k \in Int
    OBVIOUS
  <2> QED BY ONLY <2>1, <2>2, n \in Int, z \in Int
<1>3. \A k \in Int : Congruent(v * k, n * k, m)
  BY <1>2, CongruentProduct, CongruentRelation
<1>4. Congruent(n * w, n * z, m)
  BY <1>2, CongruentProduct, CongruentRelation
<1>5. \A k \in Int : v * k \in Int /\ n * k \in Int
  BY <1>2, ProductInteger
<1> HIDE DEF v, w
<1>6. Congruent(v * w, 1, m)
  BY <1>1, <1>2, <1>3, <1>4, CongruentRelation
<1>7. 1 % m = 1
  OBVIOUS
<1>8. (v * w) % m = 1
  BY <1>6, <1>7 DEF Congruent
<1> DEFINE u == InverseOf(v, m)
<1>9. u \in 0 .. m - 1 /\ (v * u) % m = 1
  BY <1>2, <1>8 DEF InverseOf
<1>10. InvMod(n, m) = u
  BY DEF InvMod, v
<1> HIDE DEF u
<1>11. Congruent(v * u, 1, m) /\ u \in Int
  BY <1>7, <1>9 DEF Congruent
<1>12. Congruent(n * u, 1, m)
  BY <1>3, <1>11, CongruentRelation
<1> QED BY <1>9, <1>10, <1>12

\* A product of such numbers is one.
LEMMA InvertibleProduct ==
  ASSUME NEW m \in Nat \ {0}, NEW n \in Int, NEW k \in Int, IsUnit(n, m), IsUnit(k, m)
  PROVE  IsUnit(n * k, m)
<1>1. PICK z \in Int : Congruent(n * z, 1, m)
  BY DEF IsUnit
<1>2. PICK w \in Int : Congruent(k * w, 1, m)
  BY DEF IsUnit
<1>3. Congruent((n * z) * (k * w), 1 * 1, m)
  BY <1>1, <1>2, CongruentProduct, ProductInteger
<1>4. (n * z) * (k * w) = (n * k) * (z * w) /\ z * w \in Int
  OBVIOUS
<1>5. Congruent((n * k) * (z * w), 1, m)
  BY ONLY <1>3, <1>4, 1 * 1 = 1
<1> QED BY ONLY <1>4, <1>5 DEF IsUnit

\* What is invertible modulo two numbers is modulo their product.
LEMMA InvertibleModulus ==
  ASSUME NEW m \in Nat \ {0}, NEW k \in Nat \ {0}, NEW n \in Int, IsUnit(n, m), IsUnit(n, k)
  PROVE  IsUnit(n, m * k)
<1>1. PICK z \in Int, i \in Int : n * z = 1 + i * m
  BY ONLY InvertibleApart, m \in Nat \ {0}, n \in Int, IsUnit(n, m)
<1>2. PICK w \in Int, j \in Int : n * w = 1 + j * k
  BY ONLY InvertibleApart, k \in Nat \ {0}, n \in Int, IsUnit(n, k)
<1> DEFINE v == z + w - n * (z * w)
<1>3. (1 - n * z) * (1 - n * w) = 1 - n * v
  OBVIOUS
<1>4. (1 - n * z) * (1 - n * w) = (i * j) * (m * k)
  <2>1. 1 - n * z = -(i * m) /\ 1 - n * w = -(j * k)
    BY <1>1, <1>2
  <2>2. (-(i * m)) * (-(j * k)) = (i * j) * (m * k)
    OBVIOUS
  <2> QED BY <2>1, <2>2
<1>5. v \in Int /\ i * j \in Int /\ m * k \in Nat \ {0} /\ n * v \in Int
  OBVIOUS
<1> HIDE DEF v
<1>6. n * v = 1 + (-(i * j)) * (m * k)
  BY <1>3, <1>4, <1>5
<1>7. -(i * j) \in Int
  OBVIOUS
<1> QED BY ONLY <1>5, <1>6, <1>7, n \in Int, ApartInvertible

\* Two numbers are invertible modulo each other, or neither.
LEMMA InvertibleSwaps ==
  ASSUME NEW m \in Nat \ {0}, NEW n \in Nat \ {0}, IsUnit(n, m)
  PROVE  IsUnit(m, n)
<1>1. PICK z \in Int, i \in Int : n * z = 1 + i * m
  BY ONLY InvertibleApart, m \in Nat \ {0}, n \in Int, IsUnit(n, m)
<1>2. m * (-i) = 1 + (-z) * n
  BY <1>1
<1>3. -i \in Int /\ -z \in Int
  OBVIOUS
<1> QED BY ONLY <1>2, <1>3, n \in Nat \ {0}, m \in Int, ApartInvertible

\* It can be cancelled.
LEMMA InvertibleCancels ==
  ASSUME NEW m \in Nat \ {0}, NEW n \in Int, NEW u \in Int, NEW v \in Int, IsUnit(n, m),
         Congruent(n * u, n * v, m)
  PROVE  Congruent(u, v, m)
<1>1. PICK z \in Int : Congruent(n * z, 1, m)
  BY DEF IsUnit
<1>2. n * u \in Int /\ n * v \in Int /\ n * z \in Int
  OBVIOUS
<1>3. \A k : Congruent(k, k, m)
  BY CongruentRelation
<1>4. Congruent((n * u) * z, (n * v) * z, m)
  BY ONLY <1>2, <1>3, CongruentProduct, m \in Nat \ {0}, z \in Int, Congruent(n * u, n * v, m)
<1>5. Congruent((n * z) * u, 1 * u, m) /\ Congruent((n * z) * v, 1 * v, m)
  BY ONLY <1>1, <1>2, <1>3, CongruentProduct, m \in Nat \ {0}, 1 \in Int, u \in Int, v \in Int
<1>6. (n * u) * z = (n * z) * u /\ (n * v) * z = (n * z) * v /\ 1 * u = u /\ 1 * v = v
  OBVIOUS
<1>7. Congruent((n * z) * u, u, m) /\ Congruent((n * z) * v, v, m) /\ Congruent((n * z) * u, (n * z) * v, m)
  BY ONLY <1>4, <1>5, <1>6
<1> QED BY ONLY <1>7, CongruentRelation, m \in Nat \ {0}

\* Congruent modulo two such numbers: congruent modulo their product.
LEMMA CongruentBoth ==
  ASSUME NEW m \in Nat \ {0}, NEW n \in Nat \ {0}, IsUnit(m, n), NEW u \in Int, NEW v \in Int,
         Congruent(u, v, m), Congruent(u, v, n)
  PROVE  Congruent(u, v, m * n)
<1>1. PICK k \in Int : u = v + k * m
  BY ONLY CongruentApart, Congruent(u, v, m), m \in Nat \ {0}, u \in Int, v \in Int DEF Apart
<1>2. Congruent(u - v, v - v, n)
  BY CongruentDifference, CongruentRelation
<1>3. u - v = m * k /\ v - v = m * 0
  BY <1>1
<1>4. Congruent(k, 0, n)
  BY <1>2, <1>3, InvertibleCancels
<1>5. PICK j \in Int : k = 0 + j * n
  BY ONLY <1>4, CongruentApart, n \in Nat \ {0}, k \in Int, 0 \in Int DEF Apart
<1>6. Apart(u, v, j, m * n) /\ m * n \in Nat \ {0}
  <2>1. k * m = j * (m * n)
    BY <1>5
  <2> QED BY <1>1, <2>1 DEF Apart
<1> QED BY ONLY <1>6, ApartCongruent, u \in Int, v \in Int, j \in Int

\* Numbers without a common divisor, by Bezout's identity: of the positive
\* combinations of the two the smallest divides both.
LEMMA CoprimeInvertible ==
  ASSUME NEW m \in Nat \ {0}, NEW n \in Nat \ {0}, Coprime(n, m)
  PROVE  IsUnit(n, m)
<1> DEFINE S == {g \in Nat \ {0} : \E i, j \in Int : g = i * n + j * m}
<1>1. n \in S
  <2>1. n = 1 * n + 0 * m
    OBVIOUS
  <2> QED BY <2>1
<1>2. PICK g \in S : \A h \in S : g <= h
  <2> DEFINE R == OpToRel(<, Nat)
  <2>1. IsWellFoundedOn(R, Nat)
    BY NatLessThanWellFounded
  <2>2. S \subseteq Nat /\ S # {}
    BY <1>1
  <2> HIDE DEF R, S
  <2>3. PICK g \in S : \A h \in S : ~ (<<h, g>> \in R)
    BY ONLY <2>1, <2>2, WFMin
  <2>4. \A h \in S : ~ (h < g)
    BY <2>2, <2>3 DEF R, OpToRel
  <2> QED BY <2>2, <2>4
<1>3. PICK i \in Int, j \in Int : g = i * n + j * m
  OBVIOUS
<1>4. g \in Nat \ {0}
  OBVIOUS
<1>5. ASSUME NEW k \in {m, n} PROVE k % g = 0
  <2> DEFINE c == k \div g
             d == k % g
  <2>1. c \in Nat /\ d \in 0 .. g - 1 /\ k = g * c + d
    BY <1>4, DivNat
  <2> HIDE DEF c, d
  <2>2. \E o, p \in Int : d = o * n + p * m
    <3>1. CASE k = n
      <4>1. d = (1 - i * c) * n + (-(j * c)) * m
        BY <1>3, <2>1, <3>1
      <4>2. 1 - i * c \in Int /\ -(j * c) \in Int
        BY <2>1
      <4> QED BY <4>1, <4>2
    <3>2. CASE k = m
      <4>1. d = (-(i * c)) * n + (1 - j * c) * m
        BY <1>3, <2>1, <3>2
      <4>2. -(i * c) \in Int /\ 1 - j * c \in Int
        BY <2>1
      <4> QED BY <4>1, <4>2
    <3> QED BY <3>1, <3>2
  <2>3. d # 0 => d \in S
    BY <2>1, <2>2
  <2>4. d = 0
    <3>1. d \in S => g <= d
      BY <1>2
    <3> HIDE DEF S
    <3> QED BY ONLY <1>4, <2>1, <2>3, <3>1
  <2> QED BY <2>4 DEF d
<1>6. g <= n
  BY <1>1, <1>2
<1>7. n % g = 0 /\ m % g = 0
  BY <1>5
<1>8. g = 1
  <2>1. \A d \in 2 .. n : n % d = 0 => m % d # 0
    BY DEF Coprime
  <2> HIDE DEF S
  <2>2. g \notin 2 .. n
    BY ONLY <1>7, <2>1
  <2> QED BY ONLY <1>4, <1>6, <2>2, n \in Nat \ {0}
<1>9. n * i = 1 + (-j) * m /\ -j \in Int
  <2> HIDE DEF S
  <2> QED BY ONLY <1>3, <1>8, i \in Int, j \in Int, n \in Nat \ {0}, m \in Nat \ {0}
<1> QED BY ONLY <1>9, i \in Int, n \in Int, m \in Nat \ {0}, ApartInvertible

\* A power of two modulo an odd number.
LEMMA PowerInvertible ==
  ASSUME NEW m \in Nat \ {0, 1}, m % 2 = 1, NEW k \in 0 .. W
  PROVE  2^k \in Nat \ {0} /\ IsUnit(2^k, m) /\ IsUnit(m, 2^k)
<1>1. IsUnit(2, m)
  <2>1. PICK h \in Nat : m = 2 * h + 1
    BY DivNat
  <2>2. 2 * (h + 1) = 1 + 1 * m
    BY <2>1
  <2> QED BY ONLY <2>2, h + 1 \in Int, 2 \in Int, 1 \in Int, m \in Nat \ {0}, ApartInvertible
<1> DEFINE S == {i \in Nat : i <= W => 2^i \in Nat \ {0} /\ IsUnit(2^i, m)}
<1>2. 0 \in S
  <2>1. 2^0 = 1
    BY PowersOfTwo
  <2>2. Congruent(1 * 1, 1, m)
    BY CongruentRelation
  <2> QED BY <2>1, <2>2 DEF IsUnit
<1>3. ASSUME NEW i \in Nat, i \in S PROVE i + 1 \in S
  <2>1. SUFFICES ASSUME i + 1 <= W PROVE 2^(i + 1) \in Nat \ {0} /\ IsUnit(2^(i + 1), m)
    OBVIOUS
  <2>2. 2^(i + 1) = 2 * 2^i /\ 2^i \in Nat \ {0} /\ IsUnit(2^i, m)
    <3>1. i + 1 \in 1 .. W /\ i <= W /\ i \in 0 .. W /\ i = (i + 1) - 1
      BY <2>1, WordAssumption
    <3>2. 2^(i + 1) = 2 * 2^i /\ 2^i \in Nat \ {0}
      BY ONLY <3>1, PowersOfTwo
    <3> QED BY <1>3, <3>1, <3>2
  <2>3. 2 * 2^i \in Nat \ {0} /\ 2^i \in Int
    BY ONLY <2>2
  <2>4. IsUnit(2 * 2^i, m)
    BY ONLY <1>1, <2>2, <2>3, InvertibleProduct, 2 \in Int, m \in Nat \ {0}
  <2> QED BY ONLY <2>2, <2>3, <2>4
<1>4. Nat \subseteq S
  <2> HIDE DEF S
  <2> QED BY ONLY <1>2, <1>3, Induction
<1>5. k \in S /\ k <= W
  BY <1>4, WordAssumption
<1> QED BY <1>5, InvertibleSwaps

-----------------------------------------------------------------------------
(* Products and sums of sequences.                                         *)

\* A product is found one factor after the other.
LEMMA ProductUnrolls ==
  ASSUME NEW n \in Nat, NEW s \in [1 .. n -> Nat]
  PROVE  \E f \in [0 .. n -> Nat] : f[0] = 1 /\ f[n] = Product(s) /\ \A k \in 1 .. n : f[k] = f[k - 1] * s[k]
<1> DEFINE F == [p \in (1 .. n) \X Nat |-> p[2] * s[p[1]]]
           Is(g) == g = [t \in SUBSET (1 .. n) |-> IF t = {} THEN 1 ELSE g[t \ {Max(t)}] * s[Max(t)]]
           g == CHOOSE h : Is(h)
<1> DEFINE A == Nat
<1>0. 1 \in A
  OBVIOUS
<1> HIDE DEF A
<1>1. Steps(n, A, F)
  <2>1. \A p \in (1 .. n) \X Nat : p[2] \in Nat /\ s[p[1]] \in Nat
    OBVIOUS
  <2>2. \A p \in (1 .. n) \X Nat : p[2] * s[p[1]] \in Nat
    BY ONLY <2>1, ProductInteger
  <2> QED BY <2>2 DEF Steps, A
<1>2. \A k \in 1 .. n, c \in Nat : F[<<k, c>>] = c * s[k]
  OBVIOUS
<1>3. DOMAIN s = 1 .. n
  OBVIOUS
<1>4. Product(s) = g[1 .. n]
  BY ONLY <1>3 DEF Product, FoldLeft, MapThenFoldSet
<1> HIDE DEF F
<1>5. PICK h \in [SUBSET (1 .. n) -> A] : Folds(n, A, 1, F, h)
  BY <1>0, <1>1, FoldExists
<1>6. Is(h)
  <2>1. \A t \in SUBSET (1 .. n) : t # {} => Max(t) \in 1 .. n /\ t \ {Max(t)} \in SUBSET (1 .. n)
    BY MaxOf
  <2>2. \A t \in SUBSET (1 .. n) : t # {} => h[t] = h[t \ {Max(t)}] * s[Max(t)]
    BY <1>2, <1>5, <2>1 DEF Folds, A
  <2>3. h[{}] = 1
    BY <1>5 DEF Folds, A
  <2> QED BY <2>2, <2>3
<1>7. Is(g)
  BY <1>6
<1> HIDE DEF g
<1>8. Folds(n, A, 1, F, g)
  <2>1. \A t \in SUBSET (1 .. n) : t # {} => Max(t) \in 1 .. n /\ t \ {Max(t)} \in SUBSET (1 .. n)
    BY MaxOf
  <2>2. g[{}] = 1
    BY <1>7
  <2>3. \A t \in SUBSET (1 .. n) : t # {} => g[t] = g[t \ {Max(t)}] * s[Max(t)]
    BY <1>7
  <2> QED BY <1>2, <2>1, <2>2, <2>3 DEF Folds, A
<1>9. PICK f : Unrolls(n, A, 1, F, f) /\ f[n] = g[1 .. n]
  BY <1>0, <1>1, <1>8, FoldUnroll
<1>10. f \in [0 .. n -> Nat] /\ f[0] = 1 /\ \A k \in 1 .. n : f[k] = f[k - 1] * s[k]
  <2>1. f \in [0 .. n -> Nat] /\ f[0] = 1 /\ \A k \in 1 .. n : f[k] = F[<<k, f[k - 1]>>]
    BY <1>9 DEF Unrolls, A
  <2>2. \A k \in 1 .. n : f[k - 1] \in Nat
    BY <2>1
  <2> QED BY <1>2, <2>1, <2>2
<1> QED BY <1>4, <1>9, <1>10

\* A sum is the total of its terms.
LEMMA SumTotal ==
  ASSUME NEW n \in Nat, NEW s \in [1 .. n -> Int]
  PROVE  Sum(s) = Total([i \in 0 .. n - 1 |-> s[i + 1]], n)
<1> DEFINE F == [p \in (1 .. n) \X Int |-> p[2] + s[p[1]]]
           Is(g) == g = [t \in SUBSET (1 .. n) |-> IF t = {} THEN 0 ELSE g[t \ {Max(t)}] + s[Max(t)]]
           g == CHOOSE h : Is(h)
           u == [i \in 0 .. n - 1 |-> s[i + 1]]
<1> DEFINE A == Int
<1>0. 0 \in A
  OBVIOUS
<1> HIDE DEF A
<1>1. Steps(n, A, F)
  <2>1. \A p \in (1 .. n) \X Int : p[2] \in Int /\ s[p[1]] \in Int
    OBVIOUS
  <2> QED BY <2>1 DEF Steps, A
<1>2. \A k \in 1 .. n, c \in Int : F[<<k, c>>] = c + s[k]
  OBVIOUS
<1>3. DOMAIN s = 1 .. n
  OBVIOUS
<1>4. Sum(s) = g[1 .. n]
  BY ONLY <1>3 DEF Sum, FoldLeft, MapThenFoldSet
<1> HIDE DEF F
<1>5. PICK h \in [SUBSET (1 .. n) -> A] : Folds(n, A, 0, F, h)
  BY <1>0, <1>1, FoldExists
<1>6. Is(h)
  <2>1. \A t \in SUBSET (1 .. n) : t # {} => Max(t) \in 1 .. n /\ t \ {Max(t)} \in SUBSET (1 .. n)
    BY MaxOf
  <2>2. \A t \in SUBSET (1 .. n) : t # {} => h[t] = h[t \ {Max(t)}] + s[Max(t)]
    BY <1>2, <1>5, <2>1 DEF Folds, A
  <2>3. h[{}] = 0
    BY <1>5 DEF Folds, A
  <2> QED BY <2>2, <2>3
<1>7. Is(g)
  BY <1>6
<1> HIDE DEF g
<1>8. Folds(n, A, 0, F, g)
  <2>1. \A t \in SUBSET (1 .. n) : t # {} => Max(t) \in 1 .. n /\ t \ {Max(t)} \in SUBSET (1 .. n)
    BY MaxOf
  <2>2. g[{}] = 0
    BY <1>7
  <2>3. \A t \in SUBSET (1 .. n) : t # {} => g[t] = g[t \ {Max(t)}] + s[Max(t)]
    BY <1>7
  <2> QED BY <1>2, <2>1, <2>2, <2>3 DEF Folds, A
<1>9. PICK f : Unrolls(n, A, 0, F, f) /\ f[n] = g[1 .. n]
  BY <1>0, <1>1, <1>8, FoldUnroll
<1>10. PartialSums(u, n, f)
  <2>1. f \in [0 .. n -> Int] /\ f[0] = 0 /\ \A k \in 1 .. n : f[k] = F[<<k, f[k - 1]>>]
    BY <1>9 DEF Unrolls, A
  <2>2. \A k \in 1 .. n : f[k - 1] \in Int /\ u[k - 1] = s[k]
    BY <2>1
  <2> HIDE DEF u
  <2>3. \A k \in 1 .. n : f[k] = f[k - 1] + u[k - 1]
    BY <1>2, <2>1, <2>2
  <2> QED BY ONLY <2>1, <2>3 DEF PartialSums
<1> HIDE DEF u
<1>11. Total(u, n) = f[n]
  BY ONLY <1>10, TotalIsLast, n \in Nat
<1> QED BY <1>4, <1>9, <1>11 DEF u

\* Products of prefixes.
LEMMA ProductSteps ==
  ASSUME NEW n \in Nat, NEW s \in [1 .. n -> Nat]
  PROVE  /\ Product(s) \in Nat /\ Product(SubSeq(s, 1, n)) = Product(s)
         /\ \A k \in 0 .. n : Product(SubSeq(s, 1, k)) \in Nat
         /\ Product(SubSeq(s, 1, 0)) = 1
         /\ \A k \in 1 .. n : Product(SubSeq(s, 1, k)) = Product(SubSeq(s, 1, k - 1)) * s[k]
<1>1. PICK f \in [0 .. n -> Nat] : f[0] = 1 /\ f[n] = Product(s) /\ \A k \in 1 .. n : f[k] = f[k - 1] * s[k]
  BY ProductUnrolls
<1>2. ASSUME NEW k \in 0 .. n PROVE Product(SubSeq(s, 1, k)) = f[k]
  <2> DEFINE c == SubSeq(s, 1, k)
  <2>1. c \in [1 .. k -> Nat] /\ \A i \in 1 .. k : c[i] = s[i]
    <3>1. \A i \in 1 .. k : s[i] \in Nat
      OBVIOUS
    <3>2. /\ c \in Seq(Nat) /\ Len(c) = IF 1 <= k THEN k - 1 + 1 ELSE 0
          /\ \A i \in 1 .. k - 1 + 1 : c[i] = s[1 + i - 1]
      BY ONLY <3>1, SubSeqProperties, k \in Int, 1 \in Int
    <3>3. Len(c) = k /\ \A i \in 1 .. k : c[i] = s[i]
      BY ONLY <3>2, k \in 0 .. n, n \in Nat
    <3>4. c \in [1 .. Len(c) -> Nat]
      BY ONLY <3>2, LenProperties
    <3> QED BY ONLY <3>3, <3>4
  <2> HIDE DEF c
  <2>2. PICK g \in [0 .. k -> Nat] : g[0] = 1 /\ g[k] = Product(c) /\ \A i \in 1 .. k : g[i] = g[i - 1] * c[i]
    BY ONLY <2>1, ProductUnrolls, k \in Nat
  <2> DEFINE S == {i \in Nat : i <= k => g[i] = f[i]}
  <2>3. 0 \in S
    BY <1>1, <2>2
  <2>4. ASSUME NEW i \in Nat, i \in S PROVE i + 1 \in S
    <3>1. SUFFICES ASSUME i + 1 <= k PROVE g[i + 1] = f[i + 1]
      OBVIOUS
    <3>2. i + 1 \in 1 .. k /\ i + 1 \in 1 .. n /\ (i + 1) - 1 = i /\ g[i] = f[i]
      BY <2>4, <3>1
    <3>3. g[i + 1] = g[i] * c[i + 1] /\ f[i + 1] = f[i] * s[i + 1] /\ c[i + 1] = s[i + 1]
      BY <1>1, <2>1, <2>2, <3>2
    <3> QED BY ONLY <3>2, <3>3
  <2>5. Nat \subseteq S
    <3> HIDE DEF S
    <3> QED BY ONLY <2>3, <2>4, Induction
  <2>6. g[k] = f[k]
    BY <2>5
  <2> QED BY <2>2, <2>6 DEF c
<1>3. n \in 0 .. n /\ 0 \in 0 .. n /\ \A k \in 1 .. n : k \in 0 .. n /\ k - 1 \in 0 .. n
  OBVIOUS
<1> QED BY ONLY <1>1, <1>2, <1>3

-----------------------------------------------------------------------------
(* Bases.                                                                  *)

\* Moduli with room in a word, no two of which share a factor.
Basis(ms) ==
  /\ ms \in Seq(Nat)
  /\ \A i \in DOMAIN ms : Roomy(ms[i]) /\ ms[i] % 2 = 1
  /\ \A i, j \in DOMAIN ms : i # j => IsUnit(ms[i], ms[j])

\* Residues below them.
Below(rs, ms) == rs \in Seq(Nat) /\ Len(rs) = Len(ms) /\ \A i \in DOMAIN ms : rs[i] \in 0 .. ms[i] - 1

\* rs are the residues of n.
Carries(rs, n, ms) == n \in Int /\ \A i \in DOMAIN ms : Congruent(rs[i], n, ms[i])

\* A basis by its length.
LEMMA BasisFacts ==
  ASSUME NEW ms, Basis(ms)
  PROVE  /\ Len(ms) \in Nat /\ DOMAIN ms = 1 .. Len(ms) /\ ms \in [1 .. Len(ms) -> Nat]
         /\ \A i \in 1 .. Len(ms) : Roomy(ms[i]) /\ ms[i] \in Nat \ {0} /\ ms[i] \in Nat \ {0, 1} /\ ms[i] % 2 = 1
         /\ \A i, j \in 1 .. Len(ms) : i # j => IsUnit(ms[i], ms[j])
<1>1. Len(ms) \in Nat /\ DOMAIN ms = 1 .. Len(ms) /\ ms \in [1 .. Len(ms) -> Nat]
  BY LenProperties DEF Basis
<1>2. \A i \in 1 .. Len(ms) : Roomy(ms[i]) /\ ms[i] % 2 = 1
  BY <1>1 DEF Basis
<1>3. \A i \in 1 .. Len(ms) : ms[i] \in Nat \ {0} /\ ms[i] \in Nat \ {0, 1}
  BY <1>2 DEF Roomy
<1> QED BY <1>1, <1>2, <1>3 DEF Basis

\* The products of the first moduli of a basis.
PrefixProducts(ms, f) ==
  /\ f \in [0 .. Len(ms) -> Nat \ {0}] /\ f[0] = 1 /\ f[Len(ms)] = Product(ms)
  /\ \A k \in 1 .. Len(ms) : f[k] = f[k - 1] * ms[k]

\* Every basis has them.
LEMMA PrefixesExist ==
  ASSUME NEW ms, Basis(ms)
  PROVE  \E f : PrefixProducts(ms, f)
<1> DEFINE n == Len(ms)
<1>1. n \in Nat /\ ms \in [1 .. n -> Nat] /\ \A i \in 1 .. n : ms[i] \in Nat \ {0}
  BY BasisFacts
<1>2. PICK f \in [0 .. n -> Nat] : f[0] = 1 /\ f[n] = Product(ms) /\ \A k \in 1 .. n : f[k] = f[k - 1] * ms[k]
  BY ONLY <1>1, ProductUnrolls
<1> DEFINE S == {k \in Nat : k <= n => f[k] \in Nat \ {0}}
<1>3. 0 \in S
  BY <1>2
<1>4. ASSUME NEW k \in Nat, k \in S PROVE k + 1 \in S
  <2>1. SUFFICES ASSUME k + 1 <= n PROVE f[k + 1] \in Nat \ {0}
    OBVIOUS
  <2>2. k + 1 \in 1 .. n /\ (k + 1) - 1 = k /\ f[k] \in Nat \ {0}
    BY <1>1, <1>4, <2>1
  <2>3. f[k + 1] = f[k] * ms[k + 1] /\ ms[k + 1] \in Nat \ {0}
    BY <1>1, <1>2, <2>2
  <2> QED BY ONLY <2>2, <2>3
<1>5. Nat \subseteq S
  <2> HIDE DEF S
  <2> QED BY ONLY <1>3, <1>4, Induction
<1>6. \A k \in 0 .. n : f[k] \in Nat \ {0}
  BY <1>1, <1>5
<1>7. f \in [0 .. n -> Nat \ {0}]
  BY <1>2, <1>6
<1> QED BY <1>2, <1>7 DEF PrefixProducts

\* The product of moduli invertible modulo m is.
LEMMA PrefixInvertible ==
  ASSUME NEW ms, Basis(ms), NEW f, PrefixProducts(ms, f), NEW m \in Nat \ {0}, NEW c \in 0 .. Len(ms),
         \A i \in 1 .. c : IsUnit(ms[i], m)
  PROVE  IsUnit(f[c], m)
<1> DEFINE n == Len(ms)
           S == {k \in Nat : k <= c => IsUnit(f[k], m)}
<1>1. n \in Nat /\ \A i \in 1 .. n : ms[i] \in Nat \ {0}
  BY BasisFacts
<1>2. f[0] = 1 /\ \A k \in 1 .. n : f[k] = f[k - 1] * ms[k] /\ f[k] \in Int /\ f[k - 1] \in Int
  <2>1. f \in [0 .. n -> Nat \ {0}] /\ f[0] = 1 /\ \A k \in 1 .. n : f[k] = f[k - 1] * ms[k]
    BY DEF PrefixProducts
  <2>2. \A k \in 1 .. n : k \in 0 .. n /\ k - 1 \in 0 .. n
    BY <1>1
  <2>3. \A k \in 0 .. n : f[k] \in Int
    BY <2>1
  <2> QED BY ONLY <2>1, <2>2, <2>3
<1>3. 0 \in S
  <2>1. 1 * 1 = 1 + 0 * m
    OBVIOUS
  <2>2. IsUnit(1, m)
    BY ONLY <2>1, ApartInvertible, m \in Nat \ {0}, 1 \in Int, 0 \in Int
  <2> QED BY <1>2, <2>2
<1>4. ASSUME NEW k \in Nat, k \in S PROVE k + 1 \in S
  <2>1. SUFFICES ASSUME k + 1 <= c PROVE IsUnit(f[k + 1], m)
    OBVIOUS
  <2>2. k + 1 \in 1 .. n /\ k + 1 \in 1 .. c /\ (k + 1) - 1 = k /\ IsUnit(f[k], m)
    BY <1>1, <1>4, <2>1
  <2>3. f[k + 1] = f[k] * ms[k + 1] /\ ms[k + 1] \in Int /\ f[k] \in Int
    BY <1>1, <1>2, <2>2
  <2>4. IsUnit(f[k] * ms[k + 1], m)
    BY ONLY <2>2, <2>3, InvertibleProduct, m \in Nat \ {0}, \A i \in 1 .. c : IsUnit(ms[i], m)
  <2> QED BY ONLY <2>3, <2>4
<1>5. Nat \subseteq S
  <2> HIDE DEF S
  <2> QED BY ONLY <1>3, <1>4, Induction
<1> QED BY <1>5

\* A product of a basis is positive, and has an inverse where its moduli do.
LEMMA ProductInvertible ==
  ASSUME NEW ms, Basis(ms)
  PROVE  /\ Product(ms) \in Nat \ {0} /\ Product(ms) \in Nat /\ Product(ms) \in Int
         /\ \A m \in Nat \ {0} : (\A i \in 1 .. Len(ms) : IsUnit(ms[i], m)) => IsUnit(Product(ms), m)
<1>1. PICK f : PrefixProducts(ms, f)
  BY PrefixesExist
<1>2. Len(ms) \in Nat /\ Len(ms) \in 0 .. Len(ms)
  BY BasisFacts
<1>3. f[Len(ms)] = Product(ms) /\ Product(ms) \in Nat \ {0}
  BY <1>1, <1>2 DEF PrefixProducts
<1>4. ASSUME NEW m \in Nat \ {0}, \A i \in 1 .. Len(ms) : IsUnit(ms[i], m) PROVE IsUnit(Product(ms), m)
  <2>1. IsUnit(f[Len(ms)], m)
    BY ONLY <1>1, <1>2, <1>4, PrefixInvertible, Basis(ms)
  <2> QED BY ONLY <2>1, <1>3
<1> QED BY <1>3, <1>4

\* A modulus times the product of the others is the product; the product of
\* the others is zero modulo each of them and has an inverse modulo the one.
LEMMA HatFacts ==
  ASSUME NEW ms, Basis(ms), NEW i \in 1 .. Len(ms)
  PROVE  /\ Hat(ms, i) \in Nat \ {0} /\ Hat(ms, i) \in Int /\ Hat(ms, i) * ms[i] = Product(ms)
         /\ IsUnit(Hat(ms, i), ms[i])
         /\ \A j \in 1 .. Len(ms) : j # i => Congruent(Hat(ms, i), 0, ms[j])
<1> DEFINE n == Len(ms)
           Zero(h, k) == \A j \in 1 .. k : j # i => Congruent(h, 0, ms[j])
           S == {k \in Nat : k <= n => \E h \in Nat \ {0} : IsUnit(h, ms[i]) /\ Zero(h, k)
                                         /\ Product(SubSeq(ms, 1, k)) = IF k < i THEN h ELSE h * ms[i]}
<1> HIDE DEF Zero
<1>1. /\ n \in Nat /\ ms \in [1 .. n -> Nat] /\ \A k \in 1 .. n : ms[k] \in Nat \ {0} /\ ms[k] \in Int
      /\ \A k, j \in 1 .. n : k # j => IsUnit(ms[k], ms[j])
  BY BasisFacts
<1>2. /\ Product(SubSeq(ms, 1, n)) = Product(ms) /\ Product(SubSeq(ms, 1, 0)) = 1
      /\ \A k \in 1 .. n : Product(SubSeq(ms, 1, k)) = Product(SubSeq(ms, 1, k - 1)) * ms[k]
  BY ONLY <1>1, ProductSteps
<1>3. 0 \in S
  <2>1. 1 * 1 = 1 + 0 * ms[i] /\ 0 < i /\ ms[i] \in Nat \ {0}
    BY <1>1
  <2>2. IsUnit(1, ms[i])
    BY ONLY <2>1, ApartInvertible, 1 \in Int, 0 \in Int
  <2>3. Zero(1, 0)
    BY DEF Zero
  <2> QED BY ONLY <1>2, <2>1, <2>2, <2>3, 1 \in Nat \ {0}, 0 \in Nat DEF S
<1>4. ASSUME NEW k \in Nat, k \in S PROVE k + 1 \in S
  <2> DEFINE G(l) == Product(SubSeq(ms, 1, l))
  <2> HIDE DEF G
  <2>1. SUFFICES ASSUME k + 1 <= n
                 PROVE  \E h \in Nat \ {0} : IsUnit(h, ms[i]) /\ Zero(h, k + 1)
                          /\ G(k + 1) = IF k + 1 < i THEN h ELSE h * ms[i]
    BY DEF G
  <2>2. k + 1 \in 1 .. n /\ (k + 1) - 1 = k
    BY <1>1, <2>1
  <2>3. PICK h \in Nat \ {0} : IsUnit(h, ms[i]) /\ Zero(h, k) /\ G(k) = IF k < i THEN h ELSE h * ms[i]
    BY <1>4, <2>1 DEF G
  <2>9. h \in Int /\ IsUnit(h, ms[i])
    BY <2>3
  <2>4. G(k + 1) = G(k) * ms[k + 1]
    BY <1>2, <2>2 DEF G
  <2>5. CASE k + 1 = i
    <3>1. G(k) = h /\ ~(k + 1 < i)
      BY <2>3, <2>5
    <3>2. Zero(h, k + 1)
      BY <2>3, <2>5 DEF Zero
    <3> QED BY ONLY <2>3, <2>4, <2>5, <3>1, <3>2
  <2>6. CASE k + 1 # i
    <3> DEFINE g == h * ms[k + 1]
    <3>1. ms[k + 1] \in Nat \ {0} /\ ms[i] \in Nat \ {0} /\ IsUnit(ms[k + 1], ms[i])
      BY <1>1, <2>2, <2>6
    <3>2. g \in Nat \ {0}
      BY ONLY <3>1, h \in Nat \ {0}
    <3>3. IsUnit(g, ms[i])
      <4>1. ms[k + 1] \in Int
        BY <3>1
      <4> QED BY ONLY <2>9, <3>1, <4>1, InvertibleProduct
    <3>4. ASSUME NEW j \in 1 .. k + 1, j # i PROVE Congruent(g, 0, ms[j])
      <4>1. ms[j] \in Nat \ {0}
        BY <1>1, <2>2
      <4>2. CASE j = k + 1
        <5>1. g = 0 + h * ms[j] /\ g \in Int
          BY ONLY <2>9, <3>1, <4>2
        <5>2. Apart(g, 0, h, ms[j])
          BY ONLY <5>1 DEF Apart
        <5> QED BY ONLY <2>9, <4>1, <5>1, <5>2, ApartCongruent, 0 \in Int
      <4>3. CASE j # k + 1
        <5>1. Congruent(h, 0, ms[j])
          BY <2>3, <3>4, <4>3 DEF Zero
        <5>2. Congruent(ms[k + 1], ms[k + 1], ms[j])
          BY <4>1, CongruentRelation
        <5>3. Congruent(h * ms[k + 1], 0 * ms[k + 1], ms[j])
          <6>1. ms[k + 1] \in Int /\ 0 \in Int
            BY <3>1
          <6> QED BY ONLY <2>9, <6>1, <4>1, <5>1, <5>2, CongruentProduct
        <5>4. 0 * ms[k + 1] = 0
          BY <3>1
        <5> QED BY ONLY <5>3, <5>4
      <4> QED BY <4>2, <4>3
    <3>5. Zero(g, k + 1)
      BY <3>4 DEF Zero
    <3>6. G(k + 1) = IF k + 1 < i THEN g ELSE g * ms[i]
      <4>1. (k < i) <=> (k + 1 < i)
        BY <2>6
      <4>2. (h * ms[i]) * ms[k + 1] = (h * ms[k + 1]) * ms[i]
        BY ONLY Reorder, h \in Int, <3>1
      <4> QED BY ONLY <2>3, <2>4, <4>1, <4>2
    <3> QED BY ONLY <3>2, <3>3, <3>5, <3>6
  <2> QED BY <2>5, <2>6
<1>5. Nat \subseteq S
  <2> HIDE DEF S
  <2> QED BY ONLY <1>3, <1>4, Induction
<1>6. PICK h \in Nat \ {0} : IsUnit(h, ms[i]) /\ Zero(h, n) /\ Product(ms) = h * ms[i]
  <2>1. n \in S /\ ~(n < i) /\ n <= n
    BY <1>1, <1>5
  <2> QED BY <1>2, <2>1
<1>7. Hat(ms, i) = h
  <2>1. ms[i] \in Nat \ {0} /\ 0 \in 0 .. ms[i] - 1 /\ h * ms[i] = h * ms[i] + 0 /\ h * ms[i] \in Int
    BY <1>1
  <2>2. (h * ms[i]) \div ms[i] = h
    BY ONLY <2>1, DivUnique, h \in Int
  <2> QED BY ONLY <1>6, <2>2 DEF Hat
<1> QED BY <1>6, <1>7, <1>1 DEF Zero

\* Numbers congruent modulo every modulus are so modulo the product, and the
\* other way round.
LEMMA CRTUnique ==
  ASSUME NEW ms, Basis(ms), NEW u \in Int, NEW v \in Int
  PROVE  Congruent(u, v, Product(ms)) <=> \A i \in 1 .. Len(ms) : Congruent(u, v, ms[i])
<1> DEFINE n == Len(ms)
<1>1. /\ n \in Nat /\ ms \in [1 .. n -> Nat] /\ \A k \in 1 .. n : ms[k] \in Nat \ {0}
      /\ \A k, j \in 1 .. n : k # j => IsUnit(ms[k], ms[j])
  BY BasisFacts
<1>2. ASSUME Congruent(u, v, Product(ms)), NEW i \in 1 .. n PROVE Congruent(u, v, ms[i])
  <2>1. Product(ms) \in Nat \ {0}
    BY ProductInvertible
  <2>2. PICK k \in Int : Apart(u, v, k, Product(ms))
    BY ONLY <1>2, <2>1, CongruentApart, u \in Int, v \in Int
  <2> DEFINE h == Hat(ms, i)
  <2>3. h \in Int /\ h * ms[i] = Product(ms) /\ ms[i] \in Nat \ {0}
    BY <1>1, HatFacts
  <2> HIDE DEF h
  <2>4. k * (h * ms[i]) = (k * h) * ms[i] /\ k * h \in Int
    BY ONLY <2>3, Reorder, k \in Int, ms[i] \in Int, ProductInteger
  <2>5. Apart(u, v, k * h, ms[i])
    BY ONLY <2>2, <2>3, <2>4 DEF Apart
  <2> QED BY ONLY <2>3, <2>4, <2>5, ApartCongruent, u \in Int, v \in Int
<1>3. ASSUME \A i \in 1 .. n : Congruent(u, v, ms[i]) PROVE Congruent(u, v, Product(ms))
  <2>1. PICK f : PrefixProducts(ms, f)
    BY PrefixesExist
  <2>2. /\ f[0] = 1 /\ f[n] = Product(ms) /\ \A k \in 0 .. n : f[k] \in Nat \ {0}
        /\ \A k \in 1 .. n : f[k] = f[k - 1] * ms[k]
    BY <2>1 DEF PrefixProducts
  <2> DEFINE S == {k \in Nat : k <= n => Congruent(u, v, f[k])}
  <2>3. 0 \in S
    <3>1. u % 1 = 0 /\ v % 1 = 0
      OBVIOUS
    <3> QED BY <2>2, <3>1 DEF Congruent
  <2>4. ASSUME NEW k \in Nat, k \in S PROVE k + 1 \in S
    <3>1. SUFFICES ASSUME k + 1 <= n PROVE Congruent(u, v, f[k + 1])
      OBVIOUS
    <3>2. k + 1 \in 1 .. n /\ k \in 0 .. n /\ (k + 1) - 1 = k /\ Congruent(u, v, f[k])
      BY <1>1, <2>4, <3>1
    <3>3. f[k + 1] = f[k] * ms[k + 1] /\ ms[k + 1] \in Nat \ {0} /\ f[k] \in Nat \ {0}
      BY <1>1, <2>2, <3>2
    <3>4. \A i \in 1 .. k : IsUnit(ms[i], ms[k + 1])
      BY <1>1, <3>2
    <3>5. IsUnit(f[k], ms[k + 1])
      BY ONLY <2>1, <3>2, <3>3, <3>4, PrefixInvertible, Basis(ms)
    <3>6. Congruent(u, v, f[k] * ms[k + 1])
      BY ONLY <1>3, <3>2, <3>3, <3>5, CongruentBoth, u \in Int, v \in Int
    <3> QED BY ONLY <3>3, <3>6
  <2>5. Nat \subseteq S
    <3> HIDE DEF S
    <3> QED BY ONLY <2>3, <2>4, Induction
  <2>6. Congruent(u, v, f[n])
    BY <1>1, <2>5
  <2> QED BY ONLY <2>2, <2>6
<1> QED BY <1>2, <1>3

-----------------------------------------------------------------------------
(* Sums of sequences of integers.                                          *)

\* The terms of a sum, counted from zero.
FromZero(s, n) == [i \in 0 .. n - 1 |-> s[i + 1]]

\* A sum of integers is one, and the total of its terms.
LEMMA SumInteger ==
  ASSUME NEW n \in Nat, NEW s \in [1 .. n -> Int]
  PROVE  /\ Sum(s) \in Int /\ Sum(s) = Total(FromZero(s, n), n)
         /\ \A i \in 0 .. n - 1 : FromZero(s, n)[i] = s[i + 1] /\ FromZero(s, n)[i] \in Int
<1>1. Sum(s) = Total(FromZero(s, n), n)
  BY SumTotal DEF FromZero
<1>2. \A i \in 0 .. n - 1 : FromZero(s, n)[i] = s[i + 1]
  BY DEF FromZero
<1>3. \A i \in 0 .. n - 1 : s[i + 1] \in Int
  OBVIOUS
<1>4. \A i \in 0 .. n - 1 : FromZero(s, n)[i] \in Int
  BY ONLY <1>2, <1>3
<1>5. Total(FromZero(s, n), n) \in Int
  BY ONLY <1>4, TotalInteger, n \in Nat
<1> QED BY ONLY <1>1, <1>2, <1>4, <1>5

\* Sums of congruent terms are congruent.
LEMMA SumCongruent ==
  ASSUME NEW m \in Nat \ {0}, NEW n \in Nat, NEW s \in [1 .. n -> Int], NEW t \in [1 .. n -> Int],
         \A i \in 1 .. n : Congruent(s[i], t[i], m)
  PROVE  Congruent(Sum(s), Sum(t), m)
<1>1. /\ Sum(s) = Total(FromZero(s, n), n) /\ Sum(t) = Total(FromZero(t, n), n)
      /\ \A i \in 0 .. n - 1 : FromZero(s, n)[i] = s[i + 1] /\ FromZero(s, n)[i] \in Int
      /\ \A i \in 0 .. n - 1 : FromZero(t, n)[i] = t[i + 1] /\ FromZero(t, n)[i] \in Int
  BY SumInteger
<1>2. \A i \in 0 .. n - 1 : Congruent(s[i + 1], t[i + 1], m)
  OBVIOUS
<1>3. \A i \in 0 .. n - 1 : Congruent(FromZero(s, n)[i], FromZero(t, n)[i], m)
  BY ONLY <1>1, <1>2
<1>4. Congruent(Total(FromZero(s, n), n), Total(FromZero(t, n), n), m)
  BY ONLY <1>1, <1>3, TotalCongruent, m \in Nat \ {0}, n \in Nat
<1> QED BY ONLY <1>1, <1>4

\* A factor of all terms is a factor of the sum.
LEMMA SumTimes ==
  ASSUME NEW c \in Int, NEW n \in Nat, NEW s \in [1 .. n -> Int], NEW t \in [1 .. n -> Int],
         \A i \in 1 .. n : t[i] = c * s[i]
  PROVE  Sum(t) = c * Sum(s)
<1>1. /\ Sum(s) = Total(FromZero(s, n), n) /\ Sum(t) = Total(FromZero(t, n), n)
      /\ \A i \in 0 .. n - 1 : FromZero(s, n)[i] = s[i + 1] /\ FromZero(s, n)[i] \in Int
      /\ \A i \in 0 .. n - 1 : FromZero(t, n)[i] = t[i + 1] /\ FromZero(t, n)[i] \in Int
  BY SumInteger
<1>2. \A i \in 0 .. n - 1 : t[i + 1] = c * s[i + 1]
  OBVIOUS
<1>3. \A i \in 0 .. n - 1 : FromZero(t, n)[i] = c * FromZero(s, n)[i]
  BY ONLY <1>1, <1>2
<1>4. Total(FromZero(t, n), n) = c * Total(FromZero(s, n), n)
  BY ONLY <1>1, <1>3, TotalTimes, c \in Int, n \in Nat
<1> QED BY ONLY <1>1, <1>4

\* The sum of the sums of terms.
LEMMA SumAdds ==
  ASSUME NEW n \in Nat, NEW s \in [1 .. n -> Int], NEW t \in [1 .. n -> Int], NEW h \in [1 .. n -> Int],
         \A i \in 1 .. n : h[i] = s[i] + t[i]
  PROVE  Sum(h) = Sum(s) + Sum(t)
<1>1. /\ Sum(s) = Total(FromZero(s, n), n) /\ Sum(t) = Total(FromZero(t, n), n) /\ Sum(h) = Total(FromZero(h, n), n)
      /\ \A i \in 0 .. n - 1 : FromZero(s, n)[i] = s[i + 1] /\ FromZero(s, n)[i] \in Int
      /\ \A i \in 0 .. n - 1 : FromZero(t, n)[i] = t[i + 1] /\ FromZero(t, n)[i] \in Int
      /\ \A i \in 0 .. n - 1 : FromZero(h, n)[i] = h[i + 1]
  BY SumInteger
<1>2. \A i \in 0 .. n - 1 : h[i + 1] = s[i + 1] + t[i + 1]
  OBVIOUS
<1>3. \A i \in 0 .. n - 1 : FromZero(h, n)[i] = FromZero(s, n)[i] + FromZero(t, n)[i]
  <2> SUFFICES ASSUME NEW i \in 0 .. n - 1 PROVE FromZero(h, n)[i] = FromZero(s, n)[i] + FromZero(t, n)[i]
    OBVIOUS
  <2>1. FromZero(h, n)[i] = h[i + 1] /\ FromZero(s, n)[i] = s[i + 1] /\ FromZero(t, n)[i] = t[i + 1]
    BY <1>1
  <2>2. h[i + 1] = s[i + 1] + t[i + 1]
    BY <1>2
  <2> QED BY ONLY <2>1, <2>2
<1>4. Total(FromZero(h, n), n) = Total(FromZero(s, n), n) + Total(FromZero(t, n), n)
  BY ONLY <1>1, <1>3, TotalAdds, n \in Nat
<1> QED BY ONLY <1>1, <1>4

\* Where all terms but one are zero, the sum is that term.
LEMMA SumSingle ==
  ASSUME NEW m \in Nat \ {0}, NEW n \in Nat, NEW s \in [1 .. n -> Int], NEW k \in 1 .. n,
         \A i \in 1 .. n : i # k => Congruent(s[i], 0, m)
  PROVE  Congruent(Sum(s), s[k], m)
<1> DEFINE t == [i \in 1 .. n |-> IF i = k THEN s[k] ELSE 0]
<1>1. t \in [1 .. n -> Int] /\ t[k] = s[k] /\ \A i \in 1 .. n : i # k => t[i] = 0
  OBVIOUS
<1> HIDE DEF t
<1>2. \A i \in 1 .. n : Congruent(s[i], t[i], m)
  <2>1. Congruent(s[k], s[k], m)
    BY CongruentRelation
  <2> QED BY <1>1, <2>1
<1>3. Congruent(Sum(s), Sum(t), m)
  BY ONLY <1>1, <1>2, SumCongruent, m \in Nat \ {0}, n \in Nat, s \in [1 .. n -> Int]
<1>4. /\ Sum(t) = Total(FromZero(t, n), n)
      /\ \A i \in 0 .. n - 1 : FromZero(t, n)[i] = t[i + 1] /\ FromZero(t, n)[i] \in Int
  BY ONLY <1>1, SumInteger, n \in Nat
<1>5. Total(FromZero(t, n), n) = FromZero(t, n)[k - 1]
  <2>1. k - 1 \in 0 .. n - 1
    OBVIOUS
  <2>2. \A i \in 0 .. n - 1 : i # k - 1 => t[i + 1] = 0
    BY <1>1
  <2>3. \A i \in 0 .. n - 1 : i # k - 1 => FromZero(t, n)[i] = 0
    BY ONLY <1>4, <2>2
  <2> QED BY ONLY <1>4, <2>1, <2>3, TotalSingle, n \in Nat
<1>6. FromZero(t, n)[k - 1] = s[k]
  <2>1. k - 1 \in 0 .. n - 1 /\ (k - 1) + 1 = k
    OBVIOUS
  <2> QED BY ONLY <1>1, <1>4, <2>1
<1> QED BY ONLY <1>3, <1>4, <1>5, <1>6

\* A sum lies between so many times bounds of its terms.
LEMMA SumBetween ==
  ASSUME NEW n \in Nat, NEW s \in [1 .. n -> Int], NEW lo \in Int, NEW hi \in Int,
         \A i \in 1 .. n : lo <= s[i] /\ s[i] <= hi
  PROVE  n * lo <= Sum(s) /\ Sum(s) <= n * hi
<1> DEFINE u == FromZero(s, n)
<1>1. /\ Sum(s) = Total(u, n)
      /\ \A i \in 0 .. n - 1 : u[i] = s[i + 1] /\ u[i] \in Int
  BY SumInteger
<1> HIDE DEF u
<1>2. /\ Total(u, 0) = 0 /\ \A k \in 0 .. n : Total(u, k) \in Int
      /\ \A k \in 0 .. n - 1 : Total(u, k + 1) = Total(u, k) + u[k]
  BY ONLY <1>1, TotalSteps, n \in Nat
<1> DEFINE S == {k \in Nat : k <= n => k * lo <= Total(u, k) /\ Total(u, k) <= k * hi}
<1>3. 0 \in S
  BY <1>2
<1>4. ASSUME NEW k \in Nat, k \in S PROVE k + 1 \in S
  <2>1. SUFFICES ASSUME k + 1 <= n PROVE (k + 1) * lo <= Total(u, k + 1) /\ Total(u, k + 1) <= (k + 1) * hi
    OBVIOUS
  <2>2. k \in 0 .. n - 1 /\ k \in 0 .. n /\ k + 1 \in 1 .. n /\ k * lo <= Total(u, k) /\ Total(u, k) <= k * hi
    BY <1>4, <2>1
  <2>3. Total(u, k + 1) = Total(u, k) + u[k] /\ u[k] \in Int /\ Total(u, k) \in Int /\ lo <= u[k] /\ u[k] <= hi
    BY <1>1, <1>2, <2>2
  <2>4. (k + 1) * lo = k * lo + lo /\ (k + 1) * hi = k * hi + hi /\ k * lo \in Int /\ k * hi \in Int
    OBVIOUS
  <2> QED BY ONLY <2>2, <2>3, <2>4, lo \in Int, hi \in Int
<1>5. Nat \subseteq S
  <2> HIDE DEF S
  <2> QED BY ONLY <1>3, <1>4, Induction
<1>6. n * lo <= Total(u, n) /\ Total(u, n) <= n * hi
  BY <1>5
<1> QED BY ONLY <1>1, <1>6

-----------------------------------------------------------------------------
(* The number of residues.                                                 *)

\* A number can be lifted to one more modulus.
LEMMA LiftExists ==
  ASSUME NEW m \in Nat \ {0, 1}, NEW g \in Int, IsUnit(g, m), NEW n \in Int, NEW r \in 0 .. m - 1
  PROVE  \E k \in 0 .. m - 1 : (n + k * g) % m = r
<1>1. PICK z \in Int : Congruent(g * z, 1, m)
  BY DEF IsUnit
<1> DEFINE w == (r - n) * z
           k == w % m
<1>2. m \in Nat \ {0} /\ r \in Int /\ w \in Int /\ r - n \in Int
  OBVIOUS
<1> HIDE DEF w
<1>3. k \in 0 .. m - 1 /\ k \in Int /\ Congruent(k, w, m)
  <2>1. k \in 0 .. m - 1 /\ Congruent(k, w, m)
    BY ONLY <1>2, CongruentRelation
  <2> QED BY <2>1
<1> HIDE DEF k
<1>4. \A e : Congruent(e, e, m)
  BY CongruentRelation
<1>5. Congruent(k * g, w * g, m)
  BY ONLY <1>2, <1>3, <1>4, CongruentProduct, g \in Int
<1>6. Congruent((r - n) * (g * z), (r - n) * 1, m)
  <2>1. g * z \in Int /\ 1 \in Int
    BY <1>1
  <2> QED BY ONLY <1>1, <1>2, <1>4, <2>1, CongruentProduct
<1>7. w * g = (r - n) * (g * z) /\ (r - n) * 1 = r - n
  <2>1. \A i \in Int : (i * z) * g = i * (g * z) /\ i * 1 = i
    BY Reorder
  <2> QED BY <1>2, <2>1 DEF w
<1>8. Congruent(k * g, r - n, m)
  BY ONLY <1>5, <1>6, <1>7 DEF Congruent
<1>9. Congruent(n + k * g, n + (r - n), m)
  <2> DEFINE d == r - n
             e == k * g
  <2>1. d \in Int /\ e \in Int /\ Congruent(e, d, m) /\ Congruent(n, n, m)
    BY <1>2, <1>3, <1>4, <1>8
  <2> HIDE DEF d, e
  <2>2. Congruent(n + e, n + d, m)
    BY ONLY <1>2, <2>1, CongruentSum, n \in Int
  <2> QED BY ONLY <2>2 DEF d, e
<1>10. n + (r - n) = r /\ r % m = r
  <2>1. r % m = r
    BY Remainders
  <2> QED BY <2>1
<1> QED BY ONLY <1>3, <1>9, <1>10 DEF Congruent

\* Number finds the number below the product that has the residues.
LEMMA NumberFacts ==
  ASSUME NEW ms, Basis(ms), NEW rs, Below(rs, ms)
  PROVE  /\ Number(ms, rs) \in 0 .. Product(ms) - 1 /\ Number(ms, rs) \in Int
         /\ \A i \in 1 .. Len(ms) : Number(ms, rs) % ms[i] = rs[i]
<1> DEFINE n == Len(ms)
           G(i) == Product(SubSeq(ms, 1, i - 1))
           Step(c, i) == c + G(i) * CHOOSE k \in 0 .. ms[i] - 1 : (c + k * G(i)) % ms[i] = rs[i]
           F == [p \in (1 .. n) \X Int |-> Step(p[2], p[1])]
           Is(g) == g = [i \in 0 .. n |-> IF i = 0 THEN 0 ELSE Step(g[i - 1], i)]
           g == CHOOSE h : Is(h)
           A == Int
<1>1. /\ n \in Nat /\ ms \in [1 .. n -> Nat] /\ \A k \in 1 .. n : ms[k] \in Nat \ {0, 1} /\ ms[k] \in Nat \ {0}
      /\ \A k, j \in 1 .. n : k # j => IsUnit(ms[k], ms[j])
  BY BasisFacts
<1>2. \A i \in 1 .. n : rs[i] \in 0 .. ms[i] - 1
  BY <1>1, BasisFacts DEF Below
<1>3. /\ Product(SubSeq(ms, 1, n)) = Product(ms) /\ Product(SubSeq(ms, 1, 0)) = 1
      /\ \A k \in 1 .. n : Product(SubSeq(ms, 1, k)) = Product(SubSeq(ms, 1, k - 1)) * ms[k]
  BY ONLY <1>1, ProductSteps
<1>4. Number(ms, rs) = g[n]
  BY DEF Number
<1> HIDE DEF G
<1>5. G(1) = 1 /\ (\A k \in 1 .. n : G(k + 1) = G(k) * ms[k]) /\ G(n + 1) = Product(ms)
  <2>1. 1 - 1 = 0 /\ (n + 1) - 1 = n /\ \A k \in 1 .. n : (k + 1) - 1 = k
    BY <1>1
  <2> QED BY ONLY <1>3, <2>1 DEF G
<1>6. PICK f : PrefixProducts(ms, f)
  BY PrefixesExist
<1>7. ASSUME NEW i \in 1 .. n PROVE G(i) = f[i - 1] /\ G(i) \in Nat \ {0} /\ G(i) \in Int /\ IsUnit(G(i), ms[i])
  <2>1. f[0] = 1 /\ \A k \in 1 .. n : f[k] = f[k - 1] * ms[k]
    BY <1>6 DEF PrefixProducts
  <2> DEFINE S == {k \in Nat : k <= n => G(k + 1) = f[k]}
  <2>2. 0 \in S
    BY <1>5, <2>1
  <2>3. ASSUME NEW k \in Nat, k \in S PROVE k + 1 \in S
    <3>1. SUFFICES ASSUME k + 1 <= n PROVE G((k + 1) + 1) = f[k + 1]
      OBVIOUS
    <3>2. k + 1 \in 1 .. n /\ (k + 1) - 1 = k /\ G(k + 1) = f[k]
      BY <1>1, <2>3, <3>1
    <3> QED BY ONLY <1>5, <2>1, <3>2
  <2>4. Nat \subseteq S
    <3> HIDE DEF S
    <3> QED BY ONLY <2>2, <2>3, Induction
  <2>5. i - 1 \in 0 .. n /\ i - 1 \in Nat /\ (i - 1) + 1 = i /\ i - 1 <= n
    BY <1>1
  <2>6. G(i) = f[i - 1]
    BY <2>4, <2>5
  <2>7. f[i - 1] \in Nat \ {0}
    BY <1>6, <2>5 DEF PrefixProducts
  <2>8. ms[i] \in Nat \ {0} /\ \A j \in 1 .. i - 1 : IsUnit(ms[j], ms[i])
    BY <1>1
  <2>9. IsUnit(f[i - 1], ms[i])
    BY ONLY <1>6, <2>5, <2>8, PrefixInvertible, Basis(ms)
  <2> QED BY ONLY <2>6, <2>7, <2>9
<1>8. ASSUME NEW i \in 1 .. n, NEW c \in Int
      PROVE  \E k \in 0 .. ms[i] - 1 : Step(c, i) = c + G(i) * k /\ (c + k * G(i)) % ms[i] = rs[i]
  <2>1. \E k \in 0 .. ms[i] - 1 : (c + k * G(i)) % ms[i] = rs[i]
    <3>1. ms[i] \in Nat \ {0, 1} /\ rs[i] \in 0 .. ms[i] - 1 /\ G(i) \in Int /\ IsUnit(G(i), ms[i])
      BY <1>1, <1>2, <1>7
    <3> QED BY ONLY <3>1, LiftExists, c \in Int
  <2> QED BY ONLY <2>1
<1> HIDE DEF Step
<1>9. \A i \in 1 .. n, c \in Int : Step(c, i) \in Int
  <2> SUFFICES ASSUME NEW i \in 1 .. n, NEW c \in Int PROVE Step(c, i) \in Int
    OBVIOUS
  <2>1. PICK k \in 0 .. ms[i] - 1 : Step(c, i) = c + G(i) * k
    BY <1>8
  <2>2. ms[i] \in Nat /\ G(i) \in Int
    BY <1>1, <1>7
  <2> QED BY ONLY <2>1, <2>2, c \in Int
<1>10. (\A i \in 1 .. n, c \in Int : F[<<i, c>>] = Step(c, i)) /\ 0 \in Int
  OBVIOUS
<1>11. Steps(n, Int, F)
  BY <1>9 DEF Steps
<1> HIDE DEF F, A
<1>12. PICK h : h \in [SUBSET (1 .. n) -> A] /\ Folds(n, A, 0, F, h)
  BY <1>1, <1>10, <1>11, FoldExists DEF A
<1>13. PICK u : Unrolls(n, A, 0, F, u) /\ u[n] = h[1 .. n]
  <2>1. Steps(n, A, F) /\ 0 \in A
    BY <1>10, <1>11 DEF A
  <2> QED BY ONLY <1>1, <1>12, <2>1, FoldUnroll
<1>14. u \in [0 .. n -> Int] /\ u[0] = 0 /\ \A k \in 1 .. n : u[k] = Step(u[k - 1], k)
  <2>1. u \in [0 .. n -> Int] /\ u[0] = 0 /\ \A k \in 1 .. n : u[k] = F[<<k, u[k - 1]>>]
    BY <1>13 DEF Unrolls, A
  <2>2. \A k \in 1 .. n : u[k - 1] \in Int
    BY <2>1
  <2> QED BY ONLY <1>10, <2>1, <2>2
<1>15. Is(u)
  BY <1>14
<1>16. Is(g)
  BY <1>15
<1> HIDE DEF g
<1>17. g[0] = 0 /\ \A k \in 1 .. n : g[k] = Step(g[k - 1], k)
  BY <1>1, <1>16
<1> HIDE DEF Is
<1> DEFINE Good(k) == g[k] \in 0 .. G(k + 1) - 1 /\ \A j \in 1 .. k : g[k] % ms[j] = rs[j]
           S == {k \in Nat : k <= n => Good(k)}
<1>18. 0 \in S
  BY <1>5, <1>17
<1>19. ASSUME NEW k \in Nat, k \in S PROVE k + 1 \in S
  <2>1. SUFFICES ASSUME k + 1 <= n PROVE Good(k + 1)
    OBVIOUS
  <2> DEFINE i == k + 1
  <2>2. i \in 1 .. n /\ i - 1 = k /\ Good(k) /\ k \in 0 .. n
    BY <1>1, <1>19, <2>1
  <2>3. G(i) \in Nat \ {0} /\ ms[i] \in Nat \ {0, 1} /\ ms[i] \in Nat \ {0} /\ G(i + 1) = G(i) * ms[i] /\ G(i) = f[k]
    BY <1>1, <1>5, <1>7, <2>2
  <2>4. g[k] \in 0 .. G(i) - 1 /\ g[k] \in Int
    BY <2>2, <2>3
  <2>5. PICK e \in 0 .. ms[i] - 1 : Step(g[k], i) = g[k] + G(i) * e /\ (g[k] + e * G(i)) % ms[i] = rs[i]
    BY ONLY <1>8, <2>2, <2>4
  <2>6. g[i] = g[k] + G(i) * e
    BY <1>17, <2>2, <2>5
  <2>7. G(i) * e = e * G(i) /\ e \in Int /\ G(i) * e \in Nat /\ e * G(i) \in Int
    BY ONLY <2>3, <2>5
  <2>8. g[i] \in 0 .. G(i + 1) - 1
    <3>1. G(i) * e <= G(i) * (ms[i] - 1) /\ G(i) * (ms[i] - 1) = G(i) * ms[i] - G(i)
      BY ONLY <2>3, <2>5
    <3>2. G(i) * ms[i] \in Int
      BY ONLY <2>3
    <3> QED BY ONLY <2>3, <2>4, <2>6, <2>7, <3>1, <3>2
  <2>9. ASSUME NEW j \in 1 .. i PROVE g[i] % ms[j] = rs[j]
    <3>1. CASE j = i
      BY ONLY <2>5, <2>6, <2>7, <3>1
    <3>2. CASE j # i
      <4>1. j \in 1 .. k /\ j \in 1 .. n
        BY <2>2, <3>2
      <4>2. g[k] % ms[j] = rs[j]
        BY <2>2, <4>1
      <4>3. Congruent(f[k], 0, ms[j])
        <5> DEFINE Z == {l \in Nat : j <= l /\ l <= n => Congruent(f[l], 0, ms[j])}
        <5>1. ms[j] \in Nat \ {0} /\ ms[j] \in Int /\ \A l \in 0 .. n : f[l] \in Int
          BY <1>1, <1>6, <4>1 DEF PrefixProducts
        <5>2. \A l \in 1 .. n : f[l] = f[l - 1] * ms[l] /\ ms[l] \in Int
          BY <1>1, <1>6 DEF PrefixProducts
        <5>3. 0 \in Z
          BY <4>1
        <5>4. ASSUME NEW l \in Nat, l \in Z PROVE l + 1 \in Z
          <6>1. SUFFICES ASSUME j <= l + 1, l + 1 <= n PROVE Congruent(f[l + 1], 0, ms[j])
            OBVIOUS
          <6>2. l \in 0 .. n /\ l + 1 \in 1 .. n /\ (l + 1) - 1 = l
            BY <1>1, <6>1
          <6>3. f[l + 1] = f[l] * ms[l + 1] /\ f[l] \in Int /\ ms[l + 1] \in Int
            BY ONLY <5>1, <5>2, <6>2
          <6>4. CASE j = l + 1
            <7>1. f[l] * ms[j] = 0 + f[l] * ms[j] /\ f[l] * ms[j] \in Int
              BY ONLY <5>1, <6>3
            <7>2. Apart(f[l] * ms[j], 0, f[l], ms[j])
              BY ONLY <7>1 DEF Apart
            <7>3. Congruent(f[l] * ms[j], 0, ms[j])
              BY ONLY <5>1, <6>3, <7>1, <7>2, ApartCongruent, 0 \in Int
            <7> QED BY ONLY <6>3, <6>4, <7>3
          <6>5. CASE j # l + 1
            <7>1. Congruent(f[l], 0, ms[j])
              BY <5>4, <6>1, <6>5, <4>1
            <7>2. Congruent(ms[l + 1], ms[l + 1], ms[j])
              BY ONLY <5>1, CongruentRelation
            <7>3. Congruent(f[l] * ms[l + 1], 0 * ms[l + 1], ms[j])
              BY ONLY <5>1, <6>3, <7>1, <7>2, CongruentProduct, 0 \in Int
            <7>4. 0 * ms[l + 1] = 0
              BY ONLY <6>3
            <7> QED BY ONLY <6>3, <7>3, <7>4
          <6> QED BY <6>4, <6>5
        <5>5. Nat \subseteq Z
          <6> HIDE DEF Z
          <6> QED BY ONLY <5>3, <5>4, Induction
        <5> QED BY <5>5, <4>1, <2>2
      <4>4. ms[j] \in Nat \ {0} /\ \A w : Congruent(w, w, ms[j])
        BY <1>1, <4>1, CongruentRelation
      <4>5. Congruent(G(i) * e, 0 * e, ms[j])
        BY ONLY <2>3, <2>7, <4>3, <4>4, CongruentProduct, 0 \in Int, G(i) \in Int
      <4>6. Congruent(g[k] + G(i) * e, g[k] + 0 * e, ms[j])
        <5>1. 0 * e \in Int /\ G(i) * e \in Int
          BY <2>7
        <5> QED BY ONLY <2>4, <4>4, <4>5, <5>1, CongruentSum
      <4>7. g[k] + 0 * e = g[k]
        BY ONLY <2>4, <2>7
      <4> QED BY ONLY <2>6, <4>2, <4>6, <4>7 DEF Congruent
    <3> QED BY <3>1, <3>2
  <2> QED BY <2>8, <2>9
<1>20. Nat \subseteq S
  <2> HIDE DEF S
  <2> QED BY ONLY <1>18, <1>19, Induction
<1>21. Good(n)
  BY <1>1, <1>20
<1>22. Product(ms) \in Nat
  BY ProductInvertible
<1> QED BY <1>4, <1>5, <1>21, <1>22

-----------------------------------------------------------------------------
(* Residues, and what they are put together to.                            *)

\* A function on 1 .. n is a sequence.
LEMMA FunctionSequence ==
  ASSUME NEW n \in Nat, NEW S, NEW v \in [1 .. n -> S]
  PROVE  v \in Seq(S) /\ Len(v) = n
<1>1. v \in Seq(S)
  BY SeqDef
<1>2. Len(v) \in Nat /\ DOMAIN v = 1 .. Len(v)
  BY <1>1, LenProperties
<1> QED BY <1>1, <1>2

\* A vector of reduced entries is one of residues.
LEMMA BelowMade ==
  ASSUME NEW ms, Basis(ms), NEW v, DOMAIN v = 1 .. Len(ms), v = [i \in DOMAIN v |-> v[i]],
         \A i \in 1 .. Len(ms) : v[i] \in 0 .. ms[i] - 1
  PROVE  Below(v, ms)
<1>1. Len(ms) \in Nat /\ DOMAIN ms = 1 .. Len(ms) /\ \A i \in 1 .. Len(ms) : ms[i] \in Nat
  BY BasisFacts
<1>2. \A i \in 1 .. Len(ms) : v[i] \in Nat
  BY <1>1
<1>3. v \in [1 .. Len(ms) -> Nat]
  BY <1>2
<1>4. v \in Seq(Nat) /\ Len(v) = Len(ms)
  BY <1>1, <1>3, FunctionSequence
<1> QED BY <1>1, <1>4 DEF Below

\* What an entry of such a vector is.
LEMMA BelowFacts ==
  ASSUME NEW ms, Basis(ms), NEW rs, Below(rs, ms)
  PROVE  /\ DOMAIN rs = 1 .. Len(ms) /\ Len(rs) = Len(ms) /\ rs \in Seq(Nat)
         /\ \A i \in 1 .. Len(ms) : rs[i] \in 0 .. ms[i] - 1 /\ rs[i] \in Nat /\ rs[i] \in Int /\ rs[i] % ms[i] = rs[i]
<1>1. Len(ms) \in Nat /\ DOMAIN ms = 1 .. Len(ms) /\ \A i \in 1 .. Len(ms) : ms[i] \in Nat \ {0}
  BY BasisFacts
<1>2. rs \in Seq(Nat) /\ Len(rs) = Len(ms) /\ \A i \in 1 .. Len(ms) : rs[i] \in 0 .. ms[i] - 1
  BY <1>1 DEF Below
<1>3. DOMAIN rs = 1 .. Len(ms)
  BY <1>2, LenProperties
<1>4. ASSUME NEW i \in 1 .. Len(ms) PROVE rs[i] \in Nat /\ rs[i] \in Int /\ rs[i] % ms[i] = rs[i]
  <2>1. ms[i] \in Nat \ {0} /\ rs[i] \in 0 .. ms[i] - 1
    BY <1>1, <1>2
  <2>2. rs[i] % ms[i] = rs[i]
    BY ONLY <2>1, Remainders
  <2> QED BY <2>1, <2>2
<1> QED BY <1>2, <1>3, <1>4

\* Residues below their moduli are those of their number, and of every
\* number congruent to it.
LEMMA NumberCarried ==
  ASSUME NEW ms, Basis(ms), NEW rs, Below(rs, ms)
  PROVE  /\ Carries(rs, Number(ms, rs), ms)
         /\ \A n \in Int : Carries(rs, n, ms) <=> Congruent(n, Number(ms, rs), Product(ms))
<1>1. DOMAIN ms = 1 .. Len(ms) /\ \A i \in 1 .. Len(ms) : ms[i] \in Nat \ {0}
  BY BasisFacts
<1>2. Number(ms, rs) \in Int /\ \A i \in 1 .. Len(ms) : Number(ms, rs) % ms[i] = rs[i]
  BY NumberFacts
<1>3. \A i \in 1 .. Len(ms) : rs[i] % ms[i] = rs[i]
  BY BelowFacts
<1>4. Carries(rs, Number(ms, rs), ms)
  BY <1>1, <1>2, <1>3 DEF Carries, Congruent
<1>5. ASSUME NEW n \in Int PROVE Carries(rs, n, ms) <=> Congruent(n, Number(ms, rs), Product(ms))
  <2>1. Congruent(n, Number(ms, rs), Product(ms)) <=> \A i \in 1 .. Len(ms) : Congruent(n, Number(ms, rs), ms[i])
    BY <1>2, CRTUnique
  <2>2. \A i \in 1 .. Len(ms) : Congruent(n, Number(ms, rs), ms[i]) <=> Congruent(rs[i], n, ms[i])
    BY <1>2, <1>3 DEF Congruent
  <2> QED BY <1>1, <2>1, <2>2 DEF Carries
<1> QED BY <1>4, <1>5

\* A number the residues stand for is the number plus a multiple of the product.
LEMMA CarriedApart ==
  ASSUME NEW ms, Basis(ms), NEW rs, Below(rs, ms), NEW n, Carries(rs, n, ms)
  PROVE  \E k \in Int : n = Number(ms, rs) + k * Product(ms)
<1>1. n \in Int
  BY DEF Carries
<1>2. Number(ms, rs) \in Int /\ Product(ms) \in Nat \ {0}
  BY NumberFacts, ProductInvertible
<1>3. Congruent(n, Number(ms, rs), Product(ms))
  BY <1>1, NumberCarried
<1>4. PICK k \in Int : Apart(n, Number(ms, rs), k, Product(ms))
  BY ONLY <1>1, <1>2, <1>3, CongruentApart
<1> QED BY <1>4 DEF Apart

\* HatInvMod is the inverse of Hat in its tower.
LEMMA HatInvFacts ==
  ASSUME NEW ms, Basis(ms), NEW i \in 1 .. Len(ms)
  PROVE  /\ HatInvMod(ms, i) \in Int /\ HatInvMod(ms, i) \in 0 .. ms[i] - 1 /\ HatInv(ms)[i] = HatInvMod(ms, i)
         /\ Congruent(Hat(ms, i) * HatInvMod(ms, i), 1, ms[i])
<1>1. ms[i] \in Nat \ {0, 1} /\ DOMAIN ms = 1 .. Len(ms)
  BY BasisFacts
<1>2. Hat(ms, i) \in Int /\ IsUnit(Hat(ms, i), ms[i])
  BY HatFacts
<1>3. InvMod(Hat(ms, i), ms[i]) \in 0 .. ms[i] - 1 /\ Congruent(Hat(ms, i) * InvMod(Hat(ms, i), ms[i]), 1, ms[i])
  BY ONLY <1>1, <1>2, InverseFound
<1> QED BY <1>1, <1>3 DEF HatInvMod, HatInv

\* Twisted gives reduced products.
LEMMA TwistedFacts ==
  ASSUME NEW ms, Basis(ms), NEW rs, NEW c, \A i \in 1 .. Len(ms) : rs[i] \in Int /\ c[i] \in Int
  PROVE  /\ Below(Twisted(rs, ms, c), ms)
         /\ \A i \in 1 .. Len(ms) : Congruent(Twisted(rs, ms, c)[i], rs[i] * c[i], ms[i])
<1> DEFINE v == Twisted(rs, ms, c)
<1>1. DOMAIN ms = 1 .. Len(ms) /\ \A i \in 1 .. Len(ms) : ms[i] \in Nat \ {0}
  BY BasisFacts
<1>2. DOMAIN v = 1 .. Len(ms) /\ v = [i \in DOMAIN v |-> v[i]] /\ \A i \in 1 .. Len(ms) : v[i] = (rs[i] * c[i]) % ms[i]
  BY <1>1 DEF Twisted
<1> HIDE DEF v
<1>3. ASSUME NEW i \in 1 .. Len(ms) PROVE v[i] \in 0 .. ms[i] - 1 /\ Congruent(v[i], rs[i] * c[i], ms[i])
  <2>1. rs[i] * c[i] \in Int /\ ms[i] \in Nat \ {0}
    BY <1>1
  <2>2. (rs[i] * c[i]) % ms[i] \in 0 .. ms[i] - 1 /\ Congruent((rs[i] * c[i]) % ms[i], rs[i] * c[i], ms[i])
    BY ONLY <2>1, CongruentRelation
  <2> QED BY ONLY <1>2, <2>2, i \in 1 .. Len(ms)
<1>4. Below(v, ms)
  BY ONLY <1>2, <1>3, BelowMade, Basis(ms)
<1> QED BY <1>3, <1>4 DEF v

\* The terms of Multiples.
LEMMA MultiplesTerms ==
  ASSUME NEW ms, Basis(ms), NEW z, \A i \in 1 .. Len(ms) : z[i] \in Int
  PROVE  \E s \in [1 .. Len(ms) -> Int] :
           Multiples(z, ms) = Sum(s) /\ Multiples(z, ms) \in Int /\ \A i \in 1 .. Len(ms) : s[i] = z[i] * Hat(ms, i)
<1>1. Len(ms) \in Nat /\ DOMAIN ms = 1 .. Len(ms)
  BY BasisFacts
<1>2. \A i \in 1 .. Len(ms) : Hat(ms, i) \in Int
  BY HatFacts
<1> DEFINE s == [i \in 1 .. Len(ms) |-> z[i] * Hat(ms, i)]
<1>3. \A i \in 1 .. Len(ms) : z[i] * Hat(ms, i) \in Int
  BY ONLY <1>2, ProductInteger, \A i \in 1 .. Len(ms) : z[i] \in Int
<1>4. s \in [1 .. Len(ms) -> Int] /\ \A i \in 1 .. Len(ms) : s[i] = z[i] * Hat(ms, i)
  BY ONLY <1>3
<1>5. Multiples(z, ms) = Sum(s)
  BY <1>1 DEF Multiples
<1> HIDE DEF s
<1>6. Sum(s) \in Int
  BY ONLY <1>1, <1>4, SumInteger
<1> QED BY ONLY <1>4, <1>5, <1>6

\* Put together, terms that are right modulo their own modulus make a number
\* right modulo all.
LEMMA MultiplesStand ==
  ASSUME NEW ms, Basis(ms), NEW z, \A i \in 1 .. Len(ms) : z[i] \in Int, NEW n \in Int,
         \A i \in 1 .. Len(ms) : Congruent(z[i] * Hat(ms, i), n, ms[i])
  PROVE  Multiples(z, ms) \in Int /\ Congruent(Multiples(z, ms), n, Product(ms))
<1>1. Len(ms) \in Nat /\ \A i \in 1 .. Len(ms) : ms[i] \in Nat \ {0}
  BY BasisFacts
<1>2. PICK s \in [1 .. Len(ms) -> Int] :
        Multiples(z, ms) = Sum(s) /\ Multiples(z, ms) \in Int /\ \A i \in 1 .. Len(ms) : s[i] = z[i] * Hat(ms, i)
  BY MultiplesTerms
<1>3. ASSUME NEW k \in 1 .. Len(ms) PROVE Congruent(Sum(s), n, ms[k])
  <2>1. ms[k] \in Nat \ {0} /\ \A e : Congruent(e, e, ms[k])
    BY <1>1, CongruentRelation
  <2>2. ASSUME NEW i \in 1 .. Len(ms), i # k PROVE Congruent(s[i], 0, ms[k])
    <3>1. Congruent(Hat(ms, i), 0, ms[k]) /\ Hat(ms, i) \in Int /\ z[i] \in Int
      BY <2>2, HatFacts
    <3>2. Congruent(z[i] * Hat(ms, i), z[i] * 0, ms[k])
      BY ONLY <2>1, <3>1, CongruentProduct, 0 \in Int
    <3>3. z[i] * 0 = 0 /\ s[i] = z[i] * Hat(ms, i)
      BY <1>2, <3>1
    <3> QED BY ONLY <3>2, <3>3
  <2>3. Congruent(Sum(s), s[k], ms[k])
    BY ONLY <1>1, <2>1, <2>2, SumSingle, s \in [1 .. Len(ms) -> Int], k \in 1 .. Len(ms)
  <2>4. Congruent(s[k], n, ms[k])
    BY <1>2
  <2> QED BY ONLY <2>3, <2>4 DEF Congruent
<1>4. Sum(s) \in Int
  BY <1>2
<1>5. Congruent(Sum(s), n, Product(ms))
  BY ONLY <1>3, <1>4, CRTUnique, Basis(ms), n \in Int
<1> QED BY ONLY <1>2, <1>5

\* Their size: below the product for each of them, or half of that.
LEMMA MultiplesBetween ==
  ASSUME NEW ms, Basis(ms), NEW z, \A i \in 1 .. Len(ms) : z[i] \in Int
  PROVE  /\ (\A i \in 1 .. Len(ms) : z[i] \in 0 .. ms[i] - 1) =>
              0 <= Multiples(z, ms) /\ Multiples(z, ms) <= Len(ms) * (Product(ms) - 1)
         /\ (\A i \in 1 .. Len(ms) : -ms[i] <= 2 * z[i] /\ 2 * z[i] <= ms[i]) =>
              -(Len(ms) * Product(ms)) <= 2 * Multiples(z, ms) /\ 2 * Multiples(z, ms) <= Len(ms) * Product(ms)
<1>1. Len(ms) \in Nat /\ \A i \in 1 .. Len(ms) : ms[i] \in Nat \ {0}
  BY BasisFacts
<1>2. PICK s \in [1 .. Len(ms) -> Int] :
        Multiples(z, ms) = Sum(s) /\ Multiples(z, ms) \in Int /\ \A i \in 1 .. Len(ms) : s[i] = z[i] * Hat(ms, i)
  BY MultiplesTerms
<1>3. Product(ms) \in Nat \ {0}
  BY ProductInvertible
<1>4. \A i \in 1 .. Len(ms) : Hat(ms, i) \in Nat \ {0} /\ Hat(ms, i) * ms[i] = Product(ms)
  BY HatFacts
<1>5. ASSUME \A i \in 1 .. Len(ms) : z[i] \in 0 .. ms[i] - 1
      PROVE  0 <= Sum(s) /\ Sum(s) <= Len(ms) * (Product(ms) - 1)
  <2> DEFINE hi == Product(ms) - 1
  <2>1. hi \in Int
    BY <1>3
  <2>2. ASSUME NEW i \in 1 .. Len(ms) PROVE 0 <= s[i] /\ s[i] <= hi
    <3> DEFINE h == Hat(ms, i)
               m == ms[i]
    <3>1. h \in Nat \ {0} /\ m \in Nat \ {0} /\ h * m = Product(ms) /\ z[i] \in 0 .. m - 1 /\ s[i] = z[i] * h
      BY <1>1, <1>2, <1>4, <1>5
    <3> HIDE DEF h, m
    <3>2. z[i] * h <= (m - 1) * h /\ 0 * h <= z[i] * h
      BY ONLY <3>1, Monotone
    <3>3. (m - 1) * h = h * m - h /\ 0 * h = 0 /\ h * m \in Int
      BY ONLY <3>1
    <3> QED BY ONLY <3>1, <3>2, <3>3 DEF hi
  <2> HIDE DEF hi
  <2>3. Len(ms) * 0 <= Sum(s) /\ Sum(s) <= Len(ms) * hi
    BY ONLY <1>1, <2>1, <2>2, SumBetween, s \in [1 .. Len(ms) -> Int], 0 \in Int
  <2>4. Len(ms) * 0 = 0
    BY <1>1
  <2> QED BY ONLY <2>3, <2>4 DEF hi
<1>6. ASSUME \A i \in 1 .. Len(ms) : -ms[i] <= 2 * z[i] /\ 2 * z[i] <= ms[i]
      PROVE  -(Len(ms) * Product(ms)) <= 2 * Sum(s) /\ 2 * Sum(s) <= Len(ms) * Product(ms)
  <2> DEFINE t == [i \in 1 .. Len(ms) |-> 2 * s[i]]
  <2>1. t \in [1 .. Len(ms) -> Int] /\ \A i \in 1 .. Len(ms) : t[i] = 2 * s[i]
    OBVIOUS
  <2> HIDE DEF t
  <2>2. Sum(t) = 2 * Sum(s)
    BY ONLY <1>1, <2>1, SumTimes, s \in [1 .. Len(ms) -> Int], 2 \in Int
  <2>3. ASSUME NEW i \in 1 .. Len(ms) PROVE -Product(ms) <= t[i] /\ t[i] <= Product(ms)
    <3> DEFINE h == Hat(ms, i)
               m == ms[i]
    <3>1. h \in Nat /\ m \in Nat \ {0} /\ h * m = Product(ms) /\ z[i] \in Int /\ s[i] = z[i] * h
          /\ -m <= 2 * z[i] /\ 2 * z[i] <= m
      BY <1>1, <1>2, <1>4, <1>6
    <3> HIDE DEF h, m
    <3>2. (2 * z[i]) * h <= m * h /\ (-m) * h <= (2 * z[i]) * h
      <4>1. 2 * z[i] \in Int /\ -m \in Int /\ m \in Int
        BY ONLY <3>1
      <4> QED BY ONLY <3>1, <4>1, Monotone
    <3>3. (2 * z[i]) * h = 2 * (z[i] * h) /\ m * h = h * m /\ (-m) * h = -(h * m)
      BY ONLY <3>1
    <3> QED BY ONLY <2>1, <3>1, <3>2, <3>3, i \in 1 .. Len(ms)
  <2>4. Len(ms) * (-Product(ms)) <= Sum(t) /\ Sum(t) <= Len(ms) * Product(ms)
    <3>1. -Product(ms) \in Int /\ Product(ms) \in Int
      BY <1>3
    <3> QED BY ONLY <1>1, <2>1, <2>3, <3>1, SumBetween
  <2>5. Len(ms) * (-Product(ms)) = -(Len(ms) * Product(ms))
    BY ONLY <1>1, <1>3
  <2> QED BY ONLY <2>2, <2>4, <2>5
<1> QED BY <1>2, <1>5, <1>6

\* Terms put together modulo p.
LEMMA ReducedMultiples ==
  ASSUME NEW ms, Basis(ms), NEW z, \A i \in 1 .. Len(ms) : z[i] \in Int, NEW p \in Nat \ {0},
         NEW v, \A i \in 1 .. Len(ms) : v[i] \in Int /\ Congruent(v[i], z[i], p),
         NEW s \in [1 .. Len(ms) -> Int], \A i \in 1 .. Len(ms) : s[i] = v[i] * (Hat(ms, i) % p)
  PROVE  Sum(s) \in Int /\ Sum(s) % p \in 0 .. p - 1 /\ Congruent(Sum(s) % p, Multiples(z, ms), p)
<1>1. Len(ms) \in Nat
  BY BasisFacts
<1>2. PICK t \in [1 .. Len(ms) -> Int] :
        Multiples(z, ms) = Sum(t) /\ Multiples(z, ms) \in Int /\ \A i \in 1 .. Len(ms) : t[i] = z[i] * Hat(ms, i)
  BY MultiplesTerms
<1>3. ASSUME NEW i \in 1 .. Len(ms) PROVE Congruent(s[i], t[i], p)
  <2> DEFINE h == Hat(ms, i)
             g == h % p
  <2>1. h \in Int
    BY HatFacts
  <2>2. Congruent(g, h, p) /\ g \in 0 .. p - 1
    BY <2>1, CongruentRelation
  <2>3. g \in Int /\ v[i] \in Int /\ z[i] \in Int /\ Congruent(v[i], z[i], p) /\ s[i] = v[i] * g /\ t[i] = z[i] * h
    BY <1>2, <2>2
  <2> HIDE DEF h, g
  <2>4. Congruent(v[i] * g, z[i] * h, p)
    BY ONLY <2>1, <2>2, <2>3, CongruentProduct, p \in Nat \ {0}
  <2> QED BY ONLY <2>3, <2>4
<1>4. Congruent(Sum(s), Sum(t), p)
  BY ONLY <1>1, <1>3, SumCongruent, p \in Nat \ {0}, s \in [1 .. Len(ms) -> Int], t \in [1 .. Len(ms) -> Int]
<1>5. Sum(s) \in Int
  BY <1>1, SumInteger
<1>6. Sum(s) % p \in 0 .. p - 1 /\ Congruent(Sum(s) % p, Sum(s), p)
  BY <1>5, CongruentRelation
<1> QED BY ONLY <1>2, <1>4, <1>5, <1>6 DEF Congruent

\* Combined is the sum of the multiples of Hat, modulo p.
LEMMA CombinedFacts ==
  ASSUME NEW ms, Basis(ms), NEW z, \A i \in 1 .. Len(ms) : z[i] \in Int, NEW p \in Nat \ {0}
  PROVE  Combined(z, ms, p) \in 0 .. p - 1 /\ Congruent(Combined(z, ms, p), Multiples(z, ms), p)
<1> DEFINE s == [i \in 1 .. Len(ms) |-> z[i] * (Hat(ms, i) % p)]
<1>1. DOMAIN ms = 1 .. Len(ms)
  BY BasisFacts
<1>2. ASSUME NEW i \in 1 .. Len(ms) PROVE z[i] * (Hat(ms, i) % p) \in Int
  <2>1. Hat(ms, i) \in Int
    BY HatFacts
  <2>2. Hat(ms, i) % p \in 0 .. p - 1
    BY <2>1, CongruentRelation
  <2> QED BY <2>2
<1>3. s \in [1 .. Len(ms) -> Int] /\ \A i \in 1 .. Len(ms) : s[i] = z[i] * (Hat(ms, i) % p)
  BY <1>2
<1>4. Combined(z, ms, p) = Sum(s) % p
  BY <1>1 DEF Combined
<1> HIDE DEF s
<1>5. \A i \in 1 .. Len(ms) : Congruent(z[i], z[i], p)
  BY CongruentRelation
<1>6. Sum(s) % p \in 0 .. p - 1 /\ Congruent(Sum(s) % p, Multiples(z, ms), p)
  BY ONLY <1>3, <1>5, ReducedMultiples, Basis(ms), \A i \in 1 .. Len(ms) : z[i] \in Int, p \in Nat \ {0}
<1> QED BY ONLY <1>4, <1>6

-----------------------------------------------------------------------------
(* Switches of one residue.                                                *)

\* A residue below its modulus switches to the residue of what it stands for.
LEMMA SwitchBelow ==
  ASSUME NEW m, Roomy(m), NEW p, Roomy(p), NEW v \in 0 .. m - 1
  PROVE  /\ SwitchEntry(v, m, p) \in 0 .. p - 1 /\ SwitchEntry(v, m, p) = Centre(v, m) % p
         /\ Congruent(SwitchEntry(v, m, p), Centre(v, m), p)
         /\ Centre(v, m) \in Int /\ Congruent(Centre(v, m), v, m) /\ -m <= 2 * Centre(v, m) /\ 2 * Centre(v, m) <= m
<1>1. /\ m \in Nat \ {0, 1} /\ p \in Nat \ {0, 1} /\ p \in Nat \ {0} /\ v \in 0 .. m /\ v \in Int
      /\ \A w \in 0 .. 4 * p : Wrap(w) = w
  BY RoomyFacts
<1>2. /\ SwitchEntry(v, m, p) \in 0 .. p /\ Congruent(SwitchEntry(v, m, p), Centre(v, m), p)
      /\ p <= m => SwitchEntry(v, m, p) = Centre(v, m) % p
  BY <1>1, SwitchEntries
<1>3. Half(m) \in Nat /\ 2 * Half(m) <= m /\ m <= 2 * Half(m) + 1
  BY HalfFacts
<1>4. Centre(v, m) \in Int /\ Congruent(Centre(v, m), v, m)
  BY <1>1, CentreOfEntry
<1>5. -m <= 2 * Centre(v, m) /\ 2 * Centre(v, m) <= m
  BY <1>1, <1>3 DEF Centre
<1>6. SwitchEntry(v, m, p) \in 0 .. p - 1
  <2>1. CASE p <= m
    <3>1. Centre(v, m) % p \in 0 .. p - 1
      BY <1>1, <1>4, CongruentRelation
    <3> QED BY <1>2, <2>1, <3>1
  <2>2. CASE p > m
    <3>1. SwitchEntry(v, m, p) = IF v > Half(m) THEN Wrap(v + (p - m)) ELSE v
      BY <2>2, <1>1 DEF SwitchEntry, EltwiseCmpAdd
    <3>2. v + (p - m) \in 0 .. p - 1 /\ v \in 0 .. p - 1 /\ v + (p - m) \in 0 .. 4 * p
      BY <1>1, <2>2
    <3> QED BY <1>1, <3>1, <3>2
  <2> QED BY <1>1, <2>1, <2>2
<1>7. SwitchEntry(v, m, p) % p = SwitchEntry(v, m, p)
  BY ONLY <1>1, <1>6, Remainders
<1> QED BY <1>2, <1>4, <1>5, <1>6, <1>7 DEF Congruent

-----------------------------------------------------------------------------
(* Conversions.                                                            *)

\* The terms an approximate conversion adds up: centred where the build has
\* reduced noise.
Terms(z, v, ms, reduced) == \A i \in 1 .. Len(ms) : z[i] = IF reduced THEN Centre(v[i], ms[i]) ELSE v[i]

\* The terms are congruent to the entries, and their sum is as large as that
\* of as many towers.
LEMMA TermsFacts ==
  ASSUME NEW ms, Basis(ms), NEW v, Below(v, ms), NEW reduced \in BOOLEAN, NEW z, Terms(z, v, ms, reduced)
  PROVE  /\ \A i \in 1 .. Len(ms) : z[i] \in Int /\ Congruent(z[i], v[i], ms[i])
         /\ Multiples(z, ms) \in Int
         /\ ~reduced => 0 <= Multiples(z, ms) /\ Multiples(z, ms) <= Len(ms) * (Product(ms) - 1)
         /\ reduced => -(Len(ms) * Product(ms)) <= 2 * Multiples(z, ms) /\ 2 * Multiples(z, ms) <= Len(ms) * Product(ms)
<1>1. \A i \in 1 .. Len(ms) : v[i] \in 0 .. ms[i] - 1 /\ v[i] \in Int /\ Roomy(ms[i]) /\ ms[i] \in Nat \ {0}
  BY BasisFacts, BelowFacts
<1>2. ASSUME NEW i \in 1 .. Len(ms)
      PROVE  /\ z[i] \in Int /\ Congruent(z[i], v[i], ms[i])
             /\ ~reduced => z[i] \in 0 .. ms[i] - 1
             /\ reduced => -ms[i] <= 2 * z[i] /\ 2 * z[i] <= ms[i]
  <2>1. z[i] = IF reduced THEN Centre(v[i], ms[i]) ELSE v[i]
    BY DEF Terms
  <2>2. /\ Centre(v[i], ms[i]) \in Int /\ Congruent(Centre(v[i], ms[i]), v[i], ms[i])
        /\ -ms[i] <= 2 * Centre(v[i], ms[i]) /\ 2 * Centre(v[i], ms[i]) <= ms[i]
    BY <1>1, SwitchBelow
  <2>3. Congruent(v[i], v[i], ms[i])
    BY <1>1, CongruentRelation
  <2> QED BY <1>1, <2>1, <2>2, <2>3
<1>3. \A i \in 1 .. Len(ms) : z[i] \in Int
  BY <1>2
<1>4. Multiples(z, ms) \in Int
  BY ONLY <1>3, MultiplesTerms, Basis(ms)
<1>5. ~reduced => 0 <= Multiples(z, ms) /\ Multiples(z, ms) <= Len(ms) * (Product(ms) - 1)
  BY ONLY <1>2, <1>3, MultiplesBetween, Basis(ms)
<1>6. reduced => -(Len(ms) * Product(ms)) <= 2 * Multiples(z, ms) /\ 2 * Multiples(z, ms) <= Len(ms) * Product(ms)
  BY ONLY <1>2, <1>3, MultiplesBetween, Basis(ms)
<1> QED BY ONLY <1>2, <1>4, <1>5, <1>6

\* An approximate conversion carries the number its terms make.
LEMMA ApproxConverts ==
  ASSUME NEW ms, Basis(ms), NEW ps, Basis(ps), NEW v, Below(v, ms), NEW reduced \in BOOLEAN,
         NEW out, out = ApproxSwitched(v, ms, ps, HatMod(ms, ps), reduced)
  PROVE  Below(out, ps) /\ \E z : Terms(z, v, ms, reduced) /\ Carries(out, Multiples(z, ms), ps)
<1> DEFINE z == [i \in 1 .. Len(ms) |-> IF reduced THEN Centre(v[i], ms[i]) ELSE v[i]]
           t(j) == [i \in 1 .. Len(ms) |-> IF reduced THEN SwitchEntry(v[i], ms[i], ps[j]) ELSE v[i]]
           s(j) == [i \in 1 .. Len(ms) |-> t(j)[i] * (Hat(ms, i) % ps[j])]
<1>1. Terms(z, v, ms, reduced)
  BY DEF Terms
<1> HIDE DEF z
<1>2. (\A i \in 1 .. Len(ms) : z[i] \in Int /\ Congruent(z[i], v[i], ms[i])) /\ Multiples(z, ms) \in Int
  BY <1>1, TermsFacts
<1>3. DOMAIN ms = 1 .. Len(ms) /\ DOMAIN ps = 1 .. Len(ps)
      /\ \A j \in 1 .. Len(ps) : ps[j] \in Nat \ {0} /\ Roomy(ps[j])
  BY BasisFacts
<1>4. \A i \in 1 .. Len(ms) : v[i] \in 0 .. ms[i] - 1 /\ v[i] \in Int /\ Roomy(ms[i])
  BY BasisFacts, BelowFacts
<1>5. /\ DOMAIN out = 1 .. Len(ps) /\ out = [j \in DOMAIN out |-> out[j]]
      /\ \A j \in 1 .. Len(ps) : out[j] = Sum(s(j)) % ps[j]
  BY <1>3 DEF ApproxSwitched, HatMod
<1>6. ASSUME NEW j \in 1 .. Len(ps)
      PROVE  out[j] \in 0 .. ps[j] - 1 /\ Congruent(out[j], Multiples(z, ms), ps[j])
  <2> DEFINE u == t(j)
             w == s(j)
  <2>1. \A i \in 1 .. Len(ms) : w[i] = u[i] * (Hat(ms, i) % ps[j])
    OBVIOUS
  <2>2. ASSUME NEW i \in 1 .. Len(ms) PROVE u[i] \in Int /\ Congruent(u[i], z[i], ps[j])
    <3>1. u[i] = IF reduced THEN SwitchEntry(v[i], ms[i], ps[j]) ELSE v[i]
      OBVIOUS
    <3>2. z[i] = IF reduced THEN Centre(v[i], ms[i]) ELSE v[i]
      BY <1>1 DEF Terms
    <3>3. SwitchEntry(v[i], ms[i], ps[j]) \in 0 .. ps[j] - 1 /\ Congruent(SwitchEntry(v[i], ms[i], ps[j]), Centre(v[i], ms[i]), ps[j])
      BY <1>3, <1>4, SwitchBelow
    <3>4. Congruent(v[i], v[i], ps[j]) /\ ps[j] \in Nat
      BY <1>3, CongruentRelation
    <3> HIDE DEF u
    <3> QED BY <1>4, <3>1, <3>2, <3>3, <3>4
  <2>3. w \in [1 .. Len(ms) -> Int]
    <3> SUFFICES ASSUME NEW i \in 1 .. Len(ms) PROVE u[i] * (Hat(ms, i) % ps[j]) \in Int
      OBVIOUS
    <3>1. Hat(ms, i) \in Int /\ ps[j] \in Nat \ {0}
      BY <1>3, HatFacts
    <3>2. Hat(ms, i) % ps[j] \in 0 .. ps[j] - 1
      BY ONLY <3>1, CongruentRelation
    <3>3. Hat(ms, i) % ps[j] \in Int /\ u[i] \in Int
      BY <2>2, <3>2
    <3> HIDE DEF u
    <3> QED BY ONLY <3>3, ProductInteger
  <2>4. out[j] = Sum(w) % ps[j]
    BY <1>5
  <2> HIDE DEF u, w
  <2>5. ps[j] \in Nat \ {0} /\ \A i \in 1 .. Len(ms) : z[i] \in Int
    BY <1>2, <1>3
  <2>6. Sum(w) % ps[j] \in 0 .. ps[j] - 1 /\ Congruent(Sum(w) % ps[j], Multiples(z, ms), ps[j])
    BY ONLY <2>1, <2>2, <2>3, <2>5, ReducedMultiples, Basis(ms)
  <2> QED BY ONLY <2>4, <2>6
<1>7. Below(out, ps)
  BY ONLY <1>5, <1>6, BelowMade, Basis(ps)
<1>8. Carries(out, Multiples(z, ms), ps)
  BY <1>2, <1>3, <1>6 DEF Carries
<1> QED BY <1>1, <1>7, <1>8

\* Residues times the inverses of the other products, put together, are the
\* number again.
LEMMA InvertedTerms ==
  ASSUME NEW ms, Basis(ms), NEW c \in Int, NEW rs, NEW n, Carries(rs, n, ms), \A i \in 1 .. Len(ms) : rs[i] \in Int,
         NEW d, \A i \in 1 .. Len(ms) : d[i] \in Int /\ Congruent(d[i], c * HatInvMod(ms, i), ms[i]),
         NEW z, \A i \in 1 .. Len(ms) : z[i] \in Int /\ Congruent(z[i], rs[i] * d[i], ms[i])
  PROVE  Multiples(z, ms) \in Int /\ Congruent(Multiples(z, ms), c * n, Product(ms))
<1>1. ASSUME NEW i \in 1 .. Len(ms) PROVE Congruent(z[i] * Hat(ms, i), c * n, ms[i])
  <2> DEFINE m == ms[i]
             h == Hat(ms, i)
             g == HatInvMod(ms, i)
             r == rs[i]
  <2>1. m \in Nat \ {0} /\ h \in Int /\ g \in Int /\ Congruent(h * g, 1, m) /\ Congruent(r, n, m) /\ n \in Int /\ r \in Int
    BY BasisFacts, HatFacts, HatInvFacts DEF Carries
  <2>2. d[i] \in Int /\ z[i] \in Int /\ Congruent(d[i], c * g, m) /\ Congruent(z[i], r * d[i], m)
    OBVIOUS
  <2> HIDE DEF m, h, g, r
  <2>3. \A e : Congruent(e, e, m)
    BY ONLY <2>1, CongruentRelation
  <2>4. c * g \in Int /\ r * d[i] \in Int /\ h * g \in Int /\ n * c \in Int /\ r * (c * g) \in Int /\ n * (c * g) \in Int
    BY ONLY <2>1, <2>2, ProductInteger, c \in Int
  <2>5. Congruent(r * d[i], n * (c * g), m)
    BY ONLY <2>1, <2>2, <2>4, CongruentProduct
  <2>6. Congruent(z[i], n * (c * g), m)
    BY ONLY <2>2, <2>5 DEF Congruent
  <2>7. Congruent(z[i] * h, (n * (c * g)) * h, m)
    BY ONLY <2>1, <2>2, <2>3, <2>4, <2>6, CongruentProduct
  <2>8. Congruent((c * n) * (h * g), (c * n) * 1, m)
    <3>1. c * n \in Int /\ 1 \in Int
      BY <2>1
    <3> QED BY ONLY <2>1, <2>3, <2>4, <3>1, CongruentProduct
  <2>9. (n * (c * g)) * h = (c * n) * (h * g) /\ (c * n) * 1 = c * n
    BY ONLY <2>1, c \in Int
  <2> QED BY ONLY <2>7, <2>8, <2>9 DEF Congruent, m, h
<1>2. c * n \in Int
  BY DEF Carries
<1> QED BY ONLY <1>1, <1>2, MultiplesStand, Basis(ms), \A i \in 1 .. Len(ms) : z[i] \in Int

\* Times HatInv, the terms add up to the number and a multiple of the product.
LEMMA InvertedOnce ==
  ASSUME NEW ms, Basis(ms), NEW rs, NEW n, Carries(rs, n, ms), \A i \in 1 .. Len(ms) : rs[i] \in Int,
         NEW z, \A i \in 1 .. Len(ms) : z[i] \in Int /\ Congruent(z[i], rs[i] * HatInv(ms)[i], ms[i])
  PROVE  Multiples(z, ms) \in Int /\ Congruent(Multiples(z, ms), n, Product(ms))
<1> DEFINE c == 1
           d == HatInv(ms)
<1>1. c \in Int /\ n \in Int /\ c * n = n
  BY DEF Carries
<1>2. \A i \in 1 .. Len(ms) : d[i] \in Int /\ Congruent(d[i], c * HatInvMod(ms, i), ms[i])
  <2> SUFFICES ASSUME NEW i \in 1 .. Len(ms)
               PROVE  d[i] \in Int /\ Congruent(d[i], c * HatInvMod(ms, i), ms[i])
    OBVIOUS
  <2>1. HatInv(ms)[i] = HatInvMod(ms, i) /\ HatInvMod(ms, i) \in Int /\ ms[i] \in Nat \ {0}
    BY HatInvFacts, BasisFacts
  <2>2. c * HatInvMod(ms, i) = HatInvMod(ms, i)
    BY <2>1
  <2>3. Congruent(HatInvMod(ms, i), HatInvMod(ms, i), ms[i])
    BY <2>1, CongruentRelation
  <2> QED BY ONLY <2>1, <2>2, <2>3
<1>3. \A i \in 1 .. Len(ms) : z[i] \in Int /\ Congruent(z[i], rs[i] * d[i], ms[i])
  OBVIOUS
<1> HIDE DEF c, d
<1>4. Multiples(z, ms) \in Int /\ Congruent(Multiples(z, ms), c * n, Product(ms))
  BY ONLY <1>1, <1>2, <1>3, InvertedTerms, Basis(ms), Carries(rs, n, ms), \A i \in 1 .. Len(ms) : rs[i] \in Int
<1> QED BY ONLY <1>1, <1>4

\* A number below q and one at most n times as large, congruent to it.
LEMMA FewMultiples ==
  ASSUME NEW q \in Nat \ {0}, NEW n \in Nat \ {0}, NEW e \in 0 .. q - 1, NEW v \in Int, NEW k \in Int, v = e + k * q,
         (0 <= v /\ v <= n * (q - 1)) \/ (-(n * q) <= 2 * v /\ 2 * v <= n * q)
  PROVE  k \in -n .. n /\ (0 <= v => v \in 0 .. n * q - 1 \/ 2 * v <= n * q) /\ (0 <= v /\ v <= n * (q - 1) => v \in 0 .. n * q - 1)
<1>1. n * (q - 1) = n * q - n /\ n * q \in Int /\ k * q \in Int
  OBVIOUS
<1>2. (k - 1) * q = k * q - q /\ (k + 1) * q = k * q + q
  OBVIOUS
<1>3. (-n) * q = -(n * q)
  OBVIOUS
<1>4. k - 1 < n
  <2>1. (k - 1) * q < n * q
    BY ONLY <1>1, <1>2, q \in Nat \ {0}, n \in Nat \ {0}, e \in 0 .. q - 1, v \in Int, v = e + k * q,
         (0 <= v /\ v <= n * (q - 1)) \/ (-(n * q) <= 2 * v /\ 2 * v <= n * q)
  <2> QED BY ONLY <2>1, Cancel, q \in Nat \ {0}, k - 1 \in Int, n \in Int
<1>5. -n < k + 1
  <2>1. (-n) * q < (k + 1) * q
    BY ONLY <1>1, <1>2, <1>3, q \in Nat \ {0}, n \in Nat \ {0}, e \in 0 .. q - 1, v \in Int, v = e + k * q,
         (0 <= v /\ v <= n * (q - 1)) \/ (-(n * q) <= 2 * v /\ 2 * v <= n * q)
  <2> QED BY ONLY <2>1, Cancel, q \in Nat \ {0}, k + 1 \in Int, -n \in Int
<1> QED BY <1>1, <1>4, <1>5

\* ApproxSwitchCRTBasis gives the number and as many multiples of the product
\* as there are towers, at most.
LEMMA ApproxNumber ==
  ASSUME NEW ms, Basis(ms), Len(ms) > 0, NEW ps, Basis(ps), NEW rs, Below(rs, ms), NEW reduced \in BOOLEAN,
         NEW out, out = ApproxSwitchCRTBasis(rs, ms, ps, reduced)
  PROVE  /\ Below(out, ps)
         /\ \E u \in -Len(ms) .. Len(ms) :
              LET v == Number(ms, rs) + u * Product(ms)
              IN  /\ Carries(out, v, ps)
                  /\ IF reduced THEN 2 * Magnitude(v) <= Len(ms) * Product(ms) ELSE v \in 0 .. Len(ms) * Product(ms) - 1
<1> DEFINE y1 == Twisted(rs, ms, HatInv(ms))
           q == Product(ms)
           n == Len(ms)
           e == Number(ms, rs)
<1>1. \A i \in 1 .. n : rs[i] \in Int /\ HatInv(ms)[i] \in Int
  BY HatInvFacts, BelowFacts
<1>2. Below(y1, ms) /\ \A i \in 1 .. n : Congruent(y1[i], rs[i] * HatInv(ms)[i], ms[i])
  BY <1>1, TwistedFacts
<1> HIDE DEF y1
<1>3. out = ApproxSwitched(y1, ms, ps, HatMod(ms, ps), reduced)
  BY DEF ApproxSwitchCRTBasis, y1
<1>4. PICK z : Terms(z, y1, ms, reduced) /\ Carries(out, Multiples(z, ms), ps)
  BY <1>2, <1>3, ApproxConverts
<1>5. Below(out, ps)
  BY <1>2, <1>3, ApproxConverts
<1>6. /\ \A i \in 1 .. n : z[i] \in Int /\ Congruent(z[i], y1[i], ms[i])
      /\ Multiples(z, ms) \in Int
      /\ ~reduced => 0 <= Multiples(z, ms) /\ Multiples(z, ms) <= n * (q - 1)
      /\ reduced => -(n * q) <= 2 * Multiples(z, ms) /\ 2 * Multiples(z, ms) <= n * q
  BY <1>2, <1>4, TermsFacts
<1>7. Carries(rs, e, ms) /\ e \in Int /\ e \in 0 .. q - 1 /\ q \in Nat \ {0} /\ n \in Nat \ {0}
  BY NumberCarried, NumberFacts, ProductInvertible, BasisFacts
<1>8. Congruent(Multiples(z, ms), e, q)
  <2>1. \A i \in 1 .. n : Congruent(z[i], rs[i] * HatInv(ms)[i], ms[i])
    BY <1>2, <1>6 DEF Congruent
  <2> HIDE DEF e
  <2> QED BY <1>1, <1>6, <1>7, <2>1, InvertedOnce
<1> HIDE DEF e, q, n
<1>10. PICK k \in Int : Apart(Multiples(z, ms), e, k, q)
  BY ONLY <1>6, <1>7, <1>8, CongruentApart
<1>11. Multiples(z, ms) = e + k * q
  BY ONLY <1>10 DEF Apart
<1>12. /\ k \in -n .. n
       /\ 0 <= Multiples(z, ms) /\ Multiples(z, ms) <= n * (q - 1) => Multiples(z, ms) \in 0 .. n * q - 1
  BY ONLY <1>6, <1>7, <1>11, FewMultiples, k \in Int, reduced \in BOOLEAN
<1>13. IF reduced THEN 2 * Magnitude(e + k * q) <= n * q ELSE e + k * q \in 0 .. n * q - 1
  BY ONLY <1>6, <1>7, <1>11, <1>12, reduced \in BOOLEAN DEF Magnitude
<1> QED BY <1>4, <1>5, <1>11, <1>12, <1>13 DEF e, q, n

\* An approximate sum in doubles counts the multiples of q up to one half and
\* the error.
LEMMA MaxZero ==
  ASSUME NEW c \in Int
  PROVE  Max({c, 0}) = IF c >= 0 THEN c ELSE 0
<1> DEFINE g == IF c >= 0 THEN c ELSE 0
           Is(h) == h \in {c, 0} /\ \A e \in {c, 0} : h >= e
<1>1. Is(g) /\ \A h : Is(h) => h = g
  OBVIOUS
<1>2. Max({c, 0}) = CHOOSE h : Is(h)
  BY DEF Max
<1> HIDE DEF g, Is
<1>3. (CHOOSE h : Is(h)) = g
  BY ONLY <1>1
<1> QED BY ONLY <1>2, <1>3 DEF g

\* Rounded in a double, a quotient is at most half off, and what the double is.
LEMMA FloorsNear ==
  ASSUME Exactness \in Nat, Exactness > 2, NEW q \in Nat \ {0}, NEW s \in Nat, NEW alpha \in Floors(2 * s + q, 2 * q)
  PROVE  alpha \in Nat /\ AtMostHalf(s - alpha * q, q)
<1> DEFINE E == Exactness
           num == 2 * s + q
           den == 2 * q
<1>1. PICK e \in {-den, den} : alpha = Max({(num * E + e) \div (den * E), 0})
  BY DEF Floors
<1> DEFINE w == num * E + e
           D == den * E
           c == w \div D
<1>2. E \in Nat \ {0} /\ E > 2 /\ num \in Nat /\ den \in Nat \ {0} /\ e \in Int
  BY <1>1
<1>3. num * E = 2 * (s * E) + q * E /\ s * E \in Nat /\ q * E \in Nat /\ D = 2 * (q * E)
  BY ONLY <1>2, q \in Nat \ {0}, s \in Nat
<1>4. 3 * q <= q * E
  <2>1. 3 * q <= E * q
    BY ONLY Monotone, <1>2, 3 \in Int, E \in Int, q \in Nat, 3 <= E
  <2>2. E * q = q * E
    BY ONLY <1>2, q \in Nat
  <2> QED BY ONLY <2>1, <2>2
<1>5. w \in Nat /\ w \in Int /\ D \in Nat \ {0}
  <2>1. e = -(2 * q) \/ e = 2 * q
    BY <1>1
  <2>2. w = 2 * (s * E) + q * E + e
    BY <1>3
  <2>3. w \in Nat
    BY ONLY <1>2, <1>3, <1>4, <2>1, <2>2, q \in Nat \ {0}, s \in Nat
  <2>4. D \in Nat \ {0}
    BY ONLY <1>2, <1>3, <1>4, q \in Nat \ {0}
  <2> QED BY ONLY <2>3, <2>4
<1> HIDE DEF w, D
<1>6. c \in Nat /\ w % D \in 0 .. D - 1 /\ w = D * c + (w % D)
  BY ONLY <1>5, DivNat
<1>7. alpha = c
  <2>1. c \in Int /\ c >= 0
    BY <1>6
  <2>2. alpha = Max({c, 0})
    BY <1>1 DEF w, D
  <2> QED BY ONLY <2>1, <2>2, MaxZero
<1> HIDE DEF c
<1>8. D * c = 2 * (E * (c * q)) /\ c * q \in Nat /\ E * (c * q) \in Nat
  <2>1. D * c = (2 * (q * E)) * c
    BY <1>3
  <2> QED BY ONLY <1>2, <1>6, <2>1, q \in Nat
<1>9. w = 2 * (E * s) + E * q + e
  <2>1. s * E = E * s /\ q * E = E * q
    BY <1>2
  <2> QED BY ONLY <1>3, <2>1 DEF w
<1> DEFINE v == s - c * q
<1>10. v \in Int /\ E * v = E * s - E * (c * q)
  BY ONLY <1>2, <1>8, s \in Nat
<1>11. -(E * q + 2 * q) <= 2 * (E * v) /\ 2 * (E * v) <= E * q + 2 * q
  <2>1. e = -(2 * q) \/ e = 2 * q
    BY <1>1
  <2>2. D = 2 * (E * q) /\ E * q \in Nat /\ E * s \in Nat
    BY ONLY <1>2, <1>3, q \in Nat, s \in Nat
  <2> QED BY ONLY <1>6, <1>8, <1>9, <1>10, <2>1, <2>2, q \in Nat \ {0}, <1>5
<1> HIDE DEF v
<1>12. 2 * E * Magnitude(v) <= (E + 2) * q
  <2>1. (E + 2) * q = E * q + 2 * q
    BY ONLY <1>2, q \in Nat
  <2>2. CASE v < 0
    <3>1. Magnitude(v) = -v
      BY <2>2 DEF Magnitude
    <3>2. 2 * E * (-v) = -(2 * (E * v))
      BY ONLY <1>2, <1>10
    <3> QED BY ONLY <1>11, <2>1, <3>1, <3>2, <1>2, <1>10, q \in Nat
  <2>3. CASE ~(v < 0)
    <3>1. Magnitude(v) = v
      BY <2>3 DEF Magnitude
    <3>2. 2 * E * v = 2 * (E * v)
      BY ONLY <1>2, <1>10
    <3> QED BY ONLY <1>11, <2>1, <3>1, <3>2, <1>2, <1>10, q \in Nat
  <2> QED BY <2>2, <2>3
<1> QED BY ONLY <1>6, <1>7, <1>12 DEF AtMostHalf, v

\* What is at most half of q, up to the error, is a number below q or that
\* less q.
LEMMA HalfNumber ==
  ASSUME Exactness \in Nat, Exactness > 2, NEW q \in Nat \ {0}, NEW e \in 0 .. q - 1, NEW k \in Int,
         AtMostHalf(e - k * q, q)
  PROVE  k \in 0 .. 1
<1> DEFINE E == Exactness
           v == e - k * q
<1>1. E \in Nat /\ E > 2 /\ v \in Int /\ k * q \in Int /\ e \in Int
  OBVIOUS
<1>2. 2 * E * Magnitude(v) <= (E + 2) * q
  BY DEF AtMostHalf
<1>3. (E + 2) * q < (2 * E) * q
  <2>1. (E + 2) * q = E * q + 2 * q /\ (2 * E) * q = E * q + E * q /\ E * q \in Nat
    BY <1>1
  <2>2. 3 * q <= E * q
    BY ONLY Monotone, <1>1, 3 \in Int, E \in Int, q \in Nat, 3 <= E
  <2> QED BY ONLY <2>1, <2>2, q \in Nat \ {0}
<1>4. Magnitude(v) \in Nat /\ -Magnitude(v) <= v /\ v <= Magnitude(v)
  BY <1>1 DEF Magnitude
<1> HIDE DEF v
<1>5. Magnitude(v) < q
  <2>1. 2 * E * Magnitude(v) = Magnitude(v) * (2 * E) /\ (2 * E) * q = q * (2 * E) /\ 2 * E \in Nat \ {0}
        /\ 2 * E * Magnitude(v) \in Int /\ (E + 2) * q \in Int /\ (2 * E) * q \in Int
    BY ONLY <1>1, <1>4, q \in Nat
  <2>2. Magnitude(v) * (2 * E) < q * (2 * E)
    BY ONLY <1>2, <1>3, <2>1
  <2> QED BY ONLY <1>4, <2>1, <2>2, Cancel, q \in Int, Magnitude(v) \in Int
<1>6. -q < v /\ v < q
  BY ONLY <1>1, <1>4, <1>5, q \in Nat
<1>7. k * q < 2 * q /\ (-1) * q < k * q
  BY ONLY <1>1, <1>6, q \in Nat, e \in 0 .. q - 1 DEF v
<1>8. k < 2 /\ -1 < k
  BY ONLY <1>7, Cancel, k \in Int, 2 \in Int, -1 \in Int, q \in Nat \ {0}
<1> QED BY <1>8

\* A switch of the basis keeps the centred number.
LEMMA SwitchedFacts ==
  ASSUME Exactness \in Nat, Exactness > 2, NEW ms, Basis(ms), NEW ps, Basis(ps), NEW rs, Below(rs, ms),
         NEW out \in SwitchedCRTBasis(rs, ms, ps)
  PROVE  /\ Below(out, ps)
         /\ \E k \in 0 .. 1 :
              LET v == Number(ms, rs) - k * Product(ms)
              IN  AtMostHalf(v, Product(ms)) /\ Carries(out, v, ps)
<1> DEFINE y1 == Twisted(rs, ms, HatInv(ms))
           q == Product(ms)
           n == Len(ms)
           e == Number(ms, rs)
           s == Multiples(y1, ms)
<1>1. \A i \in 1 .. n : rs[i] \in Int /\ HatInv(ms)[i] \in Int
  BY HatInvFacts, BelowFacts
<1>2. Below(y1, ms) /\ \A i \in 1 .. n : Congruent(y1[i], rs[i] * HatInv(ms)[i], ms[i])
  BY <1>1, TwistedFacts
<1>3. PICK alpha \in Overflows(y1, ms) :
        out = [j \in DOMAIN ps |-> ModSubFast(Combined(y1, ms, ps[j]), (alpha * Product(ms)) % ps[j], ps[j])]
  BY DEF SwitchedCRTBasis
<1>4. alpha \in Floors(2 * s + q, 2 * q)
  BY <1>3 DEF Overflows
<1> HIDE DEF y1
<1>5. \A i \in 1 .. n : y1[i] \in Int /\ y1[i] \in 0 .. ms[i] - 1
  BY <1>2, BelowFacts
<1>6. Carries(rs, e, ms) /\ e \in Int /\ e \in 0 .. q - 1 /\ q \in Nat \ {0} /\ n \in Nat
  BY NumberCarried, NumberFacts, ProductInvertible, BasisFacts
<1>7. Congruent(s, e, q) /\ s \in Int
  <2> HIDE DEF e
  <2> QED BY <1>1, <1>2, <1>5, <1>6, InvertedOnce
<1>8. s \in Nat
  <2>1. 0 <= s
    BY <1>5, MultiplesBetween
  <2> QED BY <1>7, <2>1
<1> HIDE DEF e, q, n, s
<1>10. PICK l \in Int : Apart(s, e, l, q)
  BY ONLY <1>6, <1>7, CongruentApart
<1>11. alpha \in Nat /\ AtMostHalf(s - alpha * q, q)
  BY ONLY <1>4, <1>6, <1>8, FloorsNear, Exactness \in Nat, Exactness > 2
<1> DEFINE k == alpha - l
<1>12. s - alpha * q = e - k * q /\ k \in Int /\ alpha * q \in Int
  <2>1. s = e + l * q
    BY <1>10 DEF Apart
  <2> QED BY ONLY <1>6, <1>7, <1>11, <2>1, l \in Int
<1> HIDE DEF k
<1>13. k \in 0 .. 1
  BY ONLY <1>6, <1>11, <1>12, HalfNumber, Exactness \in Nat, Exactness > 2
<1>14. DOMAIN ps = 1 .. Len(ps) /\ \A j \in 1 .. Len(ps) : ps[j] \in Nat \ {0} /\ Roomy(ps[j])
  BY BasisFacts
<1>15. DOMAIN out = 1 .. Len(ps) /\ out = [j \in DOMAIN out |-> out[j]]
  BY <1>3, <1>14
<1>16. ASSUME NEW j \in 1 .. Len(ps)
       PROVE  out[j] \in 0 .. ps[j] - 1 /\ Congruent(out[j], s - alpha * q, ps[j])
  <2> DEFINE p == ps[j]
             b == Combined(y1, ms, p)
             c == (alpha * q) % p
  <2>1. p \in Nat \ {0} /\ 4 * p < 2^W /\ out[j] = ModSubFast(b, c, p)
    BY <1>3, <1>14 DEF Roomy, q
  <2> HIDE DEF p
  <2>2. b \in 0 .. p - 1 /\ Congruent(b, s, p)
    BY <1>5, <2>1, CombinedFacts DEF s, n
  <2>3. c \in 0 .. p - 1 /\ Congruent(c, alpha * q, p)
    BY ONLY <1>12, <2>1, CongruentRelation
  <2> HIDE DEF b, c
  <2>4. ModSubFast(b, c, p) = (b - c) % p
    BY ONLY <2>1, <2>2, <2>3, SumsFit
  <2>5. b - c \in Int /\ b \in Int /\ c \in Int
    BY ONLY <2>1, <2>2, <2>3
  <2>6. (b - c) % p \in 0 .. p - 1 /\ Congruent((b - c) % p, b - c, p)
    BY ONLY <2>1, <2>5, CongruentRelation
  <2>7. Congruent(b - c, s - alpha * q, p)
    BY ONLY <1>7, <1>12, <2>1, <2>2, <2>3, <2>5, CongruentDifference
  <2>8. Congruent((b - c) % p, s - alpha * q, p)
    BY ONLY <2>6, <2>7 DEF Congruent
  <2> QED BY ONLY <2>1, <2>4, <2>6, <2>8 DEF p
<1>17. Below(out, ps)
  BY ONLY <1>15, <1>16, BelowMade, Basis(ps)
<1>18. Carries(out, e - k * q, ps)
  <2>1. e - k * q \in Int
    BY ONLY <1>6, <1>12
  <2> QED BY ONLY <1>12, <1>14, <1>16, <2>1 DEF Carries
<1> QED BY <1>11, <1>12, <1>13, <1>17, <1>18 DEF e, q

-----------------------------------------------------------------------------
(* Bases put together and taken apart.                                     *)

\* What a step has to leave behind for residues to stand for a number.
LEMMA BelowStands ==
  ASSUME NEW ms, Basis(ms), NEW rs, Below(rs, ms), NEW n, Carries(rs, n, ms)
  PROVE  Len(rs) = Len(ms) /\ \A i \in DOMAIN ms : n % ms[i] = rs[i]
<1>1. DOMAIN ms = 1 .. Len(ms)
  BY BasisFacts
<1>2. Len(rs) = Len(ms) /\ \A i \in 1 .. Len(ms) : rs[i] % ms[i] = rs[i]
  BY BelowFacts
<1> QED BY <1>1, <1>2 DEF Carries, Congruent

\* Both parts of a basis are one, in either order.
LEMMA BasisParts ==
  ASSUME NEW ms \in Seq(Nat), NEW ps \in Seq(Nat), Basis(ms \o ps)
  PROVE  /\ Basis(ms) /\ Basis(ps) /\ Basis(ps \o ms)
         /\ Len(ms \o ps) = Len(ms) + Len(ps) /\ Len(ms) \in Nat /\ Len(ps) \in Nat
         /\ \A i \in 1 .. Len(ms) : (ms \o ps)[i] = ms[i]
         /\ \A j \in 1 .. Len(ps) : (ms \o ps)[Len(ms) + j] = ps[j]
         /\ \A i \in 1 .. Len(ms), j \in 1 .. Len(ps) : IsUnit(ms[i], ps[j]) /\ IsUnit(ps[j], ms[i])
<1> DEFINE n == Len(ms)
           k == Len(ps)
           both == ms \o ps
           swapped == ps \o ms
<1>1. n \in Nat /\ k \in Nat /\ DOMAIN ms = 1 .. n /\ DOMAIN ps = 1 .. k
  BY LenProperties
<1>2. both \in Seq(Nat) /\ Len(both) = n + k /\ \A i \in 1 .. n + k : both[i] = IF i <= n THEN ms[i] ELSE ps[i - n]
  BY ConcatProperties
<1>3. swapped \in Seq(Nat) /\ Len(swapped) = k + n /\ \A i \in 1 .. k + n : swapped[i] = IF i <= k THEN ps[i] ELSE ms[i - k]
  BY ConcatProperties
<1>4. DOMAIN both = 1 .. n + k /\ DOMAIN swapped = 1 .. k + n
  BY <1>2, <1>3, LenProperties
<1>5. \A i \in 1 .. n : i \in 1 .. n + k /\ both[i] = ms[i]
  BY <1>1, <1>2
<1>6. \A j \in 1 .. k : n + j \in 1 .. n + k /\ both[n + j] = ps[j]
  <2> SUFFICES ASSUME NEW j \in 1 .. k PROVE n + j \in 1 .. n + k /\ both[n + j] = ps[j]
    OBVIOUS
  <2>1. n + j \in 1 .. n + k /\ ~(n + j <= n) /\ (n + j) - n = j
    BY <1>1
  <2> QED BY ONLY <1>2, <2>1
<1> HIDE DEF n, k, both, swapped
<1>7. /\ \A i \in 1 .. n + k : Roomy(both[i]) /\ both[i] % 2 = 1
      /\ \A i, j \in 1 .. n + k : i # j => IsUnit(both[i], both[j])
  BY <1>4 DEF Basis, both
<1>8. \A i \in 1 .. n : Roomy(ms[i]) /\ ms[i] % 2 = 1
  BY ONLY <1>5, <1>7
<1>9. \A j \in 1 .. k : Roomy(ps[j]) /\ ps[j] % 2 = 1
  BY ONLY <1>6, <1>7
<1>10. \A i, j \in 1 .. n : i # j => IsUnit(ms[i], ms[j])
  BY ONLY <1>5, <1>7
<1>11. \A i, j \in 1 .. k : i # j => IsUnit(ps[i], ps[j])
  <2> SUFFICES ASSUME NEW i \in 1 .. k, NEW j \in 1 .. k, i # j PROVE IsUnit(ps[i], ps[j])
    OBVIOUS
  <2>1. n + i # n + j
    BY <1>1
  <2> QED BY ONLY <1>6, <1>7, <2>1, i \in 1 .. k, j \in 1 .. k
<1>12. \A i \in 1 .. n, j \in 1 .. k : IsUnit(ms[i], ps[j]) /\ IsUnit(ps[j], ms[i])
  <2> SUFFICES ASSUME NEW i \in 1 .. n, NEW j \in 1 .. k PROVE IsUnit(ms[i], ps[j]) /\ IsUnit(ps[j], ms[i])
    OBVIOUS
  <2>1. i # n + j
    BY <1>1
  <2> QED BY ONLY <1>5, <1>6, <1>7, <2>1, i \in 1 .. n, j \in 1 .. k
<1>13. Basis(ms) /\ Basis(ps)
  BY <1>1, <1>8, <1>9, <1>10, <1>11 DEF Basis, n, k
<1>14. ASSUME NEW i \in 1 .. k + n
       PROVE  \/ i \in 1 .. k /\ swapped[i] = ps[i]
              \/ i - k \in 1 .. n /\ swapped[i] = ms[i - k] /\ ~(i \in 1 .. k)
  BY <1>1, <1>3
<1>15. \A i \in 1 .. k + n : Roomy(swapped[i]) /\ swapped[i] % 2 = 1
  BY ONLY <1>8, <1>9, <1>14
<1>16. ASSUME NEW i \in 1 .. k + n, NEW j \in 1 .. k + n, i # j PROVE IsUnit(swapped[i], swapped[j])
  <2>1. CASE i \in 1 .. k /\ j \in 1 .. k
    BY ONLY <1>11, <1>14, <1>16, <2>1
  <2>2. CASE i \in 1 .. k /\ j \notin 1 .. k
    BY ONLY <1>12, <1>14, <1>16, <2>2
  <2>3. CASE i \notin 1 .. k /\ j \in 1 .. k
    BY ONLY <1>12, <1>14, <1>16, <2>3
  <2>4. CASE i \notin 1 .. k /\ j \notin 1 .. k
    <3>1. i - k # j - k
      BY <1>1, <1>16
    <3>2. i - k \in 1 .. n /\ swapped[i] = ms[i - k] /\ j - k \in 1 .. n /\ swapped[j] = ms[j - k]
      BY ONLY <1>14, <1>16, <2>4
    <3> QED BY ONLY <1>10, <3>1, <3>2
  <2> QED BY <2>1, <2>2, <2>3, <2>4
<1>17. Basis(swapped)
  BY ONLY <1>3, <1>4, <1>15, <1>16 DEF Basis
<1> QED BY <1>1, <1>2, <1>5, <1>6, <1>12, <1>13, <1>17 DEF n, k, both, swapped

\* Residues put together carry what both parts do.
LEMMA BelowJoins ==
  ASSUME NEW ms \in Seq(Nat), NEW ps \in Seq(Nat), Basis(ms \o ps), NEW rs, Below(rs, ms), NEW ss, Below(ss, ps)
  PROVE  /\ Below(rs \o ss, ms \o ps)
         /\ \A n : Carries(rs, n, ms) /\ Carries(ss, n, ps) => Carries(rs \o ss, n, ms \o ps)
<1> DEFINE l == Len(ms)
           k == Len(ps)
           both == ms \o ps
           v == rs \o ss
<1>1. /\ Basis(ms) /\ Basis(ps) /\ Len(both) = l + k /\ l \in Nat /\ k \in Nat
      /\ \A i \in 1 .. l : both[i] = ms[i]
      /\ \A j \in 1 .. k : both[l + j] = ps[j]
  BY BasisParts
<1>2. /\ rs \in Seq(Nat) /\ Len(rs) = l /\ \A i \in 1 .. l : rs[i] \in 0 .. ms[i] - 1
      /\ ss \in Seq(Nat) /\ Len(ss) = k /\ \A i \in 1 .. k : ss[i] \in 0 .. ps[i] - 1
  BY <1>1, BelowFacts
<1>3. v \in Seq(Nat) /\ Len(v) = l + k /\ \A i \in 1 .. l + k : v[i] = IF i <= l THEN rs[i] ELSE ss[i - l]
  <2> DEFINE A == Nat
  <2>1. rs \in Seq(A) /\ ss \in Seq(A) /\ Len(rs) = l /\ Len(ss) = k
    BY <1>2
  <2> HIDE DEF A, l, k
  <2>2. v \in Seq(A) /\ Len(v) = l + k /\ \A i \in 1 .. l + k : v[i] = IF i <= l THEN rs[i] ELSE ss[i - l]
    <3>1. /\ rs \o ss \in Seq(A) /\ Len(rs \o ss) = Len(rs) + Len(ss)
          /\ \A i \in 1 .. Len(rs) + Len(ss) : (rs \o ss)[i] = IF i <= Len(rs) THEN rs[i] ELSE ss[i - Len(rs)]
      BY ONLY <2>1, ConcatProperties
    <3> QED BY ONLY <2>1, <3>1
  <2> QED BY ONLY <2>2 DEF A
<1>4. DOMAIN both = 1 .. l + k /\ DOMAIN ms = 1 .. l /\ DOMAIN ps = 1 .. k
  BY <1>1, BasisFacts
<1> HIDE DEF l, k, both, v
<1>5. ASSUME NEW i \in 1 .. l + k
      PROVE  \/ i \in 1 .. l /\ both[i] = ms[i] /\ v[i] = rs[i]
             \/ i - l \in 1 .. k /\ both[i] = ps[i - l] /\ v[i] = ss[i - l]
  <2>1. CASE i <= l
    <3>1. i \in 1 .. l
      BY <1>1, <2>1
    <3> QED BY ONLY <1>1, <1>3, <2>1, <3>1, i \in 1 .. l + k
  <2>2. CASE ~(i <= l)
    <3>1. i - l \in 1 .. k /\ l + (i - l) = i
      BY <1>1, <2>2
    <3> QED BY ONLY <1>1, <1>3, <2>2, <3>1, i \in 1 .. l + k
  <2> QED BY <2>1, <2>2
<1>6. \A i \in 1 .. l + k : v[i] \in 0 .. both[i] - 1
  BY ONLY <1>2, <1>5
<1>7. Below(v, both)
  BY ONLY <1>1, <1>3, <1>4, <1>6 DEF Below
<1>8. \A n : Carries(rs, n, ms) /\ Carries(ss, n, ps) => Carries(v, n, both)
  <2> SUFFICES ASSUME NEW n, Carries(rs, n, ms), Carries(ss, n, ps) PROVE Carries(v, n, both)
    OBVIOUS
  <2>1. n \in Int /\ (\A i \in 1 .. l : Congruent(rs[i], n, ms[i])) /\ \A i \in 1 .. k : Congruent(ss[i], n, ps[i])
    BY ONLY <1>4, Carries(rs, n, ms), Carries(ss, n, ps) DEF Carries
  <2>2. \A i \in 1 .. l + k : Congruent(v[i], n, both[i])
    BY ONLY <1>5, <2>1
  <2> QED BY ONLY <1>4, <2>1, <2>2 DEF Carries
<1> QED BY ONLY <1>7, <1>8 DEF both, v

\* And can be taken apart again.
LEMMA BelowSplits ==
  ASSUME NEW ms \in Seq(Nat), NEW ps \in Seq(Nat), Basis(ms \o ps), NEW rs, Below(rs, ms \o ps)
  PROVE  /\ Below(SubSeq(rs, 1, Len(ms)), ms) /\ Below(SubSeq(rs, Len(ms) + 1, Len(ms \o ps)), ps)
         /\ \A i \in 1 .. Len(ms) : SubSeq(rs, 1, Len(ms))[i] = rs[i]
         /\ \A j \in 1 .. Len(ps) : SubSeq(rs, Len(ms) + 1, Len(ms \o ps))[j] = rs[Len(ms) + j]
         /\ \A n : Carries(rs, n, ms \o ps) =>
              Carries(SubSeq(rs, 1, Len(ms)), n, ms) /\ Carries(SubSeq(rs, Len(ms) + 1, Len(ms \o ps)), n, ps)
<1> DEFINE l == Len(ms)
           k == Len(ps)
           both == ms \o ps
           u == SubSeq(rs, 1, l)
           v == SubSeq(rs, l + 1, Len(both))
<1>1. /\ Basis(ms) /\ Basis(ps) /\ Len(both) = l + k /\ l \in Nat /\ k \in Nat
      /\ \A i \in 1 .. l : both[i] = ms[i]
      /\ \A j \in 1 .. k : both[l + j] = ps[j]
  BY BasisParts
<1>2. DOMAIN both = 1 .. l + k /\ DOMAIN ms = 1 .. l /\ DOMAIN ps = 1 .. k
  BY <1>1, BasisFacts
<1>3. rs \in Seq(Nat) /\ Len(rs) = l + k /\ DOMAIN rs = 1 .. l + k
      /\ \A i \in 1 .. l + k : rs[i] \in 0 .. both[i] - 1 /\ rs[i] \in Nat
  BY <1>1, BelowFacts
<1>4. u \in Seq(Nat) /\ Len(u) = l /\ \A i \in 1 .. l : u[i] = rs[i]
  <2>1. \A i \in 1 .. l : rs[i] \in Nat
    BY <1>1, <1>3
  <2>2. u \in Seq(Nat) /\ Len(u) = (IF 1 <= l THEN l - 1 + 1 ELSE 0) /\ \A i \in 1 .. l - 1 + 1 : u[i] = rs[1 + i - 1]
    BY ONLY <1>1, <2>1, SubSeqProperties, 1 \in Int, l \in Int
  <2> QED BY ONLY <1>1, <2>2
<1>5. v \in Seq(Nat) /\ Len(v) = k /\ \A j \in 1 .. k : v[j] = rs[l + j]
  <2>1. \A i \in l + 1 .. l + k : rs[i] \in Nat
    BY <1>1, <1>3
  <2> DEFINE lo == l + 1
             hi == l + k
  <2>2. lo \in Int /\ hi \in Int /\ hi - lo + 1 = k
    BY <1>1
  <2>3. SubSeq(rs, lo, hi) \in Seq(Nat) /\ Len(SubSeq(rs, lo, hi)) = (IF lo <= hi THEN hi - lo + 1 ELSE 0)
        /\ \A i \in 1 .. hi - lo + 1 : SubSeq(rs, lo, hi)[i] = rs[lo + i - 1]
    <3> HIDE DEF lo, hi
    <3>1. \A i \in lo .. hi : rs[i] \in Nat
      BY <2>1 DEF lo, hi
    <3> QED BY ONLY <2>2, <3>1, SubSeqProperties
  <2>4. v = SubSeq(rs, lo, hi)
    BY <1>1
  <2>5. \A j \in 1 .. k : lo + j - 1 = l + j
    BY <1>1
  <2>6. (IF lo <= hi THEN k ELSE 0) = k
    BY <1>1
  <2> HIDE DEF lo, hi, v
  <2> QED BY ONLY <2>2, <2>3, <2>4, <2>5, <2>6
<1> HIDE DEF l, k, both, u, v
<1>6. \A j \in 1 .. k : l + j \in 1 .. l + k
  BY <1>1
<1>7. \A i \in 1 .. l : i \in 1 .. l + k
  BY <1>1
<1>8. \A i \in 1 .. l : u[i] \in 0 .. ms[i] - 1
  BY ONLY <1>1, <1>3, <1>4, <1>7
<1>9. \A j \in 1 .. k : v[j] \in 0 .. ps[j] - 1
  BY ONLY <1>1, <1>3, <1>5, <1>6
<1>10. Below(u, ms) /\ Below(v, ps)
  BY ONLY <1>2, <1>4, <1>5, <1>8, <1>9 DEF Below, l, k
<1>11. ASSUME NEW n, Carries(rs, n, both) PROVE Carries(u, n, ms) /\ Carries(v, n, ps)
  <2>1. n \in Int /\ \A i \in 1 .. l + k : Congruent(rs[i], n, both[i])
    BY ONLY <1>2, <1>11 DEF Carries
  <2>2. \A i \in 1 .. l : Congruent(u[i], n, ms[i])
    BY ONLY <1>1, <1>4, <1>7, <2>1
  <2>3. \A j \in 1 .. k : Congruent(v[j], n, ps[j])
    BY ONLY <1>1, <1>5, <1>6, <2>1
  <2> QED BY ONLY <1>2, <2>1, <2>2, <2>3 DEF Carries
<1> QED BY <1>4, <1>5, <1>10, <1>11 DEF l, k, both, u, v

\* The last modulus of a basis, and the others.
LEMMA LastFacts ==
  ASSUME NEW ms, Basis(ms), Len(ms) > 0
  PROVE  /\ Basis(Front(ms)) /\ Len(Front(ms)) = Len(ms) - 1 /\ Len(ms) \in 1 .. Len(ms)
         /\ \A i \in 1 .. Len(ms) - 1 : Front(ms)[i] = ms[i]
         /\ Product(ms) = Product(Front(ms)) * ms[Len(ms)]
<1> DEFINE n == Len(ms)
           fs == Front(ms)
<1>1. /\ n \in Nat /\ ms \in [1 .. n -> Nat] /\ DOMAIN ms = 1 .. n
      /\ \A i \in 1 .. n : Roomy(ms[i]) /\ ms[i] \in Nat /\ ms[i] % 2 = 1
      /\ \A i, j \in 1 .. n : i # j => IsUnit(ms[i], ms[j])
  BY BasisFacts
<1>2. fs = SubSeq(ms, 1, n - 1)
  BY DEF Front
<1>3. fs \in Seq(Nat) /\ Len(fs) = n - 1 /\ \A i \in 1 .. n - 1 : fs[i] = ms[i]
  <2> DEFINE hi == n - 1
  <2>1. hi \in Int /\ \A i \in 1 .. hi : ms[i] \in Nat
    BY <1>1
  <2> HIDE DEF hi
  <2>2. SubSeq(ms, 1, hi) \in Seq(Nat) /\ Len(SubSeq(ms, 1, hi)) = (IF 1 <= hi THEN hi - 1 + 1 ELSE 0)
        /\ \A i \in 1 .. hi - 1 + 1 : SubSeq(ms, 1, hi)[i] = ms[1 + i - 1]
    BY ONLY <2>1, SubSeqProperties, 1 \in Int
  <2>3. (IF 1 <= hi THEN hi - 1 + 1 ELSE 0) = hi /\ hi - 1 + 1 = hi /\ \A i \in 1 .. hi : 1 + i - 1 = i
    BY <1>1 DEF hi
  <2> HIDE DEF fs
  <2> QED BY ONLY <1>2, <2>2, <2>3 DEF hi
<1>4. DOMAIN fs = 1 .. n - 1
  BY <1>3, LenProperties
<1>5. \A i \in 1 .. n - 1 : i \in 1 .. n
  BY <1>1
<1>6. Basis(fs)
  <2> HIDE DEF fs, n
  <2>1. \A i \in DOMAIN fs : Roomy(fs[i]) /\ fs[i] % 2 = 1
    BY ONLY <1>1, <1>3, <1>4, <1>5
  <2>2. \A i, j \in DOMAIN fs : i # j => IsUnit(fs[i], fs[j])
    BY ONLY <1>1, <1>3, <1>4, <1>5
  <2> QED BY ONLY <1>3, <2>1, <2>2 DEF Basis
<1>7. Product(ms) = Product(fs) * ms[n]
  <2>1. /\ Product(SubSeq(ms, 1, n)) = Product(ms)
        /\ \A k \in 1 .. n : Product(SubSeq(ms, 1, k)) = Product(SubSeq(ms, 1, k - 1)) * ms[k]
    BY ONLY <1>1, ProductSteps
  <2>2. n \in 1 .. n
    BY <1>1
  <2> HIDE DEF fs
  <2> QED BY ONLY <1>2, <2>1, <2>2
<1> QED BY <1>1, <1>3, <1>6, <1>7

-----------------------------------------------------------------------------
(* The conversions of multiplication.                                      *)

\* Montgomery's: a multiple of q makes the terms divisible by mt, and the
\* quotient is the number, less q at most once.
LEMMA MontgomeryBounds ==
  ASSUME NEW q \in Nat \ {0}, NEW n \in Nat \ {0}, NEW h \in Nat \ {0}, n <= h, NEW s \in Int, 0 <= s, s <= n * (q - 1),
         NEW c \in -h .. h - 1, NEW z \in Int, s + c * q = (2 * h) * z,
         NEW e \in 0 .. q - 1, NEW k \in Int, z = e - k * q
  PROVE  k \in 0 .. 1 /\ z >= -(q \div 2) /\ (2 * h) * (2 * z - q) <= 2 * n * q
<1>1. n * (q - 1) = n * q - n /\ n * q \in Int /\ h * q \in Int /\ c * q \in Int /\ h * z \in Int /\ k * q \in Int
  OBVIOUS
<1>2. (2 * h) * z = 2 * (h * z) /\ h * (2 * z) = 2 * (h * z) /\ h * (-q) = -(h * q)
  OBVIOUS
<1>3. (-h) * q <= c * q /\ c * q <= (h - 1) * q /\ n * q <= h * q
  BY ONLY Monotone, -h \in Int, h - 1 \in Int, c \in Int, n \in Int, h \in Int, q \in Nat, c \in -h .. h - 1, n <= h, h \in Nat
<1>4. (-h) * q = -(h * q) /\ (h - 1) * q = h * q - q
  OBVIOUS
<1>5. -q <= 2 * z
  <2>1. (-q) * h <= (2 * z) * h
    <3>1. (-q) * h = -(h * q) /\ (2 * z) * h = 2 * (h * z)
      OBVIOUS
    <3> QED BY ONLY <1>1, <1>2, <1>3, <1>4, <3>1, 0 <= s, s \in Int, s + c * q = (2 * h) * z
  <2> QED BY ONLY <2>1, CancelLE, -q \in Int, 2 * z \in Int, h \in Nat \ {0}
<1>6. z < q
  <2>1. z * (2 * h) < q * (2 * h)
    <3>1. z * (2 * h) = 2 * (h * z) /\ q * (2 * h) = 2 * (h * q)
      OBVIOUS
    <3> QED BY ONLY <1>1, <1>2, <1>3, <1>4, <3>1, s <= n * (q - 1), s \in Int, s + c * q = (2 * h) * z, n \in Nat \ {0}, q \in Nat
  <2> QED BY ONLY <2>1, Cancel, z \in Int, q \in Int, 2 * h \in Nat \ {0}
<1>7. z >= -(q \div 2)
  <2>1. q \div 2 \in Nat /\ q < 2 * (q \div 2) + 2
    OBVIOUS
  <2> QED BY ONLY <1>5, <2>1, z \in Int, q \in Nat
<1>8. (2 * h) * (2 * z - q) <= 2 * n * q
  <2>1. (2 * h) * (2 * z - q) = 4 * (h * z) - 2 * (h * q) /\ 2 * n * q = 2 * (n * q)
    OBVIOUS
  <2> QED BY ONLY <1>1, <1>2, <1>3, <1>4, <2>1, s <= n * (q - 1), s \in Int, s + c * q = (2 * h) * z, n \in Nat \ {0}, q \in Nat
<1>9. k * q < 2 * q /\ (-1) * q < k * q
  BY ONLY <1>1, <1>5, <1>6, z = e - k * q, e \in 0 .. q - 1, q \in Nat, z \in Int
<1>10. k < 2 /\ -1 < k
  BY ONLY <1>9, Cancel, k \in Int, 2 \in Int, -1 \in Int, q \in Nat \ {0}
<1> QED BY ONLY <1>7, <1>8, <1>10, k \in Int

\* Sums and differences of entries, as the native integers reduce them.
LEMMA RoomySums ==
  ASSUME NEW m, Roomy(m), NEW C \in 0 .. m - 1, NEW b \in 0 .. m - 1
  PROVE  /\ ModAddFast(C, b, m) = (C + b) % m /\ ModSubFast(C, b, m) = (C - b) % m
         /\ C \in Int /\ b \in Int
<1>1. m \in Nat \ {0} /\ 4 * m < 2^W
  BY DEF Roomy
<1>2. ModAddFast(C, b, m) = (C + b) % m /\ ModSubFast(C, b, m) = (C - b) % m
  BY ONLY <1>1, SumsFit, C \in 0 .. m - 1, b \in 0 .. m - 1
<1> QED BY ONLY <1>1, <1>2, C \in 0 .. m - 1, b \in 0 .. m - 1

\* mtilde halves.
LEMMA MtildeFacts ==
  ASSUME BasisAssumption
  PROVE  \E h \in Nat \ {0} : /\ mtilde = 2 * h /\ mtilde \div 2 = h /\ Len(Q) <= h /\ mtilde \in Nat \ {0, 1}
                              /\ \A m \in Nat \ {0, 1} : m % 2 = 1 => IsUnit(mtilde, m) /\ IsUnit(m, mtilde)
<1>1. PICK k \in 0 .. W : mtilde = 2^k
  BY DEF BasisAssumption, IsPowerOfTwo
<1>2. 2 * Len(Q) <= mtilde /\ Len(Q) > 1 /\ Len(Q) \in Nat
  BY LenProperties DEF BasisAssumption
<1>3. W \in Nat /\ 2^0 = 1 /\ (\A i \in 0 .. W : 2^i \in Nat \ {0}) /\ \A i \in 1 .. W : 2^i = 2 * 2^(i - 1)
  BY PowersOfTwo
<1>4. k \in 1 .. W
  <2>1. k # 0
    <3> SUFFICES ASSUME k = 0 PROVE FALSE
      OBVIOUS
    <3>1. mtilde = 1
      BY ONLY <1>1, <1>3, k = 0
    <3> QED BY ONLY <1>2, <3>1
  <2> QED BY ONLY <1>3, <2>1, k \in 0 .. W
<1>5. k - 1 \in 0 .. W
  BY <1>3, <1>4
<1> DEFINE h == 2^(k - 1)
<1>6. h \in Nat \ {0} /\ mtilde = 2 * h
  BY <1>1, <1>3, <1>4, <1>5
<1> HIDE DEF h
<1>7. mtilde \div 2 = h /\ Len(Q) <= h /\ mtilde \in Nat \ {0, 1}
  BY ONLY <1>2, <1>6
<1>8. \A m \in Nat \ {0, 1} : m % 2 = 1 => IsUnit(mtilde, m) /\ IsUnit(m, mtilde)
  BY ONLY <1>1, PowerInvertible
<1> QED BY <1>6, <1>7, <1>8

\* FastBaseConvqToBskMontgomery gives the number, or it less the product: the
\* multiple of mtilde that is added makes the division by mtilde exact.
LEMMA MontgomeryFacts ==
  ASSUME BasisAssumption, NEW ms, Basis(ms), Len(ms) = Len(Q), NEW ps, Basis(ps), NEW rs, Below(rs, ms),
         NEW v, v = Twisted(rs, ms, [i \in DOMAIN ms |-> mtilde * HatInvMod(ms, i)]),
         NEW c, c = (Combined(v, ms, mtilde) * ((-InvMod(Product(ms), mtilde)) % mtilde)) % mtilde,
         NEW r, \A j \in 1 .. Len(ps) : r[j] = IF c >= mtilde \div 2 THEN c + (ps[j] - mtilde) ELSE c,
         NEW out, out = [j \in DOMAIN ps |->
           (ModAddFast((r[j] * Product(ms)) % ps[j], Combined(v, ms, ps[j]), ps[j]) * InvMod(mtilde, ps[j])) % ps[j]]
  PROVE  /\ Below(out, ps)
         /\ \E k \in 0 .. 1 :
              LET z == Number(ms, rs) - k * Product(ms)
              IN  /\ z >= -(Product(ms) \div 2) /\ mtilde * (2 * z - Product(ms)) <= 2 * Len(ms) * Product(ms)
                  /\ Carries(out, z, ps)
<1> DEFINE q == Product(ms)
           n == Len(ms)
           e == Number(ms, rs)
           s == Multiples(v, ms)
           d == [i \in DOMAIN ms |-> mtilde * HatInvMod(ms, i)]
           f == InvMod(q, mtilde)
<1>1. PICK h \in Nat \ {0} : /\ mtilde = 2 * h /\ mtilde \div 2 = h /\ n <= h /\ mtilde \in Nat \ {0, 1}
                             /\ \A m \in Nat \ {0, 1} : m % 2 = 1 => IsUnit(mtilde, m) /\ IsUnit(m, mtilde)
  BY MtildeFacts
<1>2. DOMAIN ms = 1 .. n /\ n \in Nat /\ \A i \in 1 .. n : ms[i] \in Nat \ {0, 1} /\ ms[i] \in Nat \ {0} /\ ms[i] % 2 = 1
  BY BasisFacts
<1>3. n \in Nat \ {0}
  BY <1>2 DEF BasisAssumption
<1>4. ASSUME NEW i \in 1 .. n
      PROVE  d[i] \in Int /\ Congruent(d[i], mtilde * HatInvMod(ms, i), ms[i]) /\ rs[i] \in Int
  <2>1. d[i] = mtilde * HatInvMod(ms, i) /\ HatInvMod(ms, i) \in Int /\ rs[i] \in Int
    BY <1>2, HatInvFacts, BelowFacts
  <2>2. Congruent(mtilde * HatInvMod(ms, i), mtilde * HatInvMod(ms, i), ms[i])
    BY <1>2, CongruentRelation
  <2>3. mtilde * HatInvMod(ms, i) \in Int
    BY ONLY <1>1, <2>1
  <2> HIDE DEF d
  <2> QED BY ONLY <2>1, <2>2, <2>3
<1>5. v = Twisted(rs, ms, d)
  OBVIOUS
<1> HIDE DEF d, q
<1>6. Below(v, ms) /\ \A i \in 1 .. n : Congruent(v[i], rs[i] * d[i], ms[i])
  BY ONLY <1>4, <1>5, TwistedFacts, Basis(ms)
<1>7. \A i \in 1 .. n : v[i] \in 0 .. ms[i] - 1 /\ v[i] \in Int
  BY <1>6, BelowFacts
<1>8. Carries(rs, e, ms) /\ e \in Int /\ e \in 0 .. q - 1 /\ q \in Nat \ {0} /\ q \in Int
  BY NumberCarried, NumberFacts, ProductInvertible DEF q
<1>9. s \in Int /\ Congruent(s, mtilde * e, q)
  <2>1. mtilde \in Int
    BY <1>1
  <2> HIDE DEF e, s
  <2>2. Multiples(v, ms) \in Int /\ Congruent(Multiples(v, ms), mtilde * e, Product(ms))
    BY ONLY <1>4, <1>6, <1>7, <1>8, <2>1, InvertedTerms, Basis(ms)
  <2> QED BY ONLY <2>2 DEF s, q
<1>10. 0 <= s /\ s <= n * (q - 1)
  BY <1>7, MultiplesBetween DEF q
<1>11. IsUnit(q, mtilde)
  <2>1. mtilde \in Nat \ {0} /\ \A i \in 1 .. n : IsUnit(ms[i], mtilde)
    BY <1>1, <1>2
  <2> QED BY ONLY <2>1, ProductInvertible, Basis(ms) DEF q
<1>12. f \in Int /\ Congruent(q * f, 1, mtilde)
  <2>1. f \in 0 .. mtilde - 1 /\ Congruent(q * f, 1, mtilde)
    BY ONLY <1>1, <1>8, <1>11, InverseFound
  <2> QED BY <1>1, <2>1
<1> HIDE DEF s, e, f, n
<1> DEFINE b == Combined(v, ms, mtilde)
           g == (-f) % mtilde
<1>13. mtilde \in Nat \ {0} /\ mtilde \in Int /\ \A w : Congruent(w, w, mtilde)
  <2>1. mtilde \in Nat \ {0}
    BY <1>1
  <2> QED BY <2>1, CongruentRelation
<1>14. b \in 0 .. mtilde - 1 /\ Congruent(b, s, mtilde)
  BY ONLY <1>7, <1>13, CombinedFacts, Basis(ms) DEF s, n
<1>15. g \in 0 .. mtilde - 1 /\ Congruent(g, -f, mtilde)
  <2>1. -f \in Int
    BY <1>12
  <2> QED BY ONLY <1>13, <2>1, CongruentRelation
<1>16. c = (b * g) % mtilde
  BY DEF q, f
<1> HIDE DEF b, g
<1>17. c \in 0 .. mtilde - 1 /\ Congruent(c * q, -s, mtilde) /\ c \in Int
  <2>1. b \in Int /\ g \in Int /\ -f \in Int
    BY <1>12, <1>13, <1>14, <1>15
  <2>2. b * g \in Int /\ s * (-f) \in Int /\ q * f \in Int /\ -s \in Int
    BY ONLY <1>8, <1>9, <1>12, <2>1
  <2>3. c \in 0 .. mtilde - 1 /\ Congruent(c, b * g, mtilde)
    BY ONLY <1>13, <1>16, <2>2, CongruentRelation
  <2>4. c \in Int
    BY ONLY <1>13, <2>3
  <2>5. Congruent(b * g, s * (-f), mtilde)
    BY ONLY <1>9, <1>13, <1>14, <1>15, <2>1, CongruentProduct
  <2>6. Congruent(c, s * (-f), mtilde)
    BY ONLY <2>3, <2>5 DEF Congruent
  <2>7. Congruent(c * q, (s * (-f)) * q, mtilde)
    BY ONLY <1>8, <1>13, <2>2, <2>4, <2>6, CongruentProduct
  <2>8. Congruent((-s) * (q * f), (-s) * 1, mtilde)
    BY ONLY <1>12, <1>13, <2>2, CongruentProduct, 1 \in Int
  <2>9. (s * (-f)) * q = (-s) * (q * f) /\ (-s) * 1 = -s
    BY ONLY <1>8, <1>9, <1>12
  <2> QED BY ONLY <2>3, <2>4, <2>7, <2>8, <2>9 DEF Congruent
<1> DEFINE cc == IF c >= h THEN c - mtilde ELSE c
<1>18. cc \in -h .. h - 1 /\ cc \in Int /\ Congruent(cc * q, -s, mtilde)
  <2>1. cc \in -h .. h - 1 /\ cc \in Int
    BY ONLY <1>1, <1>17
  <2>2. Congruent(cc, c, mtilde)
    <3>1. c - mtilde = c + (-1) * mtilde /\ c - mtilde \in Int
      BY ONLY <1>13, <1>17
    <3>2. Apart(c - mtilde, c, -1, mtilde)
      BY ONLY <3>1 DEF Apart
    <3>3. Congruent(c - mtilde, c, mtilde)
      BY ONLY <1>13, <1>17, <3>1, <3>2, ApartCongruent, -1 \in Int
    <3> QED BY ONLY <1>13, <3>3
  <2> HIDE DEF cc
  <2>3. Congruent(cc * q, c * q, mtilde)
    BY ONLY <1>8, <1>13, <1>17, <2>1, <2>2, CongruentProduct
  <2> QED BY ONLY <1>17, <2>1, <2>3 DEF Congruent
<1>19. ASSUME NEW j \in 1 .. Len(ps) PROVE r[j] \in Int /\ Congruent(r[j], cc, ps[j]) /\ ps[j] \in Nat \ {0}
  <2> DEFINE p == ps[j]
  <2>1. p \in Nat \ {0} /\ r[j] = (IF c >= h THEN c + (p - mtilde) ELSE c)
    BY <1>1, BasisFacts
  <2> HIDE DEF p
  <2>2. c + (p - mtilde) = (c - mtilde) + 1 * p /\ c - mtilde \in Int /\ c + (p - mtilde) \in Int
    BY ONLY <1>13, <1>17, <2>1
  <2>3. Apart(c + (p - mtilde), c - mtilde, 1, p)
    BY ONLY <2>2 DEF Apart
  <2>4. Congruent(c + (p - mtilde), c - mtilde, p) /\ Congruent(c, c, p)
    BY ONLY <1>17, <2>1, <2>2, <2>3, ApartCongruent, CongruentRelation, 1 \in Int
  <2> QED BY ONLY <1>17, <2>1, <2>2, <2>4 DEF p
<1> HIDE DEF cc
<1>20. PICK z \in Int : s + cc * q = mtilde * z
  <2>1. cc * q \in Int /\ -s \in Int
    BY ONLY <1>8, <1>9, <1>18
  <2>2. PICK z \in Int : Apart(cc * q, -s, z, mtilde)
    BY ONLY <1>13, <1>18, <2>1, CongruentApart
  <2>3. s + cc * q = mtilde * z
    BY ONLY <1>9, <1>13, <2>1, <2>2 DEF Apart
  <2> QED BY <2>3
<1>21. Congruent(z, e, q)
  <2>1. \A w : Congruent(w, w, q)
    BY <1>8, CongruentRelation
  <2>2. Apart(mtilde * z, s, cc, q) /\ mtilde * z \in Int /\ mtilde * e \in Int
    BY ONLY <1>8, <1>9, <1>13, <1>18, <1>20 DEF Apart
  <2>3. Congruent(mtilde * z, s, q)
    BY ONLY <1>8, <1>9, <1>18, <2>2, ApartCongruent
  <2>4. Congruent(mtilde * z, mtilde * e, q)
    BY ONLY <1>9, <2>3 DEF Congruent
  <2>5. IsUnit(mtilde, q)
    <3>1. q \in Nat \ {0} /\ mtilde \in Nat \ {0}
      BY <1>8, <1>13
    <3> QED BY ONLY <1>11, <3>1, InvertibleSwaps
  <2> QED BY ONLY <1>8, <1>13, <2>4, <2>5, InvertibleCancels, z \in Int
<1>22. PICK l \in Int : Apart(z, e, l, q)
  BY ONLY <1>8, <1>21, CongruentApart, z \in Int
<1> DEFINE k == -l
<1>23. z = e - k * q /\ k \in Int
  BY ONLY <1>8, <1>22 DEF Apart
<1> HIDE DEF k
<1>24. k \in 0 .. 1 /\ z >= -(q \div 2) /\ mtilde * (2 * z - q) <= 2 * n * q
  BY ONLY <1>1, <1>3, <1>8, <1>9, <1>10, <1>18, <1>20, <1>23, MontgomeryBounds
<1>25. DOMAIN ps = 1 .. Len(ps) /\ \A j \in 1 .. Len(ps) : ps[j] \in Nat \ {0} /\ ps[j] \in Nat \ {0, 1} /\ Roomy(ps[j]) /\ ps[j] % 2 = 1
  BY BasisFacts
<1>26. /\ DOMAIN out = 1 .. Len(ps) /\ out = [j \in DOMAIN out |-> out[j]]
       /\ \A j \in 1 .. Len(ps) : out[j] =
            (ModAddFast((r[j] * q) % ps[j], Combined(v, ms, ps[j]), ps[j]) * InvMod(mtilde, ps[j])) % ps[j]
  BY <1>25 DEF q
<1>27. ASSUME NEW j \in 1 .. Len(ps) PROVE out[j] \in 0 .. ps[j] - 1 /\ Congruent(out[j], z, ps[j])
  <2> DEFINE p == ps[j]
             i1 == (r[j] * q) % p
             i2 == Combined(v, ms, p)
             i3 == InvMod(mtilde, p)
  <2>1. /\ p \in Nat \ {0} /\ p \in Nat \ {0, 1} /\ 4 * p < 2^W /\ p % 2 = 1
        /\ out[j] = (ModAddFast(i1, i2, p) * i3) % p
    BY <1>25, <1>26 DEF Roomy
  <2>2. r[j] \in Int /\ Congruent(r[j], cc, p)
    BY <1>19
  <2>21. Roomy(p)
    BY <1>25
  <2> HIDE DEF p
  <2>3. \A w : Congruent(w, w, p)
    BY ONLY <2>1, CongruentRelation
  <2>4. r[j] * q \in Int /\ cc * q \in Int
    BY ONLY <1>8, <1>18, <2>2
  <2>5. i1 \in 0 .. p - 1 /\ Congruent(i1, r[j] * q, p)
    BY ONLY <2>1, <2>4, CongruentRelation
  <2>6. Congruent(r[j] * q, cc * q, p)
    BY ONLY <1>8, <1>18, <2>1, <2>2, <2>3, CongruentProduct
  <2>7. i2 \in 0 .. p - 1 /\ Congruent(i2, s, p)
    BY ONLY <1>7, <2>1, CombinedFacts, Basis(ms) DEF s, n
  <2> HIDE DEF i1, i2
  <2>8. ModAddFast(i1, i2, p) = (i1 + i2) % p /\ i1 \in Int /\ i2 \in Int
    BY ONLY <2>21, <2>5, <2>7, RoomySums
  <2>9. Congruent(i1, cc * q, p)
    BY ONLY <2>5, <2>6 DEF Congruent
  <2>10. Congruent(i1 + i2, cc * q + s, p)
    BY ONLY <1>9, <2>1, <2>4, <2>7, <2>8, <2>9, CongruentSum
  <2>11. i1 + i2 \in Int /\ cc * q + s = mtilde * z /\ mtilde * z \in Int
    BY ONLY <1>9, <1>13, <1>20, <2>4, <2>8
  <2> DEFINE w == (i1 + i2) % p
  <2>12. w \in 0 .. p - 1 /\ Congruent(w, i1 + i2, p)
    BY ONLY <2>1, <2>11, CongruentRelation
  <2> HIDE DEF w
  <2>13. w \in Int /\ Congruent(w, mtilde * z, p)
    BY ONLY <2>1, <2>10, <2>11, <2>12 DEF Congruent
  <2>14. i3 \in Int /\ Congruent(mtilde * i3, 1, p)
    <3>1. IsUnit(mtilde, p)
      BY <1>1, <2>1
    <3>2. i3 \in 0 .. p - 1 /\ Congruent(mtilde * i3, 1, p)
      BY ONLY <1>13, <2>1, <3>1, InverseFound
    <3> QED BY <2>1, <3>2
  <2> HIDE DEF i3
  <2>15. Congruent(w * i3, (mtilde * z) * i3, p)
    BY ONLY <2>1, <2>3, <2>11, <2>13, <2>14, CongruentProduct
  <2>16. Congruent(z * (mtilde * i3), z * 1, p)
    <3>1. mtilde * i3 \in Int /\ 1 \in Int
      BY <1>13, <2>14
    <3> QED BY ONLY <2>1, <2>3, <2>14, <3>1, CongruentProduct, z \in Int
  <2>17. (mtilde * z) * i3 = z * (mtilde * i3) /\ z * 1 = z /\ w * i3 \in Int
    BY ONLY <1>13, <2>13, <2>14, z \in Int
  <2>18. (w * i3) % p \in 0 .. p - 1 /\ Congruent((w * i3) % p, w * i3, p)
    BY ONLY <2>1, <2>17, CongruentRelation
  <2>19. out[j] = (w * i3) % p
    BY ONLY <2>1, <2>8 DEF w
  <2>20. Congruent(out[j], z, p)
    BY ONLY <2>15, <2>16, <2>17, <2>18, <2>19 DEF Congruent
  <2> QED BY ONLY <2>18, <2>19, <2>20 DEF p
<1>28. Below(out, ps)
  BY ONLY <1>26, <1>27, BelowMade, Basis(ps)
<1>29. Carries(out, e - k * q, ps)
  BY ONLY <1>23, <1>25, <1>27, z \in Int DEF Carries
<1> QED BY <1>23, <1>24, <1>28, <1>29 DEF e, q, n

-----------------------------------------------------------------------------
(* Shenoy and Kumaresan's conversion, from the basis with a redundant      *)
(* modulus.                                                                *)

\* The size of a number bounds it both ways.
LEMMA MagnitudeBounds ==
  ASSUME NEW w \in Int
  PROVE  Magnitude(w) \in Nat /\ w <= Magnitude(w) /\ -w <= Magnitude(w) /\ Magnitude(w) \in {w, -w}
  BY DEF Magnitude

\* A number less than half the modulus in size is the centred residue of it.
LEMMA CentreFound ==
  ASSUME NEW m \in Nat \ {0}, NEW e \in 0 .. m - 1, NEW w \in Int, NEW j \in Int, w = e + j * m,
         2 * Magnitude(w) < m
  PROVE  Centre(e, m) = w
<1>1. 2 * w < m /\ -(2 * w) < m
  BY MagnitudeBounds
<1>2. j * m = w - e /\ j * m \in Int
  OBVIOUS
<1>3. j * m < 1 * m /\ (-2) * m < j * m
  <2>1. 1 * m = m /\ (-2) * m = -(2 * m)
    OBVIOUS
  <2>2. w - e < m
    BY ONLY <1>1, m \in Nat \ {0}, e \in 0 .. m - 1, w \in Int
  <2>3. -(2 * m) < w - e
    BY ONLY <1>1, m \in Nat \ {0}, e \in 0 .. m - 1, w \in Int
  <2> QED BY ONLY <1>2, <2>1, <2>2, <2>3
<1>4. j < 1 /\ -2 < j
  BY ONLY <1>3, Cancel, j \in Int, m \in Nat \ {0}, 1 \in Int, -2 \in Int
<1>5. m = 2 * (m \div 2) + (m % 2) /\ m \div 2 \in Int /\ m % 2 \in 0 .. 1
  OBVIOUS
<1> DEFINE g == m \div 2
           r == m % 2
<1> HIDE DEF g, r
<1>6. CASE j = 0
  <2>1. w = e
    <3>1. 0 * m = 0
      OBVIOUS
    <3> QED BY <1>6, <3>1
  <2>2. ~(e > m \div 2)
    <3>1. 2 * e < 2 * g + r /\ g \in Int /\ r \in 0 .. 1
      BY <1>1, <1>5, <2>1 DEF g, r
    <3>2. ~(e > g)
      BY ONLY <3>1, e \in 0 .. m - 1, m \in Nat
    <3> QED BY ONLY <3>2 DEF g
  <2> QED BY <2>1, <2>2 DEF Centre, Half
<1>7. CASE j = -1
  <2>1. w = e - m
    <3>1. (-1) * m = -m
      OBVIOUS
    <3> QED BY <1>7, <3>1
  <2>2. e > m \div 2
    BY <1>1, <1>5, <2>1
  <2> QED BY <2>1, <2>2 DEF Centre, Half
<1> QED BY <1>4, <1>6, <1>7

\* The number of multiples of p to take away, from the sizes.
LEMMA CountFits ==
  ASSUME NEW p \in Nat \ {0}, NEW n \in Nat, NEW s \in Int, 0 <= s, s <= n * (p - 1), NEW w \in Int,
         NEW k \in Int, s = w + k * p, NEW c \in Nat, NEW h \in Nat,
         Magnitude(w) < (h - n) * p, Magnitude(w) < (c + 1) * p
  PROVE  k \in -h .. h /\ k >= -c
<1>1. n * (p - 1) = n * p - n /\ (h - n) * p = h * p - n * p /\ (c + 1) * p = c * p + p /\ n * p \in Nat /\ h * p \in Nat
      /\ c * p \in Nat /\ k * p \in Int
  OBVIOUS
<1>2. Magnitude(w) \in Nat /\ w <= Magnitude(w) /\ -w <= Magnitude(w)
  BY MagnitudeBounds
<1>3. k * p < h * p
  BY ONLY <1>1, <1>2, s <= n * (p - 1), s = w + k * p, s \in Int, w \in Int, n \in Nat, Magnitude(w) < (h - n) * p
<1>4. (-h) * p < k * p /\ (-(c + 1)) * p < k * p
  <2>1. (-h) * p = -(h * p) /\ (-(c + 1)) * p = -(c * p + p)
    OBVIOUS
  <2>2. -(h * p) < k * p
    BY ONLY <1>1, <1>2, 0 <= s, s = w + k * p, s \in Int, w \in Int, Magnitude(w) < (h - n) * p
  <2>3. -(c * p + p) < k * p
    BY ONLY <1>1, <1>2, 0 <= s, s = w + k * p, s \in Int, w \in Int, Magnitude(w) < (c + 1) * p, p \in Nat
  <2> QED BY ONLY <2>1, <2>2, <2>3
<1>5. -h \in Int /\ -(c + 1) \in Int
  OBVIOUS
<1>6. k < h /\ -h < k /\ -(c + 1) < k
  BY ONLY <1>3, <1>4, <1>5, Cancel, k \in Int, h \in Int, p \in Nat \ {0}
<1> QED BY <1>6

\* The count as the redundant modulus has it.
LEMMA CountFound ==
  ASSUME NEW h \in Nat, NEW m, m = 2 * h + 1, NEW k \in -h .. h, NEW C \in 0 .. m - 1, Congruent(C, k, m)
  PROVE  C = IF k < 0 THEN k + m ELSE k
<1> DEFINE b == IF k < 0 THEN k + m ELSE k
<1>1. m \in Nat \ {0} /\ b \in 0 .. m - 1 /\ k \in Int /\ C \in Int
  OBVIOUS
<1>2. Apart(k, b, 0, m) \/ Apart(k, b, -1, m)
  <2>1. 0 * m = 0 /\ (-1) * m = -m
    BY <1>1
  <2> QED BY <2>1, <1>1 DEF Apart
<1> HIDE DEF b
<1>3. Congruent(k, b, m)
  <2>1. 0 \in Int /\ -1 \in Int /\ b \in Int
    BY <1>1
  <2> QED BY ONLY <1>1, <1>2, <2>1, ApartCongruent
<1>4. Congruent(C, b, m)
  BY ONLY <1>3, Congruent(C, k, m) DEF Congruent
<1>5. C = b
  BY ONLY <1>1, <1>4, CongruentRelation, C \in 0 .. m - 1
<1> QED BY <1>5 DEF b

\* Taking the redundant modulus from the count in a modulus the count does
\* not fall below.
LEMMA CountReduced ==
  ASSUME NEW h \in Nat, NEW m, m = 2 * h + 1, 4 * m < 2^W, NEW k \in -h .. h, NEW q, Roomy(q), k >= -q
  PROVE  LET C == IF k < 0 THEN k + m ELSE k
             u == IF C > m \div 2 THEN ModSubFast(C, m, q) ELSE C
         IN  u \in Int /\ Congruent(u, k, q)
<1>1. m \in Nat /\ m \div 2 = h /\ q \in Nat \ {0} /\ 4 * q < 2^W /\ k \in Int /\ q \in Int
  BY DEF Roomy
<1>2. CASE k < 0
  <2>1. k + m > h /\ k + m < m /\ (k + m) + q - m = k + q /\ k + m \in Int
    BY <1>1, <1>2
  <2>2. k + q \in 0 .. q - 1
    BY <1>1, <1>2
  <2>3. 2^W \in Nat \ {0} /\ 4 * q < 2^W
    BY <1>1, WordSize
  <2>4. Wrap(k + q) = k + q
    <3> DEFINE z == k + q
               ww == 2^W
    <3>1. z \in 0 .. ww - 1 /\ ww \in Nat \ {0}
      BY <1>1, <2>2, <2>3
    <3> HIDE DEF z, ww
    <3>2. z % ww = z
      BY ONLY <3>1, Remainders
    <3> QED BY <3>2 DEF Wrap, z, ww
  <2>5. ModSubFast(k + m, m, q) = k + q
    BY <2>1, <2>4 DEF ModSubFast
  <2>6. Congruent(k + q, k, q)
    <3>1. Apart(k + q, k, 1, q) /\ k + q \in Int /\ 1 \in Int
      BY <1>1 DEF Apart
    <3> QED BY ONLY <1>1, <3>1, ApartCongruent
  <2> QED BY <1>1, <1>2, <2>1, <2>2, <2>5, <2>6
<1>3. CASE ~(k < 0)
  <2>1. ~(k > m \div 2)
    BY <1>1
  <2>2. Congruent(k, k, q)
    BY <1>1, CongruentRelation
  <2> QED BY <1>1, <1>3, <2>1, <2>2
<1> QED BY <1>2, <1>3

\* A number small enough for its multiples to be counted modulo k, and small
\* for the moduli ps; the count, and the residues it corrects.
HasRoom(w, ms, k)   == Magnitude(w) < (k \div 2 - Len(ms)) * Product(ms)
HasRooms(w, ms, ps) == \A j \in 1 .. Len(ps) : Magnitude(w) < (ps[j] + 1) * Product(ms)
Count(v, ms, k, r)  == (ModSubFast(Combined(v, ms, k), r, k) * InvMod(Product(ms), k)) % k
Counted(v, ms, k, c, ps) ==
  [j \in DOMAIN ps |-> LET u == IF c > k \div 2 THEN ModSubFast(c, k, ps[j]) ELSE c
                       IN  ModSubFast(Combined(v, ms, ps[j]), (u * Product(ms)) % ps[j], ps[j])]

\* Taken from the combination of the terms as often as counted, multiples of
\* the product leave the number the residues of basis and redundant modulus
\* carry, in a modulus p that the number is small for.
LEMMA ShenoyFacts ==
  ASSUME NEW ms \in Seq(Nat), NEW k \in Nat, Basis(Append(ms, k)), Len(ms) > 0,
         NEW ps, Basis(ps),
         NEW rs, Below(rs, Append(ms, k)), NEW w, Carries(rs, w, Append(ms, k)),
         HasRoom(w, ms, k), HasRooms(w, ms, ps),
         NEW y1, y1 = Twisted(rs, ms, HatInv(ms)),
         NEW C, C = Count(y1, ms, k, rs[Len(Append(ms, k))]),
         NEW out, out = Counted(y1, ms, k, C, ps)
  PROVE  /\ Below(out, ps) /\ Carries(out, w, ps)
         /\ Centre(Number(Append(ms, k), rs), Product(Append(ms, k))) = w
<1> DEFINE both == Append(ms, k)
           n == Len(ms)
           q == Product(ms)
           s == Multiples(y1, ms)
           h == k \div 2
           e == Number(both, rs)
           g == Product(both)
           last == <<k>>
<1>1. both = ms \o last
  <2> DEFINE A == Nat
  <2>1. ms \in Seq(A) /\ k \in A
    OBVIOUS
  <2> HIDE DEF A
  <2> QED BY ONLY <2>1, AppendIsConcat
<1>2. last \in Seq(Nat) /\ Len(last) = 1 /\ last[1] = k
  OBVIOUS
<1> HIDE DEF last
<1>3. /\ Basis(ms) /\ Basis(last) /\ Len(both) = n + 1 /\ n \in Nat
      /\ \A i \in 1 .. n : both[i] = ms[i] /\ IsUnit(ms[i], k)
      /\ both[n + 1] = k
  <2>1. Basis(ms \o last)
    BY <1>1
  <2>2. /\ Basis(ms) /\ Basis(last)
        /\ Len(ms \o last) = Len(ms) + Len(last) /\ Len(ms) \in Nat /\ Len(last) \in Nat
        /\ \A i \in 1 .. Len(ms) : (ms \o last)[i] = ms[i]
        /\ \A j \in 1 .. Len(last) : (ms \o last)[Len(ms) + j] = last[j]
        /\ \A i \in 1 .. Len(ms), j \in 1 .. Len(last) : IsUnit(ms[i], last[j]) /\ IsUnit(last[j], ms[i])
    BY ONLY <1>2, <2>1, BasisParts, ms \in Seq(Nat)
  <2>3. 1 \in 1 .. 1
    OBVIOUS
  <2> HIDE DEF both
  <2> QED BY ONLY <1>1, <1>2, <2>2, <2>3
<1> HIDE DEF both
<1>4. Basis(both) /\ Below(rs, both) /\ Carries(rs, w, both) /\ Len(rs) = n + 1
  <2>1. Basis(both) /\ Below(rs, both) /\ Carries(rs, w, both)
    BY DEF both
  <2> QED BY ONLY <1>3, <2>1, BelowFacts
<1>5. /\ DOMAIN both = 1 .. n + 1 /\ DOMAIN ms = 1 .. n
      /\ \A i \in 1 .. n + 1 : Roomy(both[i]) /\ both[i] % 2 = 1 /\ both[i] \in Nat \ {0} /\ both[i] \in Nat \ {0, 1}
  BY ONLY <1>3, <1>4, BasisFacts
<1>6. w \in Int /\ \A i \in 1 .. n + 1 : rs[i] \in Int /\ rs[i] \in 0 .. both[i] - 1 /\ Congruent(rs[i], w, both[i])
  BY ONLY <1>3, <1>4, <1>5, BelowFacts DEF Carries
<1>7. n + 1 \in 1 .. n + 1 /\ \A i \in 1 .. n : i \in 1 .. n + 1
  BY <1>3
<1>8. Roomy(k) /\ k % 2 = 1 /\ k \in Nat \ {0} /\ k \in Nat \ {0, 1} /\ 4 * k < 2^W
  BY ONLY <1>3, <1>5, <1>7 DEF Roomy
<1>9. k = 2 * h + 1 /\ h \in Nat
  BY <1>8
<1>10. Carries(rs, w, ms)
  BY ONLY <1>3, <1>5, <1>6, <1>7 DEF Carries
<1>11. \A i \in 1 .. n : rs[i] \in Int /\ HatInv(ms)[i] \in Int
  BY ONLY <1>3, <1>6, <1>7, HatInvFacts
<1>12. Below(y1, ms) /\ \A i \in 1 .. n : Congruent(y1[i], rs[i] * HatInv(ms)[i], ms[i])
  BY <1>3, <1>11, TwistedFacts
<1>13. \A i \in 1 .. n : y1[i] \in Int /\ y1[i] \in 0 .. ms[i] - 1
  BY ONLY <1>3, <1>12, BelowFacts
<1>14. s \in Int /\ Congruent(s, w, q)
  BY ONLY <1>3, <1>10, <1>11, <1>12, <1>13, InvertedOnce DEF s, q
<1>15. 0 <= s /\ s <= n * (q - 1)
  BY ONLY <1>3, <1>13, MultiplesBetween DEF s, q
<1>16. q \in Nat \ {0} /\ q \in Int /\ IsUnit(q, k)
  BY ONLY <1>3, <1>8, ProductInvertible DEF q
<1>17. Magnitude(w) < (h - n) * q /\ \A j \in 1 .. Len(ps) : Magnitude(w) < (ps[j] + 1) * q
  BY DEF HasRoom, HasRooms
<1>18. \A p \in Nat \ {0} : Combined(y1, ms, p) \in 0 .. p - 1 /\ Congruent(Combined(y1, ms, p), s, p)
  BY ONLY <1>3, <1>13, CombinedFacts DEF s
<1>19. rs[n + 1] \in 0 .. k - 1 /\ Congruent(rs[n + 1], w, k) /\ rs[Len(Append(ms, k))] = rs[n + 1]
  BY ONLY <1>3, <1>6, <1>7 DEF both
<1> HIDE DEF s, q, h
<1>20. PICK k0 \in Int : s = w + k0 * q
  BY ONLY <1>6, <1>14, <1>16, CongruentApart DEF Apart
<1>21. C \in 0 .. k - 1 /\ Congruent(C, k0, k)
  <2> DEFINE i1 == Combined(y1, ms, k)
             i2 == rs[n + 1]
             i3 == InvMod(q, k)
             d == (i1 - i2) % k
  <2>1. i1 \in 0 .. k - 1 /\ Congruent(i1, s, k) /\ i2 \in 0 .. k - 1 /\ Congruent(i2, w, k)
    BY ONLY <1>8, <1>18, <1>19
  <2>2. C = (ModSubFast(i1, i2, k) * i3) % k
    BY <1>19 DEF q, Count
  <2>3. i3 \in 0 .. k - 1 /\ Congruent(q * i3, 1, k)
    BY ONLY <1>8, <1>16, InverseFound
  <2> HIDE DEF i1, i2, i3
  <2>4. ModSubFast(i1, i2, k) = d /\ i1 \in Int /\ i2 \in Int
    BY ONLY <1>8, <2>1, RoomySums
  <2>5. Congruent(i1 - i2, s - w, k)
    BY ONLY <1>6, <1>8, <1>14, <2>1, <2>4, CongruentDifference
  <2>6. i1 - i2 \in Int /\ s - w = k0 * q /\ k0 * q \in Int
    BY ONLY <1>6, <1>14, <1>16, <1>20, <2>4
  <2>7. d \in 0 .. k - 1 /\ Congruent(d, i1 - i2, k)
    BY ONLY <1>8, <2>6, CongruentRelation
  <2> HIDE DEF d
  <2>8. d \in Int /\ i3 \in Int /\ Congruent(d, k0 * q, k) /\ Congruent(i3, i3, k)
    BY ONLY <1>8, <2>3, <2>5, <2>6, <2>7 DEF Congruent
  <2>9. Congruent(d * i3, (k0 * q) * i3, k)
    BY ONLY <1>8, <2>6, <2>8, CongruentProduct
  <2>10. Congruent(k0 * (q * i3), k0 * 1, k)
    <3>1. q * i3 \in Int /\ 1 \in Int /\ Congruent(k0, k0, k)
      BY ONLY <1>16, <2>8 DEF Congruent
    <3> QED BY ONLY <1>8, <2>3, <3>1, CongruentProduct, k0 \in Int
  <2>11. (k0 * q) * i3 = k0 * (q * i3) /\ k0 * 1 = k0 /\ d * i3 \in Int
    BY ONLY <1>16, <2>8, k0 \in Int
  <2>12. (d * i3) % k \in 0 .. k - 1 /\ Congruent((d * i3) % k, d * i3, k)
    BY ONLY <1>8, <2>11, CongruentRelation
  <2>13. C = (d * i3) % k
    BY ONLY <2>2, <2>4
  <2> QED BY ONLY <2>9, <2>10, <2>11, <2>12, <2>13 DEF Congruent
<1>22. DOMAIN ps = 1 .. Len(ps) /\ \A j \in 1 .. Len(ps) : Roomy(ps[j]) /\ ps[j] \in Nat \ {0} /\ ps[j] \in Nat
  BY BasisFacts
<1> DEFINE u(p) == IF C > k \div 2 THEN ModSubFast(C, k, p) ELSE C
<1>23. /\ DOMAIN out = 1 .. Len(ps) /\ out = [j \in DOMAIN out |-> out[j]]
       /\ \A j \in 1 .. Len(ps) : out[j] = ModSubFast(Combined(y1, ms, ps[j]), (u(ps[j]) * q) % ps[j], ps[j])
  BY <1>22 DEF q, Counted
<1> HIDE DEF u
<1>24. ASSUME NEW j \in 1 .. Len(ps) PROVE out[j] \in 0 .. ps[j] - 1 /\ Congruent(out[j], w, ps[j])
  <2> DEFINE p == ps[j]
             i1 == Combined(y1, ms, p)
             i2 == (u(p) * q) % p
             b == IF k0 < 0 THEN k0 + k ELSE k0
  <2>1. Roomy(p) /\ p \in Nat \ {0} /\ p \in Nat /\ Magnitude(w) < (p + 1) * q /\ out[j] = ModSubFast(i1, i2, p)
    BY ONLY <1>17, <1>22, <1>23, j \in 1 .. Len(ps)
  <2>2. i1 \in 0 .. p - 1 /\ Congruent(i1, s, p)
    BY ONLY <1>18, <2>1
  <2> HIDE DEF p, i1
  <2>3. k0 \in -h .. h /\ k0 >= -p
    BY ONLY <1>3, <1>6, <1>9, <1>14, <1>15, <1>16, <1>17, <1>20, <2>1, CountFits
  <2>4. C = b
    BY ONLY <1>9, <1>21, <2>3, CountFound
  <2>5. u(p) \in Int /\ Congruent(u(p), k0, p)
    <3>1. LET aa == IF k0 < 0 THEN k0 + k ELSE k0
              uu == IF aa > k \div 2 THEN ModSubFast(aa, k, p) ELSE aa
          IN  uu \in Int /\ Congruent(uu, k0, p)
      BY ONLY <1>8, <1>9, <2>1, <2>3, CountReduced
    <3> QED BY ONLY <2>4, <3>1 DEF u
  <2>6. u(p) * q \in Int /\ k0 * q \in Int /\ Congruent(q, q, p)
    BY ONLY <1>16, <2>5 DEF Congruent
  <2>7. Congruent(u(p) * q, k0 * q, p)
    BY ONLY <1>16, <2>1, <2>5, <2>6, CongruentProduct, k0 \in Int
  <2>8. i2 \in 0 .. p - 1 /\ Congruent(i2, u(p) * q, p)
    BY ONLY <2>1, <2>6, CongruentRelation
  <2> HIDE DEF i2
  <2>9. ModSubFast(i1, i2, p) = (i1 - i2) % p /\ i1 \in Int /\ i2 \in Int
    BY ONLY <2>1, <2>2, <2>8, RoomySums
  <2>10. Congruent(i2, k0 * q, p)
    BY ONLY <2>7, <2>8 DEF Congruent
  <2>11. Congruent(i1 - i2, s - k0 * q, p)
    BY ONLY <1>14, <2>1, <2>2, <2>6, <2>9, <2>10, CongruentDifference
  <2>12. i1 - i2 \in Int /\ s - k0 * q = w
    BY ONLY <1>6, <1>20, <2>6, <2>9
  <2>13. (i1 - i2) % p \in 0 .. p - 1 /\ Congruent((i1 - i2) % p, i1 - i2, p)
    BY ONLY <2>1, <2>12, CongruentRelation
  <2>14. Congruent(out[j], w, p)
    BY ONLY <2>1, <2>9, <2>11, <2>12, <2>13 DEF Congruent
  <2> QED BY ONLY <2>1, <2>9, <2>13, <2>14 DEF p
<1>25. Below(out, ps)
  BY ONLY <1>23, <1>24, BelowMade, Basis(ps)
<1>26. Carries(out, w, ps)
  BY ONLY <1>6, <1>22, <1>24 DEF Carries
<1>27. g = q * k
  <2>1. n + 1 > 0 /\ (n + 1) - 1 = n
    BY <1>3
  <2>2. Basis(Front(both)) /\ Len(Front(both)) = n /\ (\A i \in 1 .. n : Front(both)[i] = both[i])
        /\ g = Product(Front(both)) * both[n + 1]
    BY ONLY <1>3, <1>4, <2>1, LastFacts DEF g
  <2>3. Front(both) = ms
    <3>1. Front(both) \in [1 .. n -> Nat] /\ ms \in [1 .. n -> Nat]
      BY ONLY <1>3, <2>2, BasisFacts
    <3>2. \A i \in 1 .. n : Front(both)[i] = ms[i]
      BY ONLY <1>3, <2>2
    <3> QED BY ONLY <3>1, <3>2
  <2> QED BY ONLY <1>3, <2>2, <2>3 DEF q
<1>28. g \in Nat \ {0} /\ e \in 0 .. g - 1
  BY ONLY <1>4, ProductInvertible, NumberFacts DEF g, e
<1>29. PICK t \in Int : w = e + t * g
  BY ONLY <1>4, CarriedApart DEF g, e
<1>30. 2 * Magnitude(w) < g
  <2>1. (h - n) * q = h * q - n * q /\ q * k = 2 * (h * q) + q /\ h * q \in Nat /\ n * q \in Nat
    BY ONLY <1>3, <1>9, <1>16
  <2>2. Magnitude(w) \in Nat
    BY ONLY <1>6, MagnitudeBounds
  <2> DEFINE x1 == h * q
             x2 == n * q
             x3 == Magnitude(w)
  <2>3. g = 2 * x1 + q /\ x1 \in Nat /\ x2 \in Nat /\ x3 \in Nat /\ x3 < x1 - x2
    <3>1. x3 < (h - n) * q
      BY ONLY <1>17
    <3> QED BY ONLY <1>27, <2>1, <2>2, <3>1
  <2> HIDE DEF x1, x2, x3
  <2>4. 2 * x3 < g
    BY ONLY <1>16, <2>3
  <2> QED BY ONLY <2>4 DEF x3
<1>31. Centre(e, g) = w
  BY ONLY <1>6, <1>28, <1>29, <1>30, CentreFound, t \in Int
<1> QED BY <1>25, <1>26, <1>31 DEF e, g, both

-----------------------------------------------------------------------------
(* The division by the product of a basis in another.                      *)

\* The size of a quotient, from that of the number and of the remainder.
LEMMA QuotientSize ==
  ASSUME NEW q \in Nat \ {0}, NEW n \in Nat, NEW t \in Nat, NEW v \in Int, NEW s \in Int, 0 <= s, s <= n * (q - 1),
         NEW z \in Int, t * v = s + z * q
  PROVE  Magnitude(z) * q <= t * Magnitude(v) + n * (q - 1)
<1> DEFINE C == Magnitude(v)
           b == Magnitude(z)
           c == n * (q - 1)
<1>1. C \in Nat /\ C \in {v, -v} /\ v <= C /\ -v <= C /\ b \in Nat /\ b \in {z, -z}
  BY MagnitudeBounds
<1> HIDE DEF C, b
<1>2. c \in Int /\ t * C \in Int /\ t * v \in Int /\ z * q \in Int /\ b * q \in Int
  BY ONLY <1>1, n \in Nat, q \in Nat, t \in Nat, v \in Int, z \in Int
<1> HIDE DEF c
<1>3. t * v <= t * C /\ -(t * v) <= t * C
  <2>1. CASE C = v
    BY ONLY <1>1, <2>1, t \in Nat, v \in Int
  <2>2. CASE C = -v
    <3>1. t * C = -(t * v)
      BY ONLY <1>1, <2>2, t \in Nat, v \in Int
    <3>2. t * C \in Nat
      BY ONLY <1>1, t \in Nat
    <3> QED BY ONLY <1>2, <3>1, <3>2
  <2> QED BY <1>1, <2>1, <2>2
<1>4. b * q = z * q \/ b * q = -(z * q)
  <2>1. (-z) * q = -(z * q)
    OBVIOUS
  <2> QED BY ONLY <1>1, <2>1
<1>5. 0 <= s /\ s <= c
  BY DEF c
<1> DEFINE u == t * v
           x1 == t * C
           x2 == z * q
           x3 == b * q
<1>6. x1 \in Int /\ x2 \in Int /\ x3 \in Int /\ u = s + x2 /\ u <= x1 /\ -u <= x1 /\ (x3 = x2 \/ x3 = -x2) /\ u \in Int
  BY ONLY <1>2, <1>3, <1>4, t * v = s + z * q
<1> HIDE DEF u, x1, x2, x3
<1>7. x3 <= x1 + c
  BY ONLY <1>2, <1>5, <1>6, s \in Int
<1> QED BY ONLY <1>7 DEF x1, x3, C, b, c

\* The sum of the terms over their moduli is the number they make over the
\* product, modulo p.
LEMMA TermsOver ==
  ASSUME NEW ms, Basis(ms), NEW y1, \A i \in 1 .. Len(ms) : y1[i] \in Int, NEW p \in Nat \ {0, 1},
         \A i \in 1 .. Len(ms) : IsUnit(ms[i], p)
  PROVE  LET s == Sum([i \in DOMAIN ms |-> y1[i] * InvMod(ms[i], p)])
         IN  s \in Int /\ Congruent(s, Multiples(y1, ms) * InvMod(Product(ms), p), p)
<1> DEFINE n == Len(ms)
           q == Product(ms)
           g == InvMod(q, p)
           c(i) == InvMod(ms[i], p)
           u == [i \in 1 .. n |-> y1[i] * c(i)]
<1>1. n \in Nat /\ DOMAIN ms = 1 .. n /\ \A i \in 1 .. n : ms[i] \in Nat \ {0} /\ ms[i] \in Int
  BY BasisFacts
<1>2. p \in Nat \ {0} /\ q \in Nat \ {0} /\ q \in Int /\ IsUnit(q, p)
  BY ProductInvertible
<1>3. g \in Int /\ Congruent(q * g, 1, p)
  <2>1. g \in 0 .. p - 1 /\ Congruent(q * g, 1, p)
    BY <1>2, InverseFound
  <2> QED BY <2>1
<1> HIDE DEF q, g
<1>4. ASSUME NEW i \in 1 .. n
      PROVE  /\ c(i) \in Int /\ Hat(ms, i) \in Int /\ y1[i] * c(i) \in Int
             /\ Congruent(y1[i] * c(i), g * (y1[i] * Hat(ms, i)), p)
  <2> DEFINE m == ms[i]
             h == Hat(ms, i)
             d == c(i)
             y0 == y1[i]
  <2>1. m \in Int /\ h \in Int /\ h * m = q /\ y0 \in Int
    BY <1>1, HatFacts DEF q
  <2>2. d \in Int /\ Congruent(m * d, 1, p)
    <3>1. d \in 0 .. p - 1 /\ Congruent(m * d, 1, p)
      BY <1>1, InverseFound
    <3> QED BY <3>1
  <2> HIDE DEF m, h, d, y0
  <2>3. \A w : Congruent(w, w, p)
    BY DEF Congruent
  <2>4. q * g \in Int /\ m * d \in Int /\ y0 * d \in Int /\ 1 \in Int /\ g * (y0 * h) \in Int
    BY ONLY <1>2, <1>3, <2>1, <2>2
  <2>5. Congruent((y0 * d) * (q * g), (y0 * d) * 1, p)
    BY ONLY <1>2, <1>3, <2>3, <2>4, CongruentProduct
  <2>6. Congruent((g * (y0 * h)) * (m * d), (g * (y0 * h)) * 1, p)
    BY ONLY <1>2, <2>2, <2>3, <2>4, CongruentProduct
  <2>7. (y0 * d) * (q * g) = (g * (y0 * h)) * (m * d)
    <3>1. (g * (y0 * h)) * (m * d) = (y0 * d) * ((h * m) * g)
      BY ONLY <1>3, <2>1, <2>2
    <3> QED BY ONLY <2>1, <3>1
  <2>8. (y0 * d) * 1 = y0 * d /\ (g * (y0 * h)) * 1 = g * (y0 * h)
    BY ONLY <2>4
  <2>9. Congruent(y0 * d, g * (y0 * h), p)
    BY ONLY <2>5, <2>6, <2>7, <2>8 DEF Congruent
  <2> QED BY ONLY <2>1, <2>2, <2>4, <2>9 DEF y0, d, h
<1>5. PICK s \in [1 .. n -> Int] :
        /\ Multiples(y1, ms) = Sum(s) /\ Multiples(y1, ms) \in Int
        /\ \A i \in 1 .. n : s[i] = y1[i] * Hat(ms, i)
  BY MultiplesTerms
<1> DEFINE r == [i \in 1 .. n |-> g * s[i]]
<1>6. r \in [1 .. n -> Int] /\ (\A i \in 1 .. n : r[i] = g * s[i]) /\ Sum(s) \in Int
  <2>1. \A i \in 1 .. n : s[i] \in Int
    OBVIOUS
  <2>2. \A i \in 1 .. n : g * s[i] \in Int
    BY ONLY <1>3, <2>1
  <2> QED BY <1>5, <2>2
<1>7. u \in [1 .. n -> Int] /\ \A i \in 1 .. n : u[i] = y1[i] * c(i)
  BY <1>4
<1> HIDE DEF r, c
<1>8. \A i \in 1 .. n : Congruent(u[i], r[i], p)
  BY ONLY <1>4, <1>5, <1>6, <1>7
<1> HIDE DEF u
<1>9. Congruent(Sum(u), Sum(r), p)
  BY ONLY <1>1, <1>2, <1>6, <1>7, <1>8, SumCongruent
<1>10. Sum(r) = g * Sum(s)
  <2> DEFINE sr == Sum(r)
             ss == Sum(s)
  <2>1. g \in Int /\ n \in Nat /\ r \in [1 .. n -> Int] /\ s \in [1 .. n -> Int] /\ \A i \in 1 .. n : r[i] = g * s[i]
    BY <1>1, <1>3, <1>6
  <2> HIDE DEF n
  <2> QED BY ONLY <2>1, SumTimes
<1>11. Sum(u) \in Int
  BY ONLY <1>1, <1>7, SumInteger
<1>12. g * Sum(s) = Sum(s) * g
  BY ONLY <1>3, <1>6
<1>13. Congruent(Sum(u), Multiples(y1, ms) * g, p)
  BY ONLY <1>5, <1>9, <1>10, <1>12
<1> QED BY <1>1, <1>11, <1>13 DEF u, c, g, q

\* FastRNSFloorq gives, in the towers ps, the same number, close to t * v over
\* the product.
LEMMA FloorFacts ==
  ASSUME NEW ms, Basis(ms), NEW ps, Basis(ps), \A i \in 1 .. Len(ms), j \in 1 .. Len(ps) : IsUnit(ms[i], ps[j]),
         NEW t \in Nat, NEW rs, Below(rs, ms), NEW v, Carries(rs, v, ms),
         NEW xs, \A j \in 1 .. Len(ps) : xs[j] \in Int, Carries(xs, v, ps),
         NEW y1, y1 = Twisted(rs, ms, [i \in DOMAIN ms |-> t * HatInvMod(ms, i)]),
         NEW out, out = [j \in DOMAIN ps |->
           ModSubFast((xs[j] * t * InvMod(Product(ms), ps[j])) % ps[j],
                      Sum([i \in DOMAIN ms |-> y1[i] * InvMod(ms[i], ps[j])]) % ps[j], ps[j])]
  PROVE  /\ Below(y1, ms) /\ Below(out, ps)
         /\ \E z \in Int : /\ Carries(out, z, ps)
                           /\ Magnitude(z) * Product(ms) <= t * Magnitude(v) + Len(ms) * (Product(ms) - 1)
<1> DEFINE n == Len(ms)
           q == Product(ms)
           s == Multiples(y1, ms)
           d == [i \in DOMAIN ms |-> t * HatInvMod(ms, i)]
<1>1. DOMAIN ms = 1 .. n /\ n \in Nat /\ \A i \in 1 .. n : ms[i] \in Nat \ {0}
  BY BasisFacts
<1>2. ASSUME NEW i \in 1 .. n
      PROVE  d[i] \in Int /\ Congruent(d[i], t * HatInvMod(ms, i), ms[i]) /\ rs[i] \in Int
  <2>1. d[i] = t * HatInvMod(ms, i) /\ HatInvMod(ms, i) \in Int /\ rs[i] \in Int
    BY <1>1, HatInvFacts, BelowFacts
  <2>2. Congruent(t * HatInvMod(ms, i), t * HatInvMod(ms, i), ms[i])
    BY DEF Congruent
  <2>3. t * HatInvMod(ms, i) \in Int
    BY ONLY <2>1, t \in Nat
  <2> HIDE DEF d
  <2> QED BY ONLY <2>1, <2>2, <2>3
<1>3. y1 = Twisted(rs, ms, d)
  OBVIOUS
<1> HIDE DEF d, q
<1>4. Below(y1, ms) /\ \A i \in 1 .. n : Congruent(y1[i], rs[i] * d[i], ms[i])
  BY ONLY <1>2, <1>3, TwistedFacts, Basis(ms)
<1>5. \A i \in 1 .. n : y1[i] \in 0 .. ms[i] - 1 /\ y1[i] \in Int
  BY <1>4, BelowFacts
<1>6. s \in Int /\ Congruent(s, t * v, q)
  <2>1. t \in Int
    OBVIOUS
  <2> QED BY ONLY <1>2, <1>4, <1>5, <2>1, InvertedTerms, Basis(ms), Carries(rs, v, ms) DEF q
<1>7. 0 <= s /\ s <= n * (q - 1)
  BY <1>5, MultiplesBetween DEF q
<1>8. q \in Nat \ {0} /\ q \in Int /\ v \in Int
  BY ProductInvertible DEF q, Carries
<1> HIDE DEF s
<1>9. t * v \in Int
  BY <1>8
<1>10. Congruent(t * v, s, q)
  BY <1>6 DEF Congruent
<1>11. PICK z \in Int : t * v = s + z * q
  BY ONLY <1>6, <1>8, <1>9, <1>10, CongruentApart DEF Apart
<1>12. DOMAIN ps = 1 .. Len(ps) /\ \A j \in 1 .. Len(ps) : Roomy(ps[j]) /\ ps[j] \in Nat \ {0} /\ ps[j] \in Nat \ {0, 1}
  BY BasisFacts
<1> DEFINE o(p) == Sum([i \in DOMAIN ms |-> y1[i] * InvMod(ms[i], p)])
<1>13. /\ DOMAIN out = 1 .. Len(ps) /\ out = [j \in DOMAIN out |-> out[j]]
       /\ \A j \in 1 .. Len(ps) : out[j] =
            ModSubFast((xs[j] * t * InvMod(q, ps[j])) % ps[j], o(ps[j]) % ps[j], ps[j])
  BY <1>12 DEF q
<1>14. ASSUME NEW j \in 1 .. Len(ps) PROVE out[j] \in 0 .. ps[j] - 1 /\ Congruent(out[j], z, ps[j])
  <2> DEFINE p == ps[j]
             x0 == xs[j]
             g == InvMod(q, p)
             i1 == (x0 * t * g) % p
             i2 == o(p) % p
  <2>1. /\ Roomy(p) /\ p \in Nat \ {0} /\ p \in Nat \ {0, 1} /\ out[j] = ModSubFast(i1, i2, p)
        /\ x0 \in Int /\ Congruent(x0, v, p)
    BY <1>12, <1>13 DEF Carries
  <2>2. \A i \in 1 .. n : IsUnit(ms[i], p)
    OBVIOUS
  <2> HIDE DEF p, x0
  <2>3. IsUnit(q, p)
    BY ONLY <2>1, <2>2, ProductInvertible, Basis(ms) DEF q
  <2>4. g \in Int /\ Congruent(q * g, 1, p)
    <3>1. g \in 0 .. p - 1 /\ Congruent(q * g, 1, p)
      BY ONLY <1>8, <2>1, <2>3, InverseFound
    <3> QED BY ONLY <2>1, <3>1
  <2>5. o(p) \in Int /\ Congruent(o(p), s * g, p)
    BY ONLY <1>5, <2>1, <2>2, TermsOver, Basis(ms) DEF s, q
  <2> HIDE DEF g, o
  <2>6. \A w : Congruent(w, w, p)
    BY DEF Congruent
  <2>7. t * g \in Int /\ x0 * t * g = x0 * (t * g) /\ x0 * (t * g) \in Int /\ v * (t * g) \in Int /\ s * g \in Int
        /\ v * (t * g) = (t * v) * g /\ (t * v) * g \in Int
    BY ONLY <1>6, <1>8, <2>1, <2>4, t \in Nat
  <2>8. Congruent(x0 * (t * g), v * (t * g), p)
    BY ONLY <1>8, <2>1, <2>6, <2>7, CongruentProduct
  <2>9. i1 \in 0 .. p - 1 /\ Congruent(i1, x0 * (t * g), p)
    <3>1. (x0 * (t * g)) % p \in 0 .. p - 1 /\ Congruent((x0 * (t * g)) % p, x0 * (t * g), p)
      BY ONLY <2>1, <2>7, CongruentRelation
    <3>2. i1 = (x0 * (t * g)) % p
      BY ONLY <2>7
    <3> HIDE DEF i1
    <3> QED BY ONLY <3>1, <3>2
  <2>10. i2 \in 0 .. p - 1 /\ Congruent(i2, o(p), p)
    BY ONLY <2>1, <2>5, CongruentRelation
  <2> HIDE DEF i1, i2
  <2>11. ModSubFast(i1, i2, p) = (i1 - i2) % p /\ i1 \in Int /\ i2 \in Int
    BY ONLY <2>1, <2>9, <2>10, RoomySums
  <2>12. Congruent(i1, (t * v) * g, p) /\ Congruent(i2, s * g, p)
    BY ONLY <2>5, <2>7, <2>8, <2>9, <2>10 DEF Congruent
  <2>13. Congruent(i1 - i2, (t * v) * g - s * g, p)
    BY ONLY <2>1, <2>7, <2>11, <2>12, CongruentDifference
  <2>14. (t * v) * g - s * g = z * (q * g)
    <3> DEFINE Y == t * v
               b == z * q
    <3>1. Y \in Int /\ b \in Int /\ Y = s + b
      BY ONLY <1>8, <1>9, <1>11, z \in Int
    <3>2. b * g = z * (q * g)
      BY ONLY <1>8, <2>4, z \in Int
    <3> HIDE DEF Y, b
    <3>3. Y * g - s * g = b * g
      BY ONLY <1>6, <2>4, <3>1
    <3> QED BY ONLY <3>2, <3>3 DEF Y
  <2>15. Congruent(z * (q * g), z * 1, p)
    <3>1. q * g \in Int /\ 1 \in Int
      BY ONLY <1>8, <2>4
    <3> QED BY ONLY <2>1, <2>4, <2>6, <3>1, CongruentProduct, z \in Int
  <2>16. z * 1 = z /\ i1 - i2 \in Int
    BY ONLY <2>11, z \in Int
  <2>17. (i1 - i2) % p \in 0 .. p - 1 /\ Congruent((i1 - i2) % p, i1 - i2, p)
    BY ONLY <2>1, <2>16, CongruentRelation
  <2>18. Congruent(out[j], z, p)
    BY ONLY <2>1, <2>11, <2>13, <2>14, <2>15, <2>16, <2>17 DEF Congruent
  <2> QED BY ONLY <2>1, <2>11, <2>17, <2>18 DEF p
<1>15. Below(out, ps)
  BY ONLY <1>13, <1>14, BelowMade, Basis(ps)
<1>16. Carries(out, z, ps)
  BY ONLY <1>12, <1>14, z \in Int DEF Carries
<1>17. Magnitude(z) * q <= t * Magnitude(v) + n * (q - 1)
  BY ONLY <1>1, <1>6, <1>7, <1>8, <1>11, QuotientSize, t \in Nat, z \in Int
<1> QED BY <1>4, <1>15, <1>16, <1>17 DEF q

-----------------------------------------------------------------------------
(* The bases of the module.                                                *)

\* No modulus above one is invertible modulo itself.
LEMMA NotItself ==
  ASSUME NEW m \in Nat \ {0, 1}
  PROVE  ~IsUnit(m, m)
<1> SUFFICES ASSUME NEW z \in Int, Congruent(m * z, 1, m) PROVE FALSE
  BY DEF IsUnit
<1>1. m \in Nat \ {0} /\ 0 \in Int /\ z \in Int /\ m * z \in Int /\ 1 \in 0 .. m - 1 /\ 0 \in 0 .. m - 1
  OBVIOUS
<1>2. Apart(m * z, 0, z, m)
  BY DEF Apart
<1>3. Congruent(m * z, 0, m)
  BY ONLY <1>1, <1>2, ApartCongruent
<1>4. Congruent(0, 1, m)
  BY ONLY <1>3, Congruent(m * z, 1, m) DEF Congruent
<1> QED BY ONLY <1>1, <1>4, CongruentRelation

\* The two bases that the others are parts of.
LEMMA WholeBases ==
  ASSUME BasisAssumption
  PROVE  /\ Q \in Seq(Nat) /\ P \in Seq(Nat) /\ B \in Seq(Nat) /\ Bsk \in Seq(Nat) /\ msk \in Nat
         /\ QP = Q \o P /\ QBsk = Q \o Bsk /\ Bsk = Append(B, msk)
         /\ Basis(QP) /\ Basis(QBsk)
<1>1. Q \in Seq(Nat) /\ P \in Seq(Nat) /\ B \in Seq(Nat) /\ msk \in Nat
  BY DEF BasisAssumption
<1>2. Bsk \in Seq(Nat)
  BY <1>1 DEF Bsk
<1>3. QP \in Seq(Nat) /\ QBsk \in Seq(Nat)
  BY <1>1, <1>2 DEF QP, QBsk
<1>4. ASSUME NEW ms \in {QP, QBsk} PROVE Basis(ms)
  <2>1. /\ \A i \in DOMAIN ms : ms[i] > 1 /\ ms[i] % 2 = 1 /\ 4 * ms[i] < 2^W
        /\ \A i, j \in DOMAIN ms : i # j => Coprime(ms[i], ms[j])
    BY DEF BasisAssumption
  <2>2. ms \in Seq(Nat)
    BY <1>3
  <2>3. \A i \in DOMAIN ms : ms[i] \in Nat
    BY <2>2
  <2>4. \A i \in DOMAIN ms : ms[i] \in Nat \ {0} /\ Roomy(ms[i]) /\ ms[i] % 2 = 1
    BY <2>1, <2>3 DEF Roomy
  <2>5. \A i, j \in DOMAIN ms : i # j => IsUnit(ms[i], ms[j])
    BY ONLY <2>1, <2>4, CoprimeInvertible
  <2> QED BY <2>2, <2>4, <2>5 DEF Basis
<1> QED BY <1>1, <1>2, <1>4 DEF QP, QBsk, Bsk

\* The bases that calls leave a polynomial in.
NamedBases == {Q, QP, QBsk, P, Front(Q), P \o Q}

\* The bases have what BasisAssumption says of the whole ones.
LEMMA TheBases ==
  ASSUME BasisAssumption
  PROVE  /\ \A ms \in NamedBases \cup {Bsk, B} : Basis(ms)
         /\ Len(Q) \in Nat /\ Len(Q) > 1 /\ Len(P) \in Nat /\ Len(P) > 0 /\ Len(B) \in Nat /\ Len(B) > 0
         /\ Len(QP) = Len(Q) + Len(P) /\ Len(QBsk) = Len(Q) + Len(Bsk) /\ Len(Bsk) = Len(B) + 1
         /\ Len(P \o Q) = Len(P) + Len(Q) /\ Len(Front(Q)) = Len(Q) - 1
         /\ \A i \in 1 .. Len(Q) - 1 : Front(Q)[i] = Q[i]
         /\ \A i \in 1 .. Len(Q) : QP[i] = Q[i] /\ QBsk[i] = Q[i]
         /\ \A j \in 1 .. Len(P) : QP[Len(Q) + j] = P[j]
         /\ \A j \in 1 .. Len(Bsk) : QBsk[Len(Q) + j] = Bsk[j]
         /\ \A i \in 1 .. Len(Q), j \in 1 .. Len(P) : IsUnit(Q[i], P[j]) /\ IsUnit(P[j], Q[i])
         /\ \A i \in 1 .. Len(Q), j \in 1 .. Len(Bsk) : IsUnit(Q[i], Bsk[j]) /\ IsUnit(Bsk[j], Q[i])
<1>1. /\ Q \in Seq(Nat) /\ P \in Seq(Nat) /\ B \in Seq(Nat) /\ Bsk \in Seq(Nat) /\ msk \in Nat
      /\ QP = Q \o P /\ QBsk = Q \o Bsk /\ Bsk = Append(B, msk)
      /\ Basis(Q \o P) /\ Basis(Q \o Bsk)
  BY WholeBases
<1>2. /\ Basis(Q) /\ Basis(P) /\ Basis(P \o Q)
      /\ Len(Q \o P) = Len(Q) + Len(P) /\ Len(Q) \in Nat /\ Len(P) \in Nat
      /\ \A i \in 1 .. Len(Q) : (Q \o P)[i] = Q[i]
      /\ \A j \in 1 .. Len(P) : (Q \o P)[Len(Q) + j] = P[j]
      /\ \A i \in 1 .. Len(Q), j \in 1 .. Len(P) : IsUnit(Q[i], P[j]) /\ IsUnit(P[j], Q[i])
  BY ONLY <1>1, BasisParts
<1>3. /\ Basis(Bsk) /\ Len(Q \o Bsk) = Len(Q) + Len(Bsk) /\ Len(Bsk) \in Nat
      /\ \A i \in 1 .. Len(Q) : (Q \o Bsk)[i] = Q[i]
      /\ \A j \in 1 .. Len(Bsk) : (Q \o Bsk)[Len(Q) + j] = Bsk[j]
      /\ \A i \in 1 .. Len(Q), j \in 1 .. Len(Bsk) : IsUnit(Q[i], Bsk[j]) /\ IsUnit(Bsk[j], Q[i])
  BY ONLY <1>1, BasisParts
<1>4. Len(Q) > 1 /\ Len(P) > 0 /\ Len(B) \in Nat /\ Len(B) > 0
  <2> DEFINE A == Nat
  <2>1. P \in Seq(A) /\ B \in Seq(A) /\ P # <<>> /\ B # <<>> /\ Len(Q) > 1
    BY <1>1 DEF BasisAssumption
  <2> HIDE DEF A
  <2>2. Len(P) \in Nat \ {0} /\ Len(B) \in Nat \ {0}
    BY ONLY <2>1, EmptySeq
  <2> QED BY ONLY <2>1, <2>2
<1>5. /\ Basis(Front(Q)) /\ Len(Front(Q)) = Len(Q) - 1
      /\ \A i \in 1 .. Len(Q) - 1 : Front(Q)[i] = Q[i]
  <2>1. Len(Q) > 0
    BY ONLY <1>2, <1>4
  <2> QED BY ONLY <1>2, <2>1, LastFacts
<1>6. Basis(B) /\ Len(Bsk) = Len(B) + 1
  <2> DEFINE A == Nat
             last == <<msk>>
  <2>1. B \in Seq(A) /\ msk \in A
    BY <1>1
  <2>2. last \in Seq(Nat) /\ Len(last) = 1
    BY <1>1
  <2> HIDE DEF A
  <2>3. Append(B, msk) = B \o last
    BY ONLY <2>1, AppendIsConcat
  <2> HIDE DEF last
  <2> QED BY ONLY <1>1, <1>3, <2>2, <2>3, BasisParts
<1>7. Len(P \o Q) = Len(P) + Len(Q)
  <2> DEFINE A == Nat
  <2>1. P \in Seq(A) /\ Q \in Seq(A)
    BY <1>1
  <2> HIDE DEF A
  <2> QED BY ONLY <2>1, ConcatProperties
<1>8. \A ms \in NamedBases \cup {Bsk, B} : Basis(ms)
  BY ONLY <1>1, <1>2, <1>3, <1>5, <1>6 DEF NamedBases
<1> QED BY ONLY <1>1, <1>2, <1>3, <1>4, <1>5, <1>6, <1>7, <1>8

\* Which of them differ.
LEMMA BasesDiffer ==
  ASSUME BasisAssumption
  PROVE  /\ Q # QBsk /\ QP # QBsk /\ P # QBsk /\ Front(Q) # QBsk /\ P \o Q # QBsk
         /\ \A n : <<n>> # QBsk
         /\ \A t \in Plain : <<t>> \notin NamedBases
         /\ <<>> \notin NamedBases
<1>1. /\ Len(Q) \in Nat /\ Len(Q) > 1 /\ Len(P) \in Nat /\ Len(P) > 0 /\ Len(B) \in Nat /\ Len(B) > 0
      /\ Len(QP) = Len(Q) + Len(P) /\ Len(QBsk) = Len(Q) + Len(Bsk) /\ Len(Bsk) = Len(B) + 1
      /\ Len(P \o Q) = Len(P) + Len(Q) /\ Len(Front(Q)) = Len(Q) - 1
      /\ \A i \in 1 .. Len(Q) - 1 : Front(Q)[i] = Q[i]
      /\ \A i \in 1 .. Len(Q) : QP[i] = Q[i] /\ QBsk[i] = Q[i]
      /\ \A j \in 1 .. Len(P) : QP[Len(Q) + j] = P[j]
      /\ \A i \in 1 .. Len(Q), j \in 1 .. Len(P) : IsUnit(Q[i], P[j])
  BY TheBases
<1>2. /\ Q \in Seq(Nat) /\ P \in Seq(Nat) /\ Bsk \in Seq(Nat) /\ QP = Q \o P /\ QBsk = Q \o Bsk /\ Basis(QP)
  BY WholeBases
<1>3. 1 \in 1 .. Len(Q) /\ 1 \in 1 .. Len(P) /\ 1 \in 1 .. Len(Q) - 1
  BY ONLY <1>1
<1>4. (P \o Q)[1] = P[1]
  <2> DEFINE A == Nat
  <2>1. P \in Seq(A) /\ Q \in Seq(A)
    BY <1>2
  <2> HIDE DEF A
  <2>2. \A i \in 1 .. Len(P) + Len(Q) : (P \o Q)[i] = IF i <= Len(P) THEN P[i] ELSE Q[i - Len(P)]
    BY ONLY <2>1, ConcatProperties
  <2>3. 1 \in 1 .. Len(P) + Len(Q) /\ 1 <= Len(P)
    BY ONLY <1>1
  <2> QED BY ONLY <2>2, <2>3
<1>5. Q[1] \in Nat \ {0, 1}
  <2>1. Basis(Q)
    BY TheBases DEF NamedBases
  <2> QED BY ONLY <1>3, <2>1, BasisFacts
<1>6. P[1] # Q[1]
  <2> SUFFICES ASSUME P[1] = Q[1] PROVE FALSE
    OBVIOUS
  <2>1. IsUnit(Q[1], Q[1])
    BY ONLY <1>1, <1>3, P[1] = Q[1]
  <2> QED BY ONLY <1>5, <2>1, NotItself
<1>7. QP # QBsk
  <2> DEFINE A == Nat
  <2>1. Q \in Seq(A) /\ P \in Seq(A) /\ Bsk \in Seq(A) /\ P # Bsk
    BY <1>2 DEF BasisAssumption
  <2> HIDE DEF A
  <2>2. Q \o P = Q \o Bsk => P = Bsk
    BY ONLY <2>1, ConcatSimplifications
  <2> QED BY ONLY <1>2, <2>1, <2>2
<1>8. P # QBsk /\ P \o Q # QBsk
  BY ONLY <1>1, <1>3, <1>4, <1>6
<1>9. Q # QBsk /\ Front(Q) # QBsk
  <2>1. Len(QBsk) > Len(Q) /\ Len(QBsk) > Len(Front(Q))
    BY ONLY <1>1
  <2> QED BY <2>1
<1>10. \A n : <<n>> # QBsk
  <2>1. Len(QBsk) > 1
    BY ONLY <1>1
  <2> SUFFICES ASSUME NEW n, <<n>> = QBsk PROVE FALSE
    OBVIOUS
  <2>2. Len(<<n>>) = 1
    OBVIOUS
  <2>3. Len(QBsk) = 1
    BY ONLY <2>2, <<n>> = QBsk
  <2> QED BY ONLY <2>1, <2>3
<1>11. \A ms \in NamedBases : ms[1] \in {Q[1], P[1]} /\ Len(ms) > 0
  BY ONLY <1>1, <1>3, <1>4 DEF NamedBases
<1>12. ASSUME NEW t \in Plain PROVE <<t>> \notin NamedBases
  <2> SUFFICES ASSUME <<t>> \in NamedBases PROVE FALSE
    OBVIOUS
  <2>1. t \in Nat \ {0, 1} /\ \A m \in ModuliOf(QP) : Coprime(m, t)
    BY DEF BasisAssumption
  <2>2. t \in {Q[1], P[1]}
    BY <1>11
  <2>3. Q[1] \in ModuliOf(QP) /\ P[1] \in ModuliOf(QP)
    <3>1. QP[1] = Q[1] /\ QP[Len(Q) + 1] = P[1]
      BY ONLY <1>1, <1>3
    <3>2. DOMAIN QP = 1 .. Len(QP)
      BY ONLY <1>2, BasisFacts
    <3>3. 1 \in 1 .. Len(QP) /\ Len(Q) + 1 \in 1 .. Len(QP)
      BY ONLY <1>1
    <3> QED BY ONLY <3>1, <3>2, <3>3 DEF ModuliOf
  <2>4. Coprime(t, t)
    BY ONLY <2>1, <2>2, <2>3
  <2>5. t \in 2 .. t /\ t % t = 0
    BY ONLY <2>1
  <2> QED BY ONLY <2>4, <2>5 DEF Coprime
<1>13. <<>> \notin NamedBases
  <2>1. Len(<<>>) = 0
    OBVIOUS
  <2> QED BY <1>11, <2>1
<1> QED BY ONLY <1>7, <1>8, <1>9, <1>10, <1>12, <1>13

-----------------------------------------------------------------------------
(* Coefficients as they are made.                                          *)

\* What a tower holds, modulo its modulus, for each way to make one.
LEMMA MadeCarries ==
  ASSUME NEW ms, Basis(ms), NEW n \in Int, NEW out, DOMAIN out = 1 .. Len(ms), out = [i \in DOMAIN out |-> out[i]],
         \A i \in 1 .. Len(ms) : out[i] \in 0 .. ms[i] - 1 /\ Congruent(out[i], n, ms[i])
  PROVE  Below(out, ms) /\ Carries(out, n, ms)
<1>1. Below(out, ms)
  BY BelowMade
<1>2. DOMAIN ms = 1 .. Len(ms)
  BY BasisFacts
<1> QED BY ONLY <1>1, <1>2, n \in Int, \A i \in 1 .. Len(ms) : Congruent(out[i], n, ms[i]) DEF Carries

\* A large integer, reduced in every tower.
LEMMA LargeFacts ==
  ASSUME NEW ms, Basis(ms), NEW n \in Int, NEW out, out = [i \in DOMAIN ms |-> n % ms[i]]
  PROVE  Below(out, ms) /\ Carries(out, n, ms)
<1>1. DOMAIN ms = 1 .. Len(ms) /\ \A i \in 1 .. Len(ms) : ms[i] \in Nat \ {0}
  BY BasisFacts
<1>2. ASSUME NEW i \in 1 .. Len(ms) PROVE out[i] \in 0 .. ms[i] - 1 /\ Congruent(out[i], n, ms[i])
  <2> DEFINE m == ms[i]
             r == out[i]
  <2>1. r = n % m /\ m \in Nat \ {0}
    BY <1>1
  <2> HIDE DEF m, r
  <2>2. n % m \in 0 .. m - 1 /\ Congruent(n % m, n, m)
    BY ONLY <2>1, CongruentRelation, n \in Int
  <2> QED BY ONLY <2>1, <2>2 DEF m, r
<1>3. DOMAIN out = 1 .. Len(ms) /\ out = [i \in DOMAIN out |-> out[i]]
  BY <1>1
<1> QED BY ONLY <1>2, <1>3, MadeCarries, Basis(ms), n \in Int

\* The entries of one tower, switched to the others.
LEMMA TowerFacts ==
  ASSUME NEW ms, Basis(ms), Len(ms) > 0, NEW v \in 0 .. ms[1] - 1,
         NEW out, out = [i \in DOMAIN ms |-> IF i = 1 THEN v ELSE SwitchEntry(v, ms[1], ms[i])]
  PROVE  Below(out, ms) /\ Carries(out, Centre(v, ms[1]), ms)
<1>1. DOMAIN ms = 1 .. Len(ms) /\ \A i \in 1 .. Len(ms) : ms[i] \in Nat \ {0} /\ Roomy(ms[i])
  BY BasisFacts
<1>2. 1 \in 1 .. Len(ms)
  BY BasisFacts
<1> DEFINE n == Centre(v, ms[1])
<1>3. n \in Int /\ Congruent(n, v, ms[1])
  BY <1>1, <1>2, SwitchBelow
<1>4. ASSUME NEW i \in 1 .. Len(ms) PROVE out[i] \in 0 .. ms[i] - 1 /\ Congruent(out[i], n, ms[i])
  <2>1. CASE i = 1
    <3>1. out[i] = v
      BY <1>1, <2>1
    <3>2. Congruent(v, n, ms[1])
      BY <1>3 DEF Congruent
    <3> QED BY ONLY <2>1, <3>1, <3>2, v \in 0 .. ms[1] - 1
  <2>2. CASE i # 1
    <3> DEFINE m == ms[1]
               p == ms[i]
    <3>1. out[i] = SwitchEntry(v, m, p) /\ Roomy(m) /\ Roomy(p) /\ v \in 0 .. m - 1
      BY <1>1, <1>2, <2>2
    <3> HIDE DEF m, p
    <3>2. SwitchEntry(v, m, p) \in 0 .. p - 1 /\ Congruent(SwitchEntry(v, m, p), Centre(v, m), p)
      BY ONLY <3>1, SwitchBelow
    <3> QED BY ONLY <3>1, <3>2 DEF m, p
  <2> QED BY <2>1, <2>2
<1>5. DOMAIN out = 1 .. Len(ms) /\ out = [i \in DOMAIN out |-> out[i]]
  BY <1>1
<1> HIDE DEF n
<1>6. Below(out, ms) /\ Carries(out, n, ms)
  BY ONLY <1>3, <1>4, <1>5, MadeCarries, Basis(ms)
<1> QED BY <1>6 DEF n

\* A Gaussian sample in one tower.
LEMMA GaussianEntry ==
  ASSUME NEW m \in Nat \ {0}, NEW k \in Int, NEW std, std <= m => k \in -m + 1 .. m - 1,
         NEW o, o = (IF std <= m THEN k ELSE IF k < 0 THEN -((-k) % m) ELSE k % m),
         NEW r, r = (IF o < 0 THEN m - (-o) ELSE o)
  PROVE  r \in 0 .. m - 1 /\ Congruent(r, k, m)
<1>1. k % m \in 0 .. m - 1 /\ Congruent(k % m, k, m)
  BY CongruentRelation
<1> DEFINE g == (-k) % m
<1>2. g \in 0 .. m - 1 /\ Congruent(g, -k, m) /\ -k \in Int
  BY CongruentRelation
<1> HIDE DEF g
<1>3. PICK j \in Int : g = -k + j * m
  <2>1. g \in Int /\ -k \in Int
    BY <1>2
  <2> QED BY ONLY <1>2, <2>1, CongruentApart, m \in Nat \ {0} DEF Apart
<1>4. j * m \in Int /\ (-j) * m = -(j * m) /\ (1 - j) * m = m - j * m
  OBVIOUS
<1>5. o \in Int /\ -m < o /\ o < m
  <2>1. CASE std <= m
    BY <2>1
  <2>2. CASE ~(std <= m) /\ k < 0
    <3>1. o = -g
      BY <2>2 DEF g
    <3> QED BY ONLY <1>2, <3>1, m \in Nat \ {0}
  <2>3. CASE ~(std <= m) /\ ~(k < 0)
    <3>1. o = k % m
      BY <2>3
    <3> QED BY ONLY <1>1, <3>1, m \in Nat \ {0}
  <2> QED BY <2>1, <2>2, <2>3
<1>6. Congruent(o, k, m)
  <2>1. CASE std <= m
    BY <2>1 DEF Congruent
  <2>2. CASE ~(std <= m) /\ k < 0
    <3>1. o = -g
      BY <2>2 DEF g
    <3>2. Apart(o, k, -j, m)
      BY ONLY <1>2, <1>3, <1>4, <3>1, k \in Int DEF Apart
    <3>3. -j \in Int
      OBVIOUS
    <3> QED BY ONLY <1>5, <3>2, <3>3, ApartCongruent, m \in Nat \ {0}, k \in Int
  <2>3. CASE ~(std <= m) /\ ~(k < 0)
    <3>1. o = k % m
      BY <2>3
    <3> QED BY ONLY <1>1, <3>1
  <2> QED BY <2>1, <2>2, <2>3
<1>7. CASE o < 0
  <2>1. r = m + o /\ r \in 0 .. m - 1 /\ r \in Int
    BY <1>5, <1>7
  <2>2. Apart(r, o, 1, m) /\ 1 \in Int
    BY <1>5, <2>1 DEF Apart
  <2>3. Congruent(r, o, m)
    BY ONLY <1>5, <2>1, <2>2, ApartCongruent, m \in Nat \ {0}
  <2> QED BY ONLY <1>6, <2>1, <2>3 DEF Congruent
<1>8. CASE ~(o < 0)
  <2>1. r = o /\ r \in 0 .. m - 1
    BY <1>5, <1>8
  <2> QED BY ONLY <1>6, <2>1
<1> QED BY <1>7, <1>8

\* A bit, switched from each modulus to the next, stays the bit it is.
LEMMA BinaryFacts ==
  ASSUME NEW ms, Basis(ms), NEW b \in {0, 1},
         NEW out, out = CHOOSE g : g = [i \in DOMAIN ms |-> IF i = 1 THEN b ELSE SwitchEntry(g[i - 1], ms[i - 1], ms[i])]
  PROVE  Below(out, ms) /\ Carries(out, b, ms)
<1> DEFINE n == Len(ms)
           Is(g) == g = [i \in DOMAIN ms |-> IF i = 1 THEN b ELSE SwitchEntry(g[i - 1], ms[i - 1], ms[i])]
           f == [i \in 1 .. n |-> b]
<1>1. n \in Nat /\ DOMAIN ms = 1 .. n /\ \A i \in 1 .. n : Roomy(ms[i]) /\ ms[i] \in Nat \ {0, 1} /\ ms[i] % 2 = 1
  BY BasisFacts
<1>2. ASSUME NEW i \in 1 .. n, NEW j \in 1 .. n PROVE SwitchEntry(b, ms[i], ms[j]) = b /\ b \in 0 .. ms[j] - 1
  <2> DEFINE m == ms[i]
             p == ms[j]
  <2>1. Roomy(m) /\ Roomy(p) /\ m \in Nat /\ m % 2 = 1 /\ p \in Nat \ {0, 1} /\ m \in Nat \ {0, 1}
    BY <1>1
  <2> HIDE DEF m, p
  <2>2. b \in 0 .. m - 1 /\ b \in 0 .. p - 1 /\ p \in Nat \ {0}
    BY <2>1
  <2>3. m >= 3
    BY <2>1
  <2>4. Centre(b, m) = b
    <3>1. m \div 2 >= 1
      BY ONLY <2>3, <2>1
    <3>2. m \div 2 \in Int
      BY ONLY <2>1
    <3> QED BY <3>1, <3>2 DEF Centre, Half
  <2>5. SwitchEntry(b, m, p) = b % p
    BY ONLY <2>1, <2>2, <2>4, SwitchBelow
  <2>6. b % p = b
    BY ONLY <2>2, Remainders
  <2> QED BY ONLY <2>2, <2>5, <2>6 DEF m, p
<1>3. Is(f)
  <2>1. ASSUME NEW i \in 1 .. n
        PROVE f[i] = IF i = 1 THEN b ELSE SwitchEntry(f[i - 1], ms[i - 1], ms[i])
    <3>1. CASE i = 1
      BY <3>1
    <3>2. CASE i # 1
      <4>1. i - 1 \in 1 .. n
        BY <1>1, <3>2
      <4>2. f[i] = b /\ f[i - 1] = b
        BY ONLY <4>1, i \in 1 .. n
      <4>3. SwitchEntry(b, ms[i - 1], ms[i]) = b
        BY ONLY <1>2, <4>1, i \in 1 .. n
      <4> QED BY ONLY <3>2, <4>2, <4>3
    <3> QED BY <3>1, <3>2
  <2> DEFINE h == [i \in DOMAIN ms |-> IF i = 1 THEN b ELSE SwitchEntry(f[i - 1], ms[i - 1], ms[i])]
  <2>2. DOMAIN h = 1 .. n /\ DOMAIN f = 1 .. n /\ h = [i \in DOMAIN h |-> h[i]] /\ f = [i \in DOMAIN f |-> f[i]]
    BY <1>1
  <2>3. \A i \in 1 .. n : h[i] = f[i]
    BY <1>1, <2>1
  <2> HIDE DEF f
  <2>4. h = f
    <3> HIDE DEF h
    <3> QED BY ONLY <2>2, <2>3
  <2> QED BY <2>4
<1>4. Is(out)
  <2>1. out = CHOOSE g : Is(g)
    OBVIOUS
  <2> HIDE DEF Is, f
  <2> QED BY ONLY <1>3, <2>1
<1>5. /\ DOMAIN out = 1 .. n /\ out = [i \in DOMAIN out |-> out[i]]
      /\ \A i \in 1 .. n : out[i] = IF i = 1 THEN b ELSE SwitchEntry(out[i - 1], ms[i - 1], ms[i])
  BY <1>1, <1>4
<1> HIDE DEF Is, f
<1> DEFINE S == {k \in Nat : k + 1 <= n => out[k + 1] = b}
<1>6. 0 \in S
  <2> SUFFICES ASSUME 0 + 1 <= n PROVE out[0 + 1] = b
    OBVIOUS
  <2>1. 0 + 1 = 1 /\ 1 \in 1 .. n
    BY <1>1
  <2> QED BY ONLY <1>5, <2>1
<1>7. ASSUME NEW k \in Nat, k \in S PROVE k + 1 \in S
  <2> SUFFICES ASSUME (k + 1) + 1 <= n PROVE out[(k + 1) + 1] = b
    OBVIOUS
  <2> DEFINE i == (k + 1) + 1
  <2>1. i \in 1 .. n /\ i # 1 /\ i - 1 = k + 1 /\ i - 1 \in 1 .. n /\ k + 1 <= n
    BY <1>1
  <2>2. out[i - 1] = b
    BY <1>7, <2>1
  <2> HIDE DEF i, S
  <2>3. out[i] = SwitchEntry(b, ms[i - 1], ms[i])
    BY ONLY <1>5, <2>1, <2>2
  <2>4. out[i] = b
    BY ONLY <1>2, <2>1, <2>3
  <2> QED BY ONLY <2>4 DEF i
<1>8. Nat \subseteq S
  <2> HIDE DEF S
  <2> QED BY ONLY <1>6, <1>7, Induction
<1>9. \A i \in 1 .. n : out[i] = b
  <2> SUFFICES ASSUME NEW i \in 1 .. n PROVE out[i] = b
    OBVIOUS
  <2>1. i - 1 \in Nat /\ (i - 1) + 1 = i /\ (i - 1) + 1 <= n
    BY <1>1
  <2>2. i - 1 \in S
    BY <1>8, <2>1
  <2>3. (i - 1) + 1 <= n => out[(i - 1) + 1] = b
    BY ONLY <2>2
  <2> QED BY ONLY <2>1, <2>3
<1>10. \A i \in 1 .. n : out[i] \in 0 .. ms[i] - 1 /\ Congruent(out[i], b, ms[i])
  BY <1>2, <1>9 DEF Congruent
<1>11. b \in Int
  OBVIOUS
<1> QED BY ONLY <1>5, <1>10, <1>11, MadeCarries, Basis(ms)

\* One of three.
LEMMA TernaryFacts ==
  ASSUME NEW ms, Basis(ms), NEW k \in {-1, 0, 1},
         NEW out, out = [i \in DOMAIN ms |-> IF k < 0 THEN ms[i] - (-k) ELSE k]
  PROVE  Below(out, ms) /\ Carries(out, k, ms)
<1>1. DOMAIN ms = 1 .. Len(ms) /\ \A i \in 1 .. Len(ms) : ms[i] \in Nat \ {0, 1}
  BY BasisFacts
<1>2. ASSUME NEW i \in 1 .. Len(ms) PROVE out[i] \in 0 .. ms[i] - 1 /\ Congruent(out[i], k, ms[i])
  <2> DEFINE m == ms[i]
             r == out[i]
  <2>1. r = IF k < 0 THEN m - (-k) ELSE k
    BY <1>1
  <2>2. m \in Nat \ {0, 1} /\ m \in Nat \ {0}
    BY <1>1
  <2> HIDE DEF m, r
  <2>3. r \in 0 .. m - 1 /\ r \in Int /\ k \in Int
    BY <2>1, <2>2
  <2>4. Apart(r, k, 1, m) \/ Apart(r, k, 0, m)
    BY ONLY <2>1, <2>2, k \in {-1, 0, 1} DEF Apart
  <2>5. 1 \in Int /\ 0 \in Int
    OBVIOUS
  <2>6. Congruent(r, k, m)
    BY ONLY <2>2, <2>3, <2>4, <2>5, ApartCongruent
  <2> QED BY ONLY <2>3, <2>6 DEF m, r
<1>3. DOMAIN out = 1 .. Len(ms) /\ out = [i \in DOMAIN out |-> out[i]]
  BY <1>1
<1>4. k \in Int
  OBVIOUS
<1> QED BY ONLY <1>2, <1>3, <1>4, MadeCarries, Basis(ms)

-----------------------------------------------------------------------------
(* The invariant behind BasesKeepNumber, and the calls that keep it.       *)

\* How many multiples of Product(B) the conversion back from Bsk has room
\* for: in the redundant modulus, and in each modulus of Q.
Rooms == {msk \div 2 - Len(B)} \cup {m + 1 : m \in ModuliOf(Q)}

\* A number that FastRNSFloorq can be asked to divide, and one it may leave.
Dividable(v) ==
  v \in Int /\ \A t \in Plain, r \in Rooms : t * Magnitude(v) <= (r * Product(B) - Len(Q)) * Product(Q)
Convertible(w) == w \in Int /\ \A r \in Rooms : Magnitude(w) < r * Product(B)

\* The residues in the towers of Bsk.
InBsk(rs) == SubSeq(rs, Len(Q) + 1, Len(QBsk))

\* The residues are below their moduli in every basis that calls go on from.
\* In the basis of BEHZ they stand for a number small enough to divide, or
\* after the division the ones in Bsk do for a number small enough to convert
\* back, those in Q for nothing.
NumberInv ==
  /\ moduli \in NamedBases => Below(residues, moduli)
  /\ moduli = QBsk /\ lastCall.op # "FastRNSFloorq" => \E v : Dividable(v) /\ Carries(residues, v, QBsk)
  /\ lastCall.op = "FastRNSFloorq" => moduli = QBsk /\ \E w : Convertible(w) /\ Carries(InBsk(residues), w, Bsk)

\* The invariant outside the basis of BEHZ.
LEMMA InvElsewhere ==
  ASSUME moduli' # QBsk, lastCall'.op # "FastRNSFloorq", moduli' \in NamedBases => Below(residues', moduli')
  PROVE  NumberInv'
  BY DEF NumberInv

\* In that basis, before a division.
LEMMA InvDividable ==
  ASSUME moduli' = QBsk, lastCall'.op # "FastRNSFloorq", Below(residues', QBsk),
         NEW v, Dividable(v), Carries(residues', v, QBsk)
  PROVE  NumberInv'
  BY DEF NumberInv

\* And after one.
LEMMA InvConvertible ==
  ASSUME moduli' = QBsk, lastCall'.op = "FastRNSFloorq", Below(residues', QBsk),
         NEW w, Convertible(w), Carries(InBsk(residues'), w, Bsk)
  PROVE  NumberInv'
  BY DEF NumberInv

\* What a call that leaves numbers to QuotientsNear or MessagesReadOut says
\* of them here.
LEMMA OtherCalls ==
  ASSUME lastCall'.op \in {"Sample", "none", "TimesQovert", "FastExpandCRTBasisPloverQ", "ApproxModDown", "DivideByLast",
                       "ApproxScaleAndRound", "ScaleAndRound", "ScaleAndRoundToPlain", "ScaleAndRoundByGamma",
                       "FastRNSFloorq"}
  PROVE  NumberKept
  BY DEF NumberKept, After

\* Residues that carry a number stand for it.
LEMMA StandsMade ==
  ASSUME NEW ms, Basis(ms), moduli' = ms, NEW rs, residues' = rs, Below(rs, ms), NEW n, Carries(rs, n, ms)
  PROVE  Stands(n)
<1>1. Len(rs) = Len(ms) /\ \A i \in DOMAIN ms : n % ms[i] = rs[i]
  BY BelowStands
<1> QED BY ONLY <1>1, moduli' = ms, residues' = rs DEF Stands

\* A call that makes a number in a basis other than that of BEHZ.
LEMMA AssignKept ==
  ASSUME BasisAssumption, NEW ms \in {Q, QP}, NEW rs, NEW n, Become(ms, rs), CalledWith("Assign", n),
         Below(rs, ms), Carries(rs, n, ms)
  PROVE  NumberInv' /\ NumberKept
<1>1. Basis(ms) /\ ms # QBsk
  BY TheBases, BasesDiffer DEF NamedBases
<1>2. moduli' = ms /\ residues' = rs
  BY DEF Become
<1>3. lastCall'.op = "Assign" /\ lastCall'.arg = n
  BY DEF CalledWith, CalledIn
<1>4. Stands(n)
  BY ONLY <1>1, <1>2, StandsMade, Below(rs, ms), Carries(rs, n, ms)
<1>5. NumberKept
  BY <1>3, <1>4 DEF NumberKept, After
<1>6. NumberInv'
  BY <1>1, <1>2, <1>3, InvElsewhere
<1> QED BY <1>5, <1>6

\* A product, in the basis of BEHZ.
LEMMA ProductKept ==
  ASSUME BasisAssumption, NEW n \in Products, AssignLarge(n, QBsk)
  PROVE  NumberInv' /\ NumberKept
<1>1. Basis(QBsk)
  BY TheBases DEF NamedBases
<1>2. n \in Int /\ Dividable(n)
  BY DEF BasisAssumption, Dividable, Rooms
<1> DEFINE rs == [i \in DOMAIN QBsk |-> n % QBsk[i]]
<1>3. moduli' = QBsk /\ residues' = rs /\ lastCall'.op = "Assign" /\ lastCall'.arg = n
  BY DEF AssignLarge, Become, CalledWith, CalledIn
<1>4. Below(rs, QBsk) /\ Carries(rs, n, QBsk)
  BY <1>1, <1>2, LargeFacts
<1> HIDE DEF rs
<1>5. Stands(n)
  BY ONLY <1>1, <1>3, <1>4, StandsMade
<1>6. NumberKept
  BY <1>3, <1>5 DEF NumberKept, After
<1>7. NumberInv'
  BY <1>2, <1>3, <1>4, InvDividable
<1> QED BY <1>6, <1>7

\* Every way to make a coefficient.
LEMMA MakingKept ==
  ASSUME BasisAssumption, Making
  PROVE  NumberInv' /\ NumberKept
<1>1. Basis(Q) /\ Basis(QP) /\ Len(Q) > 0 /\ Len(QP) > 0 /\ QP[1] = Q[1] /\ Q # QBsk
  <2>1. Len(Q) \in Nat /\ Len(Q) > 1 /\ Len(P) \in Nat /\ Len(QP) = Len(Q) + Len(P)
        /\ \A i \in 1 .. Len(Q) : QP[i] = Q[i] /\ QBsk[i] = Q[i]
    BY TheBases
  <2>2. 1 \in 1 .. Len(Q)
    BY ONLY <2>1
  <2>3. Basis(Q) /\ Basis(QP) /\ Q # QBsk
    BY TheBases, BasesDiffer DEF NamedBases
  <2> QED BY ONLY <2>1, <2>2, <2>3
<1>2. ASSUME NEW ms \in {Q, QP}, NEW n \in 0 .. Product(ms) - 1, AssignLarge(n, ms) PROVE NumberInv' /\ NumberKept
  <2> DEFINE rs == [i \in DOMAIN ms |-> n % ms[i]]
  <2>1. n \in Int /\ Basis(ms)
    <3>1. Basis(ms)
      BY <1>1
    <3>2. Product(ms) \in Int
      BY <3>1, ProductInvertible
    <3> QED BY <3>1, <3>2
  <2>2. Become(ms, rs) /\ CalledWith("Assign", n)
    BY <1>2 DEF AssignLarge
  <2>3. Below(rs, ms) /\ Carries(rs, n, ms)
    BY <2>1, LargeFacts
  <2> HIDE DEF rs
  <2> QED BY ONLY <2>2, <2>3, AssignKept, BasisAssumption, ms \in {Q, QP}
<1>3. ASSUME NEW n \in Products, AssignLarge(n, QBsk) PROVE NumberInv' /\ NumberKept
  BY <1>3, ProductKept
<1>4. ASSUME NEW v \in 0 .. Q[1] - 1, AssignTower(v, QP) PROVE NumberInv' /\ NumberKept
  <2> DEFINE rs == [i \in DOMAIN QP |-> IF i = 1 THEN v ELSE SwitchEntry(v, QP[1], QP[i])]
             n == Centre(v, QP[1])
  <2>1. Become(QP, rs) /\ CalledWith("Assign", n)
    BY <1>4 DEF AssignTower
  <2>2. v \in 0 .. QP[1] - 1
    BY <1>1
  <2>3. Below(rs, QP) /\ Carries(rs, n, QP)
    BY <1>1, <2>2, TowerFacts
  <2>4. QP \in {Q, QP}
    OBVIOUS
  <2> HIDE DEF rs, n
  <2> QED BY ONLY <2>1, <2>3, <2>4, AssignKept, BasisAssumption
<1>5. ASSUME NEW k \in -Max(ModuliOf(QP)) .. Max(ModuliOf(QP)), NEW std \in Deviations, SampleGaussian(k, std, Q)
      PROVE  NumberInv' /\ NumberKept
  <2> DEFINE Of(m) == IF std <= m THEN k ELSE IF k < 0 THEN -((-k) % m) ELSE k % m
             rs == [i \in DOMAIN Q |-> IF Of(Q[i]) < 0 THEN Q[i] - (-Of(Q[i])) ELSE Of(Q[i])]
  <2>1. Become(Q, rs) /\ CalledWith("Assign", k) /\ \A m \in ModuliOf(Q) : std <= m => k \in -m + 1 .. m - 1
    BY <1>5 DEF SampleGaussian
  <2>2. DOMAIN Q = 1 .. Len(Q) /\ (\A i \in 1 .. Len(Q) : Q[i] \in Nat \ {0} /\ Q[i] \in ModuliOf(Q)) /\ k \in Int
    BY <1>1, BasisFacts DEF ModuliOf
  <2>3. DOMAIN rs = 1 .. Len(Q) /\ rs = [i \in DOMAIN rs |-> rs[i]]
        /\ \A i \in 1 .. Len(Q) : rs[i] = IF Of(Q[i]) < 0 THEN Q[i] - (-Of(Q[i])) ELSE Of(Q[i])
    BY <2>2
  <2> HIDE DEF rs
  <2>4. ASSUME NEW i \in 1 .. Len(Q) PROVE rs[i] \in 0 .. Q[i] - 1 /\ Congruent(rs[i], k, Q[i])
    <3> DEFINE m == Q[i]
               o == Of(m)
               r == rs[i]
    <3>1. m \in Nat \ {0} /\ (std <= m => k \in -m + 1 .. m - 1) /\ r = IF o < 0 THEN m - (-o) ELSE o
      BY ONLY <2>1, <2>2, <2>3, i \in 1 .. Len(Q)
    <3>2. o = (IF std <= m THEN k ELSE IF k < 0 THEN -((-k) % m) ELSE k % m)
      OBVIOUS
    <3> HIDE DEF m, o, r
    <3>3. r \in 0 .. m - 1 /\ Congruent(r, k, m)
      BY ONLY <2>2, <3>1, <3>2, GaussianEntry
    <3> QED BY ONLY <3>3 DEF m, r
  <2>5. Below(rs, Q) /\ Carries(rs, k, Q)
    BY ONLY <1>1, <2>2, <2>3, <2>4, MadeCarries
  <2>6. Q \in {Q, QP}
    OBVIOUS
  <2> QED BY ONLY <2>1, <2>5, <2>6, AssignKept, BasisAssumption
<1>6. ASSUME SampleUniform(Q) PROVE NumberInv' /\ NumberKept
  <2>1. moduli' = Q /\ lastCall'.op = "Sample" /\ residues' \in [DOMAIN Q -> UNION {0 .. m - 1 : m \in ModuliOf(Q)}]
        /\ \A i \in DOMAIN Q : residues'[i] < Q[i]
    BY <1>6 DEF SampleUniform, CalledWith, CalledIn
  <2>2. DOMAIN Q = 1 .. Len(Q) /\ \A i \in 1 .. Len(Q) : Q[i] \in Nat
    BY <1>1, BasisFacts
  <2> DEFINE rs == residues'
  <2>3. DOMAIN rs = 1 .. Len(Q) /\ rs = [i \in DOMAIN rs |-> rs[i]]
    BY <2>1, <2>2
  <2>4. ASSUME NEW i \in 1 .. Len(Q) PROVE rs[i] \in 0 .. Q[i] - 1
    <3>1. rs[i] \in UNION {0 .. m - 1 : m \in ModuliOf(Q)} /\ rs[i] < Q[i]
      BY <2>1, <2>2
    <3>2. rs[i] \in Nat
      <4>1. \A m \in ModuliOf(Q) : m \in Nat
        BY <2>2 DEF ModuliOf
      <4> QED BY <3>1, <4>1
    <3> QED BY <2>2, <3>1, <3>2
  <2> HIDE DEF rs
  <2>5. Below(rs, Q)
    BY ONLY <1>1, <2>3, <2>4, BelowMade
  <2>6. NumberInv'
    BY <1>1, <2>1, <2>5, InvElsewhere DEF rs
  <2> QED BY <2>1, <2>6, OtherCalls
<1>7. ASSUME NEW b \in {0, 1}, SampleBinary(b, Q) PROVE NumberInv' /\ NumberKept
  <2> DEFINE rs == CHOOSE g : g = [i \in DOMAIN Q |-> IF i = 1 THEN b ELSE SwitchEntry(g[i - 1], Q[i - 1], Q[i])]
  <2>1. Become(Q, rs) /\ CalledWith("Assign", b)
    BY <1>7 DEF SampleBinary
  <2>2. Below(rs, Q) /\ Carries(rs, b, Q)
    BY <1>1, BinaryFacts
  <2>3. Q \in {Q, QP}
    OBVIOUS
  <2> HIDE DEF rs
  <2> QED BY ONLY <2>1, <2>2, <2>3, AssignKept, BasisAssumption
<1>8. ASSUME NEW k \in {-1, 0, 1}, SampleTernary(k, Q) PROVE NumberInv' /\ NumberKept
  <2> DEFINE rs == [i \in DOMAIN Q |-> IF k < 0 THEN Q[i] - (-k) ELSE k]
  <2>1. Become(Q, rs) /\ CalledWith("Assign", k)
    BY <1>8 DEF SampleTernary
  <2>2. Below(rs, Q) /\ Carries(rs, k, Q)
    BY <1>1, TernaryFacts
  <2>3. Q \in {Q, QP}
    OBVIOUS
  <2> HIDE DEF rs
  <2> QED BY ONLY <2>1, <2>2, <2>3, AssignKept, BasisAssumption
<1> QED BY <1>2, <1>3, <1>4, <1>5, <1>6, <1>7, <1>8 DEF Making

-----------------------------------------------------------------------------
(* Changes of basis.                                                       *)

\* Residues carry their number with any multiples of the modulus.
LEMMA MovedCarries ==
  ASSUME NEW ms, Basis(ms), NEW rs, Below(rs, ms), NEW u \in Int
  PROVE  /\ Carries(rs, Number(ms, rs) + u * Product(ms), ms)
         /\ Carries(rs, Number(ms, rs) - u * Product(ms), ms)
<1> DEFINE e == Number(ms, rs)
           q == Product(ms)
           v == e + u * q
           z == e - u * q
<1>1. e \in Int /\ q \in Nat \ {0} /\ q \in Int /\ \A n \in Int : Carries(rs, n, ms) <=> Congruent(n, e, q)
  BY NumberFacts, NumberCarried, ProductInvertible
<1> HIDE DEF e, q
<1>2. (-u) * q = -(u * q) /\ u * q \in Int /\ -u \in Int
  BY ONLY <1>1, u \in Int
<1>3. v \in Int /\ z \in Int /\ Apart(v, e, u, q) /\ Apart(z, e, -u, q)
  BY ONLY <1>1, <1>2 DEF Apart
<1> HIDE DEF v, z
<1>4. Congruent(v, e, q) /\ Congruent(z, e, q)
  BY ONLY <1>1, <1>2, <1>3, ApartCongruent, u \in Int
<1>5. Carries(rs, v, ms) /\ Carries(rs, z, ms)
  BY ONLY <1>1, <1>3, <1>4
<1> QED BY ONLY <1>5 DEF v, z, e, q

\* Reduced in every tower, integers are below the moduli.
LEMMA ReducedBelow ==
  ASSUME NEW ms, Basis(ms), NEW Y, \A i \in 1 .. Len(ms) : Y[i] \in Int,
         NEW out, out = [i \in DOMAIN ms |-> Y[i] % ms[i]]
  PROVE  Below(out, ms)
<1>1. DOMAIN ms = 1 .. Len(ms) /\ \A i \in 1 .. Len(ms) : ms[i] \in Nat \ {0}
  BY BasisFacts
<1>2. ASSUME NEW i \in 1 .. Len(ms) PROVE out[i] \in 0 .. ms[i] - 1
  <2> DEFINE m == ms[i]
             r == out[i]
             y0 == Y[i]
  <2>1. r = y0 % m /\ m \in Nat \ {0} /\ y0 \in Int
    BY <1>1
  <2> HIDE DEF m, r, y0
  <2>2. y0 % m \in 0 .. m - 1
    BY ONLY <2>1, CongruentRelation
  <2> QED BY ONLY <2>1, <2>2 DEF m, r
<1>3. DOMAIN out = 1 .. Len(ms) /\ out = [i \in DOMAIN out |-> out[i]]
  BY <1>1
<1> QED BY ONLY <1>2, <1>3, BelowMade, Basis(ms)

\* What any conversion of this kind leaves is below the moduli.
LEMMA ApproxBelow ==
  ASSUME NEW ms, Basis(ms), NEW ps, Basis(ps), NEW v, Below(v, ms), NEW reduced \in BOOLEAN,
         NEW hats, \A i \in 1 .. Len(ms), j \in 1 .. Len(ps) : hats[i][j] \in Int,
         NEW out, out = ApproxSwitched(v, ms, ps, hats, reduced)
  PROVE  Below(out, ps)
<1> DEFINE T(i, p) == IF reduced THEN SwitchEntry(v[i], ms[i], p) ELSE v[i]
           s(j) == [i \in DOMAIN ms |-> T(i, ps[j]) * hats[i][j]]
           Y == [j \in 1 .. Len(ps) |-> Sum(s(j))]
<1>1. DOMAIN ms = 1 .. Len(ms) /\ Len(ms) \in Nat /\ DOMAIN ps = 1 .. Len(ps)
  BY BasisFacts
<1>2. out = [j \in DOMAIN ps |-> Sum(s(j)) % ps[j]]
  BY DEF ApproxSwitched
<1>3. ASSUME NEW j \in 1 .. Len(ps) PROVE Sum(s(j)) \in Int
  <2>1. ASSUME NEW i \in 1 .. Len(ms) PROVE T(i, ps[j]) * hats[i][j] \in Int
    <3> DEFINE m == ms[i]
               p == ps[j]
               r == v[i]
    <3>1. Roomy(m) /\ Roomy(p) /\ r \in 0 .. m - 1 /\ r \in Int /\ m \in Nat /\ p \in Nat /\ hats[i][j] \in Int
      BY BasisFacts, BelowFacts
    <3>2. T(i, p) = IF reduced THEN SwitchEntry(r, m, p) ELSE r
      OBVIOUS
    <3> HIDE DEF m, p, r, T
    <3>3. SwitchEntry(r, m, p) \in 0 .. p - 1
      BY ONLY <3>1, SwitchBelow
    <3>4. T(i, p) \in Int
      BY ONLY <3>1, <3>2, <3>3
    <3>5. T(i, p) * hats[i][j] \in Int
      BY ONLY <3>1, <3>4
    <3> QED BY ONLY <3>5 DEF p
  <2> HIDE DEF T
  <2>2. s(j) \in [1 .. Len(ms) -> Int]
    BY <1>1, <2>1
  <2> HIDE DEF s
  <2> QED BY ONLY <1>1, <2>2, SumInteger
<1> HIDE DEF s
<1>4. (\A j \in 1 .. Len(ps) : Y[j] \in Int) /\ out = [j \in DOMAIN ps |-> Y[j] % ps[j]]
  BY <1>1, <1>2, <1>3
<1> HIDE DEF Y
<1> QED BY ONLY <1>4, ReducedBelow, Basis(ps)

\* A call that QuotientsNear is about keeps the invariant by its residues
\* alone.
LEMMA OtherKept ==
  ASSUME BasisAssumption, NEW ms \in NamedBases, ms # QBsk, NEW rs, Become(ms, rs), Below(rs, ms),
         lastCall'.op \in {"Sample", "TimesQovert", "FastExpandCRTBasisPloverQ", "ApproxModDown", "DivideByLast",
                       "ApproxScaleAndRound", "ScaleAndRound"}
  PROVE  NumberInv' /\ NumberKept
<1>1. moduli' = ms /\ residues' = rs
  BY DEF Become
<1>2. lastCall'.op # "FastRNSFloorq"
  OBVIOUS
<1>3. NumberInv'
  BY <1>1, <1>2, InvElsewhere
<1>4. NumberKept
  BY OtherCalls
<1> QED BY <1>3, <1>4

\* What the invariant says of the residues before a call.
LEMMA InvBelow ==
  ASSUME NumberInv, NEW ms \in NamedBases, moduli = ms
  PROVE  Below(residues, ms)
  BY DEF NumberInv

\* The exact conversion, wherever the number then stands.
LEMMA SwitchedKept ==
  ASSUME BasisAssumption, NEW ms, moduli = ms, NEW bs \in NamedBases, bs # QBsk,
         moduli' = bs, Below(residues', bs), lastCall'.op = "SwitchCRTBasis",
         NEW k \in 0 .. 1, NEW v, v = Number(ms, residues) - k * Product(ms),
         AtMostHalf(v, Product(ms)), Carries(residues', v, bs)
  PROVE  NumberInv' /\ NumberKept
<1>1. Basis(bs)
  BY TheBases
<1>2. Stands(v)
  BY <1>1, StandsMade
<1>3. SwitchedStands
  BY ONLY <1>2, moduli = ms, k \in 0 .. 1, v = Number(ms, residues) - k * Product(ms),
          AtMostHalf(v, Product(ms)) DEF SwitchedStands, Old
<1>4. NumberKept
  BY ONLY <1>3, lastCall'.op = "SwitchCRTBasis" DEF NumberKept, After
<1>5. lastCall'.op # "FastRNSFloorq"
  OBVIOUS
<1>6. NumberInv'
  BY <1>5, InvElsewhere
<1> QED BY <1>4, <1>6

\* SwitchCRTBasis, there or back.
LEMMA SwitchKept ==
  ASSUME BasisAssumption, NumberInv, NEW ms \in {Q, P}, NEW ps \in {Q, P}, moduli = ms, SwitchCRTBasis(ps)
  PROVE  NumberInv' /\ NumberKept
<1>1. Basis(ms) /\ Basis(ps) /\ ps \in NamedBases /\ ps # QBsk /\ ms \in NamedBases
  BY TheBases, BasesDiffer DEF NamedBases
<1>2. Below(residues, ms)
  BY <1>1, InvBelow
<1>3. moduli' = ps /\ residues' \in SwitchedCRTBasis(residues, ms, ps) /\ lastCall'.op = "SwitchCRTBasis"
  BY DEF SwitchCRTBasis, CalledWith, CalledIn
<1>4. Exactness \in Nat /\ Exactness > 2
  BY DEF BasisAssumption
<1>5. /\ Below(residues', ps)
      /\ \E k \in 0 .. 1 :
           LET v == Number(ms, residues) - k * Product(ms)
           IN  AtMostHalf(v, Product(ms)) /\ Carries(residues', v, ps)
  BY ONLY <1>1, <1>2, <1>3, <1>4, SwitchedFacts
<1>6. PICK k \in 0 .. 1 : /\ AtMostHalf(Number(ms, residues) - k * Product(ms), Product(ms))
                          /\ Carries(residues', Number(ms, residues) - k * Product(ms), ps)
  BY <1>5
<1> QED BY ONLY <1>1, <1>3, <1>5, <1>6, SwitchedKept, BasisAssumption, moduli = ms

\* With the towers of P appended or prepended.
LEMMA ExpandKept ==
  ASSUME BasisAssumption, NumberInv, moduli = Q, ExpandCRTBasis \/ ExpandCRTBasisReverseOrder
  PROVE  NumberInv' /\ NumberKept
<1>1. /\ Basis(Q) /\ Basis(P) /\ Basis(QP) /\ Basis(P \o Q) /\ Q \in NamedBases
      /\ QP \in NamedBases /\ QP # QBsk /\ P \o Q \in NamedBases /\ P \o Q # QBsk
  BY TheBases, BasesDiffer DEF NamedBases
<1>2. Q \in Seq(Nat) /\ P \in Seq(Nat) /\ QP = Q \o P
  BY WholeBases
<1>3. Below(residues, Q)
  BY <1>1, InvBelow
<1>4. Exactness \in Nat /\ Exactness > 2
  BY DEF BasisAssumption
<1>5. PICK rs \in SwitchedCRTBasis(residues, Q, P) :
        /\ lastCall'.op = "SwitchCRTBasis"
        /\ \/ moduli' = Q \o P /\ residues' = residues \o rs
           \/ moduli' = P \o Q /\ residues' = rs \o residues
  <2>1. CASE ExpandCRTBasis
    <3>1. /\ moduli' = moduli \o P /\ lastCall'.op = "SwitchCRTBasis"
          /\ \E rs \in SwitchedCRTBasis(residues, moduli, P) : residues' = residues \o rs
      BY <2>1 DEF ExpandCRTBasis, CalledWith, CalledIn
    <3> QED BY ONLY <3>1, moduli = Q
  <2>2. CASE ExpandCRTBasisReverseOrder
    <3>1. /\ moduli' = P \o moduli /\ lastCall'.op = "SwitchCRTBasis"
          /\ \E rs \in SwitchedCRTBasis(residues, moduli, P) : residues' = rs \o residues
      BY <2>2 DEF ExpandCRTBasisReverseOrder, CalledWith, CalledIn
    <3> QED BY ONLY <3>1, moduli = Q
  <2> QED BY <2>1, <2>2
<1>6. /\ Below(rs, P)
      /\ \E k \in 0 .. 1 :
           LET v == Number(Q, residues) - k * Product(Q)
           IN  AtMostHalf(v, Product(Q)) /\ Carries(rs, v, P)
  BY ONLY <1>1, <1>3, <1>4, <1>5, SwitchedFacts
<1>7. PICK k \in 0 .. 1 : /\ AtMostHalf(Number(Q, residues) - k * Product(Q), Product(Q))
                          /\ Carries(rs, Number(Q, residues) - k * Product(Q), P)
  BY <1>6
<1> DEFINE v == Number(Q, residues) - k * Product(Q)
<1>8. Carries(residues, v, Q) /\ AtMostHalf(v, Product(Q)) /\ Carries(rs, v, P)
  <2>1. k \in Int
    OBVIOUS
  <2> QED BY <1>1, <1>3, <1>7, <2>1, MovedCarries
<1>9. v = Number(Q, residues) - k * Product(Q)
  OBVIOUS
<1> HIDE DEF v
<1>10. Below(residues \o rs, Q \o P) /\ Carries(residues \o rs, v, Q \o P)
  <2>1. Basis(Q \o P)
    BY <1>1, <1>2
  <2> QED BY ONLY <1>2, <1>3, <1>6, <1>8, <2>1, BelowJoins
<1>11. Below(rs \o residues, P \o Q) /\ Carries(rs \o residues, v, P \o Q)
  BY ONLY <1>1, <1>2, <1>3, <1>6, <1>8, BelowJoins
<1>12. CASE moduli' = Q \o P /\ residues' = residues \o rs
  <2>1. moduli' = QP /\ Below(residues', QP) /\ Carries(residues', v, QP)
    BY <1>2, <1>10, <1>12
  <2> QED BY ONLY <1>1, <1>5, <1>8, <1>9, <2>1, SwitchedKept, BasisAssumption, moduli = Q
<1>13. CASE moduli' = P \o Q /\ residues' = rs \o residues
  <2>1. moduli' = P \o Q /\ Below(residues', P \o Q) /\ Carries(residues', v, P \o Q)
    BY <1>11, <1>13
  <2> QED BY ONLY <1>1, <1>5, <1>8, <1>9, <2>1, SwitchedKept, BasisAssumption, moduli = Q
<1> QED BY <1>5, <1>12, <1>13

\* ApproxModUp.
LEMMA ModUpKept ==
  ASSUME BasisAssumption, NumberInv, moduli = Q, NEW reduced \in BOOLEAN, ApproxModUp(reduced)
  PROVE  NumberInv' /\ NumberKept
<1> DEFINE n == Len(Q)
           q == Product(Q)
           e == Number(Q, residues)
           out == ApproxSwitchCRTBasis(residues, Q, P, reduced)
<1>1. /\ Basis(Q) /\ Basis(P) /\ Basis(QP) /\ Q \in NamedBases /\ QP \in NamedBases /\ QP # QBsk
      /\ Len(Q) \in Nat /\ Len(Q) > 1
  BY TheBases, BasesDiffer DEF NamedBases
<1>2. Q \in Seq(Nat) /\ P \in Seq(Nat) /\ QP = Q \o P /\ Basis(Q \o P) /\ Len(Q) > 0
  <2>1. Q \in Seq(Nat) /\ P \in Seq(Nat) /\ QP = Q \o P
    BY WholeBases
  <2>2. Len(Q) > 0
    BY ONLY <1>1
  <2> QED BY ONLY <1>1, <2>1, <2>2
<1>3. Below(residues, Q)
  BY <1>1, InvBelow
<1>4. moduli' = QP /\ residues' = residues \o out /\ lastCall'.op = "ApproxModUp" /\ lastCall'.reduced = reduced
  BY <1>2 DEF ApproxModUp, Become, CalledIn
<1>5. /\ Below(out, P)
      /\ \E u \in -n .. n :
           LET v == e + u * q
           IN  /\ Carries(out, v, P)
               /\ IF reduced THEN 2 * Magnitude(v) <= n * q ELSE v \in 0 .. n * q - 1
  BY ONLY <1>1, <1>2, <1>3, ApproxNumber, reduced \in BOOLEAN
<1>6. PICK u \in -n .. n : /\ Carries(out, e + u * q, P)
                           /\ IF reduced THEN 2 * Magnitude(e + u * q) <= n * q ELSE e + u * q \in 0 .. n * q - 1
  BY <1>5
<1> DEFINE v == e + u * q
<1>7. Carries(residues, v, Q)
  <2>1. u \in Int
    BY <1>1
  <2> QED BY <1>1, <1>3, <2>1, MovedCarries
<1>8. Carries(out, v, P) /\ IF reduced THEN 2 * Magnitude(v) <= n * q ELSE v \in 0 .. n * q - 1
  BY <1>6
<1>9. Approximate(v, n, q)
  BY ONLY <1>4, <1>8 DEF Approximate
<1> HIDE DEF v, out
<1>10. Below(residues', QP) /\ Carries(residues', v, QP)
  BY ONLY <1>2, <1>3, <1>4, <1>5, <1>7, <1>8, BelowJoins
<1>11. Stands(v)
  BY ONLY <1>1, <1>4, <1>10, StandsMade
<1>12. ModUpStands
  BY ONLY <1>9, <1>11, moduli = Q, u \in -n .. n DEF ModUpStands, Old, v
<1>13. NumberKept
  BY ONLY <1>4, <1>12 DEF NumberKept, After
<1>14. NumberInv'
  BY <1>1, <1>4, <1>10, InvElsewhere
<1> QED BY <1>13, <1>14

\* FastExpandCRTBasisPloverQ.
LEMMA PloverQKept ==
  ASSUME BasisAssumption, NumberInv, moduli = Q, NEW reduced \in BOOLEAN, FastExpandCRTBasisPloverQ(reduced)
  PROVE  NumberInv' /\ NumberKept
<1> DEFINE c == [i \in DOMAIN Q |-> (-Product(P) * HatInvMod(Q, i)) % Q[i]]
           h == [i \in DOMAIN Q |-> [j \in DOMAIN P |-> InvMod(Q[i], P[j])]]
           y1 == Twisted(residues, Q, c)
           out == ApproxSwitched(y1, Q, P, h, reduced)
<1>1. /\ Basis(Q) /\ Basis(P) /\ Basis(QP) /\ Q \in NamedBases /\ QP \in NamedBases /\ QP # QBsk
      /\ \A i \in 1 .. Len(Q), j \in 1 .. Len(P) : IsUnit(Q[i], P[j])
  BY TheBases, BasesDiffer DEF NamedBases
<1>2. Q \in Seq(Nat) /\ P \in Seq(Nat) /\ QP = Q \o P /\ Basis(Q \o P)
  BY <1>1, WholeBases
<1>3. Below(residues, Q)
  BY <1>1, InvBelow
<1>4. moduli' = QP /\ lastCall'.op = "FastExpandCRTBasisPloverQ"
      /\ \E rs \in SwitchedCRTBasis(out, P, Q) : residues' = rs \o out
  BY <1>2 DEF FastExpandCRTBasisPloverQ, CalledIn, Towers
<1>5. DOMAIN Q = 1 .. Len(Q) /\ DOMAIN P = 1 .. Len(P)
      /\ (\A i \in 1 .. Len(Q) : Q[i] \in Nat \ {0}) /\ \A j \in 1 .. Len(P) : P[j] \in Nat \ {0, 1}
  BY ONLY <1>1, BasisFacts
<1>6. \A i \in 1 .. Len(Q) : residues[i] \in Int /\ c[i] \in Int
  <2> SUFFICES ASSUME NEW i \in 1 .. Len(Q) PROVE residues[i] \in Int /\ c[i] \in Int
    OBVIOUS
  <2> DEFINE m == Q[i]
             x0 == -Product(P) * HatInvMod(Q, i)
             r == c[i]
  <2>1. residues[i] \in Int /\ HatInvMod(Q, i) \in Int /\ Product(P) \in Int /\ m \in Nat \ {0}
    BY <1>1, <1>3, <1>5, BelowFacts, HatInvFacts, ProductInvertible
  <2>2. x0 \in Int
    BY ONLY <2>1
  <2>3. r = x0 % m
    BY <1>5
  <2> HIDE DEF x0, m, r
  <2>4. x0 % m \in 0 .. m - 1
    BY ONLY <2>1, <2>2, CongruentRelation
  <2>5. r \in Int
    BY ONLY <2>1, <2>3, <2>4
  <2> QED BY ONLY <2>1, <2>5 DEF r
<1>7. \A i \in 1 .. Len(Q), j \in 1 .. Len(P) : h[i][j] \in Int
  <2> SUFFICES ASSUME NEW i \in 1 .. Len(Q), NEW j \in 1 .. Len(P) PROVE h[i][j] \in Int
    OBVIOUS
  <2>1. h[i][j] = InvMod(Q[i], P[j])
    BY <1>5
  <2> DEFINE m == Q[i]
             p == P[j]
  <2>2. m \in Int /\ p \in Nat \ {0, 1} /\ IsUnit(m, p)
    BY <1>1, <1>5
  <2> HIDE DEF m, p, h
  <2>3. InvMod(m, p) \in 0 .. p - 1
    BY ONLY <2>2, InverseFound
  <2>4. InvMod(m, p) \in Int
    BY ONLY <2>2, <2>3
  <2> QED BY ONLY <2>1, <2>4 DEF m, p
<1> HIDE DEF c, h
<1>8. Below(y1, Q)
  BY ONLY <1>1, <1>6, TwistedFacts
<1> HIDE DEF y1
<1>9. Below(out, P)
  BY ONLY <1>1, <1>7, <1>8, ApproxBelow, reduced \in BOOLEAN
<1> HIDE DEF out
<1>10. PICK rs \in SwitchedCRTBasis(out, P, Q) : residues' = rs \o out
  BY <1>4
<1>11. Below(rs, Q)
  <2>1. Exactness \in Nat /\ Exactness > 2
    BY DEF BasisAssumption
  <2> QED BY ONLY <1>1, <1>9, <1>10, <2>1, SwitchedFacts
<1>12. Below(rs \o out, QP)
  BY ONLY <1>2, <1>9, <1>11, BelowJoins
<1> DEFINE ss == rs \o out
<1>13. Become(QP, ss) /\ Below(ss, QP)
  BY <1>4, <1>10, <1>12 DEF Become
<1> HIDE DEF ss
<1>14. lastCall'.op \in {"Sample", "TimesQovert", "FastExpandCRTBasisPloverQ", "ApproxModDown", "DivideByLast",
                       "ApproxScaleAndRound", "ScaleAndRound"}
  BY <1>4
<1> QED BY ONLY <1>1, <1>13, <1>14, OtherKept, BasisAssumption

-----------------------------------------------------------------------------
(* Divisions, and what is made from a message.                             *)

\* Inverses are integers.
LEMMA InverseInteger ==
  ASSUME NEW m \in Nat \ {0, 1}, NEW n \in Int, IsUnit(n, m)
  PROVE  InvMod(n, m) \in Int
<1>1. InvMod(n, m) \in 0 .. m - 1
  BY InverseFound
<1> QED BY <1>1

\* Remainders are integers.
LEMMA RemainderInteger ==
  ASSUME NEW m \in Nat \ {0}, NEW n \in Int
  PROVE  n % m \in Int /\ n % m \in 0 .. m - 1 /\ n \div m \in Int
<1>1. n % m \in 0 .. m - 1
  BY CongruentRelation
<1> QED BY <1>1

\* Plaintext moduli are invertible in every tower of Q and P.
LEMMA PlainFacts ==
  ASSUME BasisAssumption, NEW t \in Plain
  PROVE  /\ t \in Nat \ {0, 1} /\ t \in Nat \ {0} /\ t \in Int
         /\ \A i \in 1 .. Len(Q) : IsUnit(t, Q[i]) /\ InvMod(t, Q[i]) \in Int
         /\ \A j \in 1 .. Len(P) : IsUnit(t, P[j]) /\ InvMod(t, P[j]) \in Int
<1>1. t \in Nat \ {0, 1} /\ \A m \in ModuliOf(QP) : Coprime(m, t)
  BY DEF BasisAssumption
<1>2. /\ Basis(QP) /\ Basis(Q) /\ Basis(P) /\ Len(QP) = Len(Q) + Len(P) /\ Len(Q) \in Nat /\ Len(P) \in Nat
      /\ \A i \in 1 .. Len(Q) : QP[i] = Q[i]
      /\ \A j \in 1 .. Len(P) : QP[Len(Q) + j] = P[j]
  BY TheBases DEF NamedBases
<1>3. DOMAIN QP = 1 .. Len(QP) /\ (\A i \in 1 .. Len(Q) : Q[i] \in Nat \ {0, 1}) /\ \A j \in 1 .. Len(P) : P[j] \in Nat \ {0, 1}
  BY ONLY <1>2, BasisFacts
<1>4. ASSUME NEW m \in Nat \ {0, 1}, m \in ModuliOf(QP) PROVE IsUnit(t, m) /\ InvMod(t, m) \in Int
  <2>1. m \in Nat \ {0} /\ t \in Nat \ {0} /\ t \in Int /\ Coprime(m, t)
    BY <1>1, <1>4
  <2>2. IsUnit(m, t)
    BY ONLY <2>1, CoprimeInvertible
  <2>3. IsUnit(t, m)
    BY ONLY <2>1, <2>2, InvertibleSwaps
  <2> QED BY ONLY <2>1, <2>3, InverseInteger, m \in Nat \ {0, 1}
<1>5. (\A i \in 1 .. Len(Q) : Q[i] \in ModuliOf(QP)) /\ \A j \in 1 .. Len(P) : P[j] \in ModuliOf(QP)
  <2>1. (\A i \in 1 .. Len(Q) : i \in 1 .. Len(QP)) /\ \A j \in 1 .. Len(P) : Len(Q) + j \in 1 .. Len(QP)
    BY ONLY <1>2
  <2> QED BY ONLY <1>2, <1>3, <2>1 DEF ModuliOf
<1>6. t \in Nat \ {0} /\ t \in Int
  BY <1>1
<1> QED BY ONLY <1>1, <1>3, <1>4, <1>5, <1>6

\* TimesQovert.
LEMMA TimesKept ==
  ASSUME BasisAssumption, NumberInv, moduli = Q, NEW t \in Plain, TimesQovert(t)
  PROVE  NumberInv' /\ NumberKept
<1> DEFINE g == (-Product(Q)) % t
           Y == [i \in DOMAIN Q |-> (residues[i] * g) % t]
           c == [i \in DOMAIN Q |-> InvMod(t, Q[i])]
           out == Twisted(Y, Q, c)
<1>1. Basis(Q) /\ Q \in NamedBases /\ Q # QBsk
  BY TheBases, BasesDiffer DEF NamedBases
<1>2. Below(residues, Q)
  BY <1>1, InvBelow
<1>3. Become(Q, out) /\ lastCall'.op = "TimesQovert"
  BY DEF TimesQovert, CalledWith, CalledIn, Towers, Become
<1>4. t \in Nat \ {0} /\ DOMAIN Q = 1 .. Len(Q) /\ Product(Q) \in Int /\ \A i \in 1 .. Len(Q) : residues[i] \in Int
  BY <1>1, <1>2, PlainFacts, BasisFacts, BelowFacts, ProductInvertible
<1>5. g \in Int
  <2>1. -Product(Q) \in Int
    BY ONLY <1>4
  <2> QED BY ONLY <1>4, <2>1, RemainderInteger
<1> HIDE DEF g
<1>6. \A i \in 1 .. Len(Q) : Y[i] \in Int /\ c[i] \in Int
  <2> SUFFICES ASSUME NEW i \in 1 .. Len(Q) PROVE Y[i] \in Int /\ c[i] \in Int
    OBVIOUS
  <2> DEFINE y0 == residues[i] * g
  <2>1. Y[i] = y0 % t /\ c[i] = InvMod(t, Q[i])
    BY <1>4
  <2>2. y0 \in Int
    BY <1>4, <1>5
  <2>3. InvMod(t, Q[i]) \in Int
    BY PlainFacts
  <2> HIDE DEF Y, c, y0
  <2>4. y0 % t \in Int
    BY ONLY <1>4, <2>2, RemainderInteger
  <2> QED BY ONLY <2>1, <2>3, <2>4
<1> HIDE DEF Y, c
<1>7. Below(out, Q)
  BY ONLY <1>1, <1>6, TwistedFacts
<1> HIDE DEF out
<1>8. lastCall'.op \in {"Sample", "TimesQovert", "FastExpandCRTBasisPloverQ", "ApproxModDown", "DivideByLast",
                       "ApproxScaleAndRound", "ScaleAndRound"}
  BY <1>3
<1> QED BY ONLY <1>1, <1>3, <1>7, <1>8, OtherKept, BasisAssumption

\* What a step that leaves reduced integers in the towers of Front(Q) keeps.
LEMMA LastKept ==
  ASSUME BasisAssumption, NEW Y, \A i \in 1 .. Len(Q) - 1 : Y[i] \in Int,
         moduli' = Front(Q), residues' = [i \in 1 .. Len(Q) - 1 |-> Y[i] % Q[i]], lastCall'.op = "DivideByLast"
  PROVE  NumberInv' /\ NumberKept
<1> DEFINE fs == Front(Q)
           rs == residues'
<1>1. Basis(fs) /\ fs \in NamedBases /\ fs # QBsk /\ Len(fs) = Len(Q) - 1 /\ \A i \in 1 .. Len(Q) - 1 : fs[i] = Q[i]
  BY TheBases, BasesDiffer DEF NamedBases
<1>2. DOMAIN fs = 1 .. Len(fs)
  BY <1>1, BasisFacts
<1>3. rs = [i \in DOMAIN fs |-> Y[i] % fs[i]]
  BY <1>1, <1>2
<1> HIDE DEF fs, rs
<1>4. Below(rs, fs)
  BY ONLY <1>1, <1>3, ReducedBelow, \A i \in 1 .. Len(Q) - 1 : Y[i] \in Int
<1>5. Become(fs, rs)
  BY DEF Become, fs, rs
<1>6. lastCall'.op \in {"Sample", "TimesQovert", "FastExpandCRTBasisPloverQ", "ApproxModDown", "DivideByLast",
                       "ApproxScaleAndRound", "ScaleAndRound"}
  OBVIOUS
<1> QED BY ONLY <1>1, <1>4, <1>5, <1>6, OtherKept, BasisAssumption

\* The integers those steps are made of.
LEMMA LastIntegers ==
  ASSUME BasisAssumption, NumberInv, moduli = Q
  PROVE  LET n    == Len(Q) - 1
             last == Q[n + 1]
         IN  /\ n + 1 = Len(Q) /\ n \in Nat /\ last \in Nat \ {0, 1} /\ last \in Nat \ {0} /\ Roomy(last)
             /\ Len(Q) \in 1 .. Len(Q) /\ residues[n + 1] \in 0 .. last - 1 /\ residues[n + 1] \in Int
             /\ Product(Front(Q)) \in Int /\ IsUnit(Product(Front(Q)), last)
             /\ \A i \in 1 .. n : /\ Roomy(Q[i]) /\ Q[i] \in Nat \ {0} /\ Q[i] \in Int
                                  /\ residues[i] \in 0 .. Q[i] - 1 /\ residues[i] \in Int
                                  /\ InvMod(last, Q[i]) \in Int
                                  /\ \A v \in 0 .. last - 1 : /\ SwitchEntry(v, last, Q[i]) \in 0 .. Q[i] - 1
                                                              /\ SwitchEntry(v, last, Q[i]) \in Int
<1> DEFINE n == Len(Q) - 1
           k == Len(Q)
           last == Q[k]
<1>1. /\ Basis(Q) /\ Basis(Front(Q)) /\ Q \in NamedBases /\ k \in Nat /\ k > 1
      /\ Len(Front(Q)) = n /\ \A i \in 1 .. n : Front(Q)[i] = Q[i]
  BY TheBases DEF NamedBases
<1>2. Below(residues, Q)
  BY <1>1, InvBelow
<1>3. n + 1 = k /\ n \in Nat /\ k \in 1 .. k /\ \A i \in 1 .. n : i \in 1 .. k /\ i # k
  BY <1>1
<1> HIDE DEF n
<1>4. /\ \A i \in 1 .. k : Roomy(Q[i]) /\ Q[i] \in Nat \ {0} /\ Q[i] \in Nat \ {0, 1}
      /\ \A i, j \in 1 .. k : i # j => IsUnit(Q[i], Q[j])
  BY ONLY <1>1, BasisFacts
<1>5. \A i \in 1 .. k : residues[i] \in 0 .. Q[i] - 1 /\ residues[i] \in Int
  BY ONLY <1>1, <1>2, BelowFacts
<1>6. ASSUME NEW i \in 1 .. n
      PROVE  /\ Roomy(Q[i]) /\ Q[i] \in Nat \ {0} /\ Q[i] \in Int
             /\ residues[i] \in 0 .. Q[i] - 1 /\ residues[i] \in Int
             /\ InvMod(last, Q[i]) \in Int
             /\ \A v \in 0 .. last - 1 : /\ SwitchEntry(v, last, Q[i]) \in 0 .. Q[i] - 1
                                         /\ SwitchEntry(v, last, Q[i]) \in Int
  <2> DEFINE m == Q[i]
  <2>1. /\ Roomy(m) /\ m \in Nat \ {0} /\ m \in Nat \ {0, 1} /\ Roomy(last) /\ last \in Int /\ IsUnit(last, m)
        /\ residues[i] \in 0 .. m - 1 /\ residues[i] \in Int
    <3>1. last \in Nat \ {0} /\ Roomy(last)
      BY ONLY <1>3, <1>4
    <3>2. i \in 1 .. k /\ i # k
      BY ONLY <1>3, i \in 1 .. n
    <3>3. IsUnit(last, m)
      BY ONLY <1>3, <1>4, <3>2
    <3>4. Roomy(m) /\ m \in Nat \ {0} /\ m \in Nat \ {0, 1}
      BY ONLY <1>4, <3>2
    <3>5. residues[i] \in 0 .. m - 1 /\ residues[i] \in Int
      BY ONLY <1>5, <3>2
    <3> HIDE DEF last, m
    <3> QED BY ONLY <3>1, <3>3, <3>4, <3>5
  <2> HIDE DEF m, last
  <2>2. InvMod(last, m) \in Int
    BY ONLY <2>1, InverseInteger
  <2>3. ASSUME NEW v \in 0 .. last - 1 PROVE SwitchEntry(v, last, m) \in 0 .. m - 1 /\ SwitchEntry(v, last, m) \in Int
    <3>1. SwitchEntry(v, last, m) \in 0 .. m - 1
      BY ONLY <2>1, SwitchBelow, v \in 0 .. last - 1
    <3> QED BY ONLY <2>1, <3>1
  <2>4. m \in Int
    BY ONLY <2>1
  <2> QED BY ONLY <2>1, <2>2, <2>3, <2>4 DEF m
<1>7. Product(Front(Q)) \in Int /\ IsUnit(Product(Front(Q)), last)
  <2>1. \A i \in 1 .. Len(Front(Q)) : IsUnit(Front(Q)[i], last)
    BY ONLY <1>1, <1>3, <1>4
  <2>2. last \in Nat \ {0}
    BY ONLY <1>3, <1>4
  <2> HIDE DEF last
  <2> QED BY ONLY <1>1, <2>1, <2>2, ProductInvertible
<1>8. Roomy(last) /\ last \in Nat \ {0} /\ last \in Nat \ {0, 1} /\ residues[k] \in 0 .. last - 1 /\ residues[k] \in Int
  BY ONLY <1>3, <1>4, <1>5
<1>9. Q[n + 1] = last /\ residues[n + 1] = residues[k]
  BY ONLY <1>3
<1> HIDE DEF last
<1> QED BY ONLY <1>3, <1>6, <1>7, <1>8, <1>9 DEF n, k

\* ScaleAndRoundPOverQ.
LEMMA ScaledKept ==
  ASSUME BasisAssumption, NumberInv, moduli = Q, ScaleAndRoundPOverQ
  PROVE  NumberInv' /\ NumberKept
<1> DEFINE n == Len(Q) - 1
           k == n + 1
           last == Q[k]
           v == residues[k]
           w(i) == SwitchEntry(v, last, Q[i])
           Y == [i \in 1 .. n |-> ModSubFast(residues[i], w(i), Q[i]) * InvMod(last, Q[i])]
<1>1. /\ k = Len(Q) /\ n \in Nat /\ v \in 0 .. last - 1
      /\ \A i \in 1 .. n : /\ Roomy(Q[i]) /\ Q[i] \in Nat \ {0} /\ residues[i] \in 0 .. Q[i] - 1 /\ InvMod(last, Q[i]) \in Int
                           /\ w(i) \in 0 .. Q[i] - 1
  BY LastIntegers
<1>2. moduli' = Front(Q) /\ lastCall'.op = "DivideByLast" /\ residues' = [i \in DOMAIN Front(Q) |-> Y[i] % Q[i]]
  <2>1. DOMAIN Front(Q) = 1 .. n
    <3>1. Basis(Front(Q)) /\ Len(Front(Q)) = n
      BY TheBases DEF NamedBases
    <3> QED BY ONLY <3>1, BasisFacts
  <2>2. \A i \in 1 .. n : ScaledPOverQ(i) = Y[i] % Q[i]
    BY <1>1 DEF ScaledPOverQ
  <2>3. moduli' = Front(Q) /\ lastCall'.op = "DivideByLast" /\ residues' = [i \in DOMAIN Front(Q) |-> ScaledPOverQ(i)]
    BY DEF ScaleAndRoundPOverQ, Become, CalledWith, CalledIn
  <2> HIDE DEF Y, n
  <2> QED BY ONLY <2>1, <2>2, <2>3
<1>3. DOMAIN Front(Q) = 1 .. n
  <2>1. Basis(Front(Q)) /\ Len(Front(Q)) = n
    BY TheBases DEF NamedBases
  <2> QED BY ONLY <2>1, BasisFacts
<1>4. \A i \in 1 .. n : Y[i] \in Int
  <2> SUFFICES ASSUME NEW i \in 1 .. n PROVE Y[i] \in Int
    OBVIOUS
  <2> DEFINE m == Q[i]
             r == residues[i]
             u == w(i)
             g == InvMod(last, Q[i])
  <2>1. Roomy(m) /\ m \in Nat \ {0} /\ r \in 0 .. m - 1 /\ g \in Int /\ u \in 0 .. m - 1 /\ Y[i] = ModSubFast(r, u, m) * g
    BY <1>1
  <2> HIDE DEF m, r, u, g, Y
  <2>2. ModSubFast(r, u, m) = (r - u) % m /\ r \in Int /\ u \in Int
    BY ONLY <2>1, RoomySums
  <2>3. (r - u) % m \in Int
    <3>1. r - u \in Int
      BY ONLY <2>2
    <3> QED BY ONLY <2>1, <3>1, RemainderInteger
  <2> QED BY ONLY <2>1, <2>2, <2>3
<1> HIDE DEF Y
<1>5. residues' = [i \in 1 .. Len(Q) - 1 |-> Y[i] % Q[i]] /\ \A i \in 1 .. Len(Q) - 1 : Y[i] \in Int
  BY <1>2, <1>3, <1>4
<1> QED BY ONLY <1>2, <1>5, LastKept, BasisAssumption

\* DropLastElementAndScale.
LEMMA DroppedKept ==
  ASSUME BasisAssumption, NumberInv, moduli = Q, DropLastElementAndScale
  PROVE  NumberInv' /\ NumberKept
<1> DEFINE n == Len(Q) - 1
           last == Q[n + 1]
           Ql == Product(Front(Q))
           c(i) == ((Ql * InvMod(Ql, last)) \div last) % Q[i]
           w(i) == SwitchEntry(residues[n + 1], last, Q[i])
           Y == [i \in 1 .. n |-> residues[i] * InvMod(last, Q[i]) + w(i) * c(i)]
<1>1. /\ residues[n + 1] \in 0 .. last - 1 /\ last \in Nat \ {0, 1} /\ last \in Nat \ {0}
      /\ Ql \in Int /\ IsUnit(Ql, last)
      /\ \A i \in 1 .. n : /\ Q[i] \in Nat \ {0} /\ residues[i] \in Int /\ InvMod(last, Q[i]) \in Int
                           /\ w(i) \in Int
  BY LastIntegers
<1>2. moduli' = Front(Q) /\ lastCall'.op = "DivideByLast" /\ residues' = [i \in 1 .. n |-> Y[i] % Q[i]]
  BY DEF DropLastElementAndScale, Become, CalledWith, CalledIn
<1>3. \A i \in 1 .. n : Y[i] \in Int
  <2> SUFFICES ASSUME NEW i \in 1 .. n PROVE Y[i] \in Int
    OBVIOUS
  <2> DEFINE m == Q[i]
             r == residues[i]
             u == w(i)
             g == InvMod(last, Q[i])
             h == InvMod(Ql, last)
             d == (Ql * h) \div last
             e == d % m
  <2>1. m \in Nat \ {0} /\ r \in Int /\ g \in Int /\ u \in Int /\ Y[i] = r * g + u * e
    BY <1>1
  <2> HIDE DEF Ql, last
  <2>2. h \in Int
    BY ONLY <1>1, InverseInteger
  <2> HIDE DEF m, r, u, g, Y, h
  <2>3. Ql * h \in Int
    BY ONLY <1>1, <2>2
  <2>4. d \in Int
    BY ONLY <1>1, <2>3, RemainderInteger
  <2> HIDE DEF d
  <2>5. e \in Int
    BY ONLY <2>1, <2>4, RemainderInteger
  <2> HIDE DEF e
  <2> QED BY ONLY <2>1, <2>5
<1> HIDE DEF Y
<1> QED BY ONLY <1>2, <1>3, LastKept, BasisAssumption

\* ModReduce.
LEMMA ReducedKept ==
  ASSUME BasisAssumption, NumberInv, moduli = Q, NEW t \in Plain, ModReduce(t)
  PROVE  NumberInv' /\ NumberKept
<1> DEFINE n == Len(Q) - 1
           last == Q[n + 1]
           f == InvMod(t, last)
           h == (-f) % last
           v == residues[n + 1]
           delta == (v * h) % last
           w(i) == SwitchEntry(delta, last, Q[i])
           Y == [i \in 1 .. n |-> (w(i) * t + residues[i]) * InvMod(last, Q[i])]
<1>1. /\ n + 1 = Len(Q) /\ Len(Q) \in 1 .. Len(Q)
      /\ v \in Int /\ last \in Nat \ {0, 1} /\ last \in Nat \ {0}
      /\ \A i \in 1 .. n : /\ residues[i] \in Int /\ InvMod(last, Q[i]) \in Int
                           /\ \A r \in 0 .. last - 1 : SwitchEntry(r, last, Q[i]) \in Int
  BY LastIntegers
<1>2. moduli' = Front(Q) /\ lastCall'.op = "DivideByLast" /\ residues' = [i \in 1 .. n |-> Y[i] % Q[i]]
  BY DEF ModReduce, Become, CalledWith, CalledIn
<1>3. t \in Int /\ f \in Int
  BY <1>1, PlainFacts
<1>4. delta \in 0 .. last - 1
  <2> HIDE DEF last, f, v
  <2>1. -f \in Int
    BY ONLY <1>3
  <2>2. h \in Int
    BY ONLY <1>1, <2>1, RemainderInteger
  <2> HIDE DEF h
  <2>3. v * h \in Int
    BY ONLY <1>1, <2>2
  <2> QED BY ONLY <1>1, <2>3, RemainderInteger
<1>5. \A i \in 1 .. n : Y[i] \in Int
  <2> SUFFICES ASSUME NEW i \in 1 .. n PROVE Y[i] \in Int
    OBVIOUS
  <2> DEFINE r == residues[i]
             u == w(i)
             g == InvMod(last, Q[i])
  <2>1. Y[i] = (u * t + r) * g
    OBVIOUS
  <2> HIDE DEF delta, Y
  <2>2. r \in Int /\ g \in Int /\ u \in Int
    BY ONLY <1>1, <1>4, i \in 1 .. n
  <2> HIDE DEF r, u, g
  <2> QED BY ONLY <1>3, <2>1, <2>2
<1> HIDE DEF Y
<1> QED BY ONLY <1>2, <1>5, LastKept, BasisAssumption

-----------------------------------------------------------------------------
(* Divisions by a part of the basis.                                       *)

\* A join is made of its parts.
LEMMA PartsFound ==
  ASSUME NEW ms \in Seq(Nat), NEW ps \in Seq(Nat), Basis(ms \o ps)
  PROVE  SubSeq(ms \o ps, 1, Len(ms)) = ms /\ SubSeq(ms \o ps, Len(ms) + 1, Len(ms) + Len(ps)) = ps
<1> DEFINE l == Len(ms)
           k == Len(ps)
           both == ms \o ps
           lo == l + 1
           hi == l + k
           A == Nat
<1>1. /\ Len(both) = l + k /\ l \in Nat /\ k \in Nat
      /\ \A i \in 1 .. l : both[i] = ms[i]
      /\ \A j \in 1 .. k : both[l + j] = ps[j]
  BY BasisParts
<1>2. both \in Seq(A) /\ ms \in Seq(A) /\ ps \in Seq(A)
  BY ConcatProperties
<1>3. lo \in Int /\ hi \in Int /\ hi - lo + 1 = k /\ (IF lo <= hi THEN k ELSE 0) = k
      /\ (\A j \in 1 .. k : lo + j - 1 = l + j) /\ (\A i \in lo .. hi : i \in 1 .. l + k)
      /\ (\A i \in 1 .. l : i \in 1 .. l + k /\ 1 + i - 1 = i) /\ (IF 1 <= l THEN l - 1 + 1 ELSE 0) = l
      /\ l - 1 + 1 = l /\ l \in Int
  BY <1>1
<1> HIDE DEF l, k, both, lo, hi, A
<1>4. \A i \in 1 .. l + k : both[i] \in A
  BY ONLY <1>1, <1>2, ElementOfSeq
<1>5. SubSeq(both, 1, l) = ms
  <2>1. /\ SubSeq(both, 1, l) \in Seq(A) /\ Len(SubSeq(both, 1, l)) = (IF 1 <= l THEN l - 1 + 1 ELSE 0)
        /\ \A i \in 1 .. l - 1 + 1 : SubSeq(both, 1, l)[i] = both[1 + i - 1]
    <3>1. \A i \in 1 .. l : both[i] \in A
      BY ONLY <1>3, <1>4
    <3> QED BY ONLY <1>3, <3>1, SubSeqProperties, 1 \in Int
  <2> DEFINE u == SubSeq(both, 1, l)
  <2> HIDE DEF u
  <2>2. u \in Seq(A) /\ Len(u) = l /\ \A i \in 1 .. l : u[i] = ms[i]
    BY ONLY <1>1, <1>3, <2>1 DEF u
  <2>3. Len(ms) = l
    BY DEF l
  <2>4. u = ms
    BY ONLY <1>2, <2>2, <2>3, SeqEqual
  <2> QED BY ONLY <2>4 DEF u
<1>6. SubSeq(both, lo, hi) = ps
  <2>1. /\ SubSeq(both, lo, hi) \in Seq(A) /\ Len(SubSeq(both, lo, hi)) = (IF lo <= hi THEN hi - lo + 1 ELSE 0)
        /\ \A i \in 1 .. hi - lo + 1 : SubSeq(both, lo, hi)[i] = both[lo + i - 1]
    <3>1. \A i \in lo .. hi : both[i] \in A
      BY ONLY <1>3, <1>4
    <3> QED BY ONLY <1>3, <3>1, SubSeqProperties
  <2> DEFINE u == SubSeq(both, lo, hi)
  <2> HIDE DEF u
  <2>2. u \in Seq(A) /\ Len(u) = k /\ \A i \in 1 .. k : u[i] = ps[i]
    BY ONLY <1>1, <1>3, <2>1 DEF u
  <2>3. Len(ps) = k
    BY DEF k
  <2>4. u = ps
    BY ONLY <1>2, <2>2, <2>3, SeqEqual
  <2> QED BY ONLY <2>4 DEF u
<1> QED BY ONLY <1>5, <1>6 DEF l, k, both, lo, hi

\* ApproxModDown.
LEMMA ApproxDownKept ==
  ASSUME BasisAssumption, NumberInv, moduli = QP, NEW t \in {0} \cup Plain, NEW reduced \in BOOLEAN,
         ApproxModDown(t, reduced)
  PROVE  NumberInv' /\ NumberKept
<1> DEFINE l == Len(moduli) - Len(P)
           qs == SubSeq(moduli, 1, l)
           f == IF t > 0 THEN t ELSE 1
           partP == [j \in DOMAIN P |-> (residues[l + j] * InvMod(f, P[j])) % P[j]]
           inQ == ApproxSwitchCRTBasis(partP, P, qs, reduced)
           Y == [i \in DOMAIN qs |-> ModSubFast(residues[i], (inQ[i] * f) % qs[i], qs[i]) * InvMod(Product(P), qs[i])]
           out == [i \in DOMAIN qs |-> (ModSubFast(residues[i], (inQ[i] * f) % qs[i], qs[i]) * InvMod(Product(P), qs[i])) % qs[i]]
<1>1. /\ Basis(Q) /\ Basis(P) /\ Basis(QP) /\ Q \in NamedBases /\ Q # QBsk /\ QP \in NamedBases
      /\ Len(QP) = Len(Q) + Len(P) /\ Len(Q) \in Nat /\ Len(P) \in Nat /\ Len(P) > 0
      /\ \A i \in 1 .. Len(Q) : QP[i] = Q[i]
      /\ \A j \in 1 .. Len(P) : QP[Len(Q) + j] = P[j]
      /\ \A i \in 1 .. Len(Q), j \in 1 .. Len(P) : IsUnit(P[j], Q[i])
  BY TheBases, BasesDiffer DEF NamedBases
<1>2. Q \in Seq(Nat) /\ P \in Seq(Nat) /\ QP = Q \o P /\ Basis(Q \o P)
  BY <1>1, WholeBases
<1>3. Below(residues, QP)
  BY <1>1, InvBelow
<1>4. Become(qs, out) /\ lastCall'.op = "ApproxModDown"
  BY DEF ApproxModDown, CalledIn
<1>5. l = Len(Q)
  BY <1>1
<1>6. qs = Q
  BY ONLY <1>2, <1>5, PartsFound, moduli = QP
<1> HIDE DEF l
<1>7. f \in Int /\ \A j \in 1 .. Len(P) : InvMod(f, P[j]) \in Int
  <2>1. CASE t > 0
    <3>1. t \in Plain
      BY <2>1
    <3>2. f = t
      BY <2>1
    <3> HIDE DEF f
    <3> QED BY ONLY <3>1, <3>2, PlainFacts, BasisAssumption
  <2>2. CASE ~(t > 0)
    <3>1. f = 1
      BY <2>2
    <3>2. \A j \in 1 .. Len(P) : InvMod(1, P[j]) \in Int
      <4> SUFFICES ASSUME NEW j \in 1 .. Len(P) PROVE InvMod(1, P[j]) \in Int
        OBVIOUS
      <4> DEFINE p == P[j]
      <4>1. p \in Nat \ {0, 1} /\ p \in Nat \ {0}
        BY <1>1, BasisFacts
      <4> HIDE DEF p
      <4>2. 1 * 1 = 1 + 0 * p
        BY <4>1
      <4>3. IsUnit(1, p)
        BY ONLY <4>1, <4>2, ApartInvertible, 1 \in Int, 0 \in Int
      <4>4. InvMod(1, p) \in Int
        BY ONLY <4>1, <4>3, InverseInteger, 1 \in Int
      <4> QED BY ONLY <4>4 DEF p
    <3> HIDE DEF f
    <3> QED BY ONLY <3>1, <3>2
  <2> QED BY <2>1, <2>2
<1> HIDE DEF f
<1>8. \A i \in 1 .. Len(QP) : residues[i] \in 0 .. QP[i] - 1 /\ residues[i] \in Int
  BY <1>1, <1>3, BelowFacts
<1>9. DOMAIN P = 1 .. Len(P) /\ DOMAIN Q = 1 .. Len(Q) /\ Product(P) \in Int
      /\ (\A i \in 1 .. Len(Q) : Roomy(Q[i]) /\ Q[i] \in Nat \ {0} /\ Q[i] \in Nat \ {0, 1})
  BY <1>1, BasisFacts, ProductInvertible
<1>10. Below(partP, P)
  <2> DEFINE w == [j \in DOMAIN P |-> residues[l + j] * InvMod(f, P[j])]
  <2>1. \A j \in 1 .. Len(P) : w[j] \in Int
    <3> SUFFICES ASSUME NEW j \in 1 .. Len(P) PROVE w[j] \in Int
      OBVIOUS
    <3>1. l + j \in 1 .. Len(QP)
      BY ONLY <1>1, <1>5
    <3>2. residues[l + j] \in Int
      BY ONLY <1>8, <3>1
    <3>3. w[j] = residues[l + j] * InvMod(f, P[j])
      BY <1>9
    <3> QED BY ONLY <1>7, <3>2, <3>3
  <2>2. partP = [j \in DOMAIN P |-> w[j] % P[j]]
    OBVIOUS
  <2> HIDE DEF w, partP
  <2> QED BY ONLY <1>1, <2>1, <2>2, ReducedBelow
<1> HIDE DEF partP
<1>11. Below(inQ, Q)
  BY ONLY <1>1, <1>6, <1>10, ApproxNumber, reduced \in BOOLEAN
<1> HIDE DEF inQ
<1>12. \A i \in 1 .. Len(Q) : inQ[i] \in Int
  BY ONLY <1>1, <1>11, BelowFacts
<1>13. \A i \in 1 .. Len(Q) : InvMod(Product(P), Q[i]) \in Int
  <2> SUFFICES ASSUME NEW i \in 1 .. Len(Q) PROVE InvMod(Product(P), Q[i]) \in Int
    OBVIOUS
  <2> DEFINE m == Q[i]
  <2>1. (\A j \in 1 .. Len(P) : IsUnit(P[j], m)) /\ m \in Nat \ {0} /\ m \in Nat \ {0, 1}
    BY <1>1, <1>9
  <2> HIDE DEF m
  <2>2. IsUnit(Product(P), m)
    BY ONLY <1>1, <2>1, ProductInvertible
  <2>3. InvMod(Product(P), m) \in Int
    BY ONLY <1>9, <2>1, <2>2, InverseInteger
  <2> QED BY ONLY <2>3 DEF m
<1>14. \A i \in 1 .. Len(Q) : Y[i] \in Int
  <2> SUFFICES ASSUME NEW i \in 1 .. Len(Q) PROVE Y[i] \in Int
    OBVIOUS
  <2> DEFINE m == qs[i]
             r == residues[i]
             u == inQ[i] * f
             h == u % m
             g == InvMod(Product(P), m)
  <2>1. i \in DOMAIN qs
    BY ONLY <1>6, <1>9, i \in 1 .. Len(Q)
  <2>2. Y[i] = ModSubFast(r, h, m) * g
    BY <2>1
  <2>3. m = Q[i]
    BY ONLY <1>6
  <2>4. r \in 0 .. m - 1
    <3>1. i \in 1 .. Len(QP) /\ QP[i] = Q[i]
      BY ONLY <1>1, i \in 1 .. Len(Q)
    <3> HIDE DEF m
    <3> QED BY ONLY <1>8, <2>3, <3>1
  <2>5. Roomy(m) /\ m \in Nat \ {0} /\ u \in Int /\ g \in Int
    <3> HIDE DEF m
    <3> QED BY ONLY <1>7, <1>9, <1>12, <1>13, <2>3, i \in 1 .. Len(Q)
  <2> HIDE DEF m, r, u, g, Y
  <2>6. h \in 0 .. m - 1
    BY ONLY <2>5, RemainderInteger
  <2> HIDE DEF h
  <2>7. ModSubFast(r, h, m) = (r - h) % m /\ r \in Int /\ h \in Int
    BY ONLY <2>4, <2>5, <2>6, RoomySums
  <2>8. (r - h) % m \in Int
    <3>1. r - h \in Int
      BY ONLY <2>7
    <3> QED BY ONLY <2>5, <3>1, RemainderInteger
  <2> QED BY ONLY <2>2, <2>5, <2>7, <2>8
<1>15. out = [i \in DOMAIN qs |-> Y[i] % qs[i]]
  OBVIOUS
<1> HIDE DEF qs, Y, out
<1>16. Below(out, qs) /\ qs \in NamedBases /\ qs # QBsk
  BY ONLY <1>1, <1>6, <1>14, <1>15, ReducedBelow
<1>17. lastCall'.op \in {"Sample", "TimesQovert", "FastExpandCRTBasisPloverQ", "ApproxModDown", "DivideByLast",
                       "ApproxScaleAndRound", "ScaleAndRound"}
  BY <1>4
<1> QED BY ONLY <1>4, <1>16, <1>17, OtherKept, BasisAssumption

\* The constants of ScaleAndRound are integers.
LEMMA OSHatInvInteger ==
  ASSUME BasisAssumption, moduli = QP, NEW t \in Plain, NEW os \in {Q, P}, NEW i \in 1 .. Len(QP)
  PROVE  tOSHatInv(t, os, i) \in Int
<1>1. Basis(QP) /\ Basis(os)
  BY TheBases DEF NamedBases
<1>2. HatInvMod(moduli, i) \in Int /\ Product(os) \in Int /\ t \in Int
  BY <1>1, HatInvFacts, ProductInvertible, PlainFacts
<1> DEFINE d == HatInvMod(moduli, i)
           r == Product(os)
<1>3. tOSHatInv(t, os, i) = t * r * d
  BY DEF tOSHatInv
<1> HIDE DEF d, r
<1>4. t * r * d \in Int
  BY <1>2 DEF d, r
<1> QED BY ONLY <1>3, <1>4

\* The whole parts of the terms add up to an integer, wherever the towers are.
LEMMA WholePartsInteger ==
  ASSUME BasisAssumption, NumberInv, moduli = QP, NEW t \in Plain, NEW os \in {Q, P},
         NEW input \in Nat, NEW output \in Nat, input + (Len(QP) - Len(os)) <= Len(QP), output + Len(os) <= Len(QP),
         NEW j \in 1 .. Len(os)
  PROVE  WholeParts(t, os, input, output, j) \in Int
<1> DEFINE n == Len(moduli) - Len(os)
           m == os[j]
           DivMod(i) == (tOSHatInv(t, os, i) \div moduli[i]) % m
           s == [i \in 1 .. n |-> residues[input + i] * DivMod(input + i)]
<1>1. /\ Basis(QP) /\ QP \in NamedBases /\ Basis(os) /\ Len(QP) = Len(Q) + Len(P) /\ Len(Q) \in Nat /\ Len(P) \in Nat
      /\ Len(os) \in Nat /\ Len(os) <= Len(QP)
  BY TheBases DEF NamedBases
<1>2. Below(residues, QP)
  BY <1>1, InvBelow
<1>3. \A i \in 1 .. Len(QP) : residues[i] \in Int /\ QP[i] \in Nat \ {0}
  BY ONLY <1>1, <1>2, BelowFacts, BasisFacts
<1>4. m \in Nat \ {0}
  BY ONLY <1>1, BasisFacts, j \in 1 .. Len(os)
<1> HIDE DEF m
<1>5. ASSUME NEW i \in 1 .. Len(QP) PROVE residues[i] * DivMod(i) \in Int
  <2> DEFINE h == tOSHatInv(t, os, i)
             p == moduli[i]
             d == h \div p
             e == d % m
             r == residues[i]
  <2>1. h \in Int
    BY OSHatInvInteger
  <2>2. p \in Nat \ {0} /\ r \in Int
    BY <1>3
  <2> HIDE DEF h, p, r
  <2>3. d \in Int
    BY ONLY <2>1, <2>2, RemainderInteger
  <2> HIDE DEF d
  <2>4. e \in Int
    BY ONLY <1>4, <2>3, RemainderInteger
  <2> HIDE DEF e
  <2>5. r * e \in Int
    BY ONLY <2>2, <2>4
  <2> QED BY ONLY <2>5 DEF r, e, d, h, p
<1>6. n \in Nat /\ (\A i \in 1 .. n : input + i \in 1 .. Len(QP)) /\ output + j \in 1 .. Len(QP)
  BY <1>1
<1>7. WholeParts(t, os, input, output, j) = Sum(s) + residues[output + j] * DivMod(output + j)
  BY DEF WholeParts, m
<1> HIDE DEF DivMod, n
<1>8. s \in [1 .. n -> Int]
  BY ONLY <1>5, <1>6
<1> HIDE DEF s
<1>9. Sum(s) \in Int
  BY ONLY <1>6, <1>8, SumInteger
<1> DEFINE last == residues[output + j] * DivMod(output + j)
<1>10. last \in Int
  BY ONLY <1>5, <1>6
<1> HIDE DEF last
<1>11. Sum(s) + last \in Int
  BY ONLY <1>9, <1>10
<1> QED BY ONLY <1>7, <1>11 DEF last

\* ApproxScaleAndRound.
LEMMA ApproxScaleKept ==
  ASSUME BasisAssumption, NumberInv, moduli = QP, NEW t \in Plain, ApproxScaleAndRound(t, P)
  PROVE  NumberInv' /\ NumberKept
<1> DEFINE output == Len(moduli) - Len(P)
           Y == [j \in DOMAIN P |-> WholeParts(t, P, 0, output, j)]
           out == [j \in DOMAIN P |-> WholeParts(t, P, 0, output, j) % P[j]]
<1>1. /\ Basis(P) /\ P \in NamedBases /\ P # QBsk /\ Len(QP) = Len(Q) + Len(P) /\ Len(Q) \in Nat /\ Len(P) \in Nat
  BY TheBases, BasesDiffer DEF NamedBases
<1>2. Become(P, out) /\ lastCall'.op = "ApproxScaleAndRound"
  BY DEF ApproxScaleAndRound, CalledWith, CalledIn
<1>3. output \in Nat /\ 0 \in Nat /\ 0 + (Len(QP) - Len(P)) <= Len(QP) /\ output + Len(P) <= Len(QP)
  BY <1>1
<1>4. DOMAIN P = 1 .. Len(P)
  BY <1>1, BasisFacts
<1> HIDE DEF output
<1>5. \A j \in 1 .. Len(P) : Y[j] \in Int
  <2>1. \A j \in 1 .. Len(P) : WholeParts(t, P, 0, output, j) \in Int
    BY <1>3, WholePartsInteger
  <2> QED BY ONLY <1>4, <2>1
<1>6. out = [j \in DOMAIN P |-> Y[j] % P[j]]
  OBVIOUS
<1> HIDE DEF Y, out
<1>7. Below(out, P)
  BY ONLY <1>1, <1>5, <1>6, ReducedBelow
<1>8. lastCall'.op \in {"Sample", "TimesQovert", "FastExpandCRTBasisPloverQ", "ApproxModDown", "DivideByLast",
                       "ApproxScaleAndRound", "ScaleAndRound"}
  BY <1>2
<1> QED BY ONLY <1>1, <1>2, <1>7, <1>8, OtherKept, BasisAssumption

\* Fractions are a numerator, an integer, and so is what a double is cast to.
LEMMA FractionsInteger ==
  ASSUME NEW ms, Basis(ms), NEW Y, NEW d, \A i \in 1 .. Len(ms) : Y[i] \in Int /\ d[i] \in Int
  PROVE  Fractions(Y, d, ms) \in Int
<1> DEFINE s == [i \in DOMAIN ms |-> Y[i] * (d[i] % ms[i]) * Hat(ms, i)]
<1>1. DOMAIN ms = 1 .. Len(ms) /\ Len(ms) \in Nat /\ \A i \in 1 .. Len(ms) : ms[i] \in Nat \ {0} /\ Hat(ms, i) \in Int
  BY BasisFacts, HatFacts
<1>2. \A i \in 1 .. Len(ms) : s[i] \in Int
  <2> SUFFICES ASSUME NEW i \in 1 .. Len(ms) PROVE s[i] \in Int
    OBVIOUS
  <2> DEFINE m == ms[i]
             v == d[i]
             e == v % m
             r == Y[i]
             h == Hat(ms, i)
  <2>1. m \in Nat \ {0} /\ v \in Int /\ r \in Int /\ h \in Int /\ s[i] = r * e * h
    BY <1>1
  <2> HIDE DEF m, v, r, h, s
  <2>2. e \in Int
    BY ONLY <2>1, RemainderInteger
  <2> HIDE DEF e
  <2> QED BY ONLY <2>1, <2>2
<1>3. s \in [1 .. Len(ms) -> Int]
  <2>1. s = [i \in 1 .. Len(ms) |-> s[i]]
    BY <1>1
  <2> HIDE DEF s
  <2> QED BY ONLY <1>2, <2>1
<1>4. Fractions(Y, d, ms) = Sum(s)
  BY DEF Fractions
<1> HIDE DEF s
<1>5. Sum(s) \in Int
  BY ONLY <1>1, <1>3, SumInteger
<1> QED BY ONLY <1>4, <1>5

\* So is what a double close to a quotient is cast to.
LEMMA FloorsInteger ==
  ASSUME BasisAssumption, NEW num \in Int, NEW den \in Nat \ {0}, NEW alpha \in Floors(num, den)
  PROVE  alpha \in Int
<1>1. Exactness \in Nat \ {0}
  BY DEF BasisAssumption
<1>2. PICK e \in {-den, den} : alpha = Max({(num * Exactness + e) \div (den * Exactness), 0})
  BY DEF Floors
<1> DEFINE n == num * Exactness + e
           d == den * Exactness
           c == n \div d
<1>3. n \in Int /\ d \in Nat \ {0}
  BY <1>1
<1>4. alpha = Max({c, 0})
  BY <1>2
<1> HIDE DEF n, d
<1>5. c \in Int
  BY ONLY <1>3, RemainderInteger
<1> HIDE DEF c
<1>6. Max({c, 0}) = IF c >= 0 THEN c ELSE 0
  BY ONLY <1>5, MaxZero
<1> QED BY ONLY <1>4, <1>5, <1>6

\* ScaleAndRound, to either part.
LEMMA ScaleRoundKept ==
  ASSUME BasisAssumption, NumberInv, moduli = QP, NEW t \in Plain, NEW os \in {Q, P}, ScaleAndRound(t, os)
  PROVE  NumberInv' /\ NumberKept
<1> DEFINE ofFirst == os[1] = moduli[1]
           n == Len(moduli) - Len(os)
           input == IF ofFirst THEN Len(os) ELSE 0
           output == IF ofFirst THEN 0 ELSE n
           is == SubSeq(moduli, input + 1, input + n)
           xs == SubSeq(residues, input + 1, input + n)
           d == [i \in DOMAIN is |-> tOSHatInv(t, os, input + i)]
           nu == Fractions(xs, d, is)
           num == 2 * nu + Product(is)
           den == 2 * Product(is)
<1>1. /\ Basis(os) /\ Basis(Q) /\ Basis(P) /\ Basis(QP) /\ QP \in NamedBases /\ os \in NamedBases /\ os # QBsk
      /\ Len(QP) = Len(Q) + Len(P) /\ Len(Q) \in Nat /\ Len(Q) > 1 /\ Len(P) \in Nat /\ Len(P) > 0
      /\ (\A i \in 1 .. Len(Q) : QP[i] = Q[i])
      /\ \A i \in 1 .. Len(Q), j \in 1 .. Len(P) : IsUnit(Q[i], P[j])
  BY TheBases, BasesDiffer DEF NamedBases
<1>2. Q \in Seq(Nat) /\ P \in Seq(Nat) /\ QP = Q \o P /\ Basis(Q \o P)
  BY <1>1, WholeBases
<1>3. Below(residues, QP)
  BY <1>1, InvBelow
<1>4. QP[1] = Q[1] /\ P[1] # Q[1]
  <2>1. 1 \in 1 .. Len(Q) /\ 1 \in 1 .. Len(P)
    BY ONLY <1>1
  <2>2. Q[1] \in Nat \ {0, 1} /\ IsUnit(Q[1], P[1])
    BY ONLY <1>1, <2>1, BasisFacts
  <2> QED BY ONLY <1>1, <2>1, <2>2, NotItself
<1>5. moduli' = os /\ lastCall'.op = "ScaleAndRound"
      /\ \E alpha \in Floors(num, den) : residues' = [j \in DOMAIN os |-> (WholeParts(t, os, input, output, j) + alpha) % os[j]]
  BY DEF ScaleAndRound, CalledWith, CalledIn
<1>6. /\ input \in Nat /\ output \in Nat /\ n \in Nat /\ input + n <= Len(QP) /\ output + Len(os) <= Len(QP)
      /\ input + (Len(QP) - Len(os)) <= Len(QP)
      /\ \/ input + 1 = 1 /\ input + n = Len(Q) /\ n = Len(Q) /\ input = 0
         \/ input + 1 = Len(Q) + 1 /\ input + n = Len(Q) + Len(P) /\ n = Len(P) /\ input = Len(Q)
  <2>1. CASE os = Q
    <3>1. input = Len(Q) /\ output = 0 /\ n = Len(P)
      BY <1>1, <1>4, <2>1
    <3> HIDE DEF n, input, output
    <3> QED BY ONLY <1>1, <2>1, <3>1
  <2>2. CASE os = P
    <3>1. input = 0 /\ output = n /\ n = Len(Q)
      BY <1>1, <1>4, <2>2
    <3> HIDE DEF n, input, output
    <3> QED BY ONLY <1>1, <2>2, <3>1
  <2> QED BY <2>1, <2>2
<1>7. /\ Basis(is) /\ Below(xs, is) /\ Len(is) = n
  <2> DEFINE lo == input + 1
             hi == input + n
  <2>1. is = SubSeq(QP, lo, hi) /\ xs = SubSeq(residues, lo, hi)
    OBVIOUS
  <2>2. \/ lo = 1 /\ hi = Len(Q) /\ n = Len(Q)
        \/ lo = Len(Q) + 1 /\ hi = Len(Q) + Len(P) /\ n = Len(P)
    BY <1>6
  <2> HIDE DEF lo, hi, is, xs, n
  <2>3. SubSeq(Q \o P, 1, Len(Q)) = Q /\ SubSeq(Q \o P, Len(Q) + 1, Len(Q) + Len(P)) = P
    BY ONLY <1>2, PartsFound
  <2>4. Below(SubSeq(residues, 1, Len(Q)), Q) /\ Below(SubSeq(residues, Len(Q) + 1, Len(Q \o P)), P)
    <3>1. Below(residues, Q \o P)
      BY ONLY <1>2, <1>3
    <3> QED BY ONLY <1>2, <3>1, BelowSplits
  <2>5. Len(Q \o P) = Len(Q) + Len(P)
    BY ONLY <1>1, <1>2
  <2>6. CASE lo = 1 /\ hi = Len(Q) /\ n = Len(Q)
    BY ONLY <1>1, <1>2, <2>1, <2>3, <2>4, <2>6
  <2>7. CASE lo = Len(Q) + 1 /\ hi = Len(Q) + Len(P) /\ n = Len(P)
    BY ONLY <1>1, <1>2, <2>1, <2>3, <2>4, <2>5, <2>7
  <2> QED BY ONLY <2>2, <2>6, <2>7
<1> HIDE DEF input, output, n, is, xs
<1>8. \A i \in 1 .. Len(is) : xs[i] \in Int /\ d[i] \in Int
  <2>1. \A i \in 1 .. Len(is) : xs[i] \in Int
    BY ONLY <1>7, BelowFacts
  <2>2. DOMAIN is = 1 .. Len(is)
    BY ONLY <1>7, BasisFacts
  <2>3. ASSUME NEW i \in 1 .. Len(is) PROVE d[i] \in Int
    <3>1. input + i \in 1 .. Len(QP)
      BY ONLY <1>1, <1>6, <1>7, i \in 1 .. Len(is)
    <3>2. d[i] = tOSHatInv(t, os, input + i)
      BY <2>2
    <3>3. tOSHatInv(t, os, input + i) \in Int
      BY <3>1, OSHatInvInteger
    <3> QED BY ONLY <3>2, <3>3
  <2> QED BY ONLY <2>1, <2>3
<1> HIDE DEF d
<1>9. nu \in Int
  BY ONLY <1>7, <1>8, FractionsInteger
<1>10. num \in Int /\ den \in Nat \ {0}
  <2>1. Product(is) \in Nat \ {0}
    BY ONLY <1>7, ProductInvertible
  <2> HIDE DEF nu
  <2> QED BY <1>9, <2>1
<1> HIDE DEF num, den
<1>11. PICK alpha \in Floors(num, den) : residues' = [j \in DOMAIN os |-> (WholeParts(t, os, input, output, j) + alpha) % os[j]]
  BY <1>5
<1>12. alpha \in Int
  BY ONLY <1>10, <1>11, FloorsInteger, BasisAssumption
<1> DEFINE Y == [j \in DOMAIN os |-> WholeParts(t, os, input, output, j) + alpha]
           out == [j \in DOMAIN os |-> Y[j] % os[j]]
<1>13. Become(os, out)
  BY <1>5, <1>11 DEF Become
<1>14. \A j \in 1 .. Len(os) : Y[j] \in Int
  <2>1. \A j \in 1 .. Len(os) : WholeParts(t, os, input, output, j) \in Int
    BY <1>6, WholePartsInteger
  <2>2. DOMAIN os = 1 .. Len(os)
    BY ONLY <1>1, BasisFacts
  <2> QED BY ONLY <1>12, <2>1, <2>2
<1>15. out = [j \in DOMAIN os |-> Y[j] % os[j]]
  OBVIOUS
<1> HIDE DEF Y, out
<1>16. Below(out, os)
  BY ONLY <1>1, <1>14, <1>15, ReducedBelow
<1>17. lastCall'.op \in {"Sample", "TimesQovert", "FastExpandCRTBasisPloverQ", "ApproxModDown", "DivideByLast",
                       "ApproxScaleAndRound", "ScaleAndRound"}
  BY <1>5
<1> QED BY ONLY <1>1, <1>13, <1>16, <1>17, OtherKept, BasisAssumption

-----------------------------------------------------------------------------
(* Back to all of Q, multiplied by what is missing.                        *)

\* ExpandCRTBasisQlHat.
LEMMA QlHatKept ==
  ASSUME BasisAssumption, NumberInv, moduli = Front(Q), ExpandCRTBasisQlHat
  PROVE  NumberInv' /\ NumberKept
<1> DEFINE ms == Front(Q)
           k == Len(Q)
           last == Q[k]
           c == Product(Q) \div Product(moduli)
           e == Number(ms, residues)
           out == [i \in DOMAIN Q |-> IF i \in Towers THEN (residues[i] * c) % Q[i] ELSE 0]
<1>1. /\ Basis(Q) /\ Basis(ms) /\ Q \in NamedBases /\ Q # QBsk /\ ms \in NamedBases /\ k \in Nat /\ k > 1
      /\ Len(ms) = k - 1 /\ \A i \in 1 .. k - 1 : ms[i] = Q[i]
  BY TheBases, BasesDiffer DEF NamedBases
<1>2. Below(residues, ms)
  BY <1>1, InvBelow
<1>3. moduli' = Q /\ residues' = out /\ lastCall'.op = "ExpandCRTBasisQlHat"
  BY DEF ExpandCRTBasisQlHat, Become, CalledWith, CalledIn
<1>4. DOMAIN Q = 1 .. k /\ DOMAIN ms = 1 .. k - 1 /\ \A i \in 1 .. k : Q[i] \in Nat \ {0}
  BY ONLY <1>1, BasisFacts
<1>5. k \in 1 .. k
  BY <1>1
<1>6. c = last
  <2>1. Product(Q) = Product(ms) * last
    BY <1>1, LastFacts
  <2>2. Product(ms) \in Nat \ {0} /\ last \in Nat
    BY <1>1, <1>4, <1>5, ProductInvertible
  <2> DEFINE q == Product(ms)
             l == Q[k]
  <2>3. c = (q * l) \div q
    BY <2>1
  <2>4. q \in Nat \ {0} /\ l \in Nat
    BY <2>2
  <2> HIDE DEF q, l
  <2>5. (q * l) \div q = l
    BY ONLY <2>4, SMTT(30)
  <2> QED BY <2>3, <2>5 DEF l
<1>7. e \in Int /\ \A i \in 1 .. k - 1 : e % ms[i] = residues[i] /\ residues[i] \in Int
  <2>1. e \in Int /\ \A i \in 1 .. Len(ms) : e % ms[i] = residues[i] /\ residues[i] \in Int
    BY ONLY <1>1, <1>2, NumberFacts, BelowFacts
  <2> QED BY ONLY <1>1, <2>1
<1>8. \A i \in 1 .. k : out[i] = IF i \in 1 .. k - 1 THEN (residues[i] * c) % Q[i] ELSE 0
  BY <1>4 DEF Towers
<1>9. \A i \in 1 .. k : out[i] \in 0 .. Q[i] - 1 /\ Congruent(out[i], e * last, Q[i])
  <2> SUFFICES ASSUME NEW i \in 1 .. k PROVE out[i] \in 0 .. Q[i] - 1 /\ Congruent(out[i], e * last, Q[i])
    OBVIOUS
  <2> DEFINE m == Q[i]
             l == last
  <2>1. m \in Nat \ {0} /\ l \in Nat \ {0} /\ e \in Int /\ l = c
    BY <1>4, <1>5, <1>6, <1>7
  <2>2. CASE i \in 1 .. k - 1
    <3> DEFINE r == residues[i]
    <3>1. r = e % m /\ r \in Int
      BY <1>1, <1>7, <2>2
    <3>2. out[i] = (r * l) % m
      BY <1>8, <2>1, <2>2
    <3> HIDE DEF e, m, l, r, out
    <3>3. r * l \in Int /\ e * l \in Int
      BY ONLY <2>1, <3>1
    <3>4. Congruent(r, e, m)
      BY ONLY <2>1, <3>1, CongruentRelation
    <3>5. Congruent(r * l, e * l, m)
      <4>1. Congruent(l, l, m) /\ l \in Int
        BY ONLY <2>1, CongruentRelation
      <4> QED BY ONLY <2>1, <3>1, <3>4, <4>1, CongruentProduct
    <3>6. (r * l) % m \in 0 .. m - 1 /\ Congruent((r * l) % m, r * l, m)
      <4> DEFINE y0 == r * l
      <4> HIDE DEF y0
      <4>1. y0 % m \in 0 .. m - 1 /\ Congruent(y0 % m, y0, m)
        BY ONLY <2>1, <3>3, CongruentRelation DEF y0
      <4> QED BY ONLY <4>1 DEF y0
    <3>7. Congruent(out[i], e * l, m)
      BY ONLY <3>2, <3>5, <3>6 DEF Congruent
    <3> QED BY ONLY <3>2, <3>6, <3>7 DEF m, l
  <2>3. CASE i \notin 1 .. k - 1
    <3>1. i = k
      BY <1>1, <2>3
    <3>2. out[i] = 0 /\ m = l
      BY <1>8, <2>3, <3>1
    <3> HIDE DEF e, m, l, out
    <3>3. Congruent(0, e * l, m)
      <4>1. 0 \in Int /\ e * l \in Int /\ -e \in Int /\ Apart(0, e * l, -e, m)
        BY ONLY <2>1, <3>2 DEF Apart
      <4> DEFINE y0 == e * l
                 z0 == -e
      <4> HIDE DEF y0, z0
      <4>2. Congruent(0, y0, m)
        BY ONLY <2>1, <4>1, ApartCongruent DEF y0, z0
      <4> QED BY ONLY <4>2 DEF y0
    <3>4. 0 \in 0 .. m - 1
      BY ONLY <2>1
    <3> QED BY ONLY <3>2, <3>3, <3>4 DEF m, l
  <2> QED BY <2>2, <2>3
<1> DEFINE w == e * last
<1>10. w \in Int /\ w = Number(moduli, residues) * (Product(Q) \div Product(moduli))
  BY <1>4, <1>5, <1>6, <1>7
<1>11. DOMAIN out = 1 .. Len(Q) /\ out = [i \in DOMAIN out |-> out[i]]
  BY <1>4
<1> HIDE DEF out
<1>12. \A i \in 1 .. Len(Q) : out[i] \in 0 .. Q[i] - 1 /\ Congruent(out[i], w, Q[i])
  BY <1>9
<1> HIDE DEF w
<1>13. Below(out, Q) /\ Carries(out, w, Q)
  BY ONLY <1>1, <1>10, <1>11, <1>12, MadeCarries
<1>14. Stands(w)
  BY ONLY <1>1, <1>3, <1>13, StandsMade
<1>15. NumberKept
  BY ONLY <1>3, <1>10, <1>14 DEF NumberKept, After, Old
<1>16. NumberInv'
  BY <1>1, <1>3, <1>13, InvElsewhere
<1> QED BY <1>15, <1>16

-----------------------------------------------------------------------------
(* Multiplication after BEHZ.                                              *)

\* A number at most half the modulus of Q above it and below minus itself can
\* be divided.
LEMMA SmallDividable ==
  ASSUME BasisAssumption, NEW z \in Int, Magnitude(z) <= Product(Q)
  PROVE  Dividable(z)
<1> DEFINE q == Product(Q)
           s == Magnitude(z)
<1>1. q \in Nat \ {0} /\ s \in Nat
  <2>1. Basis(Q)
    BY TheBases DEF NamedBases
  <2> QED BY <2>1, ProductInvertible, MagnitudeBounds
<1>2. Magnitude(q) = q
  BY <1>1 DEF Magnitude
<1>3. ASSUME NEW t \in Plain, NEW r \in Rooms
      PROVE  t * s <= (r * Product(B) - Len(Q)) * q
  <2> DEFINE c == (r * Product(B) - Len(Q)) * Product(Q)
  <2>1. t * Magnitude(q) <= c
    BY DEF BasisAssumption, Rooms
  <2>2. t \in Nat
    BY PlainFacts
  <2>3. c \in Int
    <3>1. r \in Int
      <4>1. (\A m \in ModuliOf(Q) : m \in Int) /\ msk \in Nat /\ Len(B) \in Nat
        <5>1. Basis(Q)
          BY TheBases DEF NamedBases
        <5>2. DOMAIN Q = 1 .. Len(Q) /\ \A i \in 1 .. Len(Q) : Q[i] \in Nat \ {0}
          BY <5>1, BasisFacts
        <5> QED BY <5>2, TheBases, WholeBases DEF ModuliOf
      <4>2. msk \div 2 \in Int
        BY <4>1
      <4> QED BY <4>1, <4>2 DEF Rooms
    <3>2. Basis(B) /\ Len(Q) \in Nat
      BY TheBases
    <3>3. Product(B) \in Int
      BY <3>2, ProductInvertible
    <3> DEFINE pb == Product(B)
               qq == Product(Q)
               n == Len(Q)
    <3>4. pb \in Int /\ qq \in Int /\ n \in Int
      BY <1>1, <3>2, <3>3
    <3> HIDE DEF pb, qq, n
    <3>5. (r * pb - n) * qq \in Int
      BY ONLY <3>1, <3>4
    <3> QED BY ONLY <3>5 DEF pb, qq, n
  <2>4. s <= q
    OBVIOUS
  <2>5. t * q <= c
    BY ONLY <1>2, <2>1
  <2> HIDE DEF s, q, c
  <2>6. t * s <= t * q
    <3>1. q - s \in Nat
      BY ONLY <1>1, <2>4
    <3>2. t * (q - s) >= 0
      BY ONLY <2>2, <3>1
    <3>3. t * (q - s) = t * q - t * s
      BY ONLY <1>1, <2>2
    <3>4. t * q \in Int /\ t * s \in Int
      BY ONLY <1>1, <2>2
    <3> QED BY ONLY <3>2, <3>3, <3>4
  <2>7. t * q \in Int /\ t * s \in Int
    BY ONLY <1>1, <2>2
  <2>8. t * s <= c
    BY ONLY <2>3, <2>5, <2>6, <2>7
  <2> QED BY ONLY <2>8 DEF c, q
<1> QED BY <1>3 DEF Dividable

\* FastBaseConvqToBskMontgomery.
LEMMA MontgomeryKept ==
  ASSUME BasisAssumption, NumberInv, moduli = Q, FastBaseConvqToBskMontgomery
  PROVE  NumberInv' /\ NumberKept
<1> DEFINE v == Twisted(residues, Q, [i \in DOMAIN Q |-> mtilde * HatInvMod(Q, i)])
           q == Product(Q)
           c == (Combined(v, Q, mtilde) * ((-InvMod(q, mtilde)) % mtilde)) % mtilde
           r == [j \in DOMAIN Bsk |-> IF c >= mtilde \div 2 THEN c + (Bsk[j] - mtilde) ELSE c]
           out == [j \in DOMAIN Bsk |->
              (ModAddFast((r[j] * q) % Bsk[j], Combined(v, Q, Bsk[j]), Bsk[j]) * InvMod(mtilde, Bsk[j])) % Bsk[j]]
           e == Number(Q, residues)
<1>1. /\ Basis(Q) /\ Basis(Bsk) /\ Basis(QBsk) /\ Q \in NamedBases /\ QBsk \in NamedBases
      /\ Len(Q) \in Nat /\ Len(Q) > 1
  BY TheBases DEF NamedBases
<1>2. Q \in Seq(Nat) /\ Bsk \in Seq(Nat) /\ QBsk = Q \o Bsk /\ Basis(Q \o Bsk)
  BY <1>1, WholeBases
<1>3. Below(residues, Q)
  BY <1>1, InvBelow
<1>4. moduli' = QBsk /\ residues' = residues \o out /\ lastCall'.op = "FastBaseConvqToBsk"
  BY <1>2 DEF FastBaseConvqToBskMontgomery, Become, CalledWith, CalledIn, Towers
<1>5. \A j \in 1 .. Len(Bsk) : r[j] = IF c >= mtilde \div 2 THEN c + (Bsk[j] - mtilde) ELSE c
  BY <1>1, BasisFacts
<1>6. Len(Q) = Len(Q)
  OBVIOUS
<1> HIDE DEF r
<1>7. /\ Below(out, Bsk)
      /\ \E k \in 0 .. 1 :
           LET z == e - k * q
           IN  /\ z >= -(q \div 2) /\ mtilde * (2 * z - q) <= 2 * Len(Q) * q
               /\ Carries(out, z, Bsk)
  BY ONLY <1>1, <1>3, <1>5, MontgomeryFacts, BasisAssumption
<1> HIDE DEF out
<1>8. PICK k \in 0 .. 1 : /\ e - k * q >= -(q \div 2) /\ mtilde * (2 * (e - k * q) - q) <= 2 * Len(Q) * q
                          /\ Carries(out, e - k * q, Bsk)
  BY <1>7
<1> DEFINE z == e - k * q
<1>9. z >= -(q \div 2) /\ mtilde * (2 * z - q) <= 2 * Len(Q) * q /\ Carries(out, z, Bsk)
  BY <1>8
<1>10. Carries(residues, z, Q) /\ q \in Nat \ {0} /\ e \in Int /\ k \in Int
  <2>1. k \in Int
    OBVIOUS
  <2> QED BY <1>1, <1>3, <2>1, MovedCarries, NumberFacts, ProductInvertible
<1>11. z \in Int
  BY <1>10
<1> HIDE DEF z
<1>12. Below(residues', QBsk) /\ Carries(residues', z, QBsk)
  BY ONLY <1>2, <1>3, <1>4, <1>7, <1>9, <1>10, BelowJoins
<1>13. Stands(z)
  BY ONLY <1>1, <1>4, <1>12, StandsMade
<1>14. MontgomeryStands
  BY ONLY <1>9, <1>13, moduli = Q, k \in 0 .. 1 DEF MontgomeryStands, Old, z
<1>15. NumberKept
  BY ONLY <1>4, <1>14 DEF NumberKept, After
<1>16. Magnitude(z) <= q
  <2> DEFINE n == Len(Q)
             u == 2 * z - q
  <2>1. PICK h \in Nat \ {0} : mtilde = 2 * h /\ n <= h
    BY MtildeFacts
  <2>2. (2 * h) * u <= 2 * n * q /\ n \in Nat /\ u \in Int
    BY <1>1, <1>9, <1>10, <1>11, <2>1
  <2>3. q \in Nat \ {0} /\ z \in Int /\ z >= -(q \div 2)
    BY <1>9, <1>10, <1>11
  <2>4. u = 2 * z - q
    OBVIOUS
  <2> HIDE DEF n, q, u
  <2>5. n * q <= h * q
    <3>1. (h - n) * q >= 0
      <4>1. h - n \in Nat
        BY ONLY <2>1, <2>2
      <4> QED BY ONLY <2>3, <4>1
    <3>2. (h - n) * q = h * q - n * q /\ h * q \in Int /\ n * q \in Int
      BY ONLY <2>1, <2>2, <2>3
    <3> QED BY ONLY <3>1, <3>2
  <2>6. h * u <= h * q
    <3>1. (2 * h) * u = 2 * (h * u) /\ 2 * n * q = 2 * (n * q) /\ h * u \in Int /\ n * q \in Int /\ h * q \in Int
      BY ONLY <2>1, <2>2, <2>3
    <3> QED BY ONLY <2>2, <2>5, <3>1
  <2>7. u <= q
    <3> SUFFICES ASSUME u > q PROVE FALSE
      BY <2>2, <2>3
    <3>1. u - q \in Nat \ {0}
      BY ONLY <2>2, <2>3, u > q
    <3>2. h * (u - q) > 0
      BY ONLY <2>1, <3>1
    <3>3. h * (u - q) = h * u - h * q /\ h * u \in Int /\ h * q \in Int
      BY ONLY <2>1, <2>2, <2>3
    <3> QED BY ONLY <2>6, <3>2, <3>3
  <2>8. z <= q /\ -z <= q
    BY ONLY <2>2, <2>3, <2>4, <2>7
  <2> QED BY ONLY <2>8 DEF Magnitude
<1>17. Dividable(z)
  BY ONLY <1>11, <1>16, SmallDividable, BasisAssumption
<1>18. NumberInv'
  BY <1>4, <1>12, <1>17, InvDividable
<1> QED BY <1>15, <1>18

\* What is divided by Q leaves room for the conversion back.
LEMMA QuotientConvertible ==
  ASSUME BasisAssumption, NEW t \in Plain, NEW v, Dividable(v), NEW z \in Int,
         Magnitude(z) * Product(Q) <= t * Magnitude(v) + Len(Q) * (Product(Q) - 1)
  PROVE  Convertible(z)
<1> DEFINE q == Product(Q)
           n == Len(Q)
           pb == Product(B)
           s == Magnitude(z)
           g == Magnitude(v)
<1>1. q \in Nat \ {0} /\ pb \in Nat \ {0} /\ n \in Nat \ {0} /\ s \in Nat /\ g \in Nat /\ t \in Nat
  <2>1. Basis(Q) /\ Basis(B) /\ Len(Q) \in Nat /\ Len(Q) > 1
    BY TheBases DEF NamedBases
  <2>2. v \in Int
    BY DEF Dividable
  <2> QED BY <2>1, <2>2, ProductInvertible, MagnitudeBounds, PlainFacts
<1>2. \A r \in Rooms : r \in Int
  <2>1. (\A m \in ModuliOf(Q) : m \in Int) /\ msk \in Nat /\ Len(B) \in Nat
    <3>1. Basis(Q)
      BY TheBases DEF NamedBases
    <3>2. DOMAIN Q = 1 .. Len(Q) /\ \A i \in 1 .. Len(Q) : Q[i] \in Nat \ {0}
      BY <3>1, BasisFacts
    <3> QED BY <3>2, TheBases, WholeBases DEF ModuliOf
  <2>2. msk \div 2 \in Int
    BY <2>1
  <2> QED BY <2>1, <2>2 DEF Rooms
<1>3. ASSUME NEW r \in Rooms PROVE s < r * pb
  <2>1. t * g <= (r * pb - n) * q
    BY DEF Dividable
  <2>2. s * q <= t * g + n * (q - 1)
    OBVIOUS
  <2>3. r \in Int
    BY <1>2
  <2> DEFINE c == r * pb
  <2>4. c \in Int
    BY <1>1, <2>3
  <2> HIDE DEF q, n, pb, s, g, c
  <2>5. t * g <= (c - n) * q
    BY ONLY <2>1 DEF c
  <2>6. (c - n) * q = c * q - n * q /\ n * (q - 1) = n * q - n /\ c * q \in Int /\ n * q \in Int /\ s * q \in Int /\ t * g \in Int
    BY ONLY <1>1, <2>4
  <2>7. s * q < c * q
    BY ONLY <1>1, <2>2, <2>5, <2>6
  <2>8. s < c
    <3> SUFFICES ASSUME c <= s PROVE FALSE
      BY <1>1, <2>4
    <3>1. s - c \in Nat
      BY ONLY <1>1, <2>4, c <= s
    <3>2. (s - c) * q >= 0
      BY ONLY <1>1, <3>1
    <3>3. (s - c) * q = s * q - c * q
      BY ONLY <1>1, <2>4
    <3> QED BY ONLY <2>6, <2>7, <3>2, <3>3
  <2> QED BY ONLY <2>8 DEF c
<1> QED BY <1>3 DEF Convertible

\* FastRNSFloorq.
LEMMA FloorKept ==
  ASSUME BasisAssumption, NumberInv, moduli = QBsk, lastCall.op # "FastRNSFloorq", NEW t \in Plain, FastRNSFloorq(t)
  PROVE  NumberInv' /\ NumberKept
<1> DEFINE l == Len(Q)
           rs == SubSeq(residues, 1, Len(Q))
           xs == SubSeq(residues, Len(Q) + 1, Len(Q \o Bsk))
           y1 == Twisted(rs, Q, [i \in DOMAIN Q |-> t * HatInvMod(Q, i)])
           out == [j \in DOMAIN Bsk |->
             ModSubFast((xs[j] * t * InvMod(Product(Q), Bsk[j])) % Bsk[j],
                        Sum([i \in DOMAIN Q |-> y1[i] * InvMod(Q[i], Bsk[j])]) % Bsk[j], Bsk[j])]
           ss == y1 \o out
<1>1. /\ Basis(Q) /\ Basis(Bsk) /\ Basis(QBsk) /\ QBsk \in NamedBases /\ Len(Q) \in Nat /\ Len(Bsk) \in Nat
      /\ Len(QBsk) = Len(Q) + Len(Bsk)
      /\ \A i \in 1 .. Len(Q), j \in 1 .. Len(Bsk) : IsUnit(Q[i], Bsk[j])
  BY TheBases DEF NamedBases
<1>2. Q \in Seq(Nat) /\ Bsk \in Seq(Nat) /\ QBsk = Q \o Bsk /\ Basis(Q \o Bsk)
  BY <1>1, WholeBases
<1>3. Below(residues, QBsk)
  BY <1>1, InvBelow
<1>4. PICK v : Dividable(v) /\ Carries(residues, v, QBsk)
  BY DEF NumberInv
<1>5. /\ Below(rs, Q) /\ Carries(rs, v, Q) /\ Carries(xs, v, Bsk) /\ Below(xs, Bsk)
      /\ \A j \in 1 .. Len(Bsk) : xs[j] = residues[Len(Q) + j]
  <2>1. Below(residues, Q \o Bsk) /\ Carries(residues, v, Q \o Bsk)
    BY ONLY <1>2, <1>3, <1>4
  <2> QED BY ONLY <1>2, <2>1, BelowSplits
<1>6. DOMAIN Bsk = 1 .. Len(Bsk)
  BY ONLY <1>1, BasisFacts
<1>7. moduli' = QBsk /\ residues' = ss /\ lastCall'.op = "FastRNSFloorq"
  <2> DEFINE made == [j \in DOMAIN Bsk |->
               ModSubFast((residues[Len(Q) + j] * t * InvMod(Product(Q), Bsk[j])) % Bsk[j],
                          Sum([i \in DOMAIN Q |-> y1[i] * InvMod(Q[i], Bsk[j])]) % Bsk[j], Bsk[j])]
  <2>1. moduli' = QBsk /\ residues' = y1 \o made /\ lastCall'.op = "FastRNSFloorq"
    BY DEF FastRNSFloorq, Become, CalledWith, CalledIn
  <2> HIDE DEF y1, xs
  <2>2. made = out
    BY ONLY <1>5, <1>6
  <2> QED BY <2>1, <2>2
<1>8. \A j \in 1 .. Len(Bsk) : xs[j] \in Int
  BY ONLY <1>1, <1>5, BelowFacts
<1>9. t \in Nat
  BY PlainFacts
<1> HIDE DEF rs, xs
<1>10. /\ Below(y1, Q) /\ Below(out, Bsk)
       /\ \E z \in Int : /\ Carries(out, z, Bsk)
                         /\ Magnitude(z) * Product(Q) <= t * Magnitude(v) + Len(Q) * (Product(Q) - 1)
  BY ONLY <1>1, <1>5, <1>8, <1>9, FloorFacts
<1> HIDE DEF y1, out
<1>11. PICK z \in Int : /\ Carries(out, z, Bsk)
                        /\ Magnitude(z) * Product(Q) <= t * Magnitude(v) + Len(Q) * (Product(Q) - 1)
  BY <1>10
<1>12. Convertible(z)
  BY <1>4, <1>11, QuotientConvertible
<1>13. Below(ss, Q \o Bsk)
  BY ONLY <1>2, <1>10, BelowJoins
<1>14. Carries(InBsk(ss), z, Bsk)
  <2> DEFINE A == Nat
             o == SubSeq(ss, Len(Q) + 1, Len(Q \o Bsk))
             n == Len(Bsk)
  <2>1. \A j \in 1 .. n : o[j] = ss[Len(Q) + j]
    <3> HIDE DEF ss
    <3> QED BY ONLY <1>2, <1>13, BelowSplits
  <2>2. y1 \in Seq(A) /\ out \in Seq(A) /\ Len(y1) = Len(Q) /\ Len(out) = n
    BY <1>1, <1>10, BelowFacts
  <2> HIDE DEF A, n
  <2>3. \A i \in 1 .. Len(y1) + Len(out) : (y1 \o out)[i] = IF i <= Len(y1) THEN y1[i] ELSE out[i - Len(y1)]
    BY ONLY <2>2, ConcatProperties
  <2>4. \A j \in 1 .. n : ss[Len(Q) + j] = out[j]
    <3> SUFFICES ASSUME NEW j \in 1 .. n PROVE ss[Len(Q) + j] = out[j]
      OBVIOUS
    <3>1. Len(Q) + j \in 1 .. Len(Q) + n /\ ~(Len(Q) + j <= Len(Q)) /\ Len(Q) + j - Len(Q) = j
      BY <1>1 DEF n
    <3> QED BY ONLY <2>2, <2>3, <3>1
  <2>5. z \in Int /\ \A j \in 1 .. n : Congruent(out[j], z, Bsk[j])
    BY <1>6, <1>11 DEF Carries, n
  <2> HIDE DEF ss, o
  <2>6. \A j \in 1 .. n : Congruent(o[j], z, Bsk[j])
    BY ONLY <2>1, <2>4, <2>5
  <2>7. Carries(o, z, Bsk)
    BY ONLY <1>6, <2>5, <2>6 DEF Carries, n
  <2>8. InBsk(ss) = o
    BY ONLY <1>2 DEF InBsk, o
  <2> QED BY ONLY <2>7, <2>8
<1> HIDE DEF ss
<1>15. Below(residues', QBsk) /\ Carries(InBsk(residues'), z, Bsk)
  BY <1>2, <1>7, <1>13, <1>14
<1>16. NumberInv'
  BY <1>7, <1>12, <1>15, InvConvertible
<1>17. NumberKept
  BY <1>7, OtherCalls
<1> QED BY <1>16, <1>17

\* FastBaseConvSK.
LEMMA ShenoyKept ==
  ASSUME BasisAssumption, NumberInv, lastCall.op = "FastRNSFloorq", FastBaseConvSK
  PROVE  NumberInv' /\ NumberKept
<1> DEFINE rs == SubSeq(residues, Len(Q) + 1, Len(QBsk))
           y1 == Twisted(rs, B, HatInv(B))
           c == Count(y1, B, msk, rs[Len(Bsk)])
           out == Counted(y1, B, msk, c, Q)
<1>1. /\ Basis(Q) /\ Basis(Bsk) /\ Basis(QBsk) /\ Q \in NamedBases /\ QBsk \in NamedBases /\ Q # QBsk
      /\ Len(B) \in Nat /\ Len(B) > 0
  BY TheBases, BasesDiffer DEF NamedBases
<1>2. /\ Q \in Seq(Nat) /\ Bsk \in Seq(Nat) /\ QBsk = Q \o Bsk /\ Basis(Q \o Bsk)
      /\ B \in Seq(Nat) /\ msk \in Nat /\ Bsk = Append(B, msk)
  BY <1>1, WholeBases
<1>3. moduli = QBsk /\ \E w : Convertible(w) /\ Carries(InBsk(residues), w, Bsk)
  BY DEF NumberInv
<1>4. Below(residues, QBsk)
  BY <1>1, <1>3, InvBelow
<1>5. PICK w : Convertible(w) /\ Carries(InBsk(residues), w, Bsk)
  BY <1>3
<1>6. Below(rs, Bsk) /\ Carries(rs, w, Bsk)
  <2>1. Below(residues, Q \o Bsk)
    BY ONLY <1>2, <1>4
  <2>2. Below(SubSeq(residues, Len(Q) + 1, Len(Q \o Bsk)), Bsk)
    BY ONLY <1>2, <2>1, BelowSplits
  <2> QED BY ONLY <1>2, <1>5, <2>2 DEF InBsk
<1>7. Become(Q, out) /\ lastCall'.op = "FastBaseConvSK"
  BY DEF FastBaseConvSK, CalledWith, CalledIn, Count, Counted
<1>8. HasRoom(w, B, msk)
  BY <1>5 DEF Convertible, Rooms, HasRoom
<1>9. HasRooms(w, B, Q)
  <2> SUFFICES ASSUME NEW j \in 1 .. Len(Q) PROVE Magnitude(w) < (Q[j] + 1) * Product(B)
    BY DEF HasRooms
  <2>1. Q[j] \in ModuliOf(Q)
    <3>1. DOMAIN Q = 1 .. Len(Q)
      BY ONLY <1>1, BasisFacts
    <3> QED BY <3>1 DEF ModuliOf
  <2>2. Q[j] + 1 \in Rooms
    BY ONLY <2>1 DEF Rooms
  <2> QED BY ONLY <1>5, <2>2 DEF Convertible
<1> HIDE DEF rs
<1>10. /\ Below(out, Q) /\ Carries(out, w, Q)
       /\ Centre(Number(Bsk, rs), Product(Bsk)) = w
  <2>1. /\ Basis(Append(B, msk)) /\ Below(rs, Append(B, msk)) /\ Carries(rs, w, Append(B, msk))
        /\ c = Count(y1, B, msk, rs[Len(Append(B, msk))])
    BY ONLY <1>1, <1>2, <1>6
  <2>2. y1 = Twisted(rs, B, HatInv(B)) /\ out = Counted(y1, B, msk, c, Q)
    OBVIOUS
  <2> HIDE DEF y1, c, out
  <2>3. /\ Below(out, Q) /\ Carries(out, w, Q)
        /\ Centre(Number(Append(B, msk), rs), Product(Append(B, msk))) = w
    BY ONLY <1>1, <1>2, <1>8, <1>9, <2>1, <2>2, ShenoyFacts
  <2> QED BY ONLY <1>2, <2>3
<1> HIDE DEF out
<1>11. moduli' = Q /\ residues' = out
  BY <1>7 DEF Become
<1>12. Stands(w)
  BY ONLY <1>1, <1>10, <1>11, StandsMade
<1>13. NumberKept
  BY ONLY <1>7, <1>10, <1>12 DEF NumberKept, After, rs
<1>14. NumberInv'
  BY <1>1, <1>7, <1>10, <1>11, InvElsewhere
<1> QED BY <1>13, <1>14

-----------------------------------------------------------------------------
(* Reading out, and the theorem.                                           *)

\* CRTInterpolate.
LEMMA InterpolateKept ==
  ASSUME BasisAssumption, NumberInv, moduli \in {Q, QP, P \o Q, Front(Q)}, CRTInterpolate
  PROVE  NumberInv' /\ NumberKept
<1> DEFINE ms == moduli
           n == Len(ms)
           q == Product(ms)
           e == Number(ms, residues)
           z == [i \in DOMAIN ms |-> residues[i] * HatInvMod(ms, i)]
           s == [i \in DOMAIN ms |-> residues[i] * (HatInvMod(ms, i) * Hat(ms, i))]
           r == Sum(s) % q
<1>1. Basis(ms) /\ ms \in NamedBases
  BY TheBases DEF NamedBases
<1>2. Below(residues, ms)
  BY <1>1, InvBelow
<1>3. moduli' = <<q>> /\ residues' = <<r>> /\ lastCall'.op = "CRTInterpolate"
  BY DEF CRTInterpolate, Become, CalledWith, CalledIn, Towers
<1>4. DOMAIN ms = 1 .. n /\ n \in Nat /\ \A i \in 1 .. n : ms[i] \in Nat \ {0}
  BY ONLY <1>1, BasisFacts
<1>5. q \in Nat \ {0} /\ q \in Nat /\ e \in Int /\ (\A i \in 1 .. n : e % ms[i] = residues[i] /\ residues[i] \in Int)
  BY ONLY <1>1, <1>2, ProductInvertible, NumberFacts, BelowFacts
<1> HIDE DEF ms
<1>6. \A i \in 1 .. n : /\ HatInvMod(ms, i) \in Int /\ HatInv(ms)[i] = HatInvMod(ms, i) /\ Hat(ms, i) \in Int
  BY ONLY <1>1, HatInvFacts, HatFacts
<1>7. \A i \in 1 .. n : z[i] = residues[i] * HatInv(ms)[i] /\ z[i] \in Int
  BY <1>4, <1>5, <1>6
<1>8. Sum(s) = Multiples(z, ms)
  <2>1. PICK g \in [1 .. n -> Int] : Multiples(z, ms) = Sum(g) /\ \A i \in 1 .. n : g[i] = z[i] * Hat(ms, i)
    <3> HIDE DEF z
    <3> QED BY ONLY <1>1, <1>7, MultiplesTerms
  <2>2. \A i \in 1 .. n : s[i] = g[i]
    <3> SUFFICES ASSUME NEW i \in 1 .. n PROVE s[i] = g[i]
      OBVIOUS
    <3> DEFINE c == HatInvMod(ms, i)
               h == Hat(ms, i)
               d == residues[i]
    <3>1. s[i] = d * (c * h) /\ z[i] = d * c /\ g[i] = z[i] * h /\ c \in Int /\ h \in Int /\ d \in Int
      BY <1>4, <1>5, <1>6, <2>1
    <3> HIDE DEF c, h, d, s, z
    <3>2. d * (c * h) = (d * c) * h
      BY ONLY <3>1
    <3> QED BY ONLY <3>1, <3>2
  <2>3. s = [i \in 1 .. n |-> s[i]]
    BY <1>4
  <2> HIDE DEF s
  <2>4. s = g
    BY ONLY <2>1, <2>2, <2>3
  <2> QED BY ONLY <2>1, <2>4
<1>9. Multiples(z, ms) \in Int /\ Congruent(Multiples(z, ms), e, q)
  <2>1. Carries(residues, e, ms)
    BY <1>1, <1>2, NumberCarried
  <2>2. \A i \in 1 .. n : z[i] \in Int /\ Congruent(z[i], residues[i] * HatInv(ms)[i], ms[i])
    <3> HIDE DEF z
    <3> QED BY ONLY <1>7 DEF Congruent
  <2> HIDE DEF z, e
  <2> QED BY ONLY <1>1, <1>5, <2>1, <2>2, InvertedOnce
<1> HIDE DEF s, z, e, q
<1>10. r \in 0 .. q - 1 /\ r \in Int /\ Congruent(r, e, q)
  <2> DEFINE c == Sum(s)
  <2>1. c \in Int /\ Congruent(c, e, q)
    BY ONLY <1>8, <1>9
  <2>2. r = c % q
    OBVIOUS
  <2> HIDE DEF c, r
  <2>3. c % q \in 0 .. q - 1 /\ Congruent(c % q, c, q)
    BY ONLY <1>5, <2>1, CongruentRelation
  <2> QED BY ONLY <1>5, <2>1, <2>2, <2>3 DEF Congruent
<1> HIDE DEF r
<1>11. \A i \in 1 .. n : r % ms[i] = residues[i]
  <2>1. \A i \in 1 .. n : Congruent(r, e, ms[i])
    BY ONLY <1>1, <1>5, <1>10, CRTUnique DEF q
  <2> QED BY ONLY <1>5, <2>1 DEF Congruent
<1>12. residues'[1] = r
  BY ONLY <1>3
<1>13. InterpolationStands
  BY ONLY <1>4, <1>10, <1>11, <1>12 DEF InterpolationStands, Towers, ms, q
<1>14. NumberKept
  BY ONLY <1>3, <1>13 DEF NumberKept, After
<1>15. Below(<<r>>, <<q>>)
  <2>1. <<r>> \in Seq(Nat) /\ Len(<<r>>) = 1 /\ Len(<<q>>) = 1 /\ DOMAIN <<q>> = {1}
    BY ONLY <1>5, <1>10
  <2>2. <<r>>[1] = r /\ <<q>>[1] = q
    OBVIOUS
  <2> QED BY ONLY <1>10, <2>1, <2>2 DEF Below
<1>16. <<q>> # QBsk
  BY ONLY BasesDiffer, BasisAssumption
<1>17. moduli' # QBsk /\ lastCall'.op # "FastRNSFloorq" /\ Below(residues', moduli')
  BY ONLY <1>3, <1>15, <1>16
<1>18. NumberInv'
  BY ONLY <1>17, InvElsewhere
<1> QED BY <1>14, <1>18

\* A plaintext modulus is no basis to go on from.
LEMMA PlainKept ==
  ASSUME BasisAssumption, NEW t \in Plain, moduli' = <<t>>,
         lastCall'.op \in {"ScaleAndRoundToPlain", "ScaleAndRoundByGamma"}
  PROVE  NumberInv' /\ NumberKept
<1>1. moduli' # QBsk /\ moduli' \notin NamedBases
  BY BasesDiffer
<1>2. lastCall'.op # "FastRNSFloorq"
  OBVIOUS
<1>3. NumberInv'
  BY ONLY <1>1, <1>2, InvElsewhere
<1>4. NumberKept
  BY OtherCalls
<1> QED BY <1>3, <1>4

\* A polynomial that is discarded.
LEMMA NothingKept ==
  ASSUME BasisAssumption, moduli' = <<>>, lastCall' = None
  PROVE  NumberInv' /\ NumberKept
<1>1. moduli' \notin NamedBases /\ moduli' # QBsk
  BY BasesDiffer DEF NamedBases
<1>2. lastCall'.op = "none"
  BY DEF None
<1>3. NumberInv'
  BY ONLY <1>1, <1>2, InvElsewhere
<1>4. NumberKept
  BY <1>2, OtherCalls
<1> QED BY <1>3, <1>4

\* The invariant holds initially.
LEMMA NumbersStart ==
  ASSUME BasisAssumption, RNSInit
  PROVE  NumberInv
<1>1. moduli \notin NamedBases /\ moduli # QBsk
  BY BasesDiffer DEF RNSInit, NamedBases
<1>2. lastCall.op = "none"
  BY DEF RNSInit, None
<1> QED BY ONLY <1>1, <1>2 DEF NumberInv

\* Every step keeps the invariant, and gives the number it should.
LEMMA NumbersStep ==
  ASSUME BasisAssumption, NumberInv, RNSNext
  PROVE  NumberInv' /\ NumberKept
<1>1. CASE Making
  BY <1>1, MakingKept
<1>2. CASE Scaling
  <2>1. PICK t \in Plain : TimesQovert(t)
    BY <1>2 DEF Scaling
  <2>2. moduli = Q
    BY <1>2 DEF Scaling
  <2> QED BY <2>1, <2>2, TimesKept
<1>3. CASE InQ
  <2>1. moduli = Q
    BY <1>3 DEF InQ
  <2>2. ASSUME NEW reduced \in BOOLEAN, ApproxModUp(reduced) PROVE NumberInv' /\ NumberKept
    BY <2>1, <2>2, ModUpKept
  <2>3. ASSUME NEW reduced \in BOOLEAN, FastExpandCRTBasisPloverQ(reduced) PROVE NumberInv' /\ NumberKept
    BY <2>1, <2>3, PloverQKept
  <2>4. CASE SwitchCRTBasis(P)
    BY <2>1, <2>4, SwitchKept
  <2>5. CASE ExpandCRTBasis \/ ExpandCRTBasisReverseOrder
    BY <2>1, <2>5, ExpandKept
  <2>6. CASE DropLastElementAndScale
    BY <2>1, <2>6, DroppedKept
  <2>7. CASE ScaleAndRoundPOverQ
    BY <2>1, <2>7, ScaledKept
  <2>8. ASSUME NEW t \in Plain, ModReduce(t) PROVE NumberInv' /\ NumberKept
    BY <2>1, <2>8, ReducedKept
  <2>9. CASE FastBaseConvqToBskMontgomery
    BY <2>1, <2>9, MontgomeryKept
  <2> QED BY ONLY <1>3, <2>2, <2>3, <2>4, <2>5, <2>6, <2>7, <2>8, <2>9 DEF InQ
<1>4. CASE InQP
  <2>1. moduli = QP
    BY <1>4 DEF InQP
  <2>2. ASSUME NEW t \in {0} \cup Plain, NEW reduced \in BOOLEAN, ApproxModDown(t, reduced)
        PROVE  NumberInv' /\ NumberKept
    BY <2>1, <2>2, ApproxDownKept
  <2>3. ASSUME NEW t \in Plain, ScaleAndRound(t, Q) \/ ScaleAndRound(t, P) PROVE NumberInv' /\ NumberKept
    BY <2>1, <2>3, ScaleRoundKept
  <2>4. ASSUME NEW t \in Plain, ApproxScaleAndRound(t, P) PROVE NumberInv' /\ NumberKept
    BY <2>1, <2>4, ApproxScaleKept
  <2> QED BY ONLY <1>4, <2>2, <2>3, <2>4 DEF InQP
<1>5. CASE Elsewhere
  <2>1. CASE moduli = P /\ SwitchCRTBasis(Q)
    BY <2>1, SwitchKept
  <2>2. CASE moduli = Front(Q) /\ ExpandCRTBasisQlHat
    BY <2>2, QlHatKept
  <2>3. CASE moduli = QBsk /\ lastCall.op # "FastRNSFloorq" /\ \E t \in Plain : FastRNSFloorq(t)
    <3>1. PICK t \in Plain : FastRNSFloorq(t)
      BY <2>3
    <3> QED BY <2>3, <3>1, FloorKept
  <2>4. CASE lastCall.op = "FastRNSFloorq" /\ FastBaseConvSK
    BY <2>4, ShenoyKept
  <2> QED BY ONLY <1>5, <2>1, <2>2, <2>3, <2>4 DEF Elsewhere
<1>6. CASE Reading
  <2>1. moduli \in {Q, QP, P \o Q, Front(Q)}
    BY <1>6 DEF Reading
  <2>2. CASE CRTInterpolate
    BY <2>1, <2>2, InterpolateKept
  <2>3. ASSUME NEW t \in Plain, ScaleAndRoundByGamma(t) PROVE NumberInv' /\ NumberKept
    <3>1. moduli' = <<t>> /\ lastCall'.op \in {"ScaleAndRoundToPlain", "ScaleAndRoundByGamma"}
      BY <2>3 DEF ScaleAndRoundByGamma, Become, CalledWith, CalledIn
    <3> QED BY <3>1, PlainKept
  <2>4. ASSUME NEW t \in Plain, NEW d \in Doubles, ScaleAndRoundToPlain(t, d) PROVE NumberInv' /\ NumberKept
    <3>1. moduli' = <<t>> /\ lastCall'.op \in {"ScaleAndRoundToPlain", "ScaleAndRoundByGamma"}
      BY <2>4 DEF ScaleAndRoundToPlain, CalledWith, CalledIn
    <3> QED BY <3>1, PlainKept
  <2> QED BY ONLY <1>6, <2>2, <2>3, <2>4 DEF Reading
<1>7. CASE Discarding
  <2>1. moduli' = <<>> /\ lastCall' = None
    BY <1>7 DEF Discarding, Become
  <2> QED BY <2>1, NothingKept
<1> QED BY ONLY RNSNext, <1>1, <1>2, <1>3, <1>4, <1>5, <1>6, <1>7 DEF RNSNext

\* In every basis, for moduli of any number and size, a coefficient keeps the
\* number it was made from: exactly in CRTInterpolate, ExpandCRTBasisQlHat and
\* FastBaseConvSK, centred in SwitchCRTBasis, and up to the multiples of the
\* modulus that ApproxModUp and FastBaseConvqToBskMontgomery may leave.
THEOREM BasesAlwaysKeepNumber ==
  ASSUME BasisAssumption
  PROVE  RNSSpec => BasesKeepNumber
<1>1. RNSInit => NumberInv
  BY NumbersStart
<1>2. NumberInv /\ [RNSNext]_rnsVars => NumberInv' /\ [NumberKept]_rnsVars
  <2> SUFFICES ASSUME NumberInv, [RNSNext]_rnsVars PROVE NumberInv' /\ [NumberKept]_rnsVars
    OBVIOUS
  <2>1. CASE RNSNext
    BY <2>1, NumbersStep
  <2>2. CASE UNCHANGED rnsVars
    BY <2>2 DEF rnsVars, NumberInv
  <2> QED BY <2>1, <2>2
<1> QED BY <1>1, <1>2, PTL DEF RNSSpec, BasesKeepNumber
=============================================================================
