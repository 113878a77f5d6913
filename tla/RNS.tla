-------------------------------- MODULE RNS --------------------------------
(***************************************************************************)
(* The numbers behind HexlDCRTPolyImpl (hexldcrtpoly-impl.h).  A           *)
(* polynomial is held by its residues, and every function that makes one,  *)
(* changes its basis, divides it or reads it out works coefficient by      *)
(* coefficient: the state is one coefficient, as the moduli of its towers  *)
(* and the residue in each.  What the same functions do to formats and     *)
(* parameters is in module DCRTPoly.                                       *)
(*                                                                         *)
(* The tables that callers precompute are operators with the names of the  *)
(* parameters.  Sums and products of words are exact modulo the modulus    *)
(* (NativeWord has their arithmetic), except where the code does without a *)
(* reduction.  A sum of doubles is off by up to 1 / Exactness either way.  *)
(***************************************************************************)
EXTENDS NativeEntries, FiniteSetsExt

CONSTANTS
  Q, P,        \* the basis of the ciphertexts, and the one it is extended by
  B, msk,      \* the auxiliary basis of BEHZ, and its redundant modulus
  mtilde,      \* 2^16 in the code
  gamma,       \* 2^26 in the code
  Plain,       \* plaintext moduli
  Doubles,     \* the bits of a double the thresholds count on: 52
  Exactness,   \* 4: "the error is bounded by 1/4, and the rounding will be correct"
  Deviations,  \* standard deviations of Gaussian samples
  Products     \* what multiplication leaves in the basis extended for BEHZ

Product(ms) == FoldLeft(LAMBDA a, b : a * b, 1, ms)
Sum(v)      == FoldLeft(LAMBDA a, b : a + b, 0, v)

Bsk   == Append(B, msk)
QP    == Q \o P
QBsk  == Q \o Bsk
ModuliOf(ms) == {ms[i] : i \in DOMAIN ms}
IsPowerOfTwo(n) == \E k \in 0 .. W : n = 2^k
Coprime(a, b) == \A d \in 2 .. a : a % d = 0 => b % d # 0
Magnitude(n)  == IF n < 0 THEN -n ELSE n

\* What the module asks of its constants.  Moduli leave two bits of a word
\* free.  A basis is large enough for what is converted into it: P for the
\* number of towers of Q, and Bsk for the products divided by Q, which are
\* few enough multiples of B for each modulus of Q to take their count.
BasisAssumption ==
  /\ Q \in Seq(Nat) /\ P \in Seq(Nat) /\ B \in Seq(Nat) /\ msk \in Nat
  /\ \A ms \in {QP, QBsk} :
       /\ \A i \in DOMAIN ms : ms[i] > 1 /\ ms[i] % 2 = 1 /\ 4 * ms[i] < 2^W
       /\ \A i, j \in DOMAIN ms : i # j => Coprime(ms[i], ms[j])
  /\ Len(Q) > 1 /\ P # <<>> /\ B # <<>> /\ P # Bsk
  /\ \A t \in Plain : t \in Nat \ {0, 1} /\ \A m \in ModuliOf(QP) : Coprime(m, t)
  /\ IsPowerOfTwo(mtilde) /\ 2 * Len(Q) <= mtilde /\ \A b \in ModuliOf(Bsk) : mtilde < b
  /\ IsPowerOfTwo(gamma)
  /\ Exactness \in Nat /\ Exactness > 2 /\ Deviations \subseteq Nat
  /\ 2 * Len(Q) * Exactness <= (Exactness - 2) * Product(P)
  /\ Products \subseteq Int
  /\ \A n \in Products \cup {Product(Q)}, t \in Plain, r \in {msk \div 2 - Len(B)} \cup {m + 1 : m \in ModuliOf(Q)} :
       t * Magnitude(n) <= (r * Product(B) - Len(Q)) * Product(Q)

VARIABLES
  moduli,     \* of the towers
  residues,   \* one in each tower
  lastCall    \* its name, the plaintext modulus or number given to it, and
              \* whether the build has reduced noise

rnsVars == <<moduli, residues, lastCall>>

Towers == DOMAIN moduli

CalledIn(op, arg, reduced) == lastCall' = [op |-> op, arg |-> arg, reduced |-> reduced]
CalledWith(op, arg) == CalledIn(op, arg, FALSE)
Become(ms, rs)  == moduli' = ms /\ residues' = rs

-----------------------------------------------------------------------------
(* Tables, for the basis ms.                                               *)

Hat(ms, i)        == Product(ms) \div ms[i]
InvMod(n, m)      == InverseOf(n % m, m)
HatInvMod(ms, i)  == InvMod(Hat(ms, i), ms[i])
HatInv(ms)        == [i \in DOMAIN ms |-> HatInvMod(ms, i)]
HatMod(ms, ps)    == [i \in DOMAIN ms |-> [j \in DOMAIN ps |-> Hat(ms, i) % ps[j]]]

(* The fractions of a / ms[i], added up with weights x, as a numerator     *)
(* over Product(ms); and the integers a double close to num / den is cast  *)
(* to.                                                                     *)
Fractions(x, a, ms) == Sum([i \in DOMAIN ms |-> x[i] * (a[i] % ms[i]) * Hat(ms, i)])
Floors(num, den) ==
  {Max({(num * Exactness + e) \div (den * Exactness), 0}) : e \in {-den, den}}

\* Each residue times the constant of its tower.
Twisted(rs, ms, c) == [i \in DOMAIN ms |-> (rs[i] * c[i]) % ms[i]]

\* The terms y put together, modulo p.
Combined(y, ms, p) == Sum([i \in DOMAIN ms |-> y[i] * (Hat(ms, i) % p)]) % p

-----------------------------------------------------------------------------
(* Making a coefficient.                                                   *)

AssignLarge(n, ms) ==
  /\ Become(ms, [i \in DOMAIN ms |-> n % ms[i]])
  /\ CalledWith("Assign", n)

\* From one tower, taken as it is for the first.
AssignTowerShared(v, ms) ==
  /\ Become(ms, [i \in DOMAIN ms |-> v % ms[i]])
  /\ CalledWith("Assign", Centre(v, ms[1]))

AssignTower(v, ms) ==
  /\ Become(ms, [i \in DOMAIN ms |-> IF i = 1 THEN v ELSE SwitchEntry(v, ms[1], ms[i])])
  /\ CalledWith("Assign", Centre(v, ms[1]))

(* A Gaussian sample.  Towers whose modulus the standard deviation exceeds *)
(* reduce it, as a signed number; the others rely on its being smaller.    *)
SampleGaussian(k, std, ms) ==
  LET Of(m) == IF std <= m THEN k ELSE IF k < 0 THEN -((-k) % m) ELSE k % m
  IN  /\ \A m \in ModuliOf(ms) : std <= m => k \in -m + 1 .. m - 1
      /\ Become(ms, [i \in DOMAIN ms |-> IF Of(ms[i]) < 0 THEN ms[i] - (-Of(ms[i])) ELSE Of(ms[i])])
      /\ CalledWith("Assign", k)

SampleUniform(ms) ==
  /\ residues' \in {rs \in [DOMAIN ms -> UNION {0 .. m - 1 : m \in ModuliOf(ms)}] :
                      \A i \in DOMAIN ms : rs[i] < ms[i]}
  /\ moduli' = ms
  /\ CalledWith("Sample", 0)

\* A bit goes from tower to tower, switched from each modulus to the next.
SampleBinary(b, ms) ==
  LET rs[i \in DOMAIN ms] == IF i = 1 THEN b ELSE SwitchEntry(rs[i - 1], ms[i - 1], ms[i])
  IN  Become(ms, rs) /\ CalledWith("Assign", b)

SampleTernary(k, ms) ==
  /\ k \in {-1, 0, 1}
  /\ Become(ms, [i \in DOMAIN ms |-> IF k < 0 THEN ms[i] - (-k) ELSE k])
  /\ CalledWith("Assign", k)

\* A message scaled up to the basis: minus its product with Q modulo t, over t.
TimesQovertUnsigned(t) ==
  /\ Become(moduli, Twisted([i \in Towers |-> (residues[i] * (Product(moduli) % t)) % t],
                            moduli, [i \in Towers |-> InvMod(t, moduli[i])]))
  /\ CalledWith("TimesQovert", t)

TimesQovert(t) ==
  LET NegQModt == (-Product(moduli)) % t
  IN  /\ Become(moduli, Twisted([i \in Towers |-> (residues[i] * NegQModt) % t],
                                moduli, [i \in Towers |-> InvMod(t, moduli[i])]))
      /\ CalledWith("TimesQovert", t)

-----------------------------------------------------------------------------
(* Changing the basis.                                                     *)

(* To the basis ps, off by a multiple of Product(ms).  A build with        *)
(* reduced noise centres each term first.                                  *)
ApproxSwitched(y, ms, ps, hats, reduced) ==
  LET Term(i, p) == IF reduced THEN SwitchEntry(y[i], ms[i], p) ELSE y[i]
  IN  [j \in DOMAIN ps |-> Sum([i \in DOMAIN ms |-> Term(i, ps[j]) * hats[i][j]]) % ps[j]]

ApproxSwitchCRTBasis(rs, ms, ps, reduced) ==
  ApproxSwitched(Twisted(rs, ms, HatInv(ms)), ms, ps, HatMod(ms, ps), reduced)

(* To the basis ps, rounding away the multiples of Product(ms), which are  *)
(* counted in a double.                                                    *)
Multiples(y, ms)     == Sum([i \in DOMAIN ms |-> y[i] * Hat(ms, i)])
OverflowsDown(y, ms) == Floors(Multiples(y, ms), Product(ms))
Overflows(y, ms)     == Floors(2 * Multiples(y, ms) + Product(ms), 2 * Product(ms))

SwitchedCRTBasis(rs, ms, ps) ==
  LET y == Twisted(rs, ms, HatInv(ms))
      Less(alpha, p) == ModSubFast(Combined(y, ms, p), (alpha * Product(ms)) % p, p)
  IN  {[j \in DOMAIN ps |-> Less(alpha, ps[j])] : alpha \in Overflows(y, ms)}

SwitchCRTBasis(ps) ==
  /\ moduli' = ps
  /\ residues' \in SwitchedCRTBasis(residues, moduli, ps)
  /\ CalledWith("SwitchCRTBasis", 0)

ApproxModUp(reduced) ==
  /\ Become(moduli \o P, residues \o ApproxSwitchCRTBasis(residues, moduli, P, reduced))
  /\ CalledIn("ApproxModUp", 0, reduced)

ExpandCRTBasis ==
  /\ moduli' = moduli \o P
  /\ residues' \in {residues \o rs : rs \in SwitchedCRTBasis(residues, moduli, P)}
  /\ CalledWith("SwitchCRTBasis", 0)

ExpandCRTBasisReverseOrder ==
  /\ moduli' = P \o moduli
  /\ residues' \in {rs \o residues : rs \in SwitchedCRTBasis(residues, moduli, P)}
  /\ CalledWith("SwitchCRTBasis", 0)

\* Multiplied by the moduli it is short of, the towers of which are zero.
ExpandCRTBasisQlHat ==
  LET Rest == Product(Q) \div Product(moduli)
  IN  /\ Become(Q, [i \in DOMAIN Q |-> IF i \in Towers THEN (residues[i] * Rest) % Q[i] ELSE 0])
      /\ CalledWith("ExpandCRTBasisQlHat", 0)

(* P over Q times the number, in the basis P, and from there back.         *)
FastExpandCRTBasisPloverQ(reduced) ==
  LET mPlQHatInv == [i \in Towers |-> (-Product(P) * HatInvMod(moduli, i)) % moduli[i]]
      qInvModp   == [i \in Towers |-> [j \in DOMAIN P |-> InvMod(moduli[i], P[j])]]
      y          == Twisted(residues, moduli, mPlQHatInv)
      partPl     == ApproxSwitched(y, moduli, P, qInvModp, reduced)
  IN  /\ moduli' = moduli \o P
      /\ residues' \in {rs \o partPl : rs \in SwitchedCRTBasis(partPl, P, moduli)}
      /\ CalledIn("FastExpandCRTBasisPloverQ", 0, reduced)

-----------------------------------------------------------------------------
(* Dividing.                                                               *)

\* By P, with remainders that are multiples of t, unless t is zero.
ApproxModDown(t, reduced) ==
  LET sizeQ == Len(moduli) - Len(P)
      qs    == SubSeq(moduli, 1, sizeQ)
      f     == IF t > 0 THEN t ELSE 1
      partP == [j \in DOMAIN P |-> (residues[sizeQ + j] * InvMod(f, P[j])) % P[j]]
      inQ   == ApproxSwitchCRTBasis(partP, P, qs, reduced)
  IN  /\ Become(qs, [i \in DOMAIN qs |->
              (ModSubFast(residues[i], (inQ[i] * f) % qs[i], qs[i])
                 * InvMod(Product(P), qs[i])) % qs[i]])
      /\ CalledIn("ApproxModDown", f, reduced)

\* By the last modulus, to a nearest integer.
DividedByLastTruncated(i) ==
  LET last == moduli[Len(moduli)]
      tmp  == residues[Len(moduli)] % moduli[i]
  IN  (ModSubFast(residues[i], tmp, moduli[i]) * InvMod(last, moduli[i])) % moduli[i]

ScaledPOverQ(i) ==
  LET last == moduli[Len(moduli)]
      tmp  == SwitchEntry(residues[Len(moduli)], last, moduli[i])
  IN  (ModSubFast(residues[i], tmp, moduli[i]) * InvMod(last, moduli[i])) % moduli[i]

ScaleAndRoundPOverQ ==
  /\ Become(Front(moduli), [i \in DOMAIN Front(moduli) |-> ScaledPOverQ(i)])
  /\ CalledWith("DivideByLast", 1)

\* The same from the table of Ql * (Ql^-1 mod ql) / ql, Ql without the last.
DropLastElementAndScale ==
  LET n    == Len(moduli) - 1
      last == moduli[n + 1]
      Ql   == Product(Front(moduli))
      QlQlInvModqlDivqlModq(i) == ((Ql * InvMod(Ql, last)) \div last) % moduli[i]
      tmp(i) == SwitchEntry(residues[n + 1], last, moduli[i]) * QlQlInvModqlDivqlModq(i)
  IN  /\ Become(Front(moduli), [i \in 1 .. n |->
              (residues[i] * InvMod(last, moduli[i]) + tmp(i)) % moduli[i]])
      /\ CalledWith("DivideByLast", 1)

\* By the last modulus, with a remainder that is a multiple of t.
ModReduce(t) ==
  LET n     == Len(moduli) - 1
      last  == moduli[n + 1]
      delta == (residues[n + 1] * ((-InvMod(t, last)) % last)) % last
  IN  /\ Become(Front(moduli), [i \in 1 .. n |->
              ((SwitchEntry(delta, last, moduli[i]) * t + residues[i])
                 * InvMod(last, moduli[i])) % moduli[i]])
      /\ CalledWith("DivideByLast", t)

(* By one of the two parts of the basis, times t, to the other part os:    *)
(* the whole parts of the terms, in tower j of os.  The towers of the part *)
(* divided by begin after the first `input` ones, those of os after the    *)
(* first `output`.                                                         *)
tOSHatInv(t, os, i) == t * Product(os) * HatInvMod(moduli, i)

WholeParts(t, os, input, output, j) ==
  LET sizeI     == Len(moduli) - Len(os)
      DivMod(i) == (tOSHatInv(t, os, i) \div moduli[i]) % os[j]
  IN  Sum([i \in 1 .. sizeI |-> residues[input + i] * DivMod(input + i)])
      + residues[output + j] * DivMod(output + j)

\* Without the fractions: to the second part.
ApproxScaleAndRound(t, ps) ==
  /\ Become(ps, [j \in DOMAIN ps |->
         WholeParts(t, ps, 0, Len(moduli) - Len(ps), j) % ps[j]])
  /\ CalledWith("ApproxScaleAndRound", t)

ScaleAndRound(t, os) ==
  LET ofFirst == os[1] = moduli[1]
      sizeI   == Len(moduli) - Len(os)
      input   == IF ofFirst THEN Len(os) ELSE 0
      output  == IF ofFirst THEN 0 ELSE sizeI
      is      == SubSeq(moduli, input + 1, input + sizeI)
      xs      == SubSeq(residues, input + 1, input + sizeI)
      nu      == Fractions(xs, [i \in DOMAIN is |-> tOSHatInv(t, os, input + i)], is)
      Rounded(j, alpha) == (WholeParts(t, os, input, output, j) + alpha) % os[j]
  IN  /\ moduli' = os
      /\ \E alpha \in Floors(2 * nu + Product(is), 2 * Product(is)) :
           residues' = [j \in DOMAIN os |-> Rounded(j, alpha)]
      /\ CalledWith("ScaleAndRound", t)

-----------------------------------------------------------------------------
(* Reading out.                                                            *)

CRTInterpolate ==
  LET qt == Product(moduli)
      multiplier(i) == HatInvMod(moduli, i) * Hat(moduli, i)
  IN  /\ Become(<<qt>>, <<Sum([i \in Towers |-> residues[i] * multiplier(i)]) % qt>>)
      /\ CalledWith("CRTInterpolate", 0)

(* To a plaintext modulus t: t times the number over Product(moduli),      *)
(* from its whole parts in words and its fractions in a double.  Residues  *)
(* too long for the double are split in two.  The whole parts are reduced  *)
(* modulo t one by one unless the sum of the products has room.            *)
tQHatInv(t) == [i \in Towers |-> t * HatInvMod(moduli, i)]

qMSB     == GetMSB(Max(ModuliOf(moduli)))
sizeQMSB == GetMSB(Len(moduli))
Splits(d) == qMSB + sizeQMSB >= d
BitsIn(d) == IF Splits(d) THEN qMSB \div 2 ELSE qMSB

\* The parts of the residues, each with the constants it is multiplied by.
Parts(t, d) ==
  LET B2 == 2^(qMSB \div 2)
  IN  IF Splits(d)
      THEN <<[x |-> [i \in Towers |-> residues[i] % B2], a |-> tQHatInv(t)],
             [x |-> [i \in Towers |-> residues[i] \div B2],
              a |-> [i \in Towers |-> tQHatInv(t)[i] * B2]]>>
      ELSE <<[x |-> residues, a |-> tQHatInv(t)]>>

IntSum(t, d, fits) ==
  LET Exact(p, i) == p.x[i] * ((p.a[i] \div moduli[i]) % t)
      Term(p, i)  == IF fits THEN Wrap(Exact(p, i)) ELSE Exact(p, i) % t
      parts       == Parts(t, d)
  IN  Wrap(Sum([k \in DOMAIN parts |-> Sum([i \in Towers |-> Term(parts[k], i)])]))

FloatSum(t, d) ==
  LET parts == Parts(t, d)
  IN  Sum([k \in DOMAIN parts |-> Fractions(parts[k].x, parts[k].a, moduli)])

\* A whole number as a double, which has d + 1 bits.
AsDouble(n, d) == LET ulp == 2^Max({GetMSB(n) - d - 1, 0}) IN ((n + ulp \div 2) \div ulp) * ulp

RoundedToPowerOfTwo(t, d) ==
  LET fits == BitsIn(d) + sizeQMSB + GetMSB(t) < IF Splits(d) THEN W - 2 ELSE W - 1
      q    == Product(moduli)
  IN  {Wrap(IntSum(t, d, fits) + alpha) % t : alpha \in Floors(2 * FloatSum(t, d) + q, 2 * q)}

\* The quotient by t is found in doubles, and the rest rounded after it, so
\* that t itself can come out for zero.
RoundedToOther(t, d) ==
  LET fits == BitsIn(d) + sizeQMSB + GetMSB(t) < d
      unit == Product(moduli) * Exactness
      sum  == (FloatSum(t, d) + AsDouble(IntSum(t, d, fits), d) * Product(moduli)) * Exactness
      Near(n) == {n - Product(moduli), n + Product(moduli)}
      Rest(n, m) == n - t * unit * Max({m \div (t * unit), 0})
  IN  UNION {{(2 * Rest(n, m) + unit) \div (2 * unit) : m \in Near(n)} : n \in Near(sum)}

ScaleAndRoundToPlain(t, d) ==
  /\ moduli' = <<t>>
  /\ \E c \in IF IsPowerOfTwo(t) THEN RoundedToPowerOfTwo(t, d) ELSE RoundedToOther(t, d) :
       residues' = <<c>>
  /\ CalledWith("ScaleAndRoundToPlain", t)

(* The same for BEHZ, without doubles: through the modulus t * gamma, from *)
(* which gamma is rounded away.                                            *)
ByGammaDown(s) == s \div gamma
ByGamma(s)     == Wrap(s + (s % gamma)) \div gamma

ScaleAndRoundByGamma(t) ==
  LET tgamma == t * gamma
      y       == Twisted(residues, moduli, [i \in Towers |-> tgamma * HatInvMod(moduli, i)])
      Term(i) == y[i] * ((-InvMod(moduli[i], tgamma)) % tgamma)
  IN  /\ Become(<<t>>, <<ByGamma(Sum([i \in Towers |-> Term(i)]) % tgamma)>>)
      /\ CalledWith("ScaleAndRoundByGamma", t)

-----------------------------------------------------------------------------
(* Multiplication after BEHZ: to the basis Q with Bsk, where the product   *)
(* is taken; divided by Q in Bsk, which leaves numbers of no use in the    *)
(* towers of Q; and back to Q.                                             *)

FastBaseConvqToBskMontgomery ==
  LET y == Twisted(residues, moduli, [i \in Towers |-> mtilde * HatInvMod(moduli, i)])
      q == Product(moduli)
      result_mtilde == (Combined(y, moduli, mtilde) * ((-InvMod(q, mtilde)) % mtilde)) % mtilde
      r(b) == IF result_mtilde >= mtilde \div 2 THEN result_mtilde + (b - mtilde) ELSE result_mtilde
  IN  /\ Become(moduli \o Bsk, residues \o [j \in DOMAIN Bsk |->
              (ModAddFast((r(Bsk[j]) * q) % Bsk[j], Combined(y, moduli, Bsk[j]), Bsk[j])
                 * InvMod(mtilde, Bsk[j])) % Bsk[j]])
      /\ CalledWith("FastBaseConvqToBsk", 0)

FastRNSFloorq(t) ==
  LET y == Twisted(SubSeq(residues, 1, Len(Q)), Q, [i \in DOMAIN Q |-> t * HatInvMod(Q, i)])
      txiqiDivq(b)   == Sum([i \in DOMAIN Q |-> y[i] * InvMod(Q[i], b)]) % b
      Quotient(x, b) == ModSubFast((x * t * InvMod(Product(Q), b)) % b, txiqiDivq(b), b)
  IN  /\ Become(moduli, y \o [j \in DOMAIN Bsk |-> Quotient(residues[Len(Q) + j], Bsk[j])])
      /\ CalledWith("FastRNSFloorq", t)

FastBaseConvSK ==
  LET inBsk == SubSeq(residues, Len(Q) + 1, Len(QBsk))
      y     == Twisted(inBsk, B, HatInv(B))
      In(m) == Combined(y, B, m)
      alpha == (ModSubFast(In(msk), inBsk[Len(Bsk)], msk) * InvMod(Product(B), msk)) % msk
      alphaIn(q) == IF alpha > msk \div 2 THEN ModSubFast(alpha, msk, q) ELSE alpha
  IN  /\ Become(Q, [j \in DOMAIN Q |->
              ModSubFast(In(Q[j]), (alphaIn(Q[j]) * Product(B)) % Q[j], Q[j])])
      /\ CalledWith("FastBaseConvSK", 0)

-----------------------------------------------------------------------------
None == [op |-> "none", arg |-> 0, reduced |-> FALSE]

RNSInit == moduli = <<>> /\ residues = <<>> /\ lastCall = None

Making ==
  /\ moduli = <<>>
  /\ \/ \E ms \in {Q, QP} : \E n \in 0 .. Product(ms) - 1 : AssignLarge(n, ms)
     \/ \E n \in Products : AssignLarge(n, QBsk)
     \/ \E v \in 0 .. Q[1] - 1 : AssignTower(v, QP)
     \/ \E k \in -Max(ModuliOf(QP)) .. Max(ModuliOf(QP)), std \in Deviations : SampleGaussian(k, std, Q)
     \/ SampleUniform(Q)
     \/ \E b \in {0, 1} : SampleBinary(b, Q)
     \/ \E k \in {-1, 0, 1} : SampleTernary(k, Q)

\* Callers scale up what they have just assigned, a message.
Scaling ==
  /\ moduli = Q /\ lastCall.op = "Assign"
  /\ \E t \in Plain :
       (\A m \in ModuliOf(Q) : t <= m) /\ lastCall.arg \in 0 .. t - 1 /\ TimesQovert(t)

InQ ==
  /\ moduli = Q
  /\ \/ \E reduced \in BOOLEAN : ApproxModUp(reduced) \/ FastExpandCRTBasisPloverQ(reduced)
     \/ SwitchCRTBasis(P) \/ ExpandCRTBasis \/ ExpandCRTBasisReverseOrder
     \/ DropLastElementAndScale \/ ScaleAndRoundPOverQ
     \/ \E t \in Plain : ModReduce(t)
     \/ FastBaseConvqToBskMontgomery

InQP ==
  /\ moduli = QP
  /\ \/ \E t \in {0} \cup Plain, reduced \in BOOLEAN : ApproxModDown(t, reduced)
     \/ \E t \in Plain : ScaleAndRound(t, Q) \/ ScaleAndRound(t, P) \/ ApproxScaleAndRound(t, P)

Elsewhere ==
  \/ moduli = P /\ SwitchCRTBasis(Q)
  \/ moduli = Front(Q) /\ ExpandCRTBasisQlHat
  \/ moduli = QBsk /\ lastCall.op # "FastRNSFloorq" /\ \E t \in Plain : FastRNSFloorq(t)
  \/ lastCall.op = "FastRNSFloorq" /\ FastBaseConvSK

Reading ==
  /\ moduli \in {Q, QP, P \o Q, Front(Q)}
  /\ \/ CRTInterpolate
     \/ /\ moduli \in {Q, Front(Q)}
        /\ \E t \in Plain : ScaleAndRoundByGamma(t) \/ \E d \in Doubles : ScaleAndRoundToPlain(t, d)

\* What has been read out, or is in an order nothing here goes on from, goes.
Discarding ==
  /\ moduli \notin {<<>>, Q, QP, QBsk, P, Front(Q)}
  /\ Become(<<>>, <<>>)
  /\ lastCall' = None

RNSNext == Making \/ Scaling \/ InQ \/ InQP \/ Elsewhere \/ Reading \/ Discarding

RNSSpec == RNSInit /\ [][RNSNext]_rnsVars

-----------------------------------------------------------------------------
(* The number below Product(ms) that the residues rs stand for, lifted     *)
(* from modulus to modulus.                                                *)
Number(ms, rs) ==
  LET Fits(n, i) ==
        LET m == Product(SubSeq(ms, 1, i - 1))
        IN  n + m * CHOOSE k \in 0 .. ms[i] - 1 : (n + k * m) % ms[i] = rs[i]
      number[i \in 0 .. Len(ms)] == IF i = 0 THEN 0 ELSE Fits(number[i - 1], i)
  IN  number[Len(ms)]

Stands(n)  == /\ Len(residues') = Len(moduli')
              /\ \A i \in DOMAIN moduli' : n % moduli'[i] = residues'[i]

\* v is at most half of m, up to what doubles are off by.
AtMostHalf(v, m) == 2 * Exactness * Magnitude(v) <= (Exactness + 2) * m

\* v is what an approximate conversion from n towers of product m can give.
Approximate(v, n, m) == IF lastCall'.reduced THEN 2 * Magnitude(v) <= n * m ELSE v \in 0 .. n * m - 1

RNSTypeOK ==
  /\ moduli \in Seq(Nat) /\ Len(residues) = Len(moduli)
  /\ \A i \in Towers : residues[i] \in 0 .. IF Len(moduli) = 1 THEN moduli[i] ELSE moduli[i] - 1

Old        == Number(moduli, residues)
After(op)  == lastCall'.op = op

(* A coefficient keeps its number in every change of basis, and gets the   *)
(* one it is made from: that of the sample or the large integer in every   *)
(* tower; after SwitchCRTBasis the centred one; after the approximate      *)
(* conversions one off by as many multiples of the modulus as there are    *)
(* towers; and through Montgomery's and Shenoy and Kumaresan's conversions *)
(* exactly one, read from no tower that FastRNSFloorq left behind.         *)
SwitchedStands ==
  LET q == Product(moduli)
  IN  \E k \in 0 .. 1 : AtMostHalf(Old - k * q, q) /\ Stands(Old - k * q)

InterpolationStands ==
  /\ residues'[1] \in 0 .. Product(moduli) - 1
  /\ \A i \in Towers : residues'[1] % moduli[i] = residues[i]

ModUpStands ==
  LET q == Product(moduli)
      n == Len(moduli)
  IN  \E u \in -n .. n : Approximate(Old + u * q, n, q) /\ Stands(Old + u * q)

MontgomeryStands ==
  LET q == Product(moduli)
  IN  \E k \in 0 .. 1 :
        LET z == Old - k * q
        IN  z >= -(q \div 2) /\ mtilde * (2 * z - q) <= 2 * Len(moduli) * q /\ Stands(z)

NumberKept ==
  /\ After("Assign") => Stands(lastCall'.arg)
  /\ After("CRTInterpolate") => InterpolationStands
  /\ After("SwitchCRTBasis") => SwitchedStands
  /\ After("ApproxModUp") => ModUpStands
  /\ After("ExpandCRTBasisQlHat") => Stands(Old * (Product(Q) \div Product(moduli)))
  /\ After("FastBaseConvqToBsk") => MontgomeryStands
  /\ After("FastBaseConvSK") =>
       Stands(Centre(Number(Bsk, SubSeq(residues, Len(Q) + 1, Len(QBsk))), Product(Bsk)))

BasesKeepNumber == [][NumberKept]_rnsVars

(* The divisions stay near the quotient: to a nearest integer by the last  *)
(* modulus and by a part of the basis, with a remainder that is a multiple *)
(* of the plaintext modulus where that has to survive, and off by no more  *)
(* than the number of towers where a conversion is approximate, or than    *)
(* their residues where fractions are left out.                            *)
Divides(n, d) == n % d = 0 /\ Stands(n \div d)

ModDownNear(t) ==
  LET p == Product(P)
  IN  \E k \in -Len(P) .. Len(P) :
        LET s == ((Old * InvMod(t, p)) % p) - k * p
        IN  Approximate(s, Len(P), p) /\ Divides(Old - t * s, p)

LastNear(t) ==
  LET last == moduli[Len(moduli)]
  IN  \E d \in -(last \div 2) .. last \div 2 : Divides(Old + t * d, last)

RoundedNear(t) ==
  LET q   == Product(moduli)
      num == t * Old * Product(moduli')
  IN  \E y \in {num \div q, num \div q + 1} : AtMostHalf(num - y * q, q) /\ Stands(y)

WholePartsNear(t) ==
  \E u \in 0 .. Sum([i \in DOMAIN Q |-> Q[i] - 1]) :
    Stands((t * Old * Product(P)) \div Product(moduli) - u)

PloverQNear ==
  LET q == Product(moduli)
      p == Product(P)
      n == Len(Q)
  IN  \E y \in (p * Old) \div q - n .. (p * Old) \div q + n, k \in -1 .. 1 :
        /\ Approximate(y * q - p * Old, n, q)
        /\ AtMostHalf(y - k * p, p) /\ Stands(y - k * p)

FloorNear(t) ==
  LET v == Centre(Old, Product(moduli))
  IN  \E u \in 0 .. Len(Q) - 1 : \A j \in DOMAIN Bsk :
        ((t * v) \div Product(Q) - u) % Bsk[j] = residues'[Len(Q) + j]

QuotientsNear ==
  [][LET t == lastCall'.arg
     IN  /\ After("ApproxModDown") => ModDownNear(t)
         /\ After("DivideByLast") => LastNear(t)
         /\ After("ScaleAndRound") => RoundedNear(t)
         /\ After("ApproxScaleAndRound") => WholePartsNear(t)
         /\ After("FastExpandCRTBasisPloverQ") => PloverQNear
         /\ After("TimesQovert") => \E d \in 0 .. t - 1 : Divides(Product(moduli) * Old + d, t)
         /\ After("FastRNSFloorq") => FloorNear(t)]_rnsVars

(* A number near a multiple m of Product(moduli) / t reads out as m modulo *)
(* t: within a quarter through doubles, whichever way the sums are taken   *)
(* and the doubles err, and within a half less one gamma-th for each tower *)
(* through gamma.  The modulus itself can stand for zero.                  *)
ReadsOut(m, t) == residues'[1] \in 0 .. t /\ residues'[1] % t = m % t

MessagesReadOut ==
  [][LET q == Product(moduli)
         t == lastCall'.arg
         Distance(m) == Magnitude(t * Old - m * q)
     IN  /\ After("ScaleAndRoundToPlain") =>
              \A m \in 0 .. t : Exactness * Distance(m) < ((Exactness - 2) * q) \div 2 => ReadsOut(m, t)
         /\ After("ScaleAndRoundByGamma") =>
              \A m \in 0 .. t :
                2 * gamma * Distance(m) < q * (gamma - 2 * Len(moduli)) => ReadsOut(m, t)]_rnsVars

\* What ends with a rounding ends where it should.
RoundingsLand == QuotientsNear /\ MessagesReadOut
=============================================================================
