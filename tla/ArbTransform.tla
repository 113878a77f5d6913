---------------------------- MODULE ArbTransform ----------------------------
(***************************************************************************)
(* ChineseRemainderTransformArbNat and BluesteinFFTNat (transformnathexl-  *)
(* impl.h): the transforms for cyclotomic orders that are no power of two, *)
(* called one after the other, over the maps they keep their tables in.    *)
(* The keys are moduli and roots; the order that sizes a table is in none. *)
(* Module ArbCache has the same maps under threads.                        *)
(*                                                                         *)
(* A vector in the iterative transform's domain is written as the vector   *)
(* it is the transform of, so that a product of two is a cyclic            *)
(* convolution: module NTT shows that the transform and its inverse do     *)
(* that.  An entry of a map that was never filled reads as Empty, the      *)
(* vector operator[] inserts.                                              *)
(***************************************************************************)
EXTENDS NativeEntries, FiniteSets, SequencesExt

CONSTANTS
  Rings,      \* records [order, modulus, root, bigMod, bigRoot, poly]: a
              \* of order 2 * order, a root of order nttDim modulo bigMod, and
              \* the coefficients of the cyclotomic polynomial
  Patterns    \* functions to the integers that elements are cut from

\* The numbers that GetTotientList returns, how many precede one, and which
\* is at an index.
Totatives(m)   == {k \in 0 .. m - 1 : \A d \in 2 .. m : ~(m % d = 0 /\ k % d = 0)}
Totient(m)     == Cardinality(Totatives(m))
Place(k, m)    == Cardinality({j \in Totatives(m) : j < k})
TotientList(m) == [i \in 0 .. Totient(m) - 1 |-> CHOOSE k \in Totatives(m) : Place(k, m) = i]

\* pow(2, ceil(log2(n)))
PowerAbove(n) == 2^(CHOOSE e \in 0 .. W : 2^e >= n /\ (e = 0 \/ 2^(e - 1) < n))
NttDim(m)     == PowerAbove(2 * m - 1)

\* The vector of n entries f(0) .. f(n - 1), and what is past its end.
Vector(n, f(_)) == [i \in 0 .. n - 1 |-> f(i)]
Len0(v)         == Cardinality(DOMAIN v)
Empty           == Vector(0, LAMBDA i : 0)
Sum(v, n) ==
  LET sum[k \in 0 .. n] == IF k = 0 THEN 0 ELSE sum[k - 1] + v[k - 1] IN sum[n]

OfOrder(root, n, m) == Power(root, n, m) = 1 /\ \A k \in 1 .. n - 1 : Power(root, k, m) # 1

DivisionDimSingle(order) == PowerAbove(order - Totient(order))
DivisionDim(order)       == 2 * PowerAbove(order - Totient(order))

(* Prime, twice a prime, or neither: neither divides with remainder.       *)
Divides(m) == Totient(m) + 1 # m /\ (Totient(m) + 1) * 2 # m

\* What the division takes from a cyclotomic polynomial: it is monic and a
\* palindrome, and vanishes at the primitive roots.
Cyclotomic(poly, n, order, root, m) ==
  /\ poly \in [0 .. n -> 0 .. m - 1] /\ poly[0] = 1
  /\ \A i \in 0 .. n : poly[i] = poly[n - i]
  /\ \A k \in Totatives(order) :
       Sum(Vector(n + 1, LAMBDA i : poly[i] * Power(root, (2 * i * k) % (2 * order), m)), n + 1) % m = 0

ASSUME ArbAssumption ==
  \A r \in Rings :
    /\ r.order \in Nat \ {0, 1} /\ 2 * r.order <= 2^W
    /\ BarrettModulus(r.modulus) /\ \A x \in 1 .. r.modulus - 1 : HasInverse(x, r.modulus)
    /\ HasInverse(r.order % r.modulus, r.modulus)
    /\ r.root \in 0 .. r.modulus - 1 /\ OfOrder(r.root, 2 * r.order, r.modulus)
    /\ r.bigMod \in Nat /\ r.bigMod > r.order * r.modulus * r.modulus
    /\ Cyclotomic(r.poly, Totient(r.order), r.order, r.root, r.modulus)
    /\ \A p \in Patterns, i \in 0 .. Totient(r.order) - 1 : p[i] \in Int
    /\ \A s \in Rings : r.bigMod = s.bigMod /\ r.bigRoot = s.bigRoot => NttDim(r.order) = NttDim(s.order)

\* The maps keyed by modulus hold one ring that divides for each modulus.
OneDivisionPerModulus ==
  \A r, s \in Rings :
    Divides(r.order) /\ Divides(s.order) /\ (r.modulus = s.modulus \/ r.bigMod = s.bigMod) => r = s

\* The orders for which the division's vectors reach up to the coefficients
\* that Drop reads (order 9 is none).
QuotientsReach ==
  \A r \in Rings : Divides(r.order) => r.order <= 2 * PowerAbove(r.order - Totient(r.order))

VARIABLES
  nttTables,   \* m_rootOfUnityTableByModulusRoot and its inverse: the length
  powers,      \* m_powersTableByModulusRoot
  RBTables,    \* m_RBTableByModulusRootPair
  cycloPoly,   \* m_cyclotomicPolyMap
  division,    \* the maps of the division, by modulus or bigMod
  divisionDim, \* m_nttDivisionDim
  last         \* the call that returned last

arbVars == <<nttTables, powers, RBTables, cycloPoly, division, divisionDim, last>>

ModulusRootNoRoot(modulus, root) == <<modulus, modulus>>
ModulusRoot(modulus, root)       == <<modulus, root>>
RootInverse(r)                   == InverseOf(r.root, r.modulus)

ModulusRoots ==
  {ModulusRoot(r.modulus, r.root) : r \in Rings} \cup
  {ModulusRoot(r.modulus, RootInverse(r)) : r \in Rings}
NttModulusRoots == {ModulusRoot(r.bigMod, r.bigRoot) : r \in Rings}
Moduli          == {r.modulus : r \in Rings}
BigModuli       == {r.bigMod : r \in Rings}
Orders          == {r.order : r \in Rings}

NoDivision == [mod |-> 0, reverse |-> Empty, poly |-> Empty]
NoCall     == [way |-> "none"]

NoNttTables == [k \in NttModulusRoots |-> 0]
NoPowers    == [k \in ModulusRoots |-> Empty]
NoRBTables  == [k \in ModulusRoots \X NttModulusRoots |-> Empty]
NoPolys     == [m \in Moduli |-> Empty]
NoDivisions == [of |-> [m \in Moduli |-> NoDivision], tables |-> [m \in BigModuli |-> 0]]
NoDims      == [m \in Orders |-> 0]

ArbInit ==
  /\ nttTables = NoNttTables /\ powers = NoPowers /\ RBTables = NoRBTables
  /\ cycloPoly = NoPolys /\ division = NoDivisions /\ divisionDim = NoDims
  /\ last = NoCall

-----------------------------------------------------------------------------
(* Vectors.                                                                *)

\* The entry-wise product and inverse transform of what a and b are in the
\* domain of the transform of length n.
Convolved(a, b, n, m) ==
  Vector(n, LAMBDA k : Sum(Vector(n, LAMBDA i : (a[i] * b[(k + n - i) % n]) % m), n) % m)

PadZeros(a, n)    == Vector(n, LAMBDA i : IF i < Len0(a) THEN a[i] ELSE 0)
Resize(a, lo, hi) == Vector(hi - lo + 1, LAMBDA j : a[lo + j])

Pad(x, order, forward) ==
  IF forward THEN PadZeros(x, order)
  ELSE Vector(order, LAMBDA i : IF i \in Totatives(order) THEN x[Place(i, order)] ELSE 0)

(* PreComputePowers and PreComputeRBTable.                                 *)
SquarePower(root, i, order, m) == Power(root, (i * i) % (2 * order), m)

PowersTableUnwrapped(order, m, root) == Vector(order, LAMBDA i : Power(root, (i * i) % order, m))
PowersTable(order, m, root)          == Vector(order, LAMBDA i : SquarePower(root, i, order, m))

RBTable(order, m, root) ==
  LET rootInv == InverseOf(root, m)
      b == Vector(2 * order - 1, LAMBDA k :
             LET i == IF k < order THEN order - 1 - k ELSE k - (order - 1)
             IN  SquarePower(rootInv, i, order, m))
  IN  PadZeros(b, NttDim(order))

(* BluesteinFFTNat::ForwardTransform, on the tables it finds.              *)
Bluestein(x, pw, rb, r) ==
  LET n  == NttDim(r.order)
      Ra == PadZeros(Vector(r.order, LAMBDA i : (x[i] * pw[i]) % r.modulus), n)
      Rc == Resize(Convolved(Ra, rb, n, r.bigMod), r.order - 1, 2 * (r.order - 1))
  IN  Vector(r.order, LAMBDA i : ((Rc[i] % r.modulus) * pw[i]) % r.modulus)

-----------------------------------------------------------------------------
(* The quotient by the cyclotomic polynomial.                              *)

SubMod(x, y, m) == ModSubMu(x, y, m, ComputeMu(m))
AddMod(x, y, m) == ModAddMu(x, y, m, ComputeMu(m))

(* The product of two series, as far as x^n.                               *)
TimesMod(a, b, n, m) ==
  Vector(n, LAMBDA k : Sum(Vector(k + 1, LAMBDA i :
    IF i < Len0(a) /\ k - i < Len0(b) THEN (a[i] * b[k - i]) % m ELSE 0), k + 1) % m)

(* InversePolyMod: Newton's iteration for 1 / g modulo x^power.            *)
NewtonStep(h, g, n, m) ==
  LET t == TimesMod(TimesMod(h, h, n, m), g, n, m)
  IN  Vector(n, LAMBDA j : SubMod(IF j < Len0(h) THEN (2 * h[j]) % m ELSE m, t[j], m))

InversePolyMod(g, m, power) ==
  LET rounds == CHOOSE e \in 0 .. W : 2^e = PowerAbove(power)
      newton[i \in 0 .. rounds] ==
        IF i = 0 THEN Vector(1, LAMBDA j : 1) ELSE NewtonStep(newton[i - 1], g, 2^i, m)
  IN  Resize(newton[rounds], 0, power - 1)

(* SetPreComputedNTTDivisionModulus.                                       *)
DivisionOf(r) ==
  [mod     |-> r.bigMod,
   reverse |-> PadZeros(InversePolyMod(cycloPoly[r.modulus], r.modulus, r.order - Totient(r.order)),
                        DivisionDim(r.order)),
   poly    |-> PadZeros(cycloPoly[r.modulus], DivisionDim(r.order))]

(* Drop.                                                                   *)
DropPrime(e, n, m) == Vector(n, LAMBDA i : SubMod(e[i], e[n], m))

DropTwicePrimeOneSign(e, n, m) ==
  LET top == SubMod(e[n], e[2 * n + 1], m)
  IN  Vector(n, LAMBDA i : SubMod(SubMod(e[i], e[i + n + 1], m), top, m))

DropTwicePrime(e, n, m) ==
  LET top == SubMod(e[n], e[2 * n + 1], m)
      folded(i) == SubMod(e[i], e[i + n + 1], m)
  IN  Vector(n, LAMBDA i :
        IF i % 2 = 0 THEN SubMod(folded(i), top, m) ELSE AddMod(folded(i), top, m))

DropDividing(e, n, r, d, dim) ==
  LET power    == r.order - n
      padded   == Vector(dim, LAMBDA k : IF k < power THEN e[r.order - 1 - k] ELSE 0)
      a        == Convolved(padded, d.reverse, dim, d.mod)
      quotient == Vector(dim, LAMBDA i : IF i < power THEN a[i] % r.modulus ELSE 0)
      product  == Convolved(quotient, d.poly, dim, d.mod)
  IN  Vector(n, LAMBDA i : SubMod(e[i], product[r.order - 1 - i] % r.modulus, r.modulus))

Drop(e, r, d, dim) ==
  LET n == Totient(r.order)
  IN  IF n + 1 = r.order THEN DropPrime(e, n, r.modulus)
      ELSE IF (n + 1) * 2 = r.order THEN DropTwicePrime(e, n, r.modulus)
      ELSE DropDividing(e, n, r, d, dim)

DropForward(e, r) == Vector(Totient(r.order), LAMBDA i : e[TotientList(r.order)[i]])

-----------------------------------------------------------------------------
FilledIn(t, k, v) == IF t[k] = Empty THEN [t EXCEPT ![k] = v] ELSE t

(* The critical section of both transforms.                                *)
FillTables(r, root) ==
  LET ntt == ModulusRoot(r.bigMod, r.bigRoot)
      own == ModulusRoot(r.modulus, root)
  IN  /\ nttTables' = [nttTables EXCEPT ![ntt] = IF @ = 0 THEN NttDim(r.order) ELSE @]
      /\ powers'    = FilledIn(powers, own, PowersTable(r.order, r.modulus, root))
      /\ RBTables'  = FilledIn(RBTables, <<own, ntt>>, RBTable(r.order, r.modulus, root))

(* A table of another length: the product of the vectors throws.           *)
TablesFit(r, root) ==
  LET ntt == ModulusRoot(r.bigMod, r.bigRoot)
      own == ModulusRoot(r.modulus, root)
  IN  /\ nttTables'[ntt] = NttDim(r.order)
      /\ Len0(powers'[own]) = r.order
      /\ Len0(RBTables'[<<own, ntt>>]) = NttDim(r.order)

Transformed(x, r, root) ==
  LET ntt == ModulusRoot(r.bigMod, r.bigRoot)
      own == ModulusRoot(r.modulus, root)
  IN  Bluestein(x, powers'[own], RBTables'[<<own, ntt>>], r)

Answer(way, r, x, status, y) ==
  last' = [way |-> way, ring |-> r, input |-> x, status |-> status, output |-> y]

ForwardTransform(r, x) ==
  /\ FillTables(r, r.root)
  /\ IF TablesFit(r, r.root)
     THEN Answer("forward", r, x, "returned",
                 DropForward(Transformed(Pad(x, r.order, TRUE), r, r.root), r))
     ELSE Answer("forward", r, x, "thrown", Empty)
  /\ UNCHANGED <<cycloPoly, division, divisionDim>>

(* The tables of the division, and when Drop makes them itself.            *)
SetDivisionTables(r) ==
  /\ division'    = [of     |-> [division.of EXCEPT ![r.modulus] = DivisionOf(r)],
                     tables |-> [division.tables EXCEPT ![r.bigMod] = DivisionDim(r.order)]]
  /\ divisionDim' = [divisionDim EXCEPT ![r.order] = DivisionDim(r.order)]

DivisionMissing(r) ==
  Divides(r.order) /\ (division.tables[r.bigMod] = 0 \/ division.of[r.modulus].mod # r.bigMod)

FillDivision(r) ==
  IF DivisionMissing(r) THEN SetDivisionTables(r) ELSE UNCHANGED <<division, divisionDim>>

(* What Drop indexes is there: a coefficient of the product of quotient    *)
(* and polynomial for each of the order's, in vectors of the length that   *)
(* the tables were made for.  Otherwise what it returns is undefined.      *)
DivisionReads(r) ==
  Divides(r.order) =>
    /\ r.order <= divisionDim'[r.order]
    /\ division'.tables[r.bigMod] = divisionDim'[r.order]

(* The division tables are made "after setting the cyclotomic polynomial". *)
InverseTransform(r, x) ==
  /\ DivisionMissing(r) => cycloPoly[r.modulus] = r.poly
  /\ FillTables(r, RootInverse(r))
  /\ FillDivision(r)
  /\ IF ~TablesFit(r, RootInverse(r)) THEN Answer("inverse", r, x, "thrown", Empty)
     ELSE IF ~DivisionReads(r) THEN Answer("inverse", r, x, "undefined", Empty)
     ELSE LET e       == Transformed(Pad(x, r.order, FALSE), r, RootInverse(r))
              scale   == InverseOf(r.order % r.modulus, r.modulus)
              scaled  == Vector(r.order, LAMBDA i : (e[i] * scale) % r.modulus)
          IN  Answer("inverse", r, x, "returned",
                     Drop(scaled, r, division'.of[r.modulus], divisionDim'[r.order]))
  /\ UNCHANGED cycloPoly

SetCylotomicPolynomial(r) ==
  /\ cycloPoly' = [cycloPoly EXCEPT ![r.modulus] = r.poly]
  /\ last' = NoCall
  /\ UNCHANGED <<nttTables, powers, RBTables, division, divisionDim>>

SetPreComputedNTTModulus(r) ==
  /\ nttTables' = [nttTables EXCEPT ![ModulusRoot(r.bigMod, r.bigRoot)] = NttDim(r.order)]
  /\ last' = NoCall
  /\ UNCHANGED <<powers, RBTables, cycloPoly, division, divisionDim>>

SetPreComputedNTTDivisionModulus(r) ==
  /\ Divides(r.order) /\ cycloPoly[r.modulus] = r.poly
  /\ SetDivisionTables(r)
  /\ last' = NoCall
  /\ UNCHANGED <<nttTables, powers, RBTables, cycloPoly>>

Reset ==
  /\ nttTables' = NoNttTables /\ powers' = NoPowers /\ RBTables' = NoRBTables
  /\ cycloPoly' = NoPolys /\ division' = NoDivisions /\ divisionDim' = NoDims
  /\ last' = NoCall

Elements(r) == {Vector(Totient(r.order), LAMBDA i : p[i] % r.modulus) : p \in Patterns}

ArbNext ==
  \/ \E r \in Rings : \/ \E x \in Elements(r) : ForwardTransform(r, x) \/ InverseTransform(r, x)
                      \/ SetCylotomicPolynomial(r)
                      \/ SetPreComputedNTTModulus(r)
                      \/ SetPreComputedNTTDivisionModulus(r)
  \/ Reset

ArbSpec == ArbInit /\ [][ArbNext]_arbVars

-----------------------------------------------------------------------------
(* Types; what is returned are residues, in the length of the ring.        *)
ArbTypeOK ==
  /\ \A k \in NttModulusRoots : nttTables[k] \in {0} \cup {NttDim(m) : m \in Orders}
  /\ \A k \in ModulusRoots : Len0(powers[k]) \in {0} \cup Orders
  /\ \A m \in Orders : divisionDim[m] \in {0, DivisionDim(m)}
  /\ last # NoCall /\ last.status = "returned" =>
       last.output \in [0 .. Totient(last.ring.order) - 1 -> 0 .. last.ring.modulus - 1]

(* No call finds a table of another length, or reads past a vector's end.  *)
CallsReturn == last # NoCall => last.status = "returned"

\* The values of the polynomial v at the primitive roots, in their order.
Values(v, r) ==
  LET list == TotientList(r.order)
      term(i, j) == (v[j] * Power(r.root, (2 * j * list[i]) % (2 * r.order), r.modulus)) % r.modulus
  IN  Vector(Len0(list), LAMBDA i : Sum(Vector(Len0(v), LAMBDA j : term(i, j)), Len0(v)) % r.modulus)

(* Whatever was called before, with whichever orders, and however often    *)
(* the tables were reset: the forward transform evaluates at the primitive *)
(* roots, and the inverse transform finds the polynomial of the ring that  *)
(* has the given values.                                                   *)
Returned(way) == last # NoCall /\ last.way = way /\ last.status = "returned"
ArbExact ==
  /\ Returned("forward") => last.output = Values(last.input, last.ring)
  /\ Returned("inverse") => Values(last.output, last.ring) = last.input
=============================================================================
