---------------------------- MODULE MCPolynomial ----------------------------
(***************************************************************************)
(* HexlPolyImpl, NativeVectorT and the numbers of HexlDCRTPolyImpl for     *)
(* TLC: a behaviour is a chain of calls on one polynomial, one vector or   *)
(* one coefficient; the others rest where they start.                      *)
(*                                                                         *)
(* Polynomials: the smallest rings with a root of unity of order 2N.       *)
(* Modulo 5 (root 2) and 13 (root 5) with two coefficients and every       *)
(* operation; modulo 17 (root 2) with four, where bit reversal is not the  *)
(* identity, and the operations it matters to.                             *)
(* Vectors: a pair of entries under the modular operations, and a single   *)
(* entry that is also left unreduced; odd and even, prime and composite    *)
(* moduli, scalars below, at and above them.                               *)
(* Coefficients: every number in the bases 5, 17 and 5, 17, 7, 11, and     *)
(* products in 5, 17 with 11, 13 and 19.  The lengths of 17 and of the     *)
(* plaintext moduli take every way through the rounding in doubles.        *)
(***************************************************************************)
EXTENDS HexlPoly, RNS

Vec2(a, b)       == [i \in 0 .. 1 |-> <<a, b>>[i + 1]]
Vec4(a, b, c, d) == [i \in 0 .. 3 |-> <<a, b, c, d>>[i + 1]]

FivePlus     == {[modulus |-> 5, root |-> 2], [modulus |-> 13, root |-> 5]}
SomeOperands == {Vec2(0, 1), Vec2(3, -2)}
SomeAssigned == {Vec2(-5, 4)}
SomeLists    == {<<17>>, <<1, 4>>, <<3, 1, 4>>}
SomeScalars  == {-5, 2, 3}
SomeIndices  == {1, 3}
SomeLengths  == {1, 2, 3}

Seventeen    == {[modulus |-> 17, root |-> 2]}
FourAssigned == {Vec4(0, 1, 2, 3), Vec4(5, 0, 0, -1)}
AllIndices   == {3, 5, 7, 9}

EntryScalars == {0, 2, 7, 30}
AllExtra     == {"DivideAndRound", "MultiplyAndRound", "Mod", "AssignValue", "MultWithOutMod"}

BasisQ     == <<5, 17>>
BasisP     == <<7, 11>>
BasisB     == <<11, 13>>
AnyProduct == {13 * k : k \in -305 .. 305}

VARIABLES
  part,                                    \* what the behaviour is about
  fourFormat, fourParams, fourValues, fourSurplus, fourCall,
  pairData, pairModulus,
  entryData, entryModulus

Four == INSTANCE HexlPoly WITH
  W <- 9, N <- 4, Params <- Seventeen, Operands <- {}, Assigned <- FourAssigned, Lists <- {},
  Scalars <- {}, Indices <- AllIndices, Lengths <- {},
  format <- fourFormat, params <- fourParams, values <- fourValues,
  surplus <- fourSurplus, call <- fourCall

Pair == INSTANCE NativeVector WITH
  W <- 9, N <- 2, Moduli <- {5, 7, 8, 12}, Scalars <- EntryScalars, Extra <- {},
  data <- pairData, modulus <- pairModulus

Entry == INSTANCE NativeVector WITH
  W <- 9, N <- 1, Moduli <- {3, 5, 7, 8, 12}, Scalars <- EntryScalars, Extra <- AllExtra,
  data <- entryData, modulus <- entryModulus

ASSUME Four!PolyAssumption /\ Pair!VectorAssumption /\ Entry!VectorAssumption /\ BasisAssumption

fourVars  == <<fourFormat, fourParams, fourValues, fourSurplus, fourCall>>
pairVars  == <<pairData, pairModulus>>
entryVars == <<entryData, entryModulus>>
allVars   == <<vars, fourVars, pairVars, entryVars, rnsVars, part>>

PolyRests  == format = COEFFICIENT /\ params.modulus = 5
FourRests  == fourFormat = COEFFICIENT
PairRests  == pairModulus = 5
EntryRests == entryModulus = 5

AnyInit ==
  /\ Init /\ Four!Init /\ Pair!Init /\ Entry!Init /\ RNSInit
  /\ \/ part = "poly"  /\ FourRests /\ PairRests /\ EntryRests
     \/ part = "four"  /\ PolyRests /\ PairRests /\ EntryRests
     \/ part = "pair"  /\ PolyRests /\ FourRests /\ EntryRests
     \/ part = "entry" /\ PolyRests /\ FourRests /\ PairRests
     \/ part = "rns"   /\ PolyRests /\ FourRests /\ PairRests /\ EntryRests

AnyNext ==
  \/ part = "poly"  /\ Next        /\ UNCHANGED <<fourVars, pairVars, entryVars, rnsVars, part>>
  \/ part = "four"  /\ Four!Next   /\ UNCHANGED <<vars, pairVars, entryVars, rnsVars, part>>
  \/ part = "pair"  /\ Pair!Next   /\ UNCHANGED <<vars, fourVars, entryVars, rnsVars, part>>
  \/ part = "entry" /\ Entry!Next  /\ UNCHANGED <<vars, fourVars, pairVars, rnsVars, part>>
  \/ part = "rns"   /\ RNSNext    /\ UNCHANGED <<vars, fourVars, pairVars, entryVars, part>>

AnySpec == AnyInit /\ [][AnyNext]_allVars

-----------------------------------------------------------------------------
(* The properties of the instances; what they say is with their            *)
(* definitions in HexlPoly and NativeVector.                               *)

\* Values are words, those that operations leave unreduced too; entries of
\* vectors under the modular operations and switches stay below the modulus,
\* and residues of a coefficient below their moduli.
TypesOK == TypeOK /\ Pair!EntriesBelowModulus /\ Entry!TypeOK /\ RNSTypeOK

\* The polynomial with four values implements its ring too: automorphisms of
\* evaluations in bit-reversed order.
FourImplementRing == Four!ImplementsRing

\* Of the pair and of the single entry, whose functions leave it unreduced
\* too: what the entries stand for survives switches and roundings.
CentresKept == Pair!CentresKept /\ Entry!CentresKept
=============================================================================
