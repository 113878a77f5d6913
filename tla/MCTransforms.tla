---------------------------- MODULE MCTransforms ----------------------------
(***************************************************************************)
(* The transforms of transformnathexl-impl.h for TLC: a behaviour is one   *)
(* butterfly network, stage by stage; a chain of transforms of arbitrary   *)
(* orders; or threads that meet in the tables of the latter.  The other    *)
(* parts rest.                                                             *)
(*                                                                         *)
(* Networks: eight entries modulo 17, three stages, every vector with at   *)
(* most two entries that are not zero (minus one, the largest), the one    *)
(* with none that is, and a dense one.                                     *)
(* Orders: 3, twice 3, and 12, which is neither, all modulo the same 73    *)
(* and with the same bigMod.                                               *)
(* Threads: three with any calls on filled maps; three that make the same  *)
(* call from cold; one from cold with two rings, one of which divides.     *)
(***************************************************************************)
EXTENDS NTT, ArbTransform, ArbCache

CONSTANTS t1, t2, t3

Seventeen == {[modulus |-> 17, root |-> 3]}
Vectors ==
  {[i \in 0 .. 7 |-> IF i \in {j, k} THEN 16 ELSE 0] : j, k \in 0 .. 8} \cup
  {[i \in 0 .. 7 |-> 16], [i \in 0 .. 7 |-> (5 * i * i + 3) % 17]}

RingOf(order, root, bigRoot, coefficients) ==
  [order |-> order, modulus |-> 73, root |-> root, bigMod |-> 65537, bigRoot |-> bigRoot,
   poly |-> Vector(Len(coefficients), LAMBDA i : coefficients[i + 1] % 73)]

ThreeOrders ==
  {RingOf(3, 9, 4096, <<1, 1, 1>>), RingOf(6, 3, 64, <<1, -1, 1>>), RingOf(12, 52, 8, <<1, 0, -1, 0, 1>>)}
ASSUME RingsAssumption == OneDivisionPerModulus /\ QuotientsReach

Mixed == {[i \in 0 .. 7 |-> IF i % 3 = 0 THEN -1 - i ELSE 5 * i * i + 4]}

CallOn(way, modulus, divides) ==
  [way |-> way, modulus |-> modulus, bigMod |-> modulus + 100, divides |-> divides]
TwoRings == {CallOn(way, 1, FALSE) : way \in {"forward", "inverse"}}
              \cup {CallOn(way, 2, TRUE) : way \in {"forward", "inverse"}}

AllThreads == {t1, t2, t3}
AnyCalls   == [t \in AllThreads |-> TwoRings]

VARIABLES
  part,                                                \* what the behaviour is about
  sameEntries, sameCritical, samePc, sameCall, sameAt,
  loneEntries, loneCritical, lonePc, loneCall, loneAt

Same == INSTANCE ArbCache WITH
  CallsOf <- [t \in AllThreads |-> {CallOn("inverse", 1, FALSE)}], Warm <- {},
  entries <- sameEntries, critical <- sameCritical, pc <- samePc, call <- sameCall, at <- sameAt

Lone == INSTANCE ArbCache WITH
  Threads <- {t1}, CallsOf <- [t \in {t1} |-> TwoRings], Warm <- {},
  entries <- loneEntries, critical <- loneCritical, pc <- lonePc, call <- loneCall, at <- loneAt

sameVars == <<sameEntries, sameCritical, samePc, sameCall, sameAt>>
loneVars == <<loneEntries, loneCritical, lonePc, loneCall, loneAt>>
allVars  == <<nttVars, arbVars, vars, sameVars, loneVars, part>>

Zero == [i \in 0 .. 7 |-> 0]
NTTRests ==
  /\ kind = [way |-> "forward", by |-> "mu"] /\ params \in Params /\ input = Zero
  /\ element = Zero /\ m = N /\ loop = "done"

FirstCall   == CHOOSE c \in TwoRings : TRUE
SteadyRests == call = [t \in AllThreads |-> FirstCall]
LoneRests   == loneCall = [t \in {t1} |-> FirstCall]

AnyInit ==
  /\ ArbInit /\ Same!Init
  /\ \/ part \in {"arb", "same"} /\ NTTRests /\ SteadyRests /\ LoneRests
     \/ part = "ntt"    /\ NTTInit  /\ SteadyRests /\ LoneRests
     \/ part = "steady" /\ NTTRests /\ LoneRests
     \/ part = "lone"   /\ NTTRests /\ SteadyRests
  /\ Init /\ Lone!Init

AnyNext ==
  \/ part = "ntt"    /\ NTTNext   /\ UNCHANGED <<arbVars, vars, sameVars, loneVars, part>>
  \/ part = "arb"    /\ ArbNext   /\ UNCHANGED <<nttVars, vars, sameVars, loneVars, part>>
  \/ part = "steady" /\ Next      /\ UNCHANGED <<nttVars, arbVars, sameVars, loneVars, part>>
  \/ part = "same"   /\ Same!Next /\ UNCHANGED <<nttVars, arbVars, vars, loneVars, part>>
  \/ part = "lone"   /\ Lone!Next /\ UNCHANGED <<nttVars, arbVars, vars, sameVars, part>>

AnySpec == AnyInit /\ [][AnyNext]_allVars /\ WF_nttVars(NTTNext)

-----------------------------------------------------------------------------
(* The properties of the parts together, and of the instances of ArbCache. *)

\* The types of every part.
TypesOK == NTTTypeOK /\ ArbTypeOK /\ TypeOK /\ Same!TypeOK /\ Lone!TypeOK

\* Threads that make the same call from cold fill each table once, find it,
\* and meet no insertion; and one thread finds what it filled, whatever it
\* called before.
ColdCallsHit == Same!LookupsHit /\ Same!ReadsAlone /\ Lone!LookupsHit
=============================================================================
