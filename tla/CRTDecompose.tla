---------------------------- MODULE CRTDecompose ----------------------------
(***************************************************************************)
(* HexlDCRTPolyImpl::CRTDecompose (hexldcrtpoly-impl.h) as a client of the *)
(* transform caches.  The polynomial has one tower per modulus.  It is     *)
(* copied and the copy switches format, one tower per loop iteration;      *)
(* then a second parallel loop has every iteration transform polynomials   *)
(* over the moduli of all the other towers, so that several threads use    *)
(* the NTT object of one modulus at once.                                  *)
(*                                                                         *)
(* A thread of FTTCache is one iteration of the current loop.  A team with *)
(* fewer threads than iterations runs some of them in sequence, which is   *)
(* one of the interleavings of running them side by side.                  *)
(***************************************************************************)
EXTENDS FTTCache, Sequences, FiniteSets

CONSTANTS
  TowerOf,     \* the modulus of the tower that iteration t starts from
  RootOf,      \* the root of unity of each modulus' parameters
  Order,       \* the cyclotomic order, a power of two
  DigitCounts  \* polynomials one tower may be decomposed into; 0 for baseBits = 0

VARIABLES
  phase,    \* the loop being run: "switch", "digits", or "returned"
  format,   \* the format the polynomial is in
  digits,   \* polynomials each tower is decomposed into
  todo      \* moduli the iteration has still to transform over

dvars == <<vars, phase, format, digits, todo>>

(* The request SwitchFormat makes of the transform class for one tower.    *)
TowerRequest(kind, m) ==
  [kind |-> kind, root |-> RootOf[m], co |-> Order, mod |-> m, len |-> Half(Order)]

(* Every tower has a modulus of its own with a proper root of unity, and   *)
(* the iterations ask for nothing but in-place transforms over the towers. *)
ASSUME TowersAssumption ==
  /\ TowerOf \in [Threads -> Moduli]
  /\ \A s, t \in Threads : TowerOf[s] = TowerOf[t] => s = t
  /\ RootOf \in [Moduli -> Nat \ {0, 1}]
  /\ Order \in Nat /\ IsPowerOfTwo(Order)

ASSUME RequestsAssumption ==
  \A t \in Threads : \A c \in CallsOf[t] :
    \E k \in {"ForwardInPlace", "InverseInPlace"}, s \in Threads :
      c = TowerRequest(k, TowerOf[s])

DInit ==
  /\ Init
  /\ phase = "switch"
  /\ format \in {"EVALUATION", "COEFFICIENT"}
  /\ digits \in DigitCounts
  /\ todo = [t \in Threads |-> <<TowerOf[t]>>]

(* The copy leaves the format it is in; the digits, which start from       *)
(* coefficients, all go to evaluation.                                     *)
Kind ==
  IF phase = "switch" /\ format = "EVALUATION" THEN "InverseInPlace" ELSE "ForwardInPlace"

SwitchTower(t) ==
  /\ phase # "returned"
  /\ todo[t] # <<>>
  /\ Begin(t, TowerRequest(Kind, Head(todo[t])))
  /\ todo' = [todo EXCEPT ![t] = Tail(todo[t])]
  /\ UNCHANGED <<phase, format, digits>>

(* The towers in order, and the moduli one iteration of the second loop    *)
(* visits: every other tower once if baseBits is 0 (the result starts as   *)
(* copies of the evaluations), else all of them for each digit.            *)
Towers == CHOOSE s \in [1..Cardinality(Threads) -> Moduli] :
            {s[i] : i \in DOMAIN s} = {TowerOf[t] : t \in Threads}

Visits(t) ==
  IF digits = 0
  THEN SelectSeq(Towers, LAMBDA m : m # TowerOf[t])
  ELSE [i \in 1..(digits * Len(Towers)) |-> Towers[((i - 1) % Len(Towers)) + 1]]

LoopDone == \A t \in Threads : todo[t] = <<>> /\ pc[t] = "idle"

StartDigitsEarly ==
  /\ phase = "switch"
  /\ \E t \in Threads : todo[t] = <<>> /\ pc[t] = "idle"
  /\ phase' = "digits"
  /\ todo'  = [t \in Threads |-> todo[t] \o Visits(t)]
  /\ UNCHANGED <<vars, format, digits>>

(* Each loop ends at its implicit barrier.                                 *)
StartDigits ==
  /\ phase = "switch"
  /\ LoopDone
  /\ phase' = "digits"
  /\ todo'  = [t \in Threads |-> Visits(t)]
  /\ UNCHANGED <<vars, format, digits>>

Return ==
  /\ phase = "digits"
  /\ LoopDone
  /\ phase' = "returned"
  /\ UNCHANGED <<vars, format, digits, todo>>

Work(t) == Step(t) /\ UNCHANGED <<phase, format, digits, todo>>

DNext ==
  \/ \E t \in Threads : SwitchTower(t) \/ Work(t)
  \/ StartDigits
  \/ Return

(* The loops are finite and nothing in the library blocks for ever, so     *)
(* each iteration and the code between the loops keep running.             *)
DSpec ==
  /\ DInit /\ [][DNext]_dvars
  /\ \A t \in Threads : WF_dvars(SwitchTower(t) \/ Work(t))
  /\ WF_dvars(StartDigits \/ Return)

-----------------------------------------------------------------------------
(* In the second loop several iterations transform over one modulus, and   *)
(* none of them finds a table missing or rebuilds an NTT object: the       *)
(* format switch before the loop has filled both caches for every tower.   *)
DigitsRunWarm ==
  phase = "digits" =>
    \A t \in Threads :
      /\ pc[t] \notin {"recheck", "wait", "insert", "publish", "inverse", "precon"}
      /\ pc[t] = "useNtt" => ~MustBuild(t)

(* The decomposition returns: no iteration waits for ever for the critical *)
(* section, the mutex or the barrier.                                      *)
DecompositionReturns == <>(phase = "returned")
=============================================================================
