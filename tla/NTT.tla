-------------------------------- MODULE NTT --------------------------------
(***************************************************************************)
(* NumberTheoreticTransformNat (transformnathexl-impl.h): the butterfly    *)
(* networks, on tables such as PreCompute and PreComputeRootTableForNTT    *)
(* build, one step for each stage.  Within a stage every butterfly works   *)
(* on two entries of its own.                                              *)
(*                                                                         *)
(*  forward    coefficients to bit-reversed evaluations, modulo X^N + 1    *)
(*  inverse    and back                                                    *)
(*  iterative  the cyclic transform in natural order, and, with the        *)
(*             inverse table and a scaling, its inverse                    *)
(*                                                                         *)
(* Each is written several times over: with Barrett products ("mu"), with  *)
(* precomputed constants ("const"), with a shortcut for zeros ("...Copy"), *)
(* and with other comparisons for clang.                                   *)
(***************************************************************************)
EXTENDS NativeEntries

CONSTANTS
  N,        \* length, a power of two
  Params,   \* records [modulus, root]: a root of unity of order 2N
  Inputs    \* vectors to transform

Index == 0 .. N - 1

ASSUME NTTAssumption ==
  /\ \E l \in 1 .. W : N = 2^l
  /\ \A p \in Params :
       /\ BarrettModulus(p.modulus)
       /\ p.root \in 0 .. p.modulus - 1
       /\ Power(p.root, N, p.modulus) = p.modulus - 1
       /\ HasInverse(N, p.modulus)
       /\ Inputs \subseteq [Index -> 0 .. p.modulus - 1]

Kinds ==
  [way : {"forward"}, by : {"mu", "muCopy", "const", "constCopy", "clang"}] \cup
  [way : {"inverse"}, by : {"mu", "const", "clang"}] \cup
  [way : {"iterative", "iterativeInverse"}, by : {"mu"}]

VARIABLES
  kind, params, input,   \* which function, and its arguments
  element,               \* the vector it works on
  m,                     \* the loop variable: blocks in this stage
  loop                   \* "stage", "scale" or "done"

nttVars == <<kind, params, input, element, m, loop>>

q == params.modulus

-----------------------------------------------------------------------------
(* Tables.                                                                 *)

ReverseBits ==
  LET Bit(i, acc, b) == 2 * acc + ((i \div 2^b) % 2)
  IN  [i \in Index |->
         FoldLeft(LAMBDA acc, b : Bit(i, acc, b), 0, [b \in 1 .. GetMSB(N - 1) |-> b - 1])]

RootPowers == [p \in Params |-> [e \in 0 .. 2 * N - 1 |-> Power(p.root, e, p.modulus)]]

Root(e)               == RootPowers[params][e % (2 * N)]
RootTable(i)          == Root(ReverseBits[i])
RootInverseTable(i)   == Root((2 * N - 1) * ReverseBits[i])
CyclicTable(i)        == Root(2 * i)
CyclicInverseTable(i) == Root((2 * N - 1) * 2 * i)
CycloOrderInv         == InverseOf(N, q)

-----------------------------------------------------------------------------
(* Butterflies.                                                            *)

Product(x, w) ==
  IF kind.by \in {"const", "constCopy", "clang"} THEN ModMulFastConst(x, w, q, PrepModMulConst(w, q))
  ELSE ModMulFastMu(x, w, q, ComputeMu(q))

\* The sum and the difference of two residues.  The form for clang compares
\* before it adds.
SumOf(lo, f) ==
  IF kind.by = "clang" THEN Wrap(lo + Wrap(f - (IF f >= Wrap(q - lo) THEN q ELSE 0)))
  ELSE ModAddFast(lo, f, q)
DifferenceOf(lo, f) ==
  IF kind.by = "clang" THEN Wrap(Wrap(lo + (IF f > lo THEN q ELSE 0)) - f)
  ELSE ModSubFast(lo, f, q)

\* One stage: f gives the new pair from the old pair and the block's number.
Paired(t, f(_, _, _)) ==
  [i \in Index |->
     LET block == i \div (2 * t)
         upper == i % (2 * t) >= t
         lo    == IF upper THEN i - t ELSE i
     IN  f(element[lo], element[lo + t], block)[IF upper THEN 2 ELSE 1]]

ForwardButterfly(lo, hi, w) ==
  LET f == Product(hi, w)
  IN  IF kind.by \in {"muCopy", "constCopy"} /\ hi = 0 THEN <<lo, lo>> ELSE <<SumOf(lo, f), DifferenceOf(lo, f)>>

InverseButterfly(lo, hi, w) == <<SumOf(lo, hi), Product(DifferenceOf(lo, hi), w)>>

-----------------------------------------------------------------------------
StartKind(k, p, x) ==
  /\ kind = k /\ params = p /\ input = x
  /\ element = IF k.way \in {"forward", "inverse"} THEN x ELSE [i \in Index |-> x[ReverseBits[i]]]
  /\ m = IF k.way = "inverse" THEN N \div 2 ELSE 1
  /\ loop = "stage"

NTTInit == \E k \in Kinds, p \in Params, x \in Inputs : StartKind(k, p, x)

(* ForwardTransformToBitReverse and ...InPlace.                            *)
ForwardStageAt(entry(_)) ==
  /\ loop = "stage" /\ kind.way = "forward" /\ m < N
  /\ element' = Paired(N \div (2 * m), LAMBDA lo, hi, b : ForwardButterfly(lo, hi, RootTable(entry(b))))
  /\ m' = 2 * m
  /\ UNCHANGED <<kind, params, input, loop>>

ForwardStageUnshifted == ForwardStageAt(LAMBDA b : b)
ForwardStage          == ForwardStageAt(LAMBDA b : m + b)

ForwardReturn ==
  /\ loop = "stage" /\ kind.way = "forward" /\ m = N
  /\ loop' = "done"
  /\ UNCHANGED <<kind, params, input, element, m>>

(* InverseTransformFromBitReverse and ...InPlace.  With constants, the     *)
(* first stage also scales; with mu, a loop after the last.                *)
InverseStageThen(next) ==
  /\ loop = "stage" /\ kind.way = "inverse" /\ m >= 1
  /\ LET t == N \div (2 * m)
         Scaled(pair) ==
           IF kind.by = "mu" \/ m < N \div 2 THEN pair
           ELSE <<Product(pair[1], CycloOrderInv), Product(pair[2], CycloOrderInv)>>
     IN  element' = Paired(t, LAMBDA lo, hi, b :
                                Scaled(InverseButterfly(lo, hi, RootInverseTable(m + b))))
  /\ m' = next
  /\ UNCHANGED <<kind, params, input, loop>>

InverseStageRoundedUp == InverseStageThen((m + 1) \div 2)
InverseStage          == InverseStageThen(m \div 2)

InverseEndScaling ==
  /\ loop = "stage" /\ kind.way = "inverse" /\ m = 0
  /\ loop' = "scale"
  /\ UNCHANGED <<kind, params, input, element, m>>

InverseEnd ==
  /\ loop = "stage" /\ kind.way = "inverse" /\ m = 0
  /\ loop' = IF kind.by = "mu" THEN "scale" ELSE "done"
  /\ UNCHANGED <<kind, params, input, element, m>>

(* ForwardTransformIterative, on the reordered vector; InverseTransform-   *)
(* Iterative runs it on the inverse table and scales.                      *)
IterativeStage ==
  /\ loop = "stage" /\ kind.way \in {"iterative", "iterativeInverse"} /\ m < N
  /\ LET Table(i) == IF kind.way = "iterative" THEN CyclicTable(i) ELSE CyclicInverseTable(i)
         Omega(i) == Table((i % (2 * m)) * (N \div (2 * m)))
         Factor(i) == ModMulMu(element[i], Omega(i - m), q, ComputeMu(q))
     IN  element' = [i \in Index |->
                       IF i % (2 * m) >= m THEN ModSubFast(element[i - m], Factor(i), q)
                       ELSE ModAddFast(element[i], Factor(i + m), q)]
  /\ m' = 2 * m
  /\ UNCHANGED <<kind, params, input, loop>>

IterativeEnd ==
  /\ loop = "stage" /\ kind.way \in {"iterative", "iterativeInverse"} /\ m = N
  /\ loop' = IF kind.way = "iterative" THEN "done" ELSE "scale"
  /\ UNCHANGED <<kind, params, input, element, m>>

ScaleNothing ==
  /\ loop = "scale"
  /\ element' = element
  /\ loop' = "done"
  /\ UNCHANGED <<kind, params, input, m>>

Scale ==
  /\ loop = "scale"
  /\ element' = [i \in Index |-> ModMulMu(element[i], CycloOrderInv, q, ComputeMu(q))]
  /\ loop' = "done"
  /\ UNCHANGED <<kind, params, input, m>>

NTTNext ==
  \/ ForwardStage \/ ForwardReturn
  \/ InverseStage \/ InverseEnd
  \/ IterativeStage \/ IterativeEnd
  \/ Scale

NTTSpec == NTTInit /\ [][NTTNext]_nttVars /\ WF_nttVars(NTTNext)

-----------------------------------------------------------------------------
(* Types; only with mu is there a loop that scales at the end.             *)
NTTTypeOK ==
  /\ kind \in Kinds /\ params \in Params /\ input \in Inputs
  /\ m \in 0 .. N
  /\ loop \in {"stage", "scale", "done"}
  /\ loop = "scale" => kind.by = "mu" /\ kind.way \in {"inverse", "iterativeInverse"}

(* Every intermediate value is a residue: each stage's single subtraction  *)
(* and the comparisons of the form for clang trust the stage before.       *)
StagesLeaveResidues == \A i \in Index : element[i] \in 0 .. q - 1

SumUpTo(n, f(_)) ==
  LET sum[j \in 0 .. n] == IF j = 0 THEN 0 ELSE sum[j - 1] + f(j - 1) IN sum[n]
EvaluatedAt(x, e) == SumUpTo(N, LAMBDA j : x[j] * Root(e * j)) % q
Evaluations(x)    == [i \in Index |-> EvaluatedAt(x, 2 * ReverseBits[i] + 1)]

(* The forward transform ends with the evaluations at the odd powers of    *)
(* the root, in bit-reversed order, whichever products it uses and with or *)
(* without the shortcut for zeros; the inverse ends with the coefficients. *)
ForwardExact == loop = "done" /\ kind.way = "forward" => element = Evaluations(input)
InverseExact == loop = "done" /\ kind.way = "inverse" => Evaluations(element) = input

(* The iterative one ends with the evaluations at the even powers, in      *)
(* order; its inverse undoes that.                                         *)
CyclicValues(x) == [i \in Index |-> EvaluatedAt(x, 2 * i)]
IterativeExact ==
  /\ loop = "done" /\ kind.way = "iterative" => element = CyclicValues(input)
  /\ loop = "done" /\ kind.way = "iterativeInverse" => CyclicValues(element) = input

(* Every network ends with the values or the coefficients it is named for. *)
TransformsExact == ForwardExact /\ InverseExact /\ IterativeExact

(* The loop invariant of the forward transform: with m blocks, each holds  *)
(* the input modulo X^len - z for its own z, the m values z being the m-th *)
(* roots of -1 that the table entries square to.                           *)
BlockRoot(b) ==
  IF m = 1 THEN q - 1
  ELSE LET s == RootTable(m \div 2 + b \div 2) IN IF b % 2 = 0 THEN s ELSE (q - s) % q
BlocksHoldResidues ==
  kind.way = "forward" =>
    LET len == N \div m
    IN  \A b \in 0 .. m - 1, j \in 0 .. len - 1 :
          element[b * len + j] =
            SumUpTo(m, LAMBDA k : input[j + k * len] * Power(BlockRoot(b), k, q)) % q

(* Each stage leaves residues, and in the forward transform the right ones.*)
StagesExact == StagesLeaveResidues /\ BlocksHoldResidues

(* The loops end.                                                          *)
Terminates == <>(loop = "done")
=============================================================================
