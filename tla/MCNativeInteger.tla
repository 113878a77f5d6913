-------------------------- MODULE MCNativeInteger --------------------------
(***************************************************************************)
(* NativeIntegerT for TLC: a behaviour is a chain of modular operations, a *)
(* chain of plain ones, or the loop of one ModInverse; the other parts     *)
(* rest where they start.  Words have ten bits.                            *)
(*                                                                         *)
(* Modular: moduli of up to six bits, the longest with their mu; the words *)
(* are the neighbours of every multiple and power at which a comparison or *)
(* a carry can change.  Plain: the neighbours of powers of two and of the  *)
(* square root of the word size, strings around the largest word.          *)
(* ModInverse: every pair of arguments that a signed word of seven bits    *)
(* holds, and a few larger values.                                         *)
(***************************************************************************)
EXTENDS NativeInteger, NativeArith, ModInverse

SmallModuli == {4, 5, 7, 13, 31, 61}

Edges(m) == {k * m + d : k \in {1, 2, 3, m - 1, m}, d \in {-1, 0, 1}}
EdgeWords ==
  Word \cap (UNION {Edges(m) : m \in SmallModuli}
             \cup UNION {{2^k - 1, 2^k, 2^k + 1} : k \in 0 .. W} \cup {100 * k : k \in 0 .. 10})

EdgeNumbers    == {0, 1, 2, 3, 13, 31, 32, 33, 64, 511, 512, 513, 1023}
SmallExponents == {0, 1, 2, 3, 6, 11, 21}
ExponentModuli == {2, 5, 7, 13}

Decimals == {<<1, 0, 2, 3>>, <<1, 0, 2, 4>>, <<0, 0, 7>>, <<>>}
Binaries == [1 .. 2 -> {0, 1}] \cup {[i \in 1 .. W |-> i % 2], [i \in 1 .. W + 1 |-> 0]}
Others   == {<<1, 49>>, <<2>>, <<1, 2>>}
StringsToParse == Decimals \cup Binaries \cup Others

AllMods   == 1 .. 63
AllValues == 0 .. 70

VARIABLE part   \* what the behaviour is about

allVars == <<vars, arithVars, inverseVars, part>>

RingRests    == value = 0 /\ modulus = 4
ArithRests   == number = 0
InverseRests == argument = 0 /\ mod = 1

AnyInit ==
  /\ \/ part = "ring"    /\ ArithRests /\ InverseRests
     \/ part = "plain"   /\ RingRests /\ InverseRests
     \/ part = "inverse" /\ RingRests /\ ArithRests
  /\ Init /\ ArithInit /\ InverseInit

AnyNext ==
  \/ part = "ring"    /\ Next        /\ UNCHANGED <<arithVars, inverseVars, part>>
  \/ part = "plain"   /\ ArithNext   /\ UNCHANGED <<vars, inverseVars, part>>
  \/ part = "inverse" /\ InverseNext /\ UNCHANGED <<vars, arithVars, part>>

AnySpec == AnyInit /\ [][AnyNext]_allVars /\ WF_inverseVars(InverseNext)

(* Of plain arithmetic, calls of MulCheck only.                            *)
MulCheckNext == AnyNext /\ part = "plain" /\ call'.op \in {"none", "MulCheck"}
MulCheckSpec == AnyInit /\ [][MulCheckNext]_allVars

\* The types of the three parts.
TypesOK == TypeOK /\ ArithTypeOK /\ InverseTypeOK
=============================================================================
