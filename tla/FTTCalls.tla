------------------------------ MODULE FTTCalls ------------------------------
(***************************************************************************)
(* The requests and answers of ChineseRemainderTransformFTTNat, the class  *)
(* that every power-of-two ring transform of the HEXL backend goes         *)
(* through (transformnathexl.h, transformnathexl-impl.h).                  *)
(*                                                                         *)
(* A request names an operation and its scalar arguments.  Vectors are     *)
(* abstracted to what the properties tell apart: whether they hold a       *)
(* polynomial by its coefficients or by its values at the powers of some   *)
(* root of unity, and by which root.                                       *)
(***************************************************************************)
EXTENDS Integers

CONSTANTS
  Threads,   \* the threads that call into the library
  Moduli,    \* the prime moduli in use
  CallsOf    \* the requests each thread may make

Forward   == {"ForwardInPlace", "ForwardCopy"}
Backward  == {"InverseInPlace", "InverseCopy"}
Transform == Forward \cup Backward

(* kind: the member function; root, co, mod: rootOfUnity, CycloOrder and   *)
(* the modulus; len: the length of the element.  The copying variants also *)
(* take a result vector, which every caller creates with the element's     *)
(* length, so one length stands for both.                                  *)
Call == [kind: Transform \cup {"PreCompute"}, root: Nat, co: Nat, mod: Moduli, len: Nat]
NoCall == [kind |-> "none", root |-> 0, co |-> 0, mod |-> 0, len |-> 0]

ASSUME ModuliAssumption == Moduli \subseteq (Nat \ {0})
ASSUME CallsAssumption == CallsOf \in [Threads -> SUBSET Call]

-----------------------------------------------------------------------------
(* What a vector holds.  Coefficients ("coef"), values at the odd powers   *)
(* of a root ("eval"), or numbers of no use ("garbage"); "thrown" and      *)
(* "done" are the outcomes of a call that answers with no vector.          *)
Value == [form: {"none", "coef", "eval", "garbage", "thrown", "done"}, root: Nat]
Plain(form) == [form |-> form, root |-> 0]
Eval(r)     == [form |-> "eval", root |-> r]
NoValue     == Plain("none")

(* The vector a caller hands in: coefficients to a forward transform, and  *)
(* to an inverse one the values at the root that it names.                 *)
Input(c) == IF c.kind \in Forward THEN Plain("coef") ELSE Eval(c.root)

(* The transform a HEXL NTT object built for root r computes.              *)
Computed(c, r) ==
  IF c.kind \in Forward THEN Eval(r)
  ELSE IF r = c.root THEN Plain("coef") ELSE Plain("garbage")

IsPowerOfTwo(n) == \E k \in 0..n : 2^k = n
Half(n) == n \div 2

TrivialRoot(c) == c.root \in {0, 1}
GoodShape(c)   == IsPowerOfTwo(c.co) /\ c.len = Half(c.co)

(* The answer the interface documents for a request.                       *)
Right(c) ==
  CASE c.kind = "PreCompute"               -> Plain("done")
    [] c.kind \in Transform /\ TrivialRoot(c) -> Input(c)
    [] c.kind \in Transform /\ ~TrivialRoot(c) /\ ~GoodShape(c) -> Plain("thrown")
    [] OTHER                               -> Computed(c, c.root)
=============================================================================
