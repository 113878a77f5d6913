----------------------------- MODULE MCFTTCache -----------------------------
(***************************************************************************)
(* Instances of FTTCache for TLC.  2 has order 8 modulo 17 and 33 modulo   *)
(* 97; 4 has order 4 modulo 17; 9 is another element of order 8 modulo 17. *)
(***************************************************************************)
EXTENDS FTTCache, TLC

CONSTANTS a, b, c   \* threads

Req(kind, root, co, mod) ==
  [kind |-> kind, root |-> root, co |-> co, mod |-> mod, len |-> co \div 2]

MCModuli == {17, 97}

(* Two threads, each with a modulus of its own, as in the loops over the   *)
(* towers of a polynomial.  One of them uses two ring dimensions, which    *)
(* evict each other's tables, and makes the calls that return early.       *)
DisjointCalls ==
  (a :> {Req("ForwardInPlace", 2, 8, 17), Req("ForwardCopy", 4, 4, 17),
         Req("InverseCopy", 2, 8, 17), Req("ForwardInPlace", 1, 8, 17),
         Req("ForwardCopy", 2, 6, 17), Req("PreCompute", 2, 8, 17)})
  @@ (b :> {Req("ForwardCopy", 33, 8, 97), Req("InverseInPlace", 33, 8, 97)})

(* Three threads over one modulus with two ring dimensions, and a second   *)
(* modulus whose insertion disturbs the lookups.                           *)
SharedCalls ==
  (a :> {Req("ForwardInPlace", 2, 8, 17), Req("ForwardInPlace", 33, 8, 97)})
  @@ (b :> {Req("InverseInPlace", 2, 8, 17), Req("ForwardInPlace", 4, 4, 17)})
  @@ (c :> {Req("PreCompute", 2, 8, 17)})

(* One thread and two roots for one length and modulus.                    *)
TwoRootCalls ==
  (a :> {Req(k, r, 8, 17) : k \in {"ForwardInPlace", "InverseCopy", "PreCompute"}, r \in {2, 9}})

(* PreCompute with the two roots its comment exempts.                      *)
TrivialCalls ==
  (a :> {Req("PreCompute", r, co, m) : r \in {0, 1}, co \in {4, 8}, m \in MCModuli})
=============================================================================
