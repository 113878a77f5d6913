-------------------------- MODULE TransformService --------------------------
(***************************************************************************)
(* What the transform class promises each of its callers, with no caches   *)
(* in sight: a thread asks, and some time later gets the answer that the   *)
(* interface documents for its request, whatever the other threads do.     *)
(***************************************************************************)
EXTENDS FTTCalls

VARIABLES
  pending,  \* the request a thread made last
  answer    \* its answer, NoValue until it is given

svars == <<pending, answer>>

Answered(t) == pending[t] = NoCall \/ answer[t] # NoValue

Init ==
  /\ pending = [t \in Threads |-> NoCall]
  /\ answer  = [t \in Threads |-> NoValue]

Ask(t, c) ==
  /\ Answered(t)
  /\ pending' = [pending EXCEPT ![t] = c]
  /\ answer'  = [answer EXCEPT ![t] = NoValue]

Answer(t) ==
  /\ ~Answered(t)
  /\ answer' = [answer EXCEPT ![t] = Right(pending[t])]
  /\ UNCHANGED pending

Next == \E t \in Threads : Answer(t) \/ \E c \in CallsOf[t] : Ask(t, c)

Spec == Init /\ [][Next]_svars
=============================================================================
