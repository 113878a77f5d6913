------------------------- MODULE CRTDecomposeProofs -------------------------
(***************************************************************************)
(* Theorems about the transform caches of FTTCache, for any threads,       *)
(* moduli and calls, and about the parallel loops of CRTDecompose over     *)
(* them, for any number of towers and digits: the format switch leaves     *)
(* both caches warm, and so the loop that shares moduli between threads    *)
(* only ever reads them.                                                   *)
(***************************************************************************)
EXTENDS CRTDecompose, TLAPS

(* Every vector a transform takes or leaves has one of the known forms.    *)
LEMMA ValueTypes ==
  /\ NoValue \in Value
  /\ \A c \in Call : Input(c) \in Value
  /\ \A c \in Call, r \in Nat : Computed(c, r) \in Value
  /\ \A f \in {"none", "coef", "eval", "garbage", "thrown", "done"} : Plain(f) \in Value
BY DEF NoValue, Value, Input, Computed, Plain, Eval, Call, Forward

(* A request of a thread is a request, and has a cache key.                *)
LEMMA CallTypes ==
  ASSUME NEW t \in Threads, NEW c \in CallsOf[t]
  PROVE  /\ c \in Call
         /\ c.root \in Nat /\ c.mod \in Moduli /\ c.mod \in Nat \ {0}
         /\ c # NoCall
         /\ Key(c) \in Keys
<1>1. c \in Call
  BY CallsAssumption
<1>2. c.root \in Nat /\ c.mod \in Moduli /\ c.mod \in Nat \ {0}
  BY <1>1, ModuliAssumption DEF Call
<1>4. c # NoCall
  <2>1. c.kind # "none"
    BY <1>1 DEF Call, Transform, Forward, Backward
  <2>2. NoCall.kind = "none"
    BY DEF NoCall
  <2> QED
    BY <2>1, <2>2
<1>3. c.len \in Lengths
  BY DEF Lengths
<1> QED
  BY <1>1, <1>2, <1>3, <1>4 DEF Key, Keys

LEMMA HalfNat == ASSUME NEW n \in Nat PROVE Half(n) \in Nat
BY DEF Half

(* The state always has the shape the declarations of the code give it,    *)
(* and a thread only ever serves a request of its own.                     *)
THEOREM TypeCorrect == Spec => []TypeOK
<1>1. Init => TypeOK
  BY ValueTypes, ModuliAssumption DEF Init, TypeOK, Table, Absent, NoRoot, PC, Call, NoCall
<1>2. TypeOK /\ [Next]_vars => TypeOK'
  <2> SUFFICES ASSUME TypeOK, [Next]_vars PROVE TypeOK'
    OBVIOUS
  <2> USE DEF TypeOK
  <2>1. ASSUME NEW t \in Threads, NEW c \in CallsOf[t], Begin(t, c) PROVE TypeOK'
    <3>1. c \in Call /\ c # NoCall
      BY CallTypes
    <3>2. PICK to \in {"entry", "recheck"} : Enter(t, c, to)
      BY <2>1 DEF Begin, ForwardTransformToBitReverseInPlace, ForwardTransformToBitReverse,
           InverseTransformFromBitReverseInPlace, InverseTransformFromBitReverse, PreCompute
    <3> QED
      BY <3>1, <3>2, ValueTypes DEF Enter, Goto, shared, PC
  <2>2. ASSUME NEW t \in Threads, Step(t) PROVE TypeOK'
    <3>0. pc[t] # "idle" => /\ call[t] \in Call /\ call[t] \in CallsOf[t] /\ Key(call[t]) \in Keys
                            /\ call[t].mod \in Moduli /\ call[t].root \in Nat /\ Half(call[t].co) \in Nat
      BY CallTypes, HalfNat DEF Call, NoCall, Transform, Forward, Backward
    <3>1. CASE ReturnTrivial(t)
      BY <3>1, <3>0, ValueTypes DEF ReturnTrivial, Finish, shared, PC
    <3>2. CASE ThrowShape(t)
      BY <3>2, <3>0, ValueTypes DEF ThrowShape, Finish, shared, PC
    <3>3. CASE Admit(t)
      BY <3>3, <3>0 DEF Admit, Goto, shared, PC
    <3>4. CASE FindTable(t)
      BY <3>4, <3>0 DEF FindTable, Lookup, Hit, shared, PC
    <3>5. CASE RecheckTable(t)
      BY <3>5, <3>0, ValueTypes DEF RecheckTable, LeavePreCompute, Finish, shared, PC
    <3>6. CASE EnterCritical(t)
      BY <3>6, <3>0 DEF EnterCritical, InsideCritical, PC
    <3>7. CASE InsertTable(t)
      BY <3>7, <3>0 DEF InsertTable, Goto, shared, PC
    <3>8. CASE PublishTable(t)
      <4>1. tables' \in [Moduli -> [reverse: Table, inverse: Table, precon: Table]]
        BY <3>8, <3>0 DEF PublishTable, NewTable, Table, Goto
      <4>2. /\ UNCHANGED <<hexlNtt, critical, mutex, call, rebuild, torn, out>>
            /\ pc' \in [Threads -> PC] /\ pc[t] # "idle"
            /\ \A u \in Threads : pc'[u] # "idle" => pc[u] # "idle"
        BY <3>8 DEF PublishTable, Goto, PC
      <4> QED
        BY <4>1, <4>2
    <3>9. CASE WriteInverse(t)
      <4>1. tables' \in [Moduli -> [reverse: Table, inverse: Table, precon: Table]]
        BY <3>9, <3>0 DEF WriteInverse, NewTable, Table, Goto
      <4>2. /\ UNCHANGED <<hexlNtt, critical, mutex, call, rebuild, torn, out>>
            /\ pc' \in [Threads -> PC] /\ pc[t] # "idle"
            /\ \A u \in Threads : pc'[u] # "idle" => pc[u] # "idle"
        BY <3>9 DEF WriteInverse, Goto, PC
      <4> QED
        BY <4>1, <4>2
    <3>10. CASE WritePrecon(t)
      <4>1. tables' \in [Moduli -> [reverse: Table, inverse: Table, precon: Table]]
        BY <3>10, <3>0 DEF WritePrecon
      <4>2. critical' = NoThread /\ UNCHANGED <<hexlNtt, mutex>> /\ LeavePreCompute(t) /\ pc[t] # "idle"
        BY <3>10 DEF WritePrecon
      <4> QED
        BY <4>1, <4>2, <3>0, ValueTypes DEF LeavePreCompute, Finish, PC
    <3>11. CASE LockNtt(t)
      BY <3>11, <3>0 DEF LockNtt, Goto, PC
    <3>12. CASE FindNtt(t)
      BY <3>12, <3>0 DEF FindNtt, Goto, shared, PC
    <3>13. CASE BuildNtt(t)
      BY <3>13, <3>0 DEF BuildNtt, Goto, PC
    <3>14. CASE UnlockNtt(t)
      BY <3>14, <3>0 DEF UnlockNtt, Goto, PC
    <3>15. CASE Compute(t)
      <4>1. PICK v \in Value : Finish(t, v)
        BY <3>15, <3>0, ValueTypes DEF Compute
      <4> QED
        BY <3>15, <3>0, <4>1 DEF Compute, Finish, shared, PC
    <3> QED
      BY <2>2, <3>1, <3>2, <3>3, <3>4, <3>5, <3>6, <3>7, <3>8, <3>9, <3>10, <3>11, <3>12,
         <3>13, <3>14, <3>15 DEF Step
  <2>3. CASE Reset
    BY <2>3 DEF Reset, local, Table, Absent
  <2>4. CASE UNCHANGED vars
    BY <2>4 DEF vars
  <2> QED
    BY <2>1, <2>2, <2>3, <2>4 DEF Next
<1> QED
  BY <1>1, <1>2, PTL DEF Spec

-----------------------------------------------------------------------------
(* The critical section and the mutex each hold one thread, and the holder *)
(* is known from where the threads are.                                    *)
LockInv ==
  /\ \A t \in Threads :
       critical = t <=> pc[t] \in {"insert", "publish", "inverse", "precon", "terminated"}
  /\ \A t \in Threads : mutex = t <=> pc[t] \in {"useNtt", "unlock"}

(* What the thread inside the critical section has written so far.         *)
TablesInv ==
  /\ \A t \in Threads : pc[t] \in {"inverse", "precon"} =>
       tables[call[t].mod].reverse = NewTable(t)
  /\ \A t \in Threads : pc[t] = "precon" =>
       tables[call[t].mod].inverse = NewTable(t)
  /\ TablesAgree

THEOREM LocksExclude == Spec => []LockInv
<1>1. Init => LockInv
  BY NoThreadAssumption DEF Init, LockInv
<1>2. TypeOK /\ LockInv /\ [Next]_vars => LockInv'
  <2> SUFFICES ASSUME TypeOK, LockInv, [Next]_vars PROVE LockInv'
    OBVIOUS
  <2> USE NoThreadAssumption DEF LockInv
  <2>0. pc \in [Threads -> PC]
    BY DEF TypeOK
  <2>1. ASSUME NEW t \in Threads, NEW c \in CallsOf[t], Begin(t, c) PROVE LockInv'
    <3>1. PICK to \in {"entry", "recheck"} : Enter(t, c, to)
      BY <2>1 DEF Begin, ForwardTransformToBitReverseInPlace, ForwardTransformToBitReverse,
           InverseTransformFromBitReverseInPlace, InverseTransformFromBitReverse, PreCompute
    <3> QED
      BY <2>0, <3>1 DEF Enter, Goto, shared
  <2>2. ASSUME NEW t \in Threads, Step(t) PROVE LockInv'
    <3>1. CASE ReturnTrivial(t) \/ ThrowShape(t) \/ Admit(t) \/ FindTable(t) \/ InsertTable(t) \/ FindNtt(t)
      BY <2>0, <3>1 DEF ReturnTrivial, ThrowShape, Admit, FindTable, InsertTable, FindNtt, Finish, Goto, shared
    <3>2. CASE RecheckTable(t)
      BY <2>0, <3>2 DEF RecheckTable, LeavePreCompute, Finish, shared
    <3>3. CASE EnterCritical(t)
      BY <2>0, <3>3 DEF EnterCritical, InsideCritical
    <3>4. CASE PublishTable(t) \/ WriteInverse(t)
      BY <2>0, <3>4 DEF PublishTable, WriteInverse, Goto
    <3>5. CASE WritePrecon(t)
      BY <2>0, <3>5 DEF WritePrecon, LeavePreCompute, Finish
    <3>6. CASE LockNtt(t) \/ UnlockNtt(t) \/ BuildNtt(t)
      BY <2>0, <3>6 DEF LockNtt, UnlockNtt, BuildNtt, Goto
    <3>7. CASE Compute(t)
      BY <2>0, <3>7 DEF Compute, Finish, shared
    <3> QED
      BY <2>2, <3>1, <3>2, <3>3, <3>4, <3>5, <3>6, <3>7 DEF Step
  <2>3. CASE Reset
    BY <2>3 DEF Reset, local
  <2>4. CASE UNCHANGED vars
    BY <2>4 DEF vars
  <2> QED
    BY <2>1, <2>2, <2>3, <2>4 DEF Next
<1> QED
  BY <1>1, <1>2, TypeCorrect, PTL DEF Spec

(* A step that writes no table, and moves no thread in or out of the       *)
(* states between two writes, keeps the tables consistent.                 *)
LEMMA TablesUntouched ==
  ASSUME TablesInv, tables' = tables,
         \A t \in Threads : \/ pc[t] \notin {"inverse", "precon"} /\ pc'[t] \notin {"inverse", "precon"}
                            \/ pc'[t] = pc[t] /\ call'[t] = call[t]
  PROVE  TablesInv'
BY DEF TablesInv, TablesAgree, Refilling, NewTable

(* Threads that missed a table refill it one after the other, so the six   *)
(* tables of a modulus always come from one refill (omp critical in        *)
(* PreCompute).                                                            *)
THEOREM TablesConsistent == Spec => []TablesAgree
<1>1. Init => TablesInv
  BY DEF Init, TablesInv, TablesAgree, Refilling
<1>2. TypeOK /\ LockInv /\ TablesInv /\ [Next]_vars => TablesInv'
  <2> SUFFICES ASSUME TypeOK, LockInv, TablesInv, [Next]_vars PROVE TablesInv'
    OBVIOUS
  <2>0. pc \in [Threads -> PC] /\ call \in [Threads -> Call \cup {NoCall}]
    BY DEF TypeOK
  <2>1. ASSUME NEW t \in Threads, NEW c \in CallsOf[t], Begin(t, c) PROVE TablesInv'
    <3>1. PICK to \in {"entry", "recheck"} : Enter(t, c, to)
      BY <2>1 DEF Begin, ForwardTransformToBitReverseInPlace, ForwardTransformToBitReverse,
           InverseTransformFromBitReverseInPlace, InverseTransformFromBitReverse, PreCompute
    <3> QED
      BY <2>0, <3>1, TablesUntouched DEF Enter, Goto, shared
  <2>2. ASSUME NEW t \in Threads, Step(t) PROVE TablesInv'
    <3>1. CASE ReturnTrivial(t) \/ ThrowShape(t) \/ Admit(t) \/ FindTable(t) \/ InsertTable(t) \/ FindNtt(t)
      BY <2>0, <3>1, TablesUntouched
         DEF ReturnTrivial, ThrowShape, Admit, FindTable, InsertTable, FindNtt, Finish, Goto, shared
    <3>2. CASE RecheckTable(t)
      BY <2>0, <3>2, TablesUntouched DEF RecheckTable, LeavePreCompute, Finish, shared
    <3>3. CASE EnterCritical(t)
      BY <2>0, <3>3, TablesUntouched DEF EnterCritical, InsideCritical
    <3>4. CASE LockNtt(t) \/ UnlockNtt(t) \/ BuildNtt(t) \/ Compute(t)
      BY <2>0, <3>4, TablesUntouched DEF LockNtt, UnlockNtt, BuildNtt, Compute, Finish, Goto, shared
    <3> DEFINE m == call[t].mod
    <3>5. CASE PublishTable(t) \/ WriteInverse(t) \/ WritePrecon(t)
      <4>1. \A u \in Threads \ {t} : pc[u] \notin {"inverse", "precon"} /\ pc'[u] = pc[u] /\ call'[u] = call[u]
        BY <2>0, <3>5 DEF PublishTable, WriteInverse, WritePrecon, LeavePreCompute, Finish, Goto, LockInv
      <4>2. call' = call /\ NewTable(t)' = NewTable(t)
        BY <3>5 DEF PublishTable, WriteInverse, WritePrecon, LeavePreCompute, Finish, NewTable
      <4>3. m \in Moduli /\ tables \in [Moduli -> [reverse: Table, inverse: Table, precon: Table]]
        BY <3>5 DEF PublishTable, WriteInverse, WritePrecon, Goto, TypeOK, Call
      <4>4. CASE PublishTable(t)
        <5>1. pc'[t] = "inverse" /\ tables' = [tables EXCEPT ![m].reverse = NewTable(t)]
          BY <2>0, <4>4 DEF PublishTable, Goto
        <5> QED
          BY <5>1, <4>1, <4>2, <4>3 DEF TablesInv, TablesAgree, Refilling
      <4>5. CASE WriteInverse(t)
        <5>1. /\ pc[t] = "inverse" /\ pc'[t] = "precon"
              /\ tables' = [tables EXCEPT ![m].inverse = NewTable(t)]
          BY <2>0, <4>5 DEF WriteInverse, Goto
        <5> QED
          BY <5>1, <4>1, <4>2, <4>3 DEF TablesInv, TablesAgree, Refilling
      <4>6. CASE WritePrecon(t)
        <5>1. /\ pc[t] = "precon" /\ pc'[t] \notin {"inverse", "precon"}
              /\ tables' = [tables EXCEPT ![m].precon = tables[m].reverse]
          BY <2>0, <4>6 DEF WritePrecon, LeavePreCompute, Finish
        <5> QED
          BY <5>1, <4>1, <4>2, <4>3 DEF TablesInv, TablesAgree, Refilling
      <4> QED
        BY <3>5, <4>4, <4>5, <4>6
    <3> QED
      BY <2>2, <3>1, <3>2, <3>3, <3>4, <3>5 DEF Step
  <2>3. CASE Reset
    BY <2>3 DEF Reset, local, TablesInv, TablesAgree, Refilling
  <2>4. CASE UNCHANGED vars
    BY <2>4, TablesUntouched DEF vars
  <2> QED
    BY <2>1, <2>2, <2>3, <2>4 DEF Next
<1>3. TablesInv => TablesAgree
  BY DEF TablesInv
<1> QED
  BY <1>1, <1>2, <1>3, TypeCorrect, LocksExclude, PTL DEF Spec

-----------------------------------------------------------------------------
(* Where the root of each cached NTT object comes from, and what the       *)
(* threads on their way to one have already checked.                       *)
NttInv ==
  /\ \A k \in Keys : hexlNtt[k] # NoRoot =>
       \E s \in Threads : \E c \in CallsOf[s] :
         c.kind \in Transform /\ ~TrivialRoot(c) /\ Key(c) = k /\ hexlNtt[k] = c.root
  /\ \A t \in Threads : call[t].kind \in Transform /\ pc[t] \notin {"idle", "entry"} =>
       ~TrivialRoot(call[t]) /\ GoodShape(call[t])
  /\ \A t \in Threads : pc[t] \in {"entry", "find", "lock", "useNtt", "unlock", "compute"} =>
       call[t].kind \in Transform
  /\ \A t \in Threads : pc[t] \in {"unlock", "compute"} => hexlNtt[Key(call[t])] # NoRoot

LEMMA NttInvariant == Spec => []NttInv
<1>1. Init => NttInv
  BY DEF Init, NttInv
<1>2. TypeOK /\ NttInv /\ [Next]_vars => NttInv'
  <2> SUFFICES ASSUME TypeOK, NttInv, [Next]_vars PROVE NttInv'
    OBVIOUS
  <2>0. /\ pc \in [Threads -> PC] /\ call \in [Threads -> Call \cup {NoCall}] /\ hexlNtt \in [Keys -> Nat]
        /\ \A t \in Threads : pc[t] # "idle" => call[t] \in CallsOf[t] /\ call[t] \in Call /\ Key(call[t]) \in Keys
    BY CallTypes DEF TypeOK, NoCall, Call, Transform, Forward, Backward
  <2>1. ASSUME NEW t \in Threads, NEW c \in CallsOf[t], Begin(t, c) PROVE NttInv'
    <3>1. CASE c.kind \in Transform /\ Enter(t, c, "entry")
      BY <2>0, <3>1 DEF Enter, Goto, shared, NttInv
    <3>2. CASE c.kind \notin Transform /\ Enter(t, c, "recheck")
      BY <2>0, <3>2 DEF Enter, Goto, shared, NttInv
    <3> QED
      BY <2>1, <3>1, <3>2 DEF Begin, ForwardTransformToBitReverseInPlace, ForwardTransformToBitReverse,
           InverseTransformFromBitReverseInPlace, InverseTransformFromBitReverse, PreCompute,
           Transform, Forward, Backward
  <2>2. ASSUME NEW t \in Threads, Step(t) PROVE NttInv'
    <3>1. CASE ReturnTrivial(t) \/ ThrowShape(t)
      BY <2>0, <3>1 DEF ReturnTrivial, ThrowShape, Finish, shared, NttInv
    <3>2. CASE Admit(t) \/ FindTable(t) \/ InsertTable(t) \/ FindNtt(t)
      BY <2>0, <3>2 DEF Admit, FindTable, InsertTable, FindNtt, MustBuild, Goto, shared, NttInv
    <3>3. CASE RecheckTable(t)
      BY <2>0, <3>3 DEF RecheckTable, LeavePreCompute, Finish, shared, NttInv, Call
    <3>4. CASE EnterCritical(t) \/ PublishTable(t) \/ WriteInverse(t)
      BY <2>0, <3>4 DEF EnterCritical, InsideCritical, PublishTable, WriteInverse, Goto, NttInv
    <3>5. CASE WritePrecon(t)
      BY <2>0, <3>5 DEF WritePrecon, LeavePreCompute, Finish, NttInv, Call
    <3>6. CASE LockNtt(t) \/ UnlockNtt(t)
      BY <2>0, <3>6 DEF LockNtt, UnlockNtt, Goto, NttInv
    <3>7. CASE BuildNtt(t)
      <4>1. /\ pc[t] = "useNtt" /\ pc' = [pc EXCEPT ![t] = "unlock"] /\ call' = call
            /\ hexlNtt' = [hexlNtt EXCEPT ![Key(call[t])] = call[t].root]
        BY <3>7 DEF BuildNtt, Goto
      <4>2. call[t].kind \in Transform /\ ~TrivialRoot(call[t]) /\ call[t] \in CallsOf[t] /\ Key(call[t]) \in Keys
        BY <2>0, <4>1 DEF NttInv
      <4>3. call[t].root # NoRoot
        BY <4>2 DEF TrivialRoot, NoRoot
      <4> QED
        BY <2>0, <4>1, <4>2, <4>3 DEF NttInv
    <3>8. CASE Compute(t)
      BY <2>0, <3>8 DEF Compute, Finish, shared, NttInv
    <3> QED
      BY <2>2, <3>1, <3>2, <3>3, <3>4, <3>5, <3>6, <3>7, <3>8 DEF Step
  <2>3. CASE Reset
    BY <2>3 DEF Reset, local, NttInv
  <2>4. CASE UNCHANGED vars
    BY <2>4 DEF vars, NttInv
  <2> QED
    BY <2>1, <2>2, <2>3, <2>4 DEF Next
<1> QED
  BY <1>1, <1>2, TypeCorrect, PTL DEF Spec

LEMMA OwnRoot == OneRootPerKey /\ TypeOK /\ NttInv => ComputesWithOwnRoot
<1> SUFFICES ASSUME OneRootPerKey, TypeOK, NttInv, NEW t \in Threads, pc[t] \in {"unlock", "compute"}
             PROVE  hexlNtt[Key(call[t])] = call[t].root
  BY DEF ComputesWithOwnRoot
<1>1. call[t] \in CallsOf[t] /\ Key(call[t]) \in Keys /\ call[t].kind \in Transform
  BY CallTypes DEF TypeOK, NttInv, NoCall, Call, Transform, Forward, Backward
<1>2. ~TrivialRoot(call[t]) /\ hexlNtt[Key(call[t])] # NoRoot
  BY <1>1 DEF NttInv
<1>3. PICK s \in Threads : \E c \in CallsOf[s] :
        /\ c.kind \in Transform /\ ~TrivialRoot(c)
        /\ Key(c) = Key(call[t]) /\ hexlNtt[Key(call[t])] = c.root
  BY <1>1, <1>2 DEF NttInv
<1> QED
  BY <1>1, <1>2, <1>3 DEF OneRootPerKey

(* The root is not part of the key of m_IntelNtt; if the callers name one  *)
(* root for each length and modulus, no interleaving of refills makes a    *)
(* transform run with another one.                                         *)
THEOREM OwnRootAlways == ASSUME OneRootPerKey PROVE Spec => []ComputesWithOwnRoot
BY OwnRoot, TypeCorrect, NttInvariant, PTL
-----------------------------------------------------------------------------
(* With keys kept apart two threads that use one NTT object are one        *)
(* thread, so the answers below need not reckon with a replacement.        *)
LEMMA ApartNeverRebuilt == ASSUME KeysApart PROVE Spec => []NoRebuildInUse
<1>1. TypeOK /\ NttInv => NoRebuildInUse
  <2> SUFFICES ASSUME TypeOK, NttInv, NEW t \in Threads, NEW u \in Threads,
                      pc[t] = "useNtt", pc[u] = "compute", Key(call[u]) = Key(call[t])
               PROVE  FALSE
    BY DEF NoRebuildInUse
  <2>1. /\ call[t] \in CallsOf[t] /\ call[u] \in CallsOf[u] /\ t # u
        /\ {call[t].kind, call[u].kind} \subseteq Transform
    BY DEF TypeOK, NttInv, NoCall, Call, Transform, Forward, Backward
  <2> QED
    BY <2>1 DEF KeysApart
<1> QED
  BY <1>1, TypeCorrect, NttInvariant, PTL

(* The documented answer of each kind of request; none of them is "no      *)
(* answer yet".                                                            *)
LEMMA RightCases ==
  ASSUME NEW c \in Call
  PROVE  /\ c.kind = "PreCompute" => Right(c) = Plain("done")
         /\ c.kind \in Transform /\ TrivialRoot(c) => Right(c) = Input(c)
         /\ c.kind \in Transform /\ ~TrivialRoot(c) /\ ~GoodShape(c) => Right(c) = Plain("thrown")
         /\ c.kind \in Transform /\ ~TrivialRoot(c) /\ GoodShape(c) => Right(c) = Computed(c, c.root)
         /\ Right(c) # NoValue
<1> DEFINE isPre == c.kind = "PreCompute"
           isTrf == c.kind \in Transform
           triv  == TrivialRoot(c)
           good  == GoodShape(c)
<1>1. ~(isPre /\ isTrf) /\ (isPre \/ isTrf)
  BY DEF Call, Transform, Forward, Backward
<1>2. Right(c) = CASE isPre -> Plain("done")
                   [] isTrf /\ triv -> Input(c)
                   [] isTrf /\ ~triv /\ ~good -> Plain("thrown")
                   [] OTHER -> Computed(c, c.root)
  BY DEF Right
<1>3. /\ isPre => Right(c) = Plain("done")
      /\ isTrf /\ triv => Right(c) = Input(c)
      /\ isTrf /\ ~triv /\ ~good => Right(c) = Plain("thrown")
      /\ isTrf /\ ~triv /\ good => Right(c) = Computed(c, c.root)
  <2> HIDE DEF isPre, isTrf, triv, good
  <2> QED
    BY <1>1, <1>2
<1>4. Plain("done") # NoValue /\ Plain("thrown") # NoValue
  BY DEF Plain, NoValue
<1>5. Input(c) # NoValue /\ Computed(c, c.root) # NoValue
  BY DEF Input, Computed, Plain, Eval, NoValue
<1> QED
  BY <1>1, <1>3, <1>4, <1>5

(* A thread with no call in progress has its answer, one with a call in    *)
(* progress has none yet, and no NTT object is replaced under a thread     *)
(* that computes through it.                                               *)
AnswerInv ==
  /\ AnswersRight
  /\ \A t \in Threads : pc[t] # "idle" => out[t] = NoValue
  /\ \A t \in Threads : ~torn[t]

(* How a step looks from outside: it leaves the answers alone, starts a    *)
(* call of a thread with none in progress, or gives a thread its answer.   *)
Quiet == call' = call /\ out' = out /\ (\A t \in Threads : pc'[t] = "idle" <=> pc[t] = "idle")

Answers(t) ==
  /\ pc[t] # "idle"
  /\ pc' = [pc EXCEPT ![t] = "idle"]
  /\ call' = call
  /\ out' = [out EXCEPT ![t] = Right(call[t])]

Asks(t, c) ==
  /\ pc[t] = "idle"
  /\ \E to \in {"entry", "recheck"} : pc' = [pc EXCEPT ![t] = to]
  /\ call' = [call EXCEPT ![t] = c]
  /\ out' = [out EXCEPT ![t] = NoValue]

(* Every step of the caches is one of the three, and tears no object.      *)
LEMMA StepSeen ==
  ASSUME OneRootPerKey, TypeOK, NttInv, NoRebuildInUse, AnswerInv, [Next]_vars
  PROVE  /\ \A t \in Threads : ~torn'[t]
         /\ \/ Quiet
            \/ \E t \in Threads : Answers(t)
            \/ \E t \in Threads : \E c \in CallsOf[t] : Asks(t, c)
<1>0. /\ pc \in [Threads -> PC] /\ torn \in [Threads -> BOOLEAN]
      /\ \A t \in Threads : ~torn[t]
      /\ \A t \in Threads : pc[t] # "idle" => call[t] \in CallsOf[t] /\ call[t] \in Call
      /\ \A t \in Threads : pc[t] \in {"entry", "find", "lock", "useNtt", "unlock", "compute"} =>
           call[t].kind \in Transform
  BY DEF TypeOK, NttInv, AnswerInv, NoCall, Call, Transform, Forward, Backward
<1>1. ASSUME NEW t \in Threads, NEW c \in CallsOf[t], Begin(t, c)
      PROVE  (\A u \in Threads : ~torn'[u]) /\ Asks(t, c)
  <2>1. PICK to \in {"entry", "recheck"} : Enter(t, c, to)
    BY <1>1 DEF Begin, ForwardTransformToBitReverseInPlace, ForwardTransformToBitReverse,
         InverseTransformFromBitReverseInPlace, InverseTransformFromBitReverse, PreCompute
  <2> QED
    BY <1>0, <2>1 DEF Enter, Goto, Asks
<1>2. ASSUME NEW t \in Threads, Step(t)
      PROVE  (\A u \in Threads : ~torn'[u]) /\ (Quiet \/ Answers(t))
  <2>1. CASE ReturnTrivial(t) \/ ThrowShape(t)
    <3>1. pc[t] = "entry" /\ (\E v \in Value : Finish(t, v) /\ v = Right(call[t]))
      BY <1>0, <2>1, RightCases, ValueTypes DEF ReturnTrivial, ThrowShape
    <3> QED
      BY <1>0, <3>1 DEF Finish, Answers
  <2>2. CASE Admit(t) \/ FindTable(t) \/ EnterCritical(t) \/ InsertTable(t) \/ PublishTable(t) \/ WriteInverse(t)
    BY <1>0, <2>2
       DEF Admit, FindTable, EnterCritical, InsideCritical, InsertTable, PublishTable, WriteInverse, Goto, Quiet
  <2>3. CASE RecheckTable(t) \/ WritePrecon(t)
    <3>1. pc[t] # "idle" /\ call[t] \in Call
      BY <1>0, <2>3 DEF RecheckTable, WritePrecon
    <3>2. LeavePreCompute(t) \/ (pc' = [pc EXCEPT ![t] = "wait"] /\ UNCHANGED <<call, rebuild, torn, out>>)
      BY <2>3 DEF RecheckTable, WritePrecon
    <3>3. CASE LeavePreCompute(t)
      BY <1>0, <3>1, <3>3, RightCases DEF LeavePreCompute, Finish, Answers, Quiet
    <3>4. CASE pc' = [pc EXCEPT ![t] = "wait"] /\ UNCHANGED <<call, rebuild, torn, out>>
      BY <1>0, <3>1, <3>4 DEF Quiet
    <3> QED
      BY <3>2, <3>3, <3>4
  <2>4. CASE LockNtt(t) \/ FindNtt(t) \/ UnlockNtt(t)
    BY <1>0, <2>4 DEF LockNtt, FindNtt, UnlockNtt, Goto, Quiet
  <2>5. CASE BuildNtt(t)
    <3>1. /\ pc[t] = "useNtt" /\ pc' = [pc EXCEPT ![t] = "unlock"] /\ call' = call /\ out' = out
          /\ MustBuild(t)
          /\ torn' = [u \in Threads |-> torn[u] \/ (pc[u] = "compute" /\ Key(call[u]) = Key(call[t]))]
      BY <2>5 DEF BuildNtt, Goto
    <3>2. ASSUME NEW u \in Threads, pc[u] = "compute" PROVE Key(call[u]) # Key(call[t])
      BY <3>1, <3>2 DEF NoRebuildInUse
    <3> QED
      BY <1>0, <3>1, <3>2 DEF Quiet
  <2>6. CASE Compute(t)
    <3>1. pc[t] = "compute" /\ ~torn[t] /\ call[t] \in Call
      BY <1>0, <2>6 DEF Compute
    <3>2. hexlNtt[Key(call[t])] = call[t].root
      BY <3>1, OwnRoot DEF ComputesWithOwnRoot
    <3>3. Right(call[t]) = Computed(call[t], call[t].root)
      BY <1>0, <3>1, RightCases DEF NttInv
    <3>4. Finish(t, Right(call[t]))
      BY <2>6, <3>1, <3>2, <3>3 DEF Compute
    <3> QED
      BY <1>0, <3>1, <3>4 DEF Finish, Answers
  <2> QED
    BY <1>2, <2>1, <2>2, <2>3, <2>4, <2>5, <2>6 DEF Step
<1>3. CASE Reset
  BY <1>0, <1>3 DEF Reset, local, Quiet
<1>4. CASE UNCHANGED vars
  BY <1>0, <1>4 DEF vars, Quiet
<1> QED
  BY <1>1, <1>2, <1>3, <1>4 DEF Next

(* As long as no NTT object is replaced in use, the answers stay right.     *)
LEMMA AnswersStep ==
  ASSUME OneRootPerKey, TypeOK, NttInv, NoRebuildInUse, AnswerInv, [Next]_vars
  PROVE  AnswerInv'
<1>0. /\ pc \in [Threads -> PC] /\ call \in [Threads -> Call \cup {NoCall}] /\ out \in [Threads -> Value]
  BY DEF TypeOK
<1>1. CASE Quiet
  BY <1>1, StepSeen DEF AnswerInv, AnswersRight, Quiet
<1>2. ASSUME NEW t \in Threads, Answers(t) PROVE AnswerInv'
  BY <1>0, <1>2, StepSeen DEF AnswerInv, AnswersRight, Answers
<1>3. ASSUME NEW t \in Threads, NEW c \in CallsOf[t], Asks(t, c) PROVE AnswerInv'
  BY <1>0, <1>3, StepSeen DEF AnswerInv, AnswersRight, Asks
<1> QED
  BY <1>1, <1>2, <1>3, StepSeen

LEMMA AnswersStart == Init => AnswerInv
BY DEF Init, AnswerInv, AnswersRight

LEMMA AnswersInvariant == ASSUME OneRootPerKey, KeysApart PROVE Spec => []AnswerInv
<1>1. TypeOK /\ NttInv /\ NoRebuildInUse /\ AnswerInv /\ [Next]_vars => AnswerInv'
  BY AnswersStep
<1> QED
  BY <1>1, AnswersStart, TypeCorrect, NttInvariant, ApartNeverRebuilt, PTL DEF Spec

(* Callers that name one root for each key and keep their keys apart, as   *)
(* the loops over the towers of a polynomial do, get the documented answer *)
(* to every call, however the caches are filled, evicted and reset         *)
(* meanwhile.                                                              *)
THEOREM AnswersAlwaysRight == ASSUME OneRootPerKey, KeysApart PROVE Spec => []AnswersRight
BY AnswersInvariant, PTL DEF AnswerInv

(* The service is stated in the same words as the caches.                  *)
LEMMA SameWords ==
  /\ Service!NoCall = NoCall /\ Service!NoValue = NoValue
  /\ \A c : Service!Right(c) = Right(c)
<1>1. Service!NoCall = NoCall /\ Service!NoValue = NoValue
  BY DEF Service!NoCall, NoCall, Service!NoValue, NoValue, Service!Plain, Plain
<1>2. ASSUME NEW c PROVE Service!Right(c) = Right(c)
  <2>1. /\ Service!Input(c) = Input(c) /\ Service!TrivialRoot(c) = TrivialRoot(c)
        /\ Service!GoodShape(c) = GoodShape(c) /\ Service!Computed(c, c.root) = Computed(c, c.root)
        /\ Service!Transform = Transform /\ \A f : Service!Plain(f) = Plain(f)
    BY DEF Service!Input, Input, Service!TrivialRoot, TrivialRoot, Service!GoodShape, GoodShape,
         Service!IsPowerOfTwo, IsPowerOfTwo, Service!Half, Half, Service!Computed, Computed,
         Service!Eval, Eval, Service!Plain, Plain, Service!Transform, Transform,
         Service!Forward, Forward, Service!Backward, Backward
  <2> QED
    BY <2>1 DEF Service!Right, Right
<1> QED
  BY <1>1, <1>2

(* For such callers the caches implement the service that has none.        *)
THEOREM CachesImplementService == ASSUME OneRootPerKey, KeysApart PROVE Spec => ImplementsService
<1>1. Init => Service!Init
  BY SameWords DEF Init, Service!Init
<1>2. TypeOK /\ NttInv /\ NoRebuildInUse /\ AnswerInv /\ [Next]_vars => [Service!Next]_(Service!svars)
  <2> SUFFICES ASSUME TypeOK, NttInv, NoRebuildInUse, AnswerInv, [Next]_vars PROVE [Service!Next]_(Service!svars)
    OBVIOUS
  <2>1. CASE Quiet
    BY <2>1 DEF Quiet, Service!svars
  <2>2. ASSUME NEW t \in Threads, Answers(t) PROVE Service!Next
    <3>1. call[t] # NoCall /\ out[t] = NoValue
      BY <2>2 DEF Answers, AnswerInv, TypeOK, NoCall, Call, Transform, Forward, Backward
    <3> QED
      BY <2>2, <3>1, SameWords DEF Answers, Service!Next, Service!Answer, Service!Answered
  <2>3. ASSUME NEW t \in Threads, NEW c \in CallsOf[t], Asks(t, c) PROVE Service!Next
    <3>1. call[t] = NoCall \/ out[t] # NoValue
      BY <2>3, RightCases DEF Asks, AnswerInv, AnswersRight, TypeOK
    <3> QED
      BY <2>3, <3>1, SameWords DEF Asks, Service!Next, Service!Ask, Service!Answered
  <2> QED
    BY <2>1, <2>2, <2>3, StepSeen
<1> QED
  BY <1>1, <1>2, TypeCorrect, NttInvariant, ApartNeverRebuilt, AnswersInvariant, PTL DEF Spec, ImplementsService, Service!Spec
-----------------------------------------------------------------------------
(* In a warm state the unlocked lookups all succeed, because nobody        *)
(* inserts, and so nobody starts to insert.                                *)
LEMMA WarmStep ==
  ASSUME TypeOK, NttInv, Warm,
         (\E t \in Threads : Step(t) \/ \E c \in CallsOf[t] : Begin(t, c)) \/ UNCHANGED vars
  PROVE  Warm' /\ UNCHANGED <<tables, hexlNtt>>
<1>0. /\ pc \in [Threads -> PC] /\ rebuild \in [Threads -> BOOLEAN]
      /\ \A t \in Threads : pc[t] # "idle" => call[t] \in CallsOf[t]
      /\ \A t \in Threads : pc[t] \in {"entry", "find", "lock", "useNtt", "unlock", "compute"} =>
           call[t].kind \in Transform
  BY DEF TypeOK, NttInv, NoCall, Call, Transform, Forward, Backward
<1>1. \A t \in Threads : pc[t] # "idle" => Lookup(t) = {TRUE}
  BY <1>0 DEF Warm, Lookup, Hit
<1>2. \A t \in Threads : pc[t] = "useNtt" => ~MustBuild(t)
  BY <1>0 DEF Warm, MustBuild
<1>3. SUFFICES /\ UNCHANGED <<tables, hexlNtt>>
               /\ \A t \in Threads :
                    ~rebuild'[t] /\ pc'[t] \notin {"wait", "insert", "publish", "inverse", "precon"}
  BY DEF Warm, Hit
<1> DEFINE Calm == /\ UNCHANGED <<tables, hexlNtt>>
                   /\ \A t \in Threads : ~rebuild'[t]
                        /\ pc'[t] \notin {"wait", "insert", "publish", "inverse", "precon"}
<1>4. ASSUME NEW t \in Threads, NEW c \in CallsOf[t], Begin(t, c) PROVE Calm
  <2>1. PICK to \in {"entry", "recheck"} : Enter(t, c, to)
    BY <1>4 DEF Begin, ForwardTransformToBitReverseInPlace, ForwardTransformToBitReverse,
         InverseTransformFromBitReverseInPlace, InverseTransformFromBitReverse, PreCompute
  <2> QED
    BY <1>0, <2>1 DEF Enter, Goto, shared, Warm
<1>5. ASSUME NEW t \in Threads, Step(t) PROVE Calm
  <2>1. CASE ReturnTrivial(t) \/ ThrowShape(t) \/ Admit(t) \/ FindNtt(t) \/ Compute(t)
    BY <1>0, <2>1 DEF ReturnTrivial, ThrowShape, Admit, FindNtt, Compute, Finish, Goto, shared, Warm
  <2>2. CASE FindTable(t)
    <3>1. UNCHANGED <<tables, hexlNtt>> /\ pc[t] = "find" /\ Lookup(t) = {TRUE}
      BY <1>1, <2>2 DEF FindTable, shared
    <3>2. pc' = [pc EXCEPT ![t] = "lock"] /\ rebuild' = [rebuild EXCEPT ![t] = FALSE]
      BY <2>2, <3>1, Zenon DEF FindTable
    <3> QED
      BY <1>0, <3>1, <3>2 DEF Warm
  <2>3. CASE RecheckTable(t)
    <3>1. UNCHANGED <<tables, hexlNtt>> /\ pc[t] = "recheck" /\ Lookup(t) = {TRUE}
      BY <1>1, <2>3 DEF RecheckTable, shared
    <3>2. LeavePreCompute(t)
      BY <2>3, <3>1, Zenon DEF RecheckTable
    <3> QED
      BY <1>0, <3>1, <3>2 DEF LeavePreCompute, Finish, Warm
  <2>4. CASE \/ EnterCritical(t) \/ InsertTable(t) \/ PublishTable(t) \/ WriteInverse(t) \/ WritePrecon(t)
    BY <2>4 DEF EnterCritical, InsideCritical, InsertTable, PublishTable, WriteInverse, WritePrecon, Goto, Warm
  <2>5. CASE LockNtt(t) \/ UnlockNtt(t)
    BY <1>0, <2>5 DEF LockNtt, UnlockNtt, Goto, Warm
  <2>6. CASE BuildNtt(t)
    BY <1>2, <2>6 DEF BuildNtt, Goto
  <2> QED
    BY <1>5, <2>1, <2>2, <2>3, <2>4, <2>5, <2>6 DEF Step
<1>6. CASE UNCHANGED vars
  BY <1>6 DEF vars, Warm
<1> QED
  BY <1>4, <1>5, <1>6

(* Once the caches hold what the callers need they stay as they are until  *)
(* a Reset.                                                                *)
THEOREM WarmForGood == Spec => WarmStaysWarm
<1>1. TypeOK /\ NttInv /\ [Next]_vars =>
        [Warm => Reset \/ (Warm' /\ UNCHANGED <<tables, hexlNtt>>)]_vars
  BY WarmStep DEF Next
<1> QED
  BY <1>1, TypeCorrect, NttInvariant, PTL DEF Spec, WarmStaysWarm

-----------------------------------------------------------------------------
(* The loops of CRTDecompose.                                              *)

(* The first loop: an iteration has its own tower still to do, or has      *)
(* called for it.  What it has refilled stays, since nobody else has its   *)
(* modulus.                                                                *)
Switching(t) ==
  \/ todo[t] = <<TowerOf[t]>> /\ pc[t] = "idle" /\ call[t] = NoCall
  \/ /\ todo[t] = <<>> /\ call[t] # NoCall /\ call[t].mod = TowerOf[t]
     /\ pc[t] \in {"idle", "inverse", "precon", "lock", "useNtt", "unlock", "compute"} => Hit(call[t])
     /\ pc[t] = "idle" => hexlNtt[Key(call[t])] # NoRoot

(* The later loops find both caches filled and no thread on its way to     *)
(* fill them again.                                                        *)
LoopInv ==
  /\ DOMAIN todo = Threads
  /\ \A t \in Threads : pc[t] = "idle" => ~rebuild[t]
  /\ phase = "switch" => \A t \in Threads : Switching(t)
  /\ phase # "switch" => Warm /\ \A t \in Threads : pc[t] # "recheck"

(* The requests of the loops: proper in-place transforms, and those of one *)
(* modulus differ in nothing but their direction.                          *)
LEMMA Requests ==
  /\ \A k, m : /\ TowerRequest(k, m).kind = k /\ TowerRequest(k, m).root = RootOf[m]
               /\ TowerRequest(k, m).co = Order /\ TowerRequest(k, m).mod = m
               /\ TowerRequest(k, m).len = Half(Order)
  /\ \A t \in Threads : \A c \in CallsOf[t] :
       /\ c.kind \in {"ForwardInPlace", "InverseInPlace"} /\ c.kind \in Transform
       /\ ~TrivialRoot(c) /\ GoodShape(c)
       /\ c.root = RootOf[c.mod] /\ c.co = Order /\ c.len = Half(Order)
       /\ \E s \in Threads : c.mod = TowerOf[s]
<1>1. \A k, m : /\ TowerRequest(k, m).kind = k /\ TowerRequest(k, m).root = RootOf[m]
                /\ TowerRequest(k, m).co = Order /\ TowerRequest(k, m).mod = m
                /\ TowerRequest(k, m).len = Half(Order)
  BY DEF TowerRequest
<1>2. ASSUME NEW t \in Threads, NEW c \in CallsOf[t]
      PROVE  /\ c.kind \in {"ForwardInPlace", "InverseInPlace"} /\ c.kind \in Transform
             /\ ~TrivialRoot(c) /\ GoodShape(c)
             /\ c.root = RootOf[c.mod] /\ c.co = Order /\ c.len = Half(Order)
             /\ \E s \in Threads : c.mod = TowerOf[s]
  <2>1. PICK k \in {"ForwardInPlace", "InverseInPlace"}, s \in Threads : c = TowerRequest(k, TowerOf[s])
    BY RequestsAssumption
  <2>2. RootOf[TowerOf[s]] \notin {0, 1} /\ IsPowerOfTwo(Order)
    BY TowersAssumption
  <2>3. /\ c.kind = k /\ c.root = RootOf[TowerOf[s]] /\ c.co = Order
        /\ c.mod = TowerOf[s] /\ c.len = Half(Order)
    BY <1>1, <2>1
  <2> QED
    BY <2>1, <2>2, <2>3 DEF TrivialRoot, GoodShape, Transform, Forward, Backward
<1> QED
  BY <1>1, <1>2

LEMMA OneRoot == OneRootPerKey
<1> SUFFICES ASSUME NEW s \in Threads, NEW t \in Threads, NEW c \in CallsOf[s], NEW d \in CallsOf[t],
                    Key(c) = Key(d)
             PROVE  c.root = d.root
  BY DEF OneRootPerKey
<1> QED
  BY Requests DEF Key

(* The loops are clients of the caches and do nothing to them but call.    *)
LEMMA Iteration ==
  ASSUME [DNext]_dvars
  PROVE  (\E t \in Threads : Step(t) \/ \E c \in CallsOf[t] : Begin(t, c)) \/ UNCHANGED vars
<1>1. ASSUME NEW t \in Threads, SwitchTower(t)
      PROVE  \E c \in CallsOf[t] : Begin(t, c)
  BY <1>1 DEF SwitchTower, Begin, ForwardTransformToBitReverseInPlace, ForwardTransformToBitReverse,
       InverseTransformFromBitReverseInPlace, InverseTransformFromBitReverse, PreCompute, Enter
<1>2. ASSUME NEW t \in Threads, Work(t) PROVE Step(t)
  BY <1>2 DEF Work
<1>3. StartDigits \/ Return \/ UNCHANGED dvars => UNCHANGED vars
  BY DEF StartDigits, Return, dvars
<1> QED
  BY <1>1, <1>2, <1>3 DEF DNext

LEMMA ClientOfCaches == DSpec => Spec
<1>1. DInit => Init
  BY DEF DInit
<1>2. [DNext]_dvars => [Next]_vars
  BY Iteration DEF Next
<1> QED
  BY <1>1, <1>2, PTL DEF DSpec, Spec

-----------------------------------------------------------------------------
(* A step of the caches that belongs to another thread's tower: it leaves  *)
(* the thread, its table and its NTT object alone.                         *)
LEMMA SwitchWork ==
  ASSUME TypeOK, NttInv, LoopInv, phase = "switch", NEW t \in Threads, Step(t),
         UNCHANGED <<phase, todo>>
  PROVE  LoopInv'
<1>0. /\ pc \in [Threads -> PC] /\ rebuild \in [Threads -> BOOLEAN]
      /\ call \in [Threads -> Call \cup {NoCall}]
      /\ tables \in [Moduli -> [reverse: Table, inverse: Table, precon: Table]]
      /\ hexlNtt \in [Keys -> Nat]
      /\ \A u \in Threads : call[u] # NoCall => call[u] \in CallsOf[u]
      /\ \A u \in Threads : Switching(u)
      /\ \A u \in Threads : pc[u] = "idle" => ~rebuild[u]
  BY DEF TypeOK, LoopInv
<1>1. /\ pc[t] # "idle" /\ todo[t] = <<>> /\ call[t] # NoCall /\ call[t].mod = TowerOf[t]
      /\ call[t].mod \in Moduli /\ Key(call[t]) \in Keys
      /\ call[t].kind \in Transform /\ ~TrivialRoot(call[t]) /\ GoodShape(call[t])
  <2>1. pc[t] # "idle"
    BY DEF Step, ReturnTrivial, ThrowShape, Admit, FindTable, RecheckTable, EnterCritical, InsideCritical,
         InsertTable, PublishTable, WriteInverse, WritePrecon, LockNtt, FindNtt, BuildNtt, UnlockNtt,
         Compute, Goto
  <2>2. call[t] # NoCall /\ call[t].mod = TowerOf[t] /\ todo[t] = <<>>
    BY <1>0, <2>1 DEF Switching
  <2> QED
    BY <1>0, <2>1, <2>2, CallTypes, Requests
<1>2. call[t].kind # "PreCompute" /\ call[t].root # 0
  BY <1>1 DEF Transform, Forward, Backward, TrivialRoot
<1>3. ASSUME NEW u \in Threads \ {t}
      PROVE  /\ pc'[u] = pc[u] /\ call'[u] = call[u] /\ rebuild'[u] = rebuild[u]
             /\ call[u] # NoCall => tables'[call[u].mod] = tables[call[u].mod]
             /\ call[u] # NoCall => hexlNtt'[Key(call[u])] = hexlNtt[Key(call[u])]
  <2>1. pc'[u] = pc[u] /\ call'[u] = call[u] /\ rebuild'[u] = rebuild[u]
    BY <1>0 DEF Step, ReturnTrivial, ThrowShape, Admit, FindTable, RecheckTable, EnterCritical, InsideCritical,
         InsertTable, PublishTable, WriteInverse, WritePrecon, LeavePreCompute, LockNtt, FindNtt, BuildNtt,
         UnlockNtt, Compute, Goto, Finish, shared
  <2>2. call[u] # NoCall => /\ call[u].mod = TowerOf[u] /\ call[u].mod # call[t].mod
                            /\ call[u].mod \in Moduli /\ Key(call[u]) \in Keys
                            /\ Key(call[u]) # Key(call[t])
    <3> SUFFICES ASSUME call[u] # NoCall PROVE /\ call[u].mod = TowerOf[u] /\ call[u].mod # call[t].mod
                            /\ call[u].mod \in Moduli /\ Key(call[u]) \in Keys
                            /\ Key(call[u]) # Key(call[t])
      OBVIOUS
    <3>1. call[u].mod = TowerOf[u] /\ call[u].mod # call[t].mod
      BY <1>0, <1>1, TowersAssumption DEF Switching
    <3> QED
      BY <1>0, <3>1, CallTypes DEF Key
  <2>3. \/ tables' = tables
        \/ \E x : tables' = [tables EXCEPT ![call[t].mod].reverse = x]
        \/ \E x : tables' = [tables EXCEPT ![call[t].mod].inverse = x]
        \/ \E x : tables' = [tables EXCEPT ![call[t].mod].precon = x]
    BY DEF Step, ReturnTrivial, ThrowShape, Admit, FindTable, RecheckTable, EnterCritical, InsertTable,
         PublishTable, WriteInverse, WritePrecon, LockNtt, FindNtt, BuildNtt, UnlockNtt, Compute, shared
  <2>4. \/ hexlNtt' = hexlNtt
        \/ hexlNtt' = [hexlNtt EXCEPT ![Key(call[t])] = call[t].root]
    BY DEF Step, ReturnTrivial, ThrowShape, Admit, FindTable, RecheckTable, EnterCritical, InsertTable,
         PublishTable, WriteInverse, WritePrecon, LockNtt, FindNtt, BuildNtt, UnlockNtt, Compute, shared
  <2>5. call[u] # NoCall => tables'[call[u].mod] = tables[call[u].mod]
    BY <1>0, <2>2, <2>3
  <2>6. call[u] # NoCall => hexlNtt'[Key(call[u])] = hexlNtt[Key(call[u])]
    BY <1>0, <2>2, <2>4
  <2> QED
    BY <2>1, <2>5, <2>6
<1>4. \A u \in Threads \ {t} : Switching(u)'
  BY <1>0, <1>3 DEF Switching, Hit
<1> DEFINE Mine == /\ call'[t] = call[t]
                   /\ pc'[t] \in {"idle", "inverse", "precon", "lock", "useNtt", "unlock", "compute"}
                        => Hit(call[t])'
                   /\ pc'[t] = "idle" => hexlNtt'[Key(call[t])] # NoRoot /\ ~rebuild'[t]
<1>5. pc[t] \in {"inverse", "precon", "lock", "useNtt", "unlock", "compute"} => Hit(call[t])
  BY <1>0, <1>1 DEF Switching
<1>6. Mine
  <2>1. CASE ReturnTrivial(t) \/ ThrowShape(t)
    BY <1>1, <2>1 DEF ReturnTrivial, ThrowShape
  <2>2. CASE Admit(t) \/ EnterCritical(t) \/ InsertTable(t)
    BY <1>0, <2>2 DEF Admit, EnterCritical, InsideCritical, InsertTable, Goto, shared
  <2>3. CASE FindTable(t)
    <3>1. PICK hit \in Lookup(t) : pc'[t] = IF hit THEN "lock" ELSE "recheck"
      BY <1>0, <2>3 DEF FindTable
    <3>2. hit => Hit(call[t])
      BY <3>1 DEF Lookup
    <3> QED
      BY <3>1, <3>2, <2>3 DEF FindTable, Hit, shared
  <2>4. CASE RecheckTable(t)
    <3>1. PICK hit \in Lookup(t) : pc'[t] = IF hit THEN "lock" ELSE "wait"
      BY <1>0, <1>2, <2>4 DEF RecheckTable, LeavePreCompute
    <3>2. hit => Hit(call[t])
      BY <3>1 DEF Lookup
    <3>3. call' = call /\ tables' = tables
      BY <1>2, <2>4 DEF RecheckTable, LeavePreCompute, shared
    <3> QED
      BY <3>1, <3>2, <3>3 DEF Hit
  <2>5. CASE PublishTable(t)
    <3>1. /\ tables' = [tables EXCEPT ![call[t].mod].reverse = NewTable(t)]
          /\ pc'[t] = "inverse" /\ call' = call
      BY <1>0, <2>5 DEF PublishTable, Goto
    <3>2. tables'[call[t].mod].reverse = NewTable(t)
      BY <1>0, <1>1, <3>1
    <3> QED
      BY <3>1, <3>2 DEF Hit, NewTable
  <2>6. CASE WriteInverse(t) \/ WritePrecon(t)
    <3>1. /\ pc[t] \in {"inverse", "precon"} /\ pc'[t] \in {"precon", "lock"} /\ call' = call
          /\ tables'[call[t].mod].reverse = tables[call[t].mod].reverse
      BY <1>0, <1>1, <1>2, <2>6 DEF WriteInverse, WritePrecon, LeavePreCompute, Goto
    <3> QED
      BY <1>5, <3>1 DEF Hit
  <2>7. CASE LockNtt(t) \/ FindNtt(t) \/ BuildNtt(t) \/ UnlockNtt(t)
    <3>1. /\ pc[t] \in {"lock", "useNtt", "unlock"} /\ pc'[t] # "idle" /\ call' = call /\ tables' = tables
      BY <1>0, <2>7 DEF LockNtt, FindNtt, BuildNtt, UnlockNtt, Goto, shared
    <3> QED
      BY <1>5, <3>1 DEF Hit
  <2>8. CASE Compute(t)
    <3>1. /\ pc[t] = "compute" /\ call' = call /\ tables' = tables /\ hexlNtt' = hexlNtt /\ ~rebuild'[t]
      BY <1>0, <2>8 DEF Compute, Finish, shared
    <3>2. hexlNtt[Key(call[t])] # NoRoot
      BY <3>1 DEF NttInv
    <3> QED
      BY <1>5, <3>1, <3>2 DEF Hit
  <2> QED
    BY <2>1, <2>2, <2>3, <2>4, <2>5, <2>6, <2>7, <2>8 DEF Step
<1>7. Switching(t)'
  BY <1>1, <1>6 DEF Switching, Hit
<1> QED
  BY <1>0, <1>3, <1>4, <1>6, <1>7 DEF LoopInv

(* At the barrier every tower's table and NTT object is in place, under    *)
(* the keys that the second loop will ask for.                             *)
LEMMA BarrierWarm ==
  ASSUME TypeOK, LoopInv, phase = "switch", LoopDone
  PROVE  Warm
<1>1. \A t \in Threads : ~rebuild[t] /\ pc[t] = "idle"
  BY DEF LoopDone, LoopInv
<1>2. ASSUME NEW t \in Threads, NEW c \in CallsOf[t]
      PROVE  Hit(c) /\ hexlNtt[Key(c)] # NoRoot
  <2>1. PICK s \in Threads : c.mod = TowerOf[s]
    BY Requests
  <2>2. todo[s] = <<>> /\ pc[s] = "idle" /\ Switching(s)
    BY DEF LoopDone, LoopInv
  <2>3. /\ call[s] # NoCall /\ call[s].mod = c.mod
        /\ Hit(call[s]) /\ hexlNtt[Key(call[s])] # NoRoot
    BY <2>1, <2>2 DEF Switching
  <2>4. call[s] \in CallsOf[s]
    BY <2>3 DEF TypeOK
  <2> QED
    BY <2>3, <2>4, Requests DEF Hit, Key
<1> QED
  BY <1>1, <1>2 DEF Warm

LEMMA LoopStep ==
  ASSUME TypeOK, NttInv, LoopInv, [DNext]_dvars
  PROVE  LoopInv'
<1>0. /\ pc \in [Threads -> PC] /\ rebuild \in [Threads -> BOOLEAN]
      /\ call \in [Threads -> Call \cup {NoCall}]
      /\ \A u \in Threads : pc[u] = "idle" => ~rebuild[u]
  BY DEF TypeOK, LoopInv
<1>1. CASE phase = "switch"
  <2>1. ASSUME NEW t \in Threads, SwitchTower(t) PROVE LoopInv'
    <3>1. /\ todo[t] # <<>> /\ Begin(t, TowerRequest(Kind, Head(todo[t])))
          /\ todo' = [todo EXCEPT ![t] = Tail(todo[t])] /\ phase' = phase
      BY <2>1 DEF SwitchTower
    <3>2. todo[t] = <<TowerOf[t]>>
      BY <1>1, <3>1 DEF LoopInv, Switching
    <3> DEFINE c == TowerRequest(Kind, TowerOf[t])
    <3>3. Head(todo[t]) = TowerOf[t] /\ Tail(todo[t]) = <<>>
      BY <3>2
    <3>4. PICK to \in {"entry", "recheck"} : Enter(t, c, to)
      BY <3>1, <3>3 DEF Begin, ForwardTransformToBitReverseInPlace, ForwardTransformToBitReverse,
           InverseTransformFromBitReverseInPlace, InverseTransformFromBitReverse, PreCompute
    <3>5. c \in CallsOf[t] /\ c.mod = TowerOf[t]
      BY <3>4, Requests DEF Enter
    <3>6. c # NoCall
      BY <3>5, CallTypes
    <3>7. /\ pc'[t] = to /\ call'[t] = c
          /\ \A u \in Threads \ {t} : pc'[u] = pc[u] /\ call'[u] = call[u]
          /\ tables' = tables /\ hexlNtt' = hexlNtt /\ rebuild' = rebuild
      <4> HIDE DEF c
      <4> QED
        BY <1>0, <3>4 DEF Enter, Goto, shared
    <3>8. todo'[t] = <<>> /\ \A u \in Threads \ {t} : todo'[u] = todo[u]
      <4>1. todo' = [todo EXCEPT ![t] = <<>>] /\ DOMAIN todo = Threads
        BY <3>1, <3>3 DEF LoopInv
      <4> QED
        BY <4>1
    <3> QED
      BY <1>0, <1>1, <3>1, <3>5, <3>6, <3>7, <3>8 DEF LoopInv, Switching, Hit
  <2>2. ASSUME NEW t \in Threads, Work(t) PROVE LoopInv'
    BY <1>1, <2>2, SwitchWork DEF Work
  <2>3. CASE StartDigits
    <3>1. LoopDone /\ phase' = "digits" /\ UNCHANGED vars
      BY <2>3 DEF StartDigits
    <3>2. Warm /\ \A t \in Threads : pc[t] = "idle"
      BY <1>1, <3>1, BarrierWarm DEF LoopDone
    <3>3. DOMAIN todo' = Threads
      BY <2>3 DEF StartDigits
    <3> QED
      BY <1>0, <3>1, <3>2, <3>3 DEF vars, LoopInv, Warm, Hit
  <2>4. CASE Return
    BY <1>1, <2>4 DEF Return
  <2>5. CASE UNCHANGED dvars
    BY <2>5 DEF dvars, vars, LoopInv, Switching, Warm, Hit
  <2> QED
    BY <2>1, <2>2, <2>3, <2>4, <2>5 DEF DNext
<1>2. CASE phase # "switch"
  <2>0. Warm /\ \A t \in Threads : pc[t] # "recheck"
    BY <1>2 DEF LoopInv
  <2>1. Warm'
    BY <2>0, Iteration, WarmStep
  <2>2. phase' # "switch"
    BY <1>2 DEF DNext, SwitchTower, Work, StartDigits, Return, dvars
  <2>3. \A t \in Threads : pc'[t] # "recheck"
    <3>1. ASSUME NEW t \in Threads, Step(t) PROVE \A u \in Threads : pc'[u] # "recheck"
      <4>1. CASE FindTable(t)
        <5>1. Lookup(t) = {TRUE}
          <6>1. pc[t] = "find"
            BY <4>1 DEF FindTable
          <6>2. call[t] \in CallsOf[t]
            BY <6>1 DEF TypeOK, NoCall, Call, Transform, Forward, Backward
          <6> QED
            BY <2>0, <6>2 DEF Warm, Lookup, Hit
        <5>2. pc' = [pc EXCEPT ![t] = "lock"]
          BY <4>1, <5>1, Zenon DEF FindTable
        <5> QED
          BY <1>0, <2>0, <5>2
      <4>2. CASE ~FindTable(t)
        BY <1>0, <2>0, <3>1, <4>2 DEF Step, ReturnTrivial, ThrowShape, Admit, RecheckTable, EnterCritical,
             InsideCritical, InsertTable, PublishTable, WriteInverse, WritePrecon, LeavePreCompute, LockNtt,
             FindNtt, BuildNtt, UnlockNtt, Compute, Goto, Finish
      <4> QED
        BY <4>1, <4>2
    <3>2. ASSUME NEW t \in Threads, NEW c \in CallsOf[t], Begin(t, c)
          PROVE  \A u \in Threads : pc'[u] # "recheck"
      <4>1. c.kind # "PreCompute"
        BY Requests
      <4>2. Enter(t, c, "entry")
        BY <3>2, <4>1 DEF Begin, ForwardTransformToBitReverseInPlace, ForwardTransformToBitReverse,
             InverseTransformFromBitReverseInPlace, InverseTransformFromBitReverse, PreCompute
      <4> QED
        BY <1>0, <2>0, <4>2 DEF Enter, Goto
    <3>3. CASE UNCHANGED vars
      BY <2>0, <3>3 DEF vars
    <3> QED
      BY <3>1, <3>2, <3>3, Iteration
  <2>4. \A t \in Threads : pc'[t] = "idle" => ~rebuild'[t]
    BY <2>1 DEF Warm
  <2>5. DOMAIN todo' = Threads
    BY <1>2 DEF LoopInv, DNext, SwitchTower, Work, StartDigits, Return, dvars
  <2> QED
    BY <2>1, <2>2, <2>3, <2>4, <2>5 DEF LoopInv
<1> QED
  BY <1>1, <1>2

LEMMA LoopInvariant == DSpec => []LoopInv
<1>1. DInit => LoopInv
  BY DEF DInit, Init, LoopInv, Switching
<1>2. TypeOK /\ NttInv /\ LoopInv /\ [DNext]_dvars => LoopInv'
  BY LoopStep
<1> QED
  BY <1>1, <1>2, ClientOfCaches, TypeCorrect, NttInvariant, PTL DEF DSpec

-----------------------------------------------------------------------------
(* What a thread serves in a warm state needs no building.                 *)
LEMMA WarmBuildsNothing ==
  ASSUME TypeOK, NttInv, Warm, NEW t \in Threads, pc[t] = "useNtt"
  PROVE  ~MustBuild(t)
<1>1. call[t] \in CallsOf[t] /\ call[t].kind \in Transform
  BY DEF TypeOK, NttInv, NoCall, Call, Transform, Forward, Backward
<1> QED
  BY <1>1 DEF Warm, MustBuild

(* The loop over the digits, in which several iterations transform over    *)
(* one modulus, finds every table and NTT object in place: the format      *)
(* switch before it (hexldcrtpoly-impl.h) has made them all.               *)
THEOREM DigitsAlwaysWarm == DSpec => []DigitsRunWarm
<1>1. TypeOK /\ NttInv /\ LoopInv => DigitsRunWarm
  BY WarmBuildsNothing DEF LoopInv, DigitsRunWarm, Warm
<1> QED
  BY <1>1, ClientOfCaches, TypeCorrect, NttInvariant, LoopInvariant, PTL

(* No NTT object is replaced under an iteration that computes through it,  *)
(* although the digits do not keep their keys apart.                       *)
LEMMA LoopsRebuildNothingInUse == TypeOK /\ NttInv /\ LoopInv => NoRebuildInUse
<1> SUFFICES ASSUME TypeOK, NttInv, LoopInv, NEW t \in Threads, NEW u \in Threads,
                    pc[t] = "useNtt", MustBuild(t), pc[u] = "compute", Key(call[u]) = Key(call[t])
             PROVE  FALSE
  BY DEF NoRebuildInUse
<1>1. CASE phase # "switch"
  BY <1>1, WarmBuildsNothing DEF LoopInv
<1>2. CASE phase = "switch"
  <2>1. call[t].mod = TowerOf[t] /\ call[u].mod = TowerOf[u]
    BY <1>2 DEF LoopInv, Switching
  <2>2. TowerOf[t] = TowerOf[u]
    BY <2>1 DEF Key
  <2> QED
    BY <2>2, TowersAssumption
<1> QED
  BY <1>1, <1>2

THEOREM LoopsNeverRebuildInUse == DSpec => []NoRebuildInUse
BY LoopsRebuildNothingInUse, ClientOfCaches, TypeCorrect, NttInvariant, LoopInvariant, PTL

(* Every transform of the decomposition gives the documented answer,       *)
(* whichever of them find the caches empty.                                *)
THEOREM LoopsAnswerRight == DSpec => []AnswersRight
<1>1. TypeOK /\ NttInv /\ LoopInv /\ AnswerInv /\ [DNext]_dvars => AnswerInv'
  BY OneRoot, LoopsRebuildNothingInUse, Iteration, AnswersStep DEF Next
<1>2. DInit => AnswerInv
  BY AnswersStart DEF DInit
<1>3. AnswerInv => AnswersRight
  BY DEF AnswerInv
<1> QED
  BY <1>1, <1>2, <1>3, ClientOfCaches, TypeCorrect, NttInvariant, LoopInvariant, PTL DEF DSpec
=============================================================================
