------------------------------ MODULE FTTCache ------------------------------
(***************************************************************************)
(* The two process-wide caches behind the power-of-two transforms          *)
(* (ChineseRemainderTransformFTTNat in transformnathexl-impl.h) and the    *)
(* protocol every transform follows around them:                           *)
(*                                                                         *)
(*  - six static maps of root-of-unity tables, keyed by the modulus alone, *)
(*    looked up with no lock and filled inside an unnamed OpenMP critical  *)
(*    section;                                                             *)
(*  - m_IntelNtt, HEXL's NTT objects keyed by (length, modulus), looked up *)
(*    and filled under m_mtxIntelNTT, and then used after the unlock.      *)
(*                                                                         *)
(* One step is one access another thread may observe.  The maps that are   *)
(* read only inside the critical section are grouped: "inverse" stands for *)
(* m_rootOfUnityInverseReverseTableByModulus and                           *)
(* m_cycloOrderInverseTableByModulus, "precon" for the three precon maps.  *)
(***************************************************************************)
EXTENDS FTTCalls

CONSTANT NoThread
ASSUME NoThreadAssumption == NoThread \notin Threads

VARIABLES
  tables,    \* the root-of-unity tables of each modulus
  hexlNtt,   \* m_IntelNtt: the root each cached NTT object was built for
  critical,  \* the thread inside `#pragma omp critical`
  mutex,     \* the thread that holds m_mtxIntelNTT
  pc,        \* where each thread is in its call
  call,      \* the request it is serving, or served last
  rebuild,   \* its local reCompute
  torn,      \* its NTT object was assigned over while it computed
  out        \* its answer

shared == <<tables, hexlNtt, critical, mutex>>
local  == <<pc, call, rebuild, torn, out>>
vars   == <<tables, hexlNtt, critical, mutex, pc, call, rebuild, torn, out>>

(* A table is told by its root and its length.  A modulus with no entry    *)
(* reads like one with an empty vector: length 0.                          *)
Table  == [root: Nat, dim: Nat]
AbsentMarked == [root |-> 0, dim |-> -1]
Absent == [root |-> 0, dim |-> 0]
NoRoot == 0    \* m_IntelNtt has no entry for the key

Lengths == {c.len : c \in UNION {CallsOf[t] : t \in Threads}}
Keys    == Lengths \X Moduli

KeyNoModulus(c) == <<c.len, CHOOSE m \in Moduli : TRUE>>
Key(c) == <<c.len, c.mod>>

Init ==
  /\ tables   = [m \in Moduli |-> [reverse |-> Absent, inverse |-> Absent, precon |-> Absent]]
  /\ hexlNtt  = [k \in Keys |-> NoRoot]
  /\ critical = NoThread
  /\ mutex    = NoThread
  /\ pc       = [t \in Threads |-> "idle"]
  /\ call     = [t \in Threads |-> NoCall]
  /\ rebuild  = [t \in Threads |-> FALSE]
  /\ torn     = [t \in Threads |-> FALSE]
  /\ out      = [t \in Threads |-> NoValue]

Goto(t, from, to) == pc[t] = from /\ pc' = [pc EXCEPT ![t] = to]

Finish(t, v) ==
  /\ pc'      = [pc EXCEPT ![t] = "idle"]
  /\ rebuild' = [rebuild EXCEPT ![t] = FALSE]
  /\ torn'    = [torn EXCEPT ![t] = FALSE]
  /\ out'     = [out EXCEPT ![t] = v]
  /\ UNCHANGED call

-----------------------------------------------------------------------------
(* The five member functions: each starts a call.                          *)
Enter(t, c, to) ==
  /\ c \in CallsOf[t]
  /\ Goto(t, "idle", to)
  /\ call' = [call EXCEPT ![t] = c]
  /\ out'  = [out EXCEPT ![t] = NoValue]
  /\ UNCHANGED <<shared, rebuild, torn>>

ForwardTransformToBitReverseInPlace(t, c)   == c.kind = "ForwardInPlace" /\ Enter(t, c, "entry")
ForwardTransformToBitReverse(t, c)          == c.kind = "ForwardCopy"    /\ Enter(t, c, "entry")
InverseTransformFromBitReverseInPlace(t, c) == c.kind = "InverseInPlace" /\ Enter(t, c, "entry")
InverseTransformFromBitReverse(t, c)        == c.kind = "InverseCopy"    /\ Enter(t, c, "entry")
PreCompute(t, c)                            == c.kind = "PreCompute"     /\ Enter(t, c, "recheck")

(* A trivial root returns the vector as it came, before the shape is       *)
(* looked at; a bad cyclotomic order or length throws.                     *)
ReturnTrivial(t) ==
  /\ pc[t] = "entry"
  /\ TrivialRoot(call[t])
  /\ Finish(t, Input(call[t]))
  /\ UNCHANGED shared

ThrowShape(t) ==
  /\ pc[t] = "entry"
  /\ ~TrivialRoot(call[t])
  /\ ~GoodShape(call[t])
  /\ Finish(t, Plain("thrown"))
  /\ UNCHANGED shared

Admit(t) ==
  /\ Goto(t, "entry", "find")
  /\ ~TrivialRoot(call[t])
  /\ GoodShape(call[t])
  /\ UNCHANGED <<shared, call, rebuild, torn, out>>

-----------------------------------------------------------------------------
(* The lookup that no lock protects.  While another thread inserts a key   *)
(* the map is being rebalanced, and a lookup may miss a key it holds.      *)
Hit(c) == tables[c.mod].reverse.dim = Half(c.co)

Lookup(t) ==
  {Hit(call[t])} \cup
  (IF \E u \in Threads \ {t} : pc[u] = "insert" THEN {FALSE} ELSE {})

FindTableUncached(t) ==
  /\ pc[t] = "find"
  /\ pc'      = [pc EXCEPT ![t] = "recheck"]
  /\ rebuild' = [rebuild EXCEPT ![t] = TRUE]
  /\ UNCHANGED <<shared, call, torn, out>>

FindTable(t) ==
  /\ pc[t] = "find"
  /\ \E hit \in Lookup(t) :
       /\ pc'      = [pc EXCEPT ![t] = IF hit THEN "lock" ELSE "recheck"]
       /\ rebuild' = [rebuild EXCEPT ![t] = ~hit]
  /\ UNCHANGED <<shared, call, torn, out>>

(* PreCompute looks once more, still outside the critical section, and     *)
(* never again inside it.                                                  *)
LeavePreCompute(t) ==
  IF call[t].kind = "PreCompute"
  THEN Finish(t, Plain("done"))
  ELSE pc' = [pc EXCEPT ![t] = "lock"] /\ UNCHANGED <<call, rebuild, torn, out>>

RecheckTable(t) ==
  /\ pc[t] = "recheck"
  /\ \E hit \in Lookup(t) :
       IF hit THEN LeavePreCompute(t)
       ELSE pc' = [pc EXCEPT ![t] = "wait"] /\ UNCHANGED <<call, rebuild, torn, out>>
  /\ UNCHANGED shared

(* Inside the section the root is inverted first.  ModInverse throws on a  *)
(* multiple of the modulus, and an exception may not leave an OpenMP       *)
(* critical section: the process is terminated, the section still taken.   *)
InsideCritical(t) ==
  /\ pc[t] = "wait"
  /\ pc' = [pc EXCEPT ![t] =
               IF call[t].root % call[t].mod = 0 THEN "terminated"
               ELSE IF tables[call[t].mod].reverse = Absent THEN "insert" ELSE "publish"]

EnterCriticalUnguarded(t) ==
  /\ InsideCritical(t)
  /\ critical' = t
  /\ UNCHANGED <<tables, hexlNtt, mutex, call, rebuild, torn, out>>

EnterCritical(t) ==
  /\ critical = NoThread
  /\ InsideCritical(t)
  /\ critical' = t
  /\ UNCHANGED <<tables, hexlNtt, mutex, call, rebuild, torn, out>>

InsertTable(t) ==
  /\ Goto(t, "insert", "publish")
  /\ UNCHANGED <<shared, call, rebuild, torn, out>>

(* The table that the lookups read is written first ...                    *)
NewTable(t) == [root |-> call[t].root, dim |-> Half(call[t].co)]

PublishTable(t) ==
  /\ Goto(t, "publish", "inverse")
  /\ tables' = [tables EXCEPT ![call[t].mod].reverse = NewTable(t)]
  /\ UNCHANGED <<hexlNtt, critical, mutex, call, rebuild, torn, out>>

(* ... then those of the inverse transform ...                             *)
WriteInverse(t) ==
  /\ Goto(t, "inverse", "precon")
  /\ tables' = [tables EXCEPT ![call[t].mod].inverse = NewTable(t)]
  /\ UNCHANGED <<hexlNtt, critical, mutex, call, rebuild, torn, out>>

(* ... and last the Shoup constants, derived from the tables as the maps   *)
(* hold them by then.                                                      *)
WritePrecon(t) ==
  /\ pc[t] = "precon"
  /\ tables'   = [tables EXCEPT ![call[t].mod].precon = tables[call[t].mod].reverse]
  /\ critical' = NoThread
  /\ LeavePreCompute(t)
  /\ UNCHANGED <<hexlNtt, mutex>>

-----------------------------------------------------------------------------
(* The NTT object: found or built under the mutex, used after it.          *)
LockNtt(t) ==
  /\ mutex = NoThread
  /\ Goto(t, "lock", "useNtt")
  /\ mutex' = t
  /\ UNCHANGED <<tables, hexlNtt, critical, call, rebuild, torn, out>>

MustBuild(t) == rebuild[t] \/ hexlNtt[Key(call[t])] = NoRoot

FindNtt(t) ==
  /\ Goto(t, "useNtt", "unlock")
  /\ ~MustBuild(t)
  /\ UNCHANGED <<shared, call, rebuild, torn, out>>

(* The move assignment replaces the object behind every pointer to the     *)
(* entry, those of threads that compute through it included.               *)
BuildNtt(t) ==
  /\ Goto(t, "useNtt", "unlock")
  /\ MustBuild(t)
  /\ hexlNtt' = [hexlNtt EXCEPT ![Key(call[t])] = call[t].root]
  /\ torn' = [u \in Threads |-> torn[u] \/ (pc[u] = "compute" /\ Key(call[u]) = Key(call[t]))]
  /\ UNCHANGED <<tables, critical, mutex, call, rebuild, out>>

UnlockNttForgotten(t) ==
  /\ Goto(t, "unlock", "compute")
  /\ UNCHANGED <<shared, call, rebuild, torn, out>>

UnlockNtt(t) ==
  /\ Goto(t, "unlock", "compute")
  /\ mutex' = NoThread
  /\ UNCHANGED <<tables, hexlNtt, critical, call, rebuild, torn, out>>

(* ComputeForward or ComputeInverse.  An object replaced meanwhile leaves  *)
(* any numbers behind.                                                     *)
Compute(t) ==
  /\ pc[t] = "compute"
  /\ \E v \in {Computed(call[t], hexlNtt[Key(call[t])])} \cup
              (IF torn[t] THEN {Plain("garbage")} ELSE {}) : Finish(t, v)
  /\ UNCHANGED shared

-----------------------------------------------------------------------------
(* Reset clears the six table maps and leaves m_IntelNtt as it is.  It     *)
(* takes no lock: its callers run it with no transform in progress.        *)
Reset ==
  /\ \A t \in Threads : pc[t] = "idle"
  /\ tables' = [m \in Moduli |-> [reverse |-> Absent, inverse |-> Absent, precon |-> Absent]]
  /\ UNCHANGED <<hexlNtt, critical, mutex, local>>

Begin(t, c) ==
  \/ ForwardTransformToBitReverseInPlace(t, c)
  \/ ForwardTransformToBitReverse(t, c)
  \/ InverseTransformFromBitReverseInPlace(t, c)
  \/ InverseTransformFromBitReverse(t, c)
  \/ PreCompute(t, c)

Step(t) ==
  \/ ReturnTrivial(t) \/ ThrowShape(t) \/ Admit(t)
  \/ FindTable(t) \/ RecheckTable(t)
  \/ EnterCritical(t) \/ InsertTable(t) \/ PublishTable(t) \/ WriteInverse(t) \/ WritePrecon(t)
  \/ LockNtt(t) \/ FindNtt(t) \/ BuildNtt(t) \/ UnlockNtt(t) \/ Compute(t)

Next ==
  \/ \E t \in Threads : Step(t) \/ \E c \in CallsOf[t] : Begin(t, c)
  \/ Reset

Spec == Init /\ [][Next]_vars

-----------------------------------------------------------------------------
(* Type invariant.                                                         *)
PC == {"idle", "entry", "find", "recheck", "wait", "insert", "publish", "inverse",
       "precon", "lock", "useNtt", "unlock", "compute", "terminated"}

TypeOK ==
  /\ tables   \in [Moduli -> [reverse: Table, inverse: Table, precon: Table]]
  /\ hexlNtt  \in [Keys -> Nat]
  /\ critical \in Threads \cup {NoThread}
  /\ mutex    \in Threads \cup {NoThread}
  /\ pc       \in [Threads -> PC]
  /\ call     \in [Threads -> Call \cup {NoCall}]
  /\ \A t \in Threads : call[t] # NoCall => call[t] \in CallsOf[t]
  /\ \A t \in Threads : pc[t] # "idle" => call[t] \in Call
  /\ rebuild  \in [Threads -> BOOLEAN]
  /\ torn     \in [Threads -> BOOLEAN]
  /\ out      \in [Threads -> Value]

(* Whenever no thread is between the first and the last write of a         *)
(* modulus' tables, the six tables of that modulus were made for one and   *)
(* the same root and length.  Threads that all missed the table refill it  *)
(* one after the other, each with its own arguments: only the critical     *)
(* section keeps their writes apart.                                       *)
Refilling(t, m) == pc[t] \in {"inverse", "precon"} /\ call[t].mod = m

TablesAgree ==
  \A m \in Moduli :
    (\A t \in Threads : ~Refilling(t, m)) =>
      /\ tables[m].inverse = tables[m].reverse
      /\ tables[m].precon  = tables[m].reverse

(* If the callers name one root for each length and modulus, a thread that *)
(* has let go of the mutex computes through an object built for the root   *)
(* it asked for, however many threads refill the caches meanwhile: the     *)
(* root is not part of the key.                                            *)
OneRootPerKey ==
  \A s, t \in Threads : \A c \in CallsOf[s], d \in CallsOf[t] :
    ({c.kind, d.kind} \subseteq Transform /\ Key(c) = Key(d)
       /\ ~TrivialRoot(c) /\ ~TrivialRoot(d)) => c.root = d.root

ComputesWithOwnRoot ==
  \A t \in Threads : pc[t] \in {"unlock", "compute"} => hexlNtt[Key(call[t])] = call[t].root

(* No thread is about to replace an NTT object that another thread         *)
(* computes through.                                                       *)
NoRebuildInUse ==
  \A t, u \in Threads :
    ~ /\ pc[t] = "useNtt" /\ MustBuild(t)
      /\ pc[u] = "compute" /\ Key(call[u]) = Key(call[t])

(* Two threads that first use one length and modulus at the same time both *)
(* build its NTT object, one under the other's hands; the loops over the   *)
(* towers of a polynomial keep their keys apart.                           *)
KeysApart ==
  \A s, t \in Threads : \A c \in CallsOf[s], d \in CallsOf[t] :
    {c.kind, d.kind} \subseteq Transform /\ Key(c) = Key(d) => s = t

(* Every call that has returned gave the answer the interface documents:   *)
(* the transform under the caller's own root, and the vector itself for a  *)
(* root of 0 or 1, whatever the other threads did to the caches meanwhile. *)
AnswersRight ==
  \A t \in Threads : pc[t] = "idle" /\ call[t] # NoCall => out[t] = Right(call[t])

(* Once every table and NTT object the callers need is in place and no     *)
(* thread is on its way to make one again, nothing but a Reset changes     *)
(* either cache: the steady state in which transforms over one modulus may *)
(* run side by side.                                                       *)
Warm ==
  /\ \A t \in Threads : \A c \in CallsOf[t] :
       Hit(c) /\ (c.kind \in Transform => hexlNtt[Key(c)] # NoRoot)
  /\ \A t \in Threads :
       ~rebuild[t] /\ pc[t] \notin {"wait", "insert", "publish", "inverse", "precon"}

WarmStaysWarm == [][Warm => Reset \/ (Warm' /\ UNCHANGED <<tables, hexlNtt>>)]_vars

(* A transform that asks for the root the tables of its modulus were       *)
(* precomputed for computes with that root, whatever root the transforms   *)
(* before it named.                                                        *)
PrecomputedRootIsUsed ==
  \A t \in Threads :
    pc[t] = "compute" /\ tables[call[t].mod].reverse = NewTable(t) =>
      hexlNtt[Key(call[t])] = call[t].root

(* A call that names root 0 or 1 never ends the process.                   *)
TrivialRootIsHarmless ==
  \A t \in Threads : pc[t] = "terminated" => ~TrivialRoot(call[t])

(* The caches implement the service without them.                          *)
Service == INSTANCE TransformService WITH pending <- call, answer <- out
ImplementsService == Service!Spec
=============================================================================
