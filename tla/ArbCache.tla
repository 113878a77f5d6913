------------------------------ MODULE ArbCache ------------------------------
(***************************************************************************)
(* The maps behind ChineseRemainderTransformArbNat, with the transforms    *)
(* running in several threads, as the towers of a DCRT polynomial do.      *)
(* A call checks and fills three maps inside an unnamed OpenMP critical    *)
(* section, and then reads them outside it; and the maps of the division   *)
(* are checked, filled and read outside it altogether.  What the tables    *)
(* hold is in module ArbTransform; here an entry is filled or not.         *)
(*                                                                         *)
(* Every access is operator[], which inserts what it does not find.  While *)
(* a thread inserts an entry the map is being rebalanced, and a lookup of  *)
(* another thread, in the same map, may miss an entry that is there.       *)
(***************************************************************************)
EXTENDS Integers, FiniteSets

CONSTANTS
  Threads, NoThread,
  CallsOf,   \* the calls [way, modulus, bigMod, divides] of each thread:
             \* divides, if the order is neither a prime nor twice a prime
  Warm       \* the calls whose entries are all filled at the start

Calls == UNION {CallsOf[t] : t \in Threads}

ASSUME CacheAssumption ==
  /\ NoThread \notin Threads
  /\ \A c \in Calls \cup Warm : c.way \in {"forward", "inverse"} /\ c.divides \in BOOLEAN

Maps == {"roots", "powers", "RB", "division"}

VARIABLES
  entries,   \* the keys each map has filled
  critical,  \* the thread inside the critical section
  pc, call,  \* where each thread is, in which call
  at         \* the map it works on

vars == <<entries, critical, pc, call, at>>

(* The keys.  Both directions share the root table, and have powers of     *)
(* their own, those of the root or of its inverse.                         *)
Key(c, map) ==
  CASE map = "roots"    -> <<c.bigMod>>
    [] map = "powers"   -> <<c.modulus, c.way>>
    [] map = "RB"       -> <<c.modulus, c.way, c.bigMod>>
    [] map = "division" -> <<c.modulus, c.bigMod>>

Touches(c, map) == map # "division" \/ (c.way = "inverse" /\ c.divides)
Filled(c, map)  == Key(c, map) \in entries[map]

Init ==
  /\ entries  = [map \in Maps |-> {Key(c, map) : c \in {d \in Warm : Touches(d, map)}}]
  /\ critical = NoThread
  /\ pc       = [t \in Threads |-> "idle"]
  /\ call     \in [Threads -> Calls]
  /\ \A t \in Threads : call[t] \in CallsOf[t]
  /\ at       = [t \in Threads |-> "roots"]

-----------------------------------------------------------------------------
Goto(t, from, to, map) ==
  /\ pc[t] = from
  /\ pc' = [pc EXCEPT ![t] = to]
  /\ at' = [at EXCEPT ![t] = map]

(* ForwardTransform and InverseTransform.                                  *)
Start(t, c) ==
  /\ c \in CallsOf[t]
  /\ Goto(t, "idle", "wait", "roots")
  /\ call' = [call EXCEPT ![t] = c]
  /\ UNCHANGED <<entries, critical>>

EnterCriticalUnguarded(t) ==
  /\ Goto(t, "wait", "check", "roots")
  /\ critical' = t
  /\ UNCHANGED <<entries, call>>

EnterCritical(t) ==
  /\ critical = NoThread
  /\ Goto(t, "wait", "check", "roots")
  /\ critical' = t
  /\ UNCHANGED <<entries, call>>

NextMap(map) == IF map = "roots" THEN "powers" ELSE "RB"

(* A map is done: on to the next, or out of the section, to look up the    *)
(* powers first.                                                           *)
DoneWith(t, map) ==
  IF map = "RB"
  THEN Goto(t, pc[t], "lookup", "powers") /\ critical' = NoThread
  ELSE Goto(t, pc[t], "check", NextMap(map)) /\ UNCHANGED critical

CheckAlwaysFills(t) ==
  /\ pc[t] = "check"
  /\ Goto(t, "check", "insert", at[t])
  /\ UNCHANGED <<entries, critical, call>>

Check(t) ==
  /\ pc[t] = "check"
  /\ IF Filled(call[t], at[t])
     THEN DoneWith(t, at[t])
     ELSE Goto(t, "check", "insert", at[t]) /\ UNCHANGED critical
  /\ UNCHANGED <<entries, call>>

InsertFor(t, c) ==
  /\ pc[t] = "insert" /\ at[t] # "division"
  /\ entries' = [entries EXCEPT ![at[t]] = @ \cup {Key(c, at[t])}]
  /\ DoneWith(t, at[t])
  /\ UNCHANGED call

InsertForward(t) == InsertFor(t, [call[t] EXCEPT !.way = "forward"])
Insert(t)        == InsertFor(t, call[t])

-----------------------------------------------------------------------------
(* Outside the section.                                                    *)
Overlapped(t, map) == \E u \in Threads \ {t} : pc[u] = "insert" /\ at[u] = map

Found(t, map) == {Filled(call[t], map)} \cup (IF Overlapped(t, map) THEN {FALSE} ELSE {})

(* BluesteinFFTNat::ForwardTransform reads the powers, the root tables and *)
(* the RB table.  A table it misses is empty, and of the wrong length.     *)
NextLookup(map) == IF map = "powers" THEN "roots" ELSE "RB"

Lookup(t) ==
  /\ pc[t] = "lookup"
  /\ \E found \in Found(t, at[t]) :
       IF ~found THEN Goto(t, "lookup", "broken", at[t])
       ELSE IF at[t] # "RB" THEN Goto(t, "lookup", "lookup", NextLookup(at[t]))
       ELSE IF Touches(call[t], "division") THEN Goto(t, "lookup", "drop", "division")
       ELSE Goto(t, "lookup", "idle", "RB")
  /\ UNCHANGED <<entries, critical, call>>

(* Drop fills the division's maps if it does not find its modulus there,   *)
(* in no critical section, and reads them.                                 *)
CheckDivision(t) ==
  /\ pc[t] = "drop"
  /\ \E found \in Found(t, "division") :
       Goto(t, "drop", IF found THEN "divide" ELSE "insert", "division")
  /\ UNCHANGED <<entries, critical, call>>

\* Of two insertions that overlap, one may be lost.
SetDivision(t) ==
  /\ pc[t] = "insert" /\ at[t] = "division"
  /\ \E kept \in {TRUE} \cup (IF Overlapped(t, "division") THEN {FALSE} ELSE {}) :
       entries' = IF kept THEN [entries EXCEPT !["division"] = @ \cup {Key(call[t], "division")}]
                  ELSE entries
  /\ Goto(t, "insert", "divide", "division")
  /\ UNCHANGED <<critical, call>>

Divide(t) ==
  /\ pc[t] = "divide"
  /\ \E found \in Found(t, "division") :
       Goto(t, "divide", IF found THEN "idle" ELSE "broken", "division")
  /\ UNCHANGED <<entries, critical, call>>

Next ==
  \E t \in Threads :
    \/ \E c \in CallsOf[t] : Start(t, c)
    \/ EnterCritical(t) \/ Check(t) \/ Insert(t)
    \/ Lookup(t) \/ CheckDivision(t) \/ SetDivision(t) \/ Divide(t)

Spec == Init /\ [][Next]_vars

-----------------------------------------------------------------------------
TypeOK ==
  /\ \A map \in Maps : entries[map] \subseteq {Key(c, map) : c \in Calls \cup Warm}
  /\ critical \in Threads \cup {NoThread}
  /\ pc \in [Threads -> {"idle", "wait", "check", "insert", "lookup", "drop", "divide", "broken"}]
  /\ \A t \in Threads : call[t] \in CallsOf[t] /\ at[t] \in Maps

(* No thread reads a map, or inserts into it, while another inserts.       *)
ReadsAlone ==
  \A t \in Threads : pc[t] \in {"check", "insert", "lookup", "drop", "divide"} => ~Overlapped(t, at[t])

(* The tables a transform reads outside the critical section are the ones  *)
(* it made sure of inside.                                                 *)
LookupsHit == \A t \in Threads : pc[t] # "broken"
=============================================================================
