------------------------------ MODULE ArbProofs ------------------------------
(***************************************************************************)
(* The arbitrary transforms: first that their tables hold under threads,   *)
(* then what they compute.                                                 *)
(*                                                                         *)
(* Two calls keep apart in a map if the keys they use there are filled at  *)
(* the start, or if they use one key, and fill it in the critical section. *)
(* Threads whose calls keep apart in every map never miss an entry, and    *)
(* never meet an insertion: that covers a thread alone, whatever it calls, *)
(* threads that all make one call, cold as the maps may be, and any calls  *)
(* on maps that are filled.  The invariant follows a thread from map to    *)
(* map: inside the section, the maps behind it are filled, and if it is    *)
(* about to insert an entry, the entry is not there; outside, its three    *)
(* maps are filled.  A thread that inserts into a map and one that reads   *)
(* it would then disagree about the one key they share.                    *)
(*                                                                         *)
(* Calls one after the other leave every table that is filled as the one   *)
(* of each ring with its key, so that all return.  On such tables, by      *)
(* Bluestein's identity, the forward transform evaluates at the powers of  *)
(* the root.  The inverse transform with the inverse root, divided by the  *)
(* order, finds a polynomial with the given values at the primitive roots, *)
(* because the powers of a root of one that is not one sum to zero.  Drop  *)
(* takes a multiple of the cyclotomic polynomial from it: read off the top *)
(* coefficients where the order is a prime or twice one, and otherwise the *)
(* product with a quotient that an inverse series gives, which Newton's    *)
(* iteration has doubled from its first coefficient on.                    *)
(***************************************************************************)
EXTENDS ArbCache, ArbTransform, NativeWordProofs, FiniteSetTheorems

Prefilled(c, map) == \E w \in Warm : Touches(w, map) /\ Key(w, map) = Key(c, map)

KeepApart(c, d) ==
  \A map \in Maps : Touches(c, map) /\ Touches(d, map) =>
    \/ Prefilled(c, map) /\ Prefilled(d, map)
    \/ map # "division" /\ Key(c, map) = Key(d, map)

CallsKeepApart ==
  \A t, u \in Threads : t # u => \A c \in CallsOf[t], d \in CallsOf[u] : KeepApart(c, d)

-----------------------------------------------------------------------------
(* Types, and the critical section.                                        *)

Places == {"idle", "wait", "check", "insert", "lookup", "drop", "divide", "broken"}

EntriesTyped ==
  /\ entries = [map \in Maps |-> entries[map]]
  /\ \A map \in Maps : entries[map] \subseteq {Key(c, map) : c \in Calls \cup Warm}

Typed ==
  /\ TypeOK
  /\ EntriesTyped
  /\ call \in [Threads -> Calls]
  /\ at \in [Threads -> Maps]

Inside(t) == pc[t] = "check" \/ (pc[t] = "insert" /\ at[t] # "division")
Section   == \A t \in Threads : Inside(t) <=> critical = t

\* A thread is at one of the three maps, and at the fourth if it divides.
AtItsMap(t) ==
  /\ pc[t] \in {"check", "lookup"} => at[t] \in {"roots", "powers", "RB"}
  /\ pc[t] \in {"drop", "divide"} => at[t] = "division"
  /\ pc[t] \in {"drop", "insert", "divide"} => Touches(call[t], at[t])

Base == Typed /\ Section /\ \A t \in Threads : AtItsMap(t)

\* Where Goto leads, the others staying where they are.
LEMMA GotoLeads ==
  ASSUME Typed, NEW t \in Threads, NEW from, NEW to \in Places, NEW map \in Maps, Goto(t, from, to, map)
  PROVE  /\ pc[t] = from
         /\ pc' \in [Threads -> Places] /\ at' \in [Threads -> Maps]
         /\ pc'[t] = to /\ at'[t] = map
         /\ \A u \in Threads \ {t} : pc'[u] = pc[u] /\ at'[u] = at[u]
BY DEF Typed, TypeOK, Goto, Places

\* A thread goes on with its call, into the section, out of it or neither.
LEMMA GotoKeepsBase ==
  ASSUME Base, NEW t \in Threads, NEW from, NEW to \in Places, NEW map \in Maps,
         Goto(t, from, to, map), EntriesTyped', UNCHANGED call,
         to \in {"check", "lookup"} => map \in {"roots", "powers", "RB"},
         to \in {"drop", "divide"} => map = "division",
         to \in {"drop", "insert", "divide"} => Touches(call[t], map),
         \/ ~Inside(t) /\ ~(to = "check" \/ (to = "insert" /\ map # "division")) /\ UNCHANGED critical
         \/ Inside(t) /\ (to = "check" \/ (to = "insert" /\ map # "division")) /\ UNCHANGED critical
         \/ critical = NoThread /\ to = "check" /\ critical' = t
         \/ Inside(t) /\ to \notin {"check", "insert"} /\ critical' = NoThread
  PROVE  Base'
<1>1. /\ pc' \in [Threads -> Places] /\ at' \in [Threads -> Maps]
      /\ pc'[t] = to /\ at'[t] = map
      /\ \A u \in Threads \ {t} : pc'[u] = pc[u] /\ at'[u] = at[u]
  BY GotoLeads DEF Base
<1>2. Typed'
  BY <1>1 DEF Base, Typed, TypeOK, EntriesTyped, Places
<1>3. Section'
  <2> SUFFICES ASSUME NEW u \in Threads PROVE (Inside(u) <=> critical = u)'
    BY DEF Section
  <2>1. Inside(t) <=> critical = t
    BY DEF Base, Section
  <2>2. Inside(u) <=> critical = u
    BY DEF Base, Section
  <2> QED
    BY <1>1, <2>1, <2>2, CacheAssumption DEF Inside
<1>4. ASSUME NEW u \in Threads PROVE AtItsMap(u)'
  BY <1>1 DEF Base, AtItsMap
<1> QED
  BY <1>2, <1>3, <1>4 DEF Base

LEMMA BaseInit == Init => Base
<1> SUFFICES ASSUME Init PROVE Base
  OBVIOUS
<1>1. EntriesTyped
  BY DEF Init, EntriesTyped
<1>2. call \in [Threads -> Calls] /\ at \in [Threads -> Maps]
  BY DEF Init, Maps
<1>3. Typed
  BY <1>1, <1>2 DEF Init, Typed, TypeOK, EntriesTyped
<1>4. Section /\ \A t \in Threads : AtItsMap(t)
  BY CacheAssumption DEF Init, Section, Inside, AtItsMap
<1> QED
  BY <1>3, <1>4 DEF Base

\* What a thread fills is a key of its call.
LEMMA InsertTyped ==
  ASSUME Base, NEW t \in Threads,
         entries' = [entries EXCEPT ![at[t]] = @ \cup {Key(call[t], at[t])}]
  PROVE  EntriesTyped'
<1>1. call[t] \in Calls /\ at[t] \in Maps
  BY DEF Base, Typed
<1>2. entries' = [map \in Maps |-> entries'[map]]
  BY <1>1 DEF Base, Typed, EntriesTyped
<1>3. ASSUME NEW map \in Maps PROVE entries'[map] \subseteq {Key(c, map) : c \in Calls \cup Warm}
  BY <1>1 DEF Base, Typed, EntriesTyped
<1> QED
  BY <1>2, <1>3 DEF EntriesTyped

\* Out of the section when the last of its maps is done, and on inside it
\* before that.
LEMMA DoneKeepsBase ==
  ASSUME Base, NEW t \in Threads, Inside(t), DoneWith(t, at[t]), EntriesTyped', UNCHANGED call
  PROVE  Base'
<1>1. CASE at[t] = "RB"
  BY <1>1, GotoKeepsBase DEF DoneWith, Places, Maps
<1>2. CASE at[t] # "RB"
  <2>1. NextMap(at[t]) \in {"roots", "powers", "RB"} /\ NextMap(at[t]) \in Maps
    BY DEF NextMap, Maps
  <2>2. Goto(t, pc[t], "check", NextMap(at[t])) /\ UNCHANGED critical
    BY <1>2 DEF DoneWith
  <2> QED
    BY <2>1, <2>2, GotoKeepsBase DEF Places
<1> QED
  BY <1>1, <1>2

LEMMA BaseNext == Base /\ [Next]_vars => Base'
<1> SUFFICES ASSUME Base, [Next]_vars PROVE Base'
  OBVIOUS
<1>0. UNCHANGED entries => EntriesTyped'
  BY DEF Base, Typed, EntriesTyped
<1>1. CASE UNCHANGED vars
  BY <1>0, <1>1 DEF Base, Typed, TypeOK, Section, Inside, AtItsMap, vars
<1>2. ASSUME NEW t \in Threads, NEW c \in CallsOf[t], Start(t, c) PROVE Base'
  <2>1. c \in Calls
    BY <1>2 DEF Calls
  <2>2. /\ pc[t] = "idle" /\ pc' \in [Threads -> Places] /\ at' \in [Threads -> Maps]
        /\ pc'[t] = "wait" /\ at'[t] = "roots"
        /\ \A u \in Threads \ {t} : pc'[u] = pc[u] /\ at'[u] = at[u]
    BY <1>2, GotoLeads DEF Base, Start, Places, Maps
  <2>3. /\ call' \in [Threads -> Calls] /\ call'[t] = c
        /\ \A u \in Threads \ {t} : call'[u] = call[u]
    BY <1>2, <2>1 DEF Base, Typed, Start
  <2>4. EntriesTyped' /\ UNCHANGED critical
    BY <1>0, <1>2 DEF Start
  <2>5. Typed'
    BY <2>2, <2>3, <2>4 DEF Base, Typed, TypeOK, EntriesTyped, Places
  <2>6. Section'
    BY <2>2, <2>4 DEF Base, Section, Inside
  <2>7. ASSUME NEW u \in Threads PROVE AtItsMap(u)'
    BY <2>2, <2>3 DEF Base, AtItsMap
  <2> QED
    BY <2>5, <2>6, <2>7 DEF Base
<1>3. ASSUME NEW t \in Threads, EnterCritical(t) PROVE Base'
  BY <1>0, <1>3, GotoKeepsBase DEF EnterCritical, Places, Maps
<1>4. ASSUME NEW t \in Threads, Check(t) PROVE Base'
  <2>1. pc[t] = "check" /\ Inside(t) /\ at[t] \in {"roots", "powers", "RB"} /\ at[t] \in Maps
    BY <1>4 DEF Check, Inside, Base, AtItsMap, Maps
  <2>2. EntriesTyped' /\ UNCHANGED call
    BY <1>0, <1>4 DEF Check
  <2>3. CASE Filled(call[t], at[t])
    BY <1>4, <2>1, <2>2, <2>3, DoneKeepsBase DEF Check
  <2>4. CASE ~Filled(call[t], at[t])
    <3>1. Goto(t, "check", "insert", at[t]) /\ UNCHANGED critical
      BY <1>4, <2>4 DEF Check
    <3> QED
      BY <2>1, <2>2, <3>1, GotoKeepsBase DEF Places, Touches
  <2> QED
    BY <2>3, <2>4
<1>5. ASSUME NEW t \in Threads, Insert(t) PROVE Base'
  <2>1. Inside(t) /\ DoneWith(t, at[t]) /\ UNCHANGED call
    BY <1>5 DEF Insert, InsertFor, Inside
  <2>2. EntriesTyped'
    BY <1>5, InsertTyped DEF Insert, InsertFor
  <2> QED
    BY <2>1, <2>2, DoneKeepsBase
<1>6. ASSUME NEW t \in Threads, Lookup(t) PROVE Base'
  <2>1. pc[t] = "lookup" /\ ~Inside(t) /\ UNCHANGED <<entries, critical, call>> /\ at[t] \in Maps
    BY <1>6 DEF Lookup, Inside, Base, Typed
  <2>2. PICK found \in Found(t, at[t]) :
          IF ~found THEN Goto(t, "lookup", "broken", at[t])
          ELSE IF at[t] # "RB" THEN Goto(t, "lookup", "lookup", NextLookup(at[t]))
          ELSE IF Touches(call[t], "division") THEN Goto(t, "lookup", "drop", "division")
          ELSE Goto(t, "lookup", "idle", "RB")
    BY <1>6 DEF Lookup
  <2>3. CASE ~found
    BY <1>0, <2>1, <2>2, <2>3, GotoKeepsBase DEF Places
  <2>4. CASE found /\ at[t] # "RB"
    <3>1. NextLookup(at[t]) \in {"roots", "powers", "RB"} /\ NextLookup(at[t]) \in Maps
      BY DEF NextLookup, Maps
    <3> QED
      BY <1>0, <2>1, <2>2, <2>4, <3>1, GotoKeepsBase DEF Places
  <2>5. CASE found /\ at[t] = "RB" /\ Touches(call[t], "division")
    BY <1>0, <2>1, <2>2, <2>5, GotoKeepsBase DEF Places, Maps
  <2>6. CASE found /\ at[t] = "RB" /\ ~Touches(call[t], "division")
    BY <1>0, <2>1, <2>2, <2>6, GotoKeepsBase DEF Places, Maps
  <2> QED
    BY <2>3, <2>4, <2>5, <2>6
<1>7. ASSUME NEW t \in Threads, CheckDivision(t) PROVE Base'
  <2>1. /\ pc[t] = "drop" /\ ~Inside(t) /\ UNCHANGED <<entries, critical, call>>
        /\ Touches(call[t], "division")
    BY <1>7 DEF CheckDivision, Inside, Base, AtItsMap
  <2>2. \/ Goto(t, "drop", "divide", "division")
        \/ Goto(t, "drop", "insert", "division")
    BY <1>7 DEF CheckDivision
  <2> QED
    BY <1>0, <2>1, <2>2, GotoKeepsBase DEF Places, Maps
<1>8. ASSUME NEW t \in Threads, SetDivision(t) PROVE Base'
  <2>1. /\ pc[t] = "insert" /\ at[t] = "division" /\ ~Inside(t)
        /\ Goto(t, "insert", "divide", "division") /\ UNCHANGED <<critical, call>>
        /\ Touches(call[t], "division")
    BY <1>8 DEF SetDivision, Inside, Base, AtItsMap
  <2>2. \/ UNCHANGED entries
        \/ entries' = [entries EXCEPT ![at[t]] = @ \cup {Key(call[t], at[t])}]
    BY <1>8 DEF SetDivision
  <2>3. EntriesTyped'
    BY <1>0, <2>2, InsertTyped
  <2> QED
    BY <2>1, <2>3, GotoKeepsBase DEF Places, Maps
<1>9. ASSUME NEW t \in Threads, Divide(t) PROVE Base'
  <2>1. pc[t] = "divide" /\ ~Inside(t) /\ UNCHANGED <<entries, critical, call>>
    BY <1>9 DEF Divide, Inside
  <2>2. \/ Goto(t, "divide", "idle", "division")
        \/ Goto(t, "divide", "broken", "division")
    BY <1>9 DEF Divide
  <2> QED
    BY <1>0, <2>1, <2>2, GotoKeepsBase DEF Places, Maps
<1> QED
  BY <1>1, <1>2, <1>3, <1>4, <1>5, <1>6, <1>7, <1>8, <1>9 DEF Next

(* The maps hold keys of calls, and every thread is at a map, with a call  *)
(* of its own: for any threads, calls and filled entries.                  *)
THEOREM ArbTypeCorrect == Spec => []TypeOK
<1>1. Base => TypeOK
  BY DEF Base, Typed
<1> QED
  BY <1>1, BaseInit, BaseNext, PTL DEF Spec

\* One thread at a time is checking or filling the three shared maps.
SectionExcludes == \A t, u \in Threads : Inside(t) /\ Inside(u) => t = u

(* The unnamed critical section of ForwardTransform and InverseTransform   *)
(* keeps the checks and the insertions of the three maps to one thread.    *)
THEOREM CriticalSectionHolds == Spec => []SectionExcludes
<1>1. Base => SectionExcludes
  BY DEF Base, Section, SectionExcludes
<1> QED
  BY <1>1, BaseInit, BaseNext, PTL DEF Spec

-----------------------------------------------------------------------------
(* What a thread finds when calls keep apart.                              *)

Behind(map) == IF map = "roots" THEN {} ELSE IF map = "powers" THEN {"roots"} ELSE {"roots", "powers"}

Follows(t) ==
  /\ pc[t] # "broken"
  /\ Inside(t) => \A map \in Behind(at[t]) : Filled(call[t], map)
  /\ pc[t] = "insert" => ~Filled(call[t], at[t])
  /\ pc[t] = "lookup" => \A map \in {"roots", "powers", "RB"} : Filled(call[t], map)
  /\ pc[t] = "divide" => Filled(call[t], "division")

StaysFilled == \A c \in Calls, map \in Maps : Prefilled(c, map) => Filled(c, map)

Apart == Base /\ StaysFilled /\ \A t \in Threads : Follows(t)

Busy(t) == pc[t] \in {"check", "insert", "lookup", "drop", "divide"}

\* Of a thread that inserts and one that works on the same map, the first
\* does not see its entry filled; the second does, or is in the section too.
LEMMA MeetsNoInsertion ==
  ASSUME CallsKeepApart, Apart, NEW t \in Threads, Busy(t)
  PROVE  ~Overlapped(t, at[t])
<1> SUFFICES ASSUME NEW u \in Threads \ {t}, pc[u] = "insert", at[u] = at[t] PROVE FALSE
  BY DEF Overlapped
<1>1. /\ call[t] \in CallsOf[t] /\ call[u] \in CallsOf[u] /\ at[t] \in Maps
      /\ call[t] \in Calls /\ call[u] \in Calls
  BY DEF Apart, Base, Typed, TypeOK
<1>2. ~Filled(call[u], at[t])
  BY DEF Apart, Follows
<1>3. Touches(call[t], at[t]) /\ Touches(call[u], at[t])
  BY DEF Apart, Base, AtItsMap, Touches, Busy
<1>4. ~Prefilled(call[u], at[t])
  BY <1>1, <1>2 DEF Apart, StaysFilled
<1>5. KeepApart(call[t], call[u])
  BY <1>1 DEF CallsKeepApart
<1>6. at[t] # "division" /\ Key(call[t], at[t]) = Key(call[u], at[t])
  BY <1>1, <1>3, <1>4, <1>5 DEF KeepApart
<1>7. Inside(u)
  BY <1>6 DEF Inside
<1>8. ~Inside(t)
  BY <1>7 DEF Apart, Base, Section
<1>9. pc[t] = "lookup" /\ at[t] \in {"roots", "powers", "RB"}
  BY <1>6, <1>8 DEF Busy, Inside, Apart, Base, AtItsMap
<1>10. Filled(call[t], at[t])
  BY <1>9 DEF Apart, Follows
<1> QED
  BY <1>2, <1>6, <1>10 DEF Filled

\* So that a lookup has one outcome.
LEMMA OneOutcome ==
  ASSUME CallsKeepApart, Apart, NEW t \in Threads, Busy(t)
  PROVE  Found(t, at[t]) = {Filled(call[t], at[t])}
BY MeetsNoInsertion DEF Found

\* No step takes an entry away, and what one thread fills, no other is
\* about to insert.
LEMMA OthersFollow ==
  ASSUME CallsKeepApart, Apart, NEW t \in Threads,
         \A u \in Threads \ {t} : pc'[u] = pc[u] /\ at'[u] = at[u] /\ call'[u] = call[u],
         \/ UNCHANGED entries
         \/ pc[t] = "insert" /\ entries' = [entries EXCEPT ![at[t]] = @ \cup {Key(call[t], at[t])}]
  PROVE  /\ \A c \in Calls, map \in Maps : Filled(c, map) => Filled(c, map)'
         /\ StaysFilled'
         /\ \A u \in Threads \ {t} : Follows(u)'
<1>1. ASSUME NEW c, NEW map \in Maps, Filled(c, map) PROVE Filled(c, map)'
  BY <1>1 DEF Filled, Apart, Base, Typed, EntriesTyped
<1>2. StaysFilled'
  BY <1>1 DEF Apart, StaysFilled, Prefilled
<1>3. ASSUME NEW u \in Threads \ {t} PROVE Follows(u)'
  <2>1. pc'[u] = pc[u] /\ at'[u] = at[u] /\ call'[u] = call[u] /\ Follows(u)
    BY DEF Apart
  <2>2. Inside(u)' <=> Inside(u)
    BY <2>1 DEF Inside
  <2>3. \A map \in Behind(at[u]) : map \in Maps
    BY DEF Behind, Maps
  <2>4. ASSUME pc[u] = "insert" PROVE ~Filled(call[u], at[u])'
    <3>1. at[u] \in Maps /\ ~Filled(call[u], at[u])
      BY <2>4 DEF Apart, Base, Typed, Follows
    <3>2. CASE UNCHANGED entries
      BY <2>1, <3>1, <3>2 DEF Filled
    <3>3. CASE pc[t] = "insert" /\ entries' = [entries EXCEPT ![at[t]] = @ \cup {Key(call[t], at[t])}]
      <4>1. at[u] # at[t]
        BY <2>4, <3>3, MeetsNoInsertion DEF Busy, Overlapped
      <4> QED
        BY <2>1, <3>1, <3>3, <4>1 DEF Filled, Apart, Base, Typed, EntriesTyped
    <3> QED
      BY <3>2, <3>3
  <2>5. Inside(u)' => \A map \in Behind(at'[u]) : Filled(call[u], map)'
    BY <1>1, <2>1, <2>2, <2>3 DEF Follows
  <2>6. pc[u] = "lookup" => \A map \in {"roots", "powers", "RB"} : Filled(call[u], map)'
    BY <1>1, <2>1 DEF Follows, Maps
  <2>7. pc[u] = "divide" => Filled(call[u], "division")'
    BY <1>1, <2>1 DEF Follows, Maps
  <2> QED
    BY <2>1, <2>4, <2>5, <2>6, <2>7 DEF Follows, Filled
<1> QED
  BY <1>1, <1>2, <1>3

\* A thread goes on with its call, to where its entries are filled.
LEMMA GotoKeepsApart ==
  ASSUME CallsKeepApart, Apart, NEW t \in Threads, NEW from, NEW to \in Places, NEW map \in Maps,
         Goto(t, from, to, map), UNCHANGED call, Base',
         \/ UNCHANGED entries
         \/ pc[t] = "insert" /\ entries' = [entries EXCEPT ![at[t]] = @ \cup {Key(call[t], at[t])}],
         to # "broken",
         to = "check" \/ (to = "insert" /\ map # "division") =>
           \A earlier \in Behind(map) : Filled(call[t], earlier)',
         to = "insert" => ~Filled(call[t], map)',
         to = "lookup" => \A filled \in {"roots", "powers", "RB"} : Filled(call[t], filled)',
         to = "divide" => Filled(call[t], "division")'
  PROVE  Apart'
<1>1. /\ pc'[t] = to /\ at'[t] = map
      /\ \A u \in Threads \ {t} : pc'[u] = pc[u] /\ at'[u] = at[u]
  BY GotoLeads DEF Apart, Base
<1>2. StaysFilled' /\ \A u \in Threads \ {t} : Follows(u)'
  BY <1>1, OthersFollow
<1>3. Follows(t)'
  BY <1>1 DEF Follows, Inside, Filled
<1> QED
  BY <1>2, <1>3 DEF Apart

\* A map of the section is done: what is behind the next one is filled.
LEMMA DoneKeepsApart ==
  ASSUME CallsKeepApart, Apart, NEW t \in Threads, Inside(t), DoneWith(t, at[t]), UNCHANGED call, Base',
         at[t] \in {"roots", "powers", "RB"},
         \/ UNCHANGED entries
         \/ pc[t] = "insert" /\ entries' = [entries EXCEPT ![at[t]] = @ \cup {Key(call[t], at[t])}],
         Key(call[t], at[t]) \in entries'[at[t]]
  PROVE  Apart'
<1>1. call[t] \in Calls
  BY DEF Apart, Base, Typed
<1>2. \A u \in Threads \ {t} : pc'[u] = pc[u] /\ at'[u] = at[u]
  BY DEF DoneWith, Goto, Apart, Base, Typed, TypeOK
<1>3. \A map \in Behind(at[t]) : Filled(call[t], map)'
  <2>1. \A map \in Behind(at[t]) : Filled(call[t], map) /\ map \in Maps
    BY DEF Apart, Follows, Behind, Maps
  <2> QED
    BY <1>1, <1>2, <2>1, OthersFollow DEF Filled
<1>4. CASE at[t] = "RB"
  <2>1. Goto(t, pc[t], "lookup", "powers")
    BY <1>4 DEF DoneWith
  <2>2. \A map \in {"roots", "powers", "RB"} : Filled(call[t], map)'
    BY <1>3, <1>4 DEF Behind, Filled
  <2> QED
    BY <2>1, <2>2, GotoKeepsApart DEF Places, Maps
<1>5. CASE at[t] # "RB"
  <2>1. Goto(t, pc[t], "check", NextMap(at[t])) /\ NextMap(at[t]) \in Maps
    BY <1>5 DEF DoneWith, NextMap, Maps
  <2>2. \A map \in Behind(NextMap(at[t])) : Filled(call[t], map)'
    BY <1>3, <1>5 DEF Behind, NextMap, Filled
  <2> QED
    BY <2>1, <2>2, GotoKeepsApart DEF Places
<1> QED
  BY <1>4, <1>5

LEMMA ApartInit == Init => Apart
<1> SUFFICES ASSUME Init PROVE Apart
  OBVIOUS
<1>1. StaysFilled
  BY DEF Init, StaysFilled, Prefilled, Filled
<1>2. \A t \in Threads : Follows(t)
  BY DEF Init, Follows, Inside
<1> QED
  BY <1>1, <1>2, BaseInit DEF Apart

LEMMA ApartNext == CallsKeepApart /\ Apart /\ [Next]_vars => Apart'
<1> SUFFICES ASSUME CallsKeepApart, Apart, [Next]_vars PROVE Apart'
  OBVIOUS
<1>0. Base'
  BY BaseNext DEF Apart
<1>1. CASE UNCHANGED vars
  BY <1>0, <1>1 DEF Apart, StaysFilled, Filled, Follows, Inside, vars
<1>2. ASSUME NEW t \in Threads, NEW c \in CallsOf[t], Start(t, c) PROVE Apart'
  <2>1. /\ pc'[t] = "wait"
        /\ \A u \in Threads \ {t} : pc'[u] = pc[u] /\ at'[u] = at[u]
    BY <1>2, GotoLeads DEF Apart, Base, Start, Places, Maps
  <2>2. UNCHANGED entries /\ \A u \in Threads \ {t} : call'[u] = call[u]
    BY <1>2 DEF Start, Apart, Base, Typed
  <2>3. StaysFilled' /\ \A u \in Threads \ {t} : Follows(u)'
    BY <2>1, <2>2, OthersFollow
  <2>4. Follows(t)'
    BY <2>1 DEF Follows, Inside
  <2> QED
    BY <1>0, <2>3, <2>4 DEF Apart
<1>3. ASSUME NEW t \in Threads, EnterCritical(t) PROVE Apart'
  BY <1>0, <1>3, GotoKeepsApart DEF EnterCritical, Places, Maps, Behind
<1>4. ASSUME NEW t \in Threads, Check(t) PROVE Apart'
  <2>1. /\ pc[t] = "check" /\ Inside(t) /\ at[t] \in {"roots", "powers", "RB"} /\ at[t] \in Maps
        /\ UNCHANGED <<entries, call>>
    BY <1>4 DEF Check, Inside, Apart, Base, AtItsMap, Maps
  <2>2. CASE Filled(call[t], at[t])
    <3>1. DoneWith(t, at[t]) /\ Key(call[t], at[t]) \in entries'[at[t]]
      BY <1>4, <2>1, <2>2 DEF Check, Filled
    <3> QED
      BY <1>0, <2>1, <3>1, DoneKeepsApart
  <2>3. CASE ~Filled(call[t], at[t])
    <3>1. Goto(t, "check", "insert", at[t]) /\ Key(call[t], at[t]) \notin entries'[at[t]]
      BY <1>4, <2>1, <2>3 DEF Check, Filled
    <3>2. \A map \in Behind(at[t]) : Filled(call[t], map)'
      BY <2>1 DEF Apart, Follows, Filled
    <3> QED
      BY <1>0, <2>1, <3>1, <3>2, GotoKeepsApart DEF Places, Filled
  <2> QED
    BY <2>2, <2>3
<1>5. ASSUME NEW t \in Threads, Insert(t) PROVE Apart'
  <2>1. /\ pc[t] = "insert" /\ Inside(t) /\ DoneWith(t, at[t]) /\ UNCHANGED call
        /\ entries' = [entries EXCEPT ![at[t]] = @ \cup {Key(call[t], at[t])}]
        /\ at[t] \in {"roots", "powers", "RB"}
    BY <1>5 DEF Insert, InsertFor, Inside, Apart, Base, Typed, Maps
  <2>2. Key(call[t], at[t]) \in entries'[at[t]]
    BY <2>1 DEF Filled, DoneWith, Apart, Base, Typed, EntriesTyped, Maps
  <2> QED
    BY <1>0, <2>1, <2>2, DoneKeepsApart
<1>6. ASSUME NEW t \in Threads, Lookup(t) PROVE Apart'
  <2>1. pc[t] = "lookup" /\ UNCHANGED <<entries, call>> /\ at[t] \in {"roots", "powers", "RB"}
    BY <1>6 DEF Lookup, Apart, Base, AtItsMap
  <2>2. \A map \in {"roots", "powers", "RB"} : Filled(call[t], map) /\ Filled(call[t], map)'
    BY <2>1 DEF Apart, Follows, Filled
  <2>3. Found(t, at[t]) = {TRUE}
    BY <2>1, <2>2, OneOutcome DEF Busy, Filled
  <2>4. CASE at[t] # "RB"
    <3>1. Goto(t, "lookup", "lookup", NextLookup(at[t])) /\ NextLookup(at[t]) \in Maps
      BY <1>6, <2>3, <2>4 DEF Lookup, NextLookup, Maps
    <3> QED
      BY <1>0, <2>1, <2>2, <3>1, GotoKeepsApart DEF Places
  <2>5. CASE at[t] = "RB" /\ Touches(call[t], "division")
    <3>1. Goto(t, "lookup", "drop", "division")
      BY <1>6, <2>3, <2>5 DEF Lookup
    <3> QED
      BY <1>0, <2>1, <3>1, GotoKeepsApart DEF Places, Maps
  <2>6. CASE at[t] = "RB" /\ ~Touches(call[t], "division")
    <3>1. Goto(t, "lookup", "idle", "RB")
      BY <1>6, <2>3, <2>6 DEF Lookup
    <3> QED
      BY <1>0, <2>1, <3>1, GotoKeepsApart DEF Places, Maps
  <2> QED
    BY <2>4, <2>5, <2>6
<1>7. ASSUME NEW t \in Threads, CheckDivision(t) PROVE Apart'
  <2>1. pc[t] = "drop" /\ at[t] = "division" /\ UNCHANGED <<entries, call>>
    BY <1>7 DEF CheckDivision, Apart, Base, AtItsMap
  <2>2. Found(t, "division") = {Filled(call[t], "division")}
    BY <2>1, OneOutcome DEF Busy
  <2>3. CASE Filled(call[t], "division")
    <3>1. Goto(t, "drop", "divide", "division") /\ Filled(call[t], "division")'
      BY <1>7, <2>1, <2>2, <2>3 DEF CheckDivision, Filled
    <3> QED
      BY <1>0, <2>1, <3>1, GotoKeepsApart DEF Places, Maps
  <2>4. CASE ~Filled(call[t], "division")
    <3>1. Goto(t, "drop", "insert", "division") /\ ~Filled(call[t], "division")'
      BY <1>7, <2>1, <2>2, <2>4 DEF CheckDivision, Filled
    <3> QED
      BY <1>0, <2>1, <3>1, GotoKeepsApart DEF Places, Maps
  <2> QED
    BY <2>3, <2>4
<1>8. ASSUME NEW t \in Threads, SetDivision(t) PROVE Apart'
  <2>1. /\ pc[t] = "insert" /\ at[t] = "division"
        /\ Goto(t, "insert", "divide", "division") /\ UNCHANGED call
    BY <1>8 DEF SetDivision
  <2>2. ~Overlapped(t, "division")
    BY <2>1, MeetsNoInsertion DEF Busy
  <2>3. entries' = [entries EXCEPT ![at[t]] = @ \cup {Key(call[t], at[t])}]
    BY <1>8, <2>1, <2>2 DEF SetDivision
  <2>4. Filled(call[t], "division")'
    BY <2>1, <2>3 DEF Filled, Apart, Base, Typed, EntriesTyped, Maps
  <2> QED
    BY <1>0, <2>1, <2>3, <2>4, GotoKeepsApart DEF Places, Maps
<1>9. ASSUME NEW t \in Threads, Divide(t) PROVE Apart'
  <2>1. pc[t] = "divide" /\ at[t] = "division" /\ UNCHANGED <<entries, call>>
    BY <1>9 DEF Divide, Apart, Base, AtItsMap
  <2>2. Found(t, "division") = {TRUE}
    BY <2>1, OneOutcome DEF Busy, Apart, Follows
  <2>3. Goto(t, "divide", "idle", "division")
    BY <1>9, <2>2 DEF Divide
  <2> QED
    BY <1>0, <2>1, <2>3, GotoKeepsApart DEF Places, Maps
<1> QED
  BY <1>1, <1>2, <1>3, <1>4, <1>5, <1>6, <1>7, <1>8, <1>9 DEF Next

(* Threads whose calls keep apart find every table they look up outside    *)
(* the critical section.                                                   *)
THEOREM ApartLookupsHit == ASSUME CallsKeepApart PROVE Spec => []LookupsHit
<1>1. Apart => LookupsHit
  BY DEF Apart, Follows, LookupsHit
<1> QED
  BY <1>1, ApartInit, ApartNext, PTL DEF Spec

(* And none of them touches a map while another inserts into it.           *)
THEOREM ApartReadsAlone == ASSUME CallsKeepApart PROVE Spec => []ReadsAlone
<1>1. Apart => ReadsAlone
  BY MeetsNoInsertion DEF Busy, ReadsAlone
<1> QED
  BY <1>1, ApartInit, ApartNext, PTL DEF Spec

-----------------------------------------------------------------------------
(* The three cases of the runs.                                            *)

(* If every call any thread may make has its entries filled at the start,  *)
(* then no lookup ever misses, for any number of threads and calls.        *)
THEOREM WarmLookupsHit == ASSUME Calls \subseteq Warm PROVE Spec => []LookupsHit
<1>1. CallsKeepApart
  BY DEF CallsKeepApart, KeepApart, Prefilled, Calls
<1> QED
  BY <1>1, ApartLookupsHit

(* Threads that all make one call, of an order that needs no division, as  *)
(* the towers of one polynomial do, find what they look up, and look it up *)
(* undisturbed, whatever the maps held before.                             *)
THEOREM OneCallHits ==
  ASSUME NEW c, c.divides = FALSE, \A t \in Threads : CallsOf[t] = {c}
  PROVE  Spec => [](LookupsHit /\ ReadsAlone)
<1>1. CallsKeepApart
  BY DEF CallsKeepApart, KeepApart, Touches
<1> QED
  BY <1>1, ApartLookupsHit, ApartReadsAlone, PTL

(* A thread alone finds what it looks up, whatever it calls, in whatever   *)
(* order, division included.                                               *)
THEOREM OneThreadHits ==
  ASSUME NEW t, Threads = {t}
  PROVE  Spec => []LookupsHit
<1>1. CallsKeepApart
  BY DEF CallsKeepApart
<1> QED
  BY <1>1, ApartLookupsHit

-----------------------------------------------------------------------------
(* Orders, moduli and roots.                                               *)

\* Powers of two bound their exponents.
LEMMA ExponentBelow == \A e \in 1 .. W : e <= 2^(e - 1)
<1> DEFINE S == {e \in Nat : e + 1 <= W => e + 1 <= 2^e}
<1>1. 0 \in S
  <2>1. 2^0 = 1
    BY PowersOfTwo
  <2> QED BY <2>1
<1>2. ASSUME NEW e \in Nat, e \in S PROVE e + 1 \in S
  <2>1. SUFFICES ASSUME e + 2 <= W PROVE e + 2 <= 2^(e + 1)
    OBVIOUS
  <2>2. W \in Nat /\ e + 1 \in 1 .. W /\ e \in 0 .. W /\ (e + 1) - 1 = e
    BY <2>1, PowersOfTwo
  <2>3. 2^(e + 1) = 2 * 2^e /\ 2^e \in Nat
    BY ONLY <2>2, PowersOfTwo
  <2>4. e + 1 <= 2^e
    BY <1>2, <2>1, <2>2
  <2> DEFINE a == 2^e
  <2>5. 2^(e + 1) = 2 * a /\ a \in Nat /\ e + 1 <= a
    BY <2>3, <2>4
  <2> HIDE DEF a
  <2> QED BY ONLY <2>5, e \in Nat
<1>3. Nat \subseteq S
  <2> HIDE DEF S
  <2> QED BY ONLY <1>1, <1>2, Induction
<1>4. ASSUME NEW e \in 1 .. W PROVE e <= 2^(e - 1)
  <2>1. e - 1 \in Nat /\ (e - 1) + 1 = e /\ e <= W
    BY PowersOfTwo
  <2>2. e - 1 \in S
    BY <1>3, <2>1
  <2> HIDE DEF S
  <2>3. e - 1 \in Nat /\ ((e - 1) + 1 <= W => (e - 1) + 1 <= 2^(e - 1))
    BY <2>2 DEF S
  <2> QED BY ONLY <2>1, <2>3
<1> QED BY <1>4

\* The power of two that PowerAbove finds.
LEMMA PowerAboveFound ==
  ASSUME NEW n \in Nat \ {0}, n <= 2^W
  PROVE  PowerAbove(n) \in Nat \ {0} /\ n <= PowerAbove(n)
         /\ \E e \in 0 .. W : PowerAbove(n) = 2^e /\ (e = 0 \/ 2^(e - 1) < n)
<1> DEFINE Has(e) == 2^e >= n /\ (e = 0 \/ 2^(e - 1) < n)
           S == {k \in Nat : k <= W /\ 2^k >= n => \E e \in 0 .. W : Has(e)}
<1>1. 0 \in S
  <2>1. 0 \in 0 .. W
    BY PowersOfTwo
  <2> QED BY <2>1
<1>2. ASSUME NEW k \in Nat, k \in S PROVE k + 1 \in S
  <2>1. SUFFICES ASSUME k + 1 <= W, 2^(k + 1) >= n PROVE \E e \in 0 .. W : Has(e)
    OBVIOUS
  <2>2. k + 1 \in 0 .. W /\ (k + 1) - 1 = k /\ k <= W /\ k \in 0 .. W
    BY <2>1, PowersOfTwo
  <2>3. 2^k \in Nat
    BY ONLY <2>2, PowersOfTwo
  <2>4. CASE 2^k >= n
    BY <1>2, <2>2, <2>4
  <2>5. CASE ~(2^k >= n)
    <3>1. 2^k < n
      BY ONLY <2>3, <2>5, n \in Nat
    <3>2. Has(k + 1)
      BY <2>1, <2>2, <3>1
    <3> QED BY <2>2, <3>2
  <2> QED BY <2>4, <2>5
<1>3. Nat \subseteq S
  <2> HIDE DEF S
  <2> QED BY ONLY <1>1, <1>2, Induction
<1>4. \E e \in 0 .. W : Has(e)
  <2>1. W \in Nat /\ W <= W /\ 2^W >= n
    <3>1. W \in Nat /\ W \in 0 .. W
      BY PowersOfTwo
    <3>2. 2^W \in Nat
      BY ONLY <3>1, PowersOfTwo
    <3> DEFINE a == 2^W
    <3>3. a \in Nat /\ n <= a
      BY <3>2
    <3> HIDE DEF a
    <3>4. a >= n
      BY ONLY <3>3, n \in Nat
    <3> QED BY <3>1, <3>4 DEF a
  <2> QED BY <1>3, <2>1
<1> DEFINE e == CHOOSE e \in 0 .. W : Has(e)
<1>5. e \in 0 .. W /\ Has(e)
  BY <1>4
<1>6. PowerAbove(n) = 2^e
  BY DEF PowerAbove
<1> HIDE DEF e
<1>7. 2^e \in Nat \ {0}
  BY ONLY <1>5, PowersOfTwo
<1> DEFINE a == 2^e
<1>8. a \in Nat \ {0} /\ a >= n
  BY <1>5, <1>7
<1> HIDE DEF a
<1>9. n <= a
  BY ONLY <1>8, n \in Nat
<1> QED BY <1>5, <1>6, <1>8, <1>9 DEF a

\* Orders, moduli and roots.
LEMMA RingOf ==
  ASSUME NEW r \in Rings
  PROVE  /\ r.order \in Nat \ {0} /\ r.order # 1 /\ 2 * r.order \in Nat \ {0} /\ 2 * r.order <= 2^W
         /\ r.modulus \in Nat \ {0, 1} /\ r.modulus \in Word /\ BarrettModulus(r.modulus)
         /\ r.root \in 0 .. r.modulus - 1 /\ r.root \in Nat
         /\ Power(r.root, 2 * r.order, r.modulus) = 1
         /\ \A k \in 1 .. 2 * r.order - 1 : Power(r.root, k, r.modulus) # 1
         /\ NttDim(r.order) \in Nat \ {0} /\ 2 * r.order - 1 <= NttDim(r.order)
         /\ r.bigMod \in Nat /\ r.order * r.modulus * r.modulus < r.bigMod
         /\ \A x \in 1 .. r.modulus - 1 : HasInverse(x, r.modulus)
         /\ HasInverse(r.order % r.modulus, r.modulus)
<1> DEFINE o == r.order
           m == r.modulus
           z == r.root
           B == r.bigMod
<1>1. /\ o \in Nat \ {0} /\ o # 1 /\ 2 * o <= 2^W
      /\ BarrettModulus(m) /\ \A x \in 1 .. m - 1 : HasInverse(x, m)
      /\ HasInverse(o % m, m)
      /\ z \in 0 .. m - 1 /\ OfOrder(z, 2 * o, m)
      /\ B \in Nat /\ B > o * m * m
  BY ArbAssumption
<1>2. m \in Nat \ {0, 1} /\ m \in Word
  <2>1. GetMSB(m) - 2 = GetMSB(m) - 2
    OBVIOUS
  <2>2. m \in Nat \ {0} /\ m \in Word /\ 2 * 2^(GetMSB(m) - 2) <= m /\ 2^(GetMSB(m) - 2) \in Nat \ {0}
    BY ONLY <1>1, ModulusPowers
  <2> DEFINE a == 2^(GetMSB(m) - 2)
  <2>3. a \in Nat \ {0} /\ 2 * a <= m /\ m \in Nat \ {0}
    BY <2>2
  <2> HIDE DEF a, m
  <2> QED BY ONLY <2>2, <2>3
<1>3. /\ Power(z, 2 * o, m) = 1 /\ \A k \in 1 .. 2 * o - 1 : Power(z, k, m) # 1
  BY ONLY <1>1 DEF OfOrder
<1>4. NttDim(o) \in Nat \ {0} /\ 2 * o - 1 <= NttDim(o)
  <2> DEFINE n == 2 * o - 1
  <2>1. n \in Nat \ {0} /\ n <= 2^W
    <3>1. 2^W \in Nat
      BY WordSize
    <3> DEFINE a == 2^W
    <3>2. a \in Nat /\ 2 * o <= a
      BY <1>1, <3>1
    <3> HIDE DEF a, o
    <3>3. n \in Nat \ {0} /\ n <= a
      BY ONLY <1>1, <3>2
    <3> QED BY <3>3 DEF a
  <2>2. NttDim(o) = PowerAbove(n)
    BY DEF NttDim
  <2> HIDE DEF n
  <2>3. PowerAbove(n) \in Nat \ {0} /\ n <= PowerAbove(n)
    BY ONLY <2>1, PowerAboveFound
  <2> QED BY <2>2, <2>3 DEF n
<1> HIDE DEF o, m, z, B
<1>5. 2 * o \in Nat \ {0} /\ z \in Nat /\ o * m * m < B
  <2>1. o * m * m \in Int
    BY ONLY <1>1, <1>2
  <2> QED BY ONLY <1>1, <1>2, <2>1
<1> QED BY ONLY <1>1, <1>2, <1>3, <1>4, <1>5 DEF o, m, z, B

-----------------------------------------------------------------------------
(* The totatives of an order, and their places in the list.                *)

\* An order has finitely many totatives, at most as many as it is.
LEMMA TotativesFinite ==
  ASSUME NEW o \in Nat
  PROVE  /\ Totatives(o) \subseteq 0 .. o - 1 /\ IsFiniteSet(Totatives(o))
         /\ Totient(o) \in Nat /\ Totient(o) <= o
         /\ \A k : IsFiniteSet({j \in Totatives(o) : j < k}) /\ Place(k, o) \in Nat
<1>1. Totatives(o) \subseteq 0 .. o - 1
  BY DEF Totatives
<1>2. IsFiniteSet(0 .. o - 1) /\ Cardinality(0 .. o - 1) = o
  <2>1. 0 \in Int /\ o - 1 \in Int
    OBVIOUS
  <2>2. IsFiniteSet(0 .. o - 1) /\ Cardinality(0 .. o - 1) = IF 0 > o - 1 THEN 0 ELSE (o - 1) - 0 + 1
    BY ONLY <2>1, FS_Interval
  <2> QED BY <2>2
<1>3. IsFiniteSet(Totatives(o)) /\ Cardinality(Totatives(o)) <= o
  BY <1>1, <1>2, FS_Subset
<1>4. Cardinality(Totatives(o)) \in Nat
  BY <1>3, FS_CardinalityType
<1>5. ASSUME NEW k PROVE IsFiniteSet({j \in Totatives(o) : j < k}) /\ Place(k, o) \in Nat
  <2> DEFINE S == {j \in Totatives(o) : j < k}
  <2>1. S \in SUBSET Totatives(o)
    OBVIOUS
  <2>2. IsFiniteSet(S)
    BY ONLY <1>3, <2>1, FS_Subset
  <2>3. Cardinality(S) \in Nat
    BY ONLY <2>2, FS_CardinalityType
  <2> QED BY <2>2, <2>3 DEF Place
<1> QED BY <1>1, <1>3, <1>4, <1>5 DEF Totient

\* Places count the totatives one by one.
LEMMA PlacesCount ==
  ASSUME NEW o \in Nat
  PROVE  /\ Place(0, o) = 0 /\ Place(o, o) = Totient(o)
         /\ \A k \in Nat : Place(k + 1, o) = IF k \in Totatives(o) THEN Place(k, o) + 1 ELSE Place(k, o)
<1> DEFINE T == Totatives(o)
<1>1. T \subseteq 0 .. o - 1 /\ \A k : IsFiniteSet({j \in T : j < k})
  BY TotativesFinite
<1>5. \A j \in T : j \in Int
  BY <1>1
<1>2. Place(0, o) = 0
  <2>1. {j \in T : j < 0} = {}
    BY <1>1
  <2> QED BY <2>1, FS_EmptySet DEF Place
<1>3. Place(o, o) = Totient(o)
  <2>1. {j \in T : j < o} = T
    BY <1>1
  <2> QED BY <2>1 DEF Place, Totient
<1>4. ASSUME NEW k \in Nat
      PROVE  Place(k + 1, o) = IF k \in T THEN Place(k, o) + 1 ELSE Place(k, o)
  <2> DEFINE A == {j \in T : j < k}
             C == {j \in T : j < k + 1}
  <2>1. CASE k \in T
    <3>1. C = A \cup {k} /\ k \notin A
      <4>1. \A j \in T : j < k + 1 <=> j < k \/ j = k
        BY ONLY <1>5, k \in Nat
      <4>2. ~(k < k)
        OBVIOUS
      <4> HIDE DEF T
      <4> QED BY ONLY <4>1, <4>2, <2>1
    <3>2. Cardinality(A \cup {k}) = Cardinality(A) + 1
      <4>1. IsFiniteSet(A)
        BY <1>1
      <4> QED BY ONLY <3>1, <4>1, FS_AddElement
    <3> QED BY <2>1, <3>1, <3>2 DEF Place
  <2>2. CASE k \notin T
    <3>1. C = A
      <4>1. \A j \in T : j < k + 1 <=> j < k
        <5>1. \A j \in T : j # k
          BY <2>2
        <5> QED BY ONLY <1>5, <5>1, k \in Nat
      <4> HIDE DEF T
      <4> QED BY ONLY <4>1
    <3> QED BY <2>2, <3>1 DEF Place
  <2> QED BY <2>1, <2>2
<1> QED BY <1>2, <1>3, <1>4

\* Different totatives have different places, and each index has a totative.
LEMMA ListOfTotatives ==
  ASSUME NEW o \in Nat
  PROVE  /\ TotientList(o) \in [0 .. Totient(o) - 1 -> Totatives(o)]
         /\ \A k \in Totatives(o) : Place(k, o) \in 0 .. Totient(o) - 1 /\ TotientList(o)[Place(k, o)] = k
         /\ \A i \in 0 .. Totient(o) - 1 : Place(TotientList(o)[i], o) = i
<1> DEFINE T == Totatives(o)
           n == Totient(o)
           P(k) == Place(k, o)
<1>1. T \subseteq 0 .. o - 1 /\ n \in Nat /\ \A k : P(k) \in Nat
  BY TotativesFinite
<1>2. P(0) = 0 /\ P(o) = n /\ \A k \in Nat : P(k + 1) = IF k \in T THEN P(k) + 1 ELSE P(k)
  BY PlacesCount
<1>3. TotientList(o) = [i \in 0 .. n - 1 |-> CHOOSE k \in T : P(k) = i]
  BY DEF TotientList
<1> HIDE DEF T, n, P
<1>4. ASSUME NEW i \in 0 .. n - 1 PROVE \E k \in T : P(k) = i
  <2> DEFINE S == {k \in Nat : P(k) <= i \/ \E j \in T : P(j) = i}
  <2>1. 0 \in S
    BY <1>2
  <2>2. ASSUME NEW k \in Nat, k \in S PROVE k + 1 \in S
    <3>1. P(k) \in Nat /\ P(k + 1) = (IF k \in T THEN P(k) + 1 ELSE P(k))
      BY <1>1, <1>2
    <3>2. CASE P(k) <= i /\ k \in T /\ P(k) = i
      BY <3>2
    <3>3. CASE P(k) <= i /\ ~(k \in T /\ P(k) = i)
      <4>1. P(k + 1) <= i
        BY ONLY <3>1, <3>3, i \in 0 .. n - 1, <1>1
      <4> QED BY <4>1
    <3>4. CASE \E j \in T : P(j) = i
      BY <3>4
    <3> QED BY <2>2, <3>2, <3>3, <3>4
  <2>3. Nat \subseteq S
    <3> HIDE DEF S
    <3> QED BY ONLY <2>1, <2>2, Induction
  <2>4. ~(P(o) <= i)
    BY <1>1, <1>2
  <2> QED BY <2>3, <2>4
<1>5. ASSUME NEW k \in T, NEW j \in Nat PROVE P(k) + 1 <= P(k + 1 + j)
  <2> DEFINE S == {i \in Nat : P(k) + 1 <= P(k + 1 + i)}
  <2>1. k \in Nat
    BY <1>1
  <2>2. 0 \in S
    <3>1. P(k + 1) = P(k) + 1 /\ k + 1 + 0 = k + 1 /\ P(k) \in Nat
      BY <1>1, <1>2, <2>1
    <3> QED BY <3>1
  <2>3. ASSUME NEW i \in Nat, i \in S PROVE i + 1 \in S
    <3> DEFINE a == k + 1 + i
    <3>1. a \in Nat /\ a + 1 = k + 1 + (i + 1)
      BY <2>1
    <3>2. P(a) \in Nat /\ P(k) \in Nat /\ P(a + 1) = (IF a \in T THEN P(a) + 1 ELSE P(a)) /\ P(k) + 1 <= P(a)
      BY <1>1, <1>2, <2>3, <3>1
    <3> HIDE DEF a
    <3>3. P(k) + 1 <= P(a + 1)
      BY ONLY <3>2
    <3> QED BY <3>1, <3>3
  <2>4. Nat \subseteq S
    <3> HIDE DEF S
    <3> QED BY ONLY <2>2, <2>3, Induction
  <2> QED BY <2>4
<1>6. ASSUME NEW k \in T, NEW j \in T, P(k) = P(j) PROVE k = j
  <2>1. k \in Nat /\ j \in Nat /\ P(k) \in Nat /\ P(j) \in Nat
    BY <1>1
  <2>2. CASE k < j
    <3>1. j - (k + 1) \in Nat /\ k + 1 + (j - (k + 1)) = j
      BY ONLY <2>1, <2>2
    <3>2. P(k) + 1 <= P(k + 1 + (j - (k + 1)))
      BY ONLY <1>5, <3>1, k \in T
    <3>3. P(k) + 1 <= P(j)
      BY ONLY <3>1, <3>2
    <3> QED BY ONLY <1>6, <2>1, <3>3
  <2>3. CASE j < k
    <3>1. k - (j + 1) \in Nat /\ j + 1 + (k - (j + 1)) = k
      BY ONLY <2>1, <2>3
    <3>2. P(j) + 1 <= P(j + 1 + (k - (j + 1)))
      BY ONLY <1>5, <3>1, j \in T
    <3>3. P(j) + 1 <= P(k)
      BY ONLY <3>1, <3>2
    <3> QED BY ONLY <1>6, <2>1, <3>3
  <2> QED BY <2>1, <2>2, <2>3
<1>7. ASSUME NEW k \in T PROVE P(k) \in 0 .. n - 1
  <2>1. k \in 0 .. o - 1 /\ o - (k + 1) \in Nat /\ k + 1 + (o - (k + 1)) = o
    BY <1>1
  <2>2. P(k) + 1 <= P(o)
    BY <1>5, <2>1
  <2> QED BY <1>1, <1>2, <2>2
<1>8. \A i \in 0 .. n - 1 : TotientList(o)[i] \in T /\ P(TotientList(o)[i]) = i
  <2>1. \A i \in 0 .. n - 1 : TotientList(o)[i] = CHOOSE k \in T : P(k) = i
    BY <1>3
  <2> QED BY ONLY <1>4, <2>1
<1>9. \A k \in T : TotientList(o)[P(k)] = k
  BY ONLY <1>6, <1>7, <1>8
<1>10. TotientList(o) \in [0 .. n - 1 -> T]
  BY ONLY <1>3, <1>8
<1> QED BY <1>7, <1>8, <1>9, <1>10 DEF T, n, P

\* Fewer totatives than the order, from two on.
LEMMA TotientBelow ==
  ASSUME NEW o \in Nat \ {0, 1}
  PROVE  Totient(o) \in Nat /\ Totient(o) < o /\ \A k \in Totatives(o) : k \in 1 .. o - 1 /\ k \in Nat
<1>1. /\ Totatives(o) \subseteq 0 .. o - 1 /\ IsFiniteSet(Totatives(o)) /\ Totient(o) \in Nat
  BY TotativesFinite
<1>2. 0 \notin Totatives(o)
  <2>1. o \in 2 .. o /\ o % o = 0 /\ 0 % o = 0
    OBVIOUS
  <2> QED BY ONLY <2>1 DEF Totatives
<1>3. Totatives(o) \subseteq 1 .. o - 1
  BY <1>1, <1>2
<1>4. IsFiniteSet(1 .. o - 1) /\ Cardinality(1 .. o - 1) = o - 1
  <2>1. IF 1 <= o - 1 THEN Cardinality(1 .. o - 1) = (o - 1) - 1 + 1 ELSE Cardinality(1 .. o - 1) = 0
    BY FS_Interval
  <2> QED BY <2>1, FS_Interval
<1>5. Totient(o) <= o - 1
  BY <1>3, <1>4, FS_Subset DEF Totient
<1> QED BY ONLY <1>1, <1>3, <1>5, o \in Nat \ {0, 1}

\* One is a totative.
LEMMA OneIsTotative ==
  ASSUME NEW o \in Nat \ {0, 1}
  PROVE  1 \in Totatives(o)
<1>1. 1 \in 0 .. o - 1 /\ \A d \in 2 .. o : 1 % d # 0
  <2>1. \A d \in 2 .. o : d \in Nat \ {0} /\ 1 \in Nat /\ 1 < d
    OBVIOUS
  <2>2. \A d \in 2 .. o : 1 % d = 1
    BY ONLY <2>1, Residues
  <2> QED BY <2>2
<1> QED BY ONLY <1>1 DEF Totatives

\* The totatives of an even order are odd, not its half, and as many above as
\* below it.
LEMMA EvenOrder ==
  ASSUME NEW p \in Nat \ {0, 1}
  PROVE  LET o == 2 * p
         IN  /\ \A k \in Totatives(o) : k \in Nat /\ k % 2 = 1 /\ k # p
             /\ Totient(o) % 2 = 0
<1> DEFINE o == 2 * p
           T == Totatives(o)
           L == {k \in T : k < p}
           U == {k \in T : p < k}
           f == [k \in L |-> o - k]
<1>1. o \in Nat /\ o \in Nat \ {0, 1} /\ 2 \in 2 .. o /\ p \in 2 .. o /\ o % 2 = 0
  OBVIOUS
<1>2. o % p = 0 /\ p % p = 0
  <2>1. o = 2 * p + 0 /\ p = 1 * p + 0 /\ 0 \in 0 .. p - 1 /\ p \in Nat \ {0} /\ p \in Int /\ o \in Int /\ 2 \in Int /\ 1 \in Int
    OBVIOUS
  <2> HIDE DEF o
  <2> QED BY ONLY <2>1, DivUnique
<1>3. T \subseteq 0 .. o - 1 /\ IsFiniteSet(T)
  BY <1>1, TotativesFinite
<1> HIDE DEF o
<1>4. \A k \in T : k \in Nat /\ k < o /\ k % 2 = 1 /\ k # p
  <2> SUFFICES ASSUME NEW k \in T PROVE k \in Nat /\ k < o /\ k % 2 = 1 /\ k # p
    OBVIOUS
  <2>1. k \in 0 .. o - 1
    BY ONLY <1>3, k \in T
  <2>2. \A d \in 2 .. o : ~(o % d = 0 /\ k % d = 0)
    BY DEF Totatives
  <2>3. k % 2 # 0 /\ k % p # 0
    BY ONLY <1>1, <1>2, <2>2
  <2>4. k \in Nat /\ k < o
    BY ONLY <1>1, <2>1
  <2>5. k % 2 = 1
    BY ONLY <2>3, <2>4
  <2> QED BY ONLY <1>2, <2>3, <2>4, <2>5
<1>5. ASSUME NEW k \in T PROVE o - k \in T
  <2>1. k \in Nat /\ k < o /\ k # 0 /\ o - k \in 0 .. o - 1
    <3>1. k \in Nat /\ k < o /\ k % 2 = 1
      BY ONLY <1>4, k \in T
    <3>2. k # 0
      BY ONLY <3>1, 0 % 2 = 0
    <3> QED BY ONLY <1>1, <3>1, <3>2
  <2>2. ASSUME NEW d \in 2 .. o, o % d = 0, (o - k) % d = 0 PROVE FALSE
    <3>1. d \in Nat \ {0} /\ d \in Nat \ {0, 1} /\ 0 % d = 0
      BY ONLY <1>1, d \in 2 .. o
    <3>2. Congruent(o, 0, d) /\ Congruent(o - k, 0, d)
      BY ONLY <2>2, <3>1 DEF Congruent
    <3>3. Congruent(o - (o - k), 0 - 0, d)
      <4>1. o \in Int /\ o - k \in Int /\ 0 \in Int
        BY ONLY <1>1, <2>1
      <4> QED BY ONLY <3>1, <3>2, <4>1, CongruentDifference
    <3>4. o - (o - k) = k /\ 0 - 0 = 0
      BY ONLY <1>1, <2>1
    <3>5. k % d = 0
      BY ONLY <3>1, <3>3, <3>4 DEF Congruent
    <3>6. \A c \in 2 .. o : ~(o % c = 0 /\ k % c = 0)
      BY DEF Totatives
    <3> QED BY ONLY <2>2, <3>5, <3>6, d \in 2 .. o
  <2> QED BY ONLY <2>1, <2>2 DEF Totatives
<1>6. o = 2 * p /\ p \in Nat
  BY DEF o
<1> HIDE DEF T
<1>7. f \in Bijection(L, U)
  <2>1. \A k \in L : k \in T /\ k \in Nat /\ k < p /\ f[k] = o - k
    BY ONLY <1>4
  <2>2. \A k \in U : k \in T /\ k \in Nat /\ p < k
    BY ONLY <1>4
  <2> HIDE DEF f
  <2>3. \A k \in L : o - k \in U
    <3> SUFFICES ASSUME NEW k \in L PROVE o - k \in U
      OBVIOUS
    <3>1. k \in T /\ k \in Nat /\ k < p
      BY ONLY <2>1
    <3>2. p < o - k
      BY ONLY <1>6, <3>1
    <3> QED BY ONLY <1>5, <3>1, <3>2
  <2>4. f \in [L -> U]
    <3>1. f = [k \in L |-> o - k]
      BY DEF f
    <3> QED BY ONLY <2>3, <3>1
  <2>5. \A a, b \in L : f[a] = f[b] => a = b
    <3> SUFFICES ASSUME NEW a \in L, NEW b \in L, f[a] = f[b] PROVE a = b
      OBVIOUS
    <3>1. a \in Nat /\ b \in Nat /\ o - a = o - b
      BY ONLY <2>1, f[a] = f[b]
    <3> QED BY ONLY <1>1, <3>1
  <2>6. \A u \in U : \E k \in L : f[k] = u
    <3> SUFFICES ASSUME NEW u \in U PROVE \E k \in L : f[k] = u
      OBVIOUS
    <3>1. u \in T /\ u \in Nat /\ p < u
      BY ONLY <2>2
    <3>2. o - u \in T /\ o - u < p /\ o - (o - u) = u
      BY ONLY <1>5, <1>6, <3>1
    <3>3. o - u \in L
      BY ONLY <3>2
    <3>4. f[o - u] = o - (o - u)
      BY ONLY <2>1, <3>3
    <3> QED BY ONLY <3>2, <3>3, <3>4
  <2> HIDE DEF L, U
  <2>7. DOMAIN f = L
    BY ONLY <2>4
  <2>8. IsInjective(f)
    BY ONLY <2>5, <2>7, Zenon DEF IsInjective
  <2> QED BY ONLY <2>4, <2>6, <2>8, Zenon DEF Bijection, Injection, Surjection
<1>8. IsFiniteSet(L) /\ IsFiniteSet(U) /\ Cardinality(U) = Cardinality(L) /\ Cardinality(L) \in Nat
  <2>1. L \subseteq T
    OBVIOUS
  <2> HIDE DEF L, U, f
  <2>2. IsFiniteSet(L) /\ ExistsBijection(L, U)
    BY <1>3, <1>7, <2>1, FS_Subset DEF ExistsBijection
  <2> QED BY <2>2, FS_Bijection, FS_CardinalityType
<1>9. T = L \cup U /\ L \cap U = {}
  <2>1. \A k \in T : k < p \/ p < k
    BY ONLY <1>4, <1>6
  <2>2. \A k \in T : ~(k < p /\ p < k)
    BY ONLY <1>4, <1>6
  <2> QED BY ONLY <2>1, <2>2
<1>10. Cardinality(T) = 2 * Cardinality(L)
  <2> HIDE DEF L, U
  <2>1. Cardinality(L \cup U) = Cardinality(L) + Cardinality(U) - Cardinality(L \cap U)
    BY <1>8, FS_Union
  <2>2. Cardinality({}) = 0
    BY FS_EmptySet
  <2> DEFINE c == Cardinality(L)
  <2>3. c \in Nat /\ Cardinality(T) = c + c - 0
    BY ONLY <1>8, <1>9, <2>1, <2>2
  <2> HIDE DEF c
  <2>4. Cardinality(T) = 2 * c
    BY ONLY <2>3
  <2> QED BY ONLY <2>4 DEF c
<1>11. Cardinality(T) % 2 = 0
  <2> DEFINE c == Cardinality(L)
  <2>1. c \in Nat /\ Cardinality(T) = 2 * c
    BY <1>8, <1>10
  <2> HIDE DEF c
  <2>2. (2 * c) % 2 = 0
    BY ONLY <2>1
  <2> QED BY ONLY <2>1, <2>2
<1> QED BY ONLY <1>4, <1>11 DEF Totient, T, o

-----------------------------------------------------------------------------
(* Roots and their powers.                                                 *)

\* The roots a ring is transformed with.
Roots(r) == {r.root, RootInverse(r)}

\* A root of order 2 * o, with its inverse.
RootWithInverse(x, y, o, m) ==
  /\ x \in 0 .. m - 1 /\ y \in 0 .. m - 1 /\ (x * y) % m = 1
  /\ Power(x, 2 * o, m) = 1 /\ \A k \in 1 .. 2 * o - 1 : Power(x, k, m) # 1

\* The inverse of a root has its order.
LEMMA InverseOrder ==
  ASSUME NEW m \in Nat \ {0, 1}, NEW o \in Nat \ {0}, NEW x, NEW y, RootWithInverse(x, y, o, m)
  PROVE  RootWithInverse(y, x, o, m)
<1>1. x \in Nat /\ y \in Nat /\ x \in 0 .. m - 1 /\ y \in 0 .. m - 1 /\ (x * y) % m = 1
  BY DEF RootWithInverse
<1>2. x * y = y * x
  BY ONLY <1>1
<1>3. \A k \in Nat : (Power(x, k, m) * Power(y, k, m)) % m = 1
  BY ONLY <1>1, InversePowers, m \in Nat \ {0, 1}
<1>4. \A k \in Nat : Power(x, k, m) \in 0 .. m - 1 /\ Power(y, k, m) \in 0 .. m - 1
  BY ONLY <1>1, PowerSteps, m \in Nat \ {0, 1}
<1>5. ASSUME NEW k \in Nat PROVE Power(x, k, m) = 1 <=> Power(y, k, m) = 1
  <2> DEFINE a == Power(x, k, m)
             b == Power(y, k, m)
  <2>1. a \in 0 .. m - 1 /\ b \in 0 .. m - 1 /\ (a * b) % m = 1
    BY <1>3, <1>4
  <2> HIDE DEF a, b
  <2>2. \A u \in 0 .. m - 1 : u % m = u
    BY ONLY Remainders, m \in Nat \ {0}
  <2>3. a = 1 => b = 1
    <3>1. a = 1 => a * b = b
      BY ONLY <2>1
    <3> QED BY ONLY <2>1, <2>2, <3>1
  <2>4. b = 1 => a = 1
    <3>1. b = 1 => a * b = a
      BY ONLY <2>1
    <3> QED BY ONLY <2>1, <2>2, <3>1
  <2> QED BY <2>3, <2>4 DEF a, b
<1>6. 2 * o \in Nat /\ \A k \in 1 .. 2 * o - 1 : k \in Nat
  OBVIOUS
<1> QED BY <1>1, <1>2, <1>5, <1>6 DEF RootWithInverse

\* Both roots of a ring have the order of the ring, and an inverse.
LEMMA RootsOfRing ==
  ASSUME NEW r \in Rings, NEW x \in Roots(r)
  PROVE  /\ RootWithInverse(x, InverseOf(x, r.modulus), r.order, r.modulus)
         /\ RootWithInverse(r.root, RootInverse(r), r.order, r.modulus)
<1> DEFINE o == r.order
           m == r.modulus
           z == r.root
           y == RootInverse(r)
<1>1. /\ o \in Nat \ {0} /\ m \in Nat \ {0, 1} /\ z \in 0 .. m - 1 /\ z \in Nat
      /\ Power(z, 2 * o, m) = 1 /\ \A k \in 1 .. 2 * o - 1 : Power(z, k, m) # 1
  BY RingOf
<1>2. y = InverseOf(z, m)
  BY DEF RootInverse
<1> HIDE DEF o, m, z, y
<1>3. HasInverse(z, m)
  <2> DEFINE k == 2 * o - 1
             b == Power(z, k, m)
  <2>1. k \in Nat /\ k + 1 = 2 * o
    BY ONLY <1>1
  <2> HIDE DEF k
  <2>2. b \in 0 .. m - 1 /\ Power(z, k + 1, m) = (b * z) % m
    BY ONLY <1>1, <2>1, PowerSteps
  <2> HIDE DEF b
  <2>3. b * z = z * b
    BY ONLY <1>1, <2>2
  <2>4. (z * b) % m = 1
    BY ONLY <1>1, <2>1, <2>2, <2>3
  <2> QED BY ONLY <2>2, <2>4 DEF HasInverse
<1>4. y \in 0 .. m - 1 /\ (z * y) % m = 1
  BY ONLY <1>2, <1>3 DEF HasInverse, InverseOf
<1>5. RootWithInverse(z, y, o, m)
  BY ONLY <1>1, <1>4 DEF RootWithInverse
<1>6. RootWithInverse(y, z, o, m)
  BY ONLY <1>1, <1>5, InverseOrder
<1>7. ASSUME NEW u, NEW v, RootWithInverse(u, v, o, m) PROVE RootWithInverse(u, InverseOf(u, m), o, m)
  <2>1. HasInverse(u, m)
    BY ONLY <1>7 DEF RootWithInverse, HasInverse
  <2>2. InverseOf(u, m) \in 0 .. m - 1 /\ (u * InverseOf(u, m)) % m = 1
    BY ONLY <2>1 DEF HasInverse, InverseOf
  <2> QED BY ONLY <1>7, <2>2 DEF RootWithInverse
<1>8. x = z \/ x = y
  BY DEF Roots, z, y
<1>9. RootWithInverse(x, InverseOf(x, m), o, m)
  BY ONLY <1>5, <1>6, <1>7, <1>8
<1> QED BY <1>5, <1>9 DEF o, m, z, y

\* A modulus and a root determine the order, which is in no key.
LEMMA KeysDetermineOrder ==
  ASSUME NEW r \in Rings, NEW s \in Rings, NEW x \in Roots(r), NEW y \in Roots(s),
         ModulusRoot(r.modulus, x) = ModulusRoot(s.modulus, y)
  PROVE  r.modulus = s.modulus /\ x = y /\ r.order = s.order
<1>1. r.modulus = s.modulus /\ x = y
  BY DEF ModulusRoot
<1> DEFINE m == r.modulus
           a == r.order
           b == s.order
<1>2. /\ Power(x, 2 * a, m) = 1 /\ \A k \in 1 .. 2 * a - 1 : Power(x, k, m) # 1
      /\ Power(x, 2 * b, m) = 1 /\ \A k \in 1 .. 2 * b - 1 : Power(x, k, m) # 1
  BY <1>1, RootsOfRing DEF RootWithInverse
<1>3. a \in Nat \ {0} /\ b \in Nat \ {0}
  BY RingOf
<1> HIDE DEF m, a, b
<1>4. ~(a < b)
  <2>1. a < b => 2 * a \in 1 .. 2 * b - 1
    BY ONLY <1>3
  <2> QED BY ONLY <1>2, <2>1
<1>5. ~(b < a)
  <2>1. b < a => 2 * b \in 1 .. 2 * a - 1
    BY ONLY <1>3
  <2> QED BY ONLY <1>2, <2>1
<1>6. a = b
  BY ONLY <1>3, <1>4, <1>5
<1> QED BY <1>1, <1>6 DEF a, b

\* Powers of a root and its inverse, with exponents that are not reduced.
LEMMA RootPowers ==
  ASSUME NEW m \in Nat \ {0, 1}, NEW o \in Nat \ {0}, NEW x, NEW y, RootWithInverse(x, y, o, m)
  PROVE  /\ x \in Nat /\ y \in Nat
         /\ \A e \in Nat : Power(x, e % (2 * o), m) = Power(x, e, m)
         /\ \A e \in Nat : Power(y, e % (2 * o), m) = Power(y, e, m)
         /\ \A e \in Nat : Power(x, e, m) \in 0 .. m - 1 /\ Power(x, e, m) \in Int
         /\ \A e \in Nat : Power(y, e, m) \in 0 .. m - 1 /\ Power(y, e, m) \in Int
         /\ \A e, f \in Nat : Congruent(Power(x, e + f, m), Power(x, e, m) * Power(x, f, m), m)
         /\ \A e \in Nat : Congruent(Power(x, e, m) * Power(y, e, m), 1, m)
<1>1. /\ x \in Nat /\ y \in Nat /\ 2 * o \in Nat \ {0} /\ Power(x, 2 * o, m) = 1 /\ (x * y) % m = 1
  BY DEF RootWithInverse
<1>2. Power(y, 2 * o, m) = 1
  <2>1. RootWithInverse(y, x, o, m)
    BY InverseOrder
  <2> QED BY <2>1 DEF RootWithInverse
<1>3. \A e \in Nat : (Power(x, e, m) * Power(y, e, m)) % m = 1
  BY ONLY <1>1, InversePowers, m \in Nat \ {0, 1}
<1>4. \A e \in Nat : Power(x, e, m) \in 0 .. m - 1 /\ Power(y, e, m) \in 0 .. m - 1
  BY ONLY <1>1, PowerSteps, m \in Nat \ {0, 1}
<1>5. \A e \in Nat : Power(x, e, m) \in Int /\ Power(y, e, m) \in Int
  BY ONLY <1>4, m \in Nat
<1>6. \A e, f \in Nat : Power(x, e + f, m) = (Power(x, e, m) * Power(x, f, m)) % m
  BY ONLY <1>1, PowerSum, m \in Nat \ {0, 1}
<1>7. \A e, f \in Nat : Congruent(Power(x, e + f, m), Power(x, e, m) * Power(x, f, m), m)
  <2>1. \A g \in Int : Congruent(g % m, g, m)
    BY ONLY CongruentRelation, m \in Nat \ {0, 1}
  <2>2. \A e, f \in Nat : Power(x, e, m) * Power(x, f, m) \in Int
    BY ONLY <1>5, ProductInteger
  <2> QED BY ONLY <1>6, <2>1, <2>2
<1>8. \A e \in Nat : Congruent(Power(x, e, m) * Power(y, e, m), 1, m)
  <2>1. 1 % m = 1
    <3>1. \A u \in 0 .. m - 1 : u % m = u
      BY ONLY Remainders, m \in Nat \ {0, 1}
    <3>2. 1 \in 0 .. m - 1
      BY ONLY m \in Nat \ {0, 1}
    <3> QED BY ONLY <3>1, <3>2
  <2> QED BY ONLY <1>3, <2>1 DEF Congruent
<1>9. /\ \A e \in Nat : Power(x, e % (2 * o), m) = Power(x, e, m)
      /\ \A e \in Nat : Power(y, e % (2 * o), m) = Power(y, e, m)
  BY ONLY <1>1, <1>2, PowersRepeat, m \in Nat \ {0, 1}
<1> QED BY <1>1, <1>4, <1>5, <1>7, <1>8, <1>9

\* A root of order 2 * o: its power o is minus one.
LEMMA HalfTurn ==
  ASSUME NEW m, Field(m), NEW o \in Nat \ {0}, NEW x, NEW y, RootWithInverse(x, y, o, m)
  PROVE  Congruent(Power(x, o, m), -1, m)
<1> DEFINE a == Power(x, o, m)
<1>1. m \in Nat \ {0, 1} /\ m \in Nat \ {0} /\ 0 \in Int /\ 1 \in Int /\ o \in Nat /\ o + o = 2 * o
      /\ o \in 1 .. 2 * o - 1 /\ 1 \in 0 .. m - 1
  BY DEF Field
<1>2. x \in Nat /\ Power(x, 2 * o, m) = 1 /\ a # 1
  <2>1. x \in 0 .. m - 1 /\ Power(x, 2 * o, m) = 1 /\ \A k \in 1 .. 2 * o - 1 : Power(x, k, m) # 1
    BY DEF RootWithInverse
  <2> QED BY ONLY <1>1, <2>1
<1>3. a \in 0 .. m - 1
  BY ONLY <1>1, <1>2, PowerSteps
<1>4. Power(x, 2 * o, m) = (a * a) % m
  BY ONLY <1>1, <1>2, PowerSum
<1> HIDE DEF a
<1>5. a \in Int /\ a * a \in Int /\ a - 1 \in Int /\ a + 1 \in Int /\ (a - 1) * (a + 1) = a * a - 1
  BY ONLY <1>1, <1>3
<1>6. Congruent(a * a, 1, m)
  <2>1. 1 % m = 1
    BY ONLY <1>1, Remainders
  <2> QED BY ONLY <1>2, <1>4, <2>1 DEF Congruent
<1>7. Congruent((a - 1) * (a + 1), 0, m)
  <2>1. Congruent(1, 1, m)
    BY ONLY <1>1, CongruentRelation
  <2> DEFINE b == a * a
  <2>2. b \in Int /\ Congruent(b, 1, m)
    BY ONLY <1>5, <1>6
  <2> HIDE DEF b
  <2>3. Congruent(b - 1, 1 - 1, m)
    BY ONLY <1>1, <2>1, <2>2, CongruentDifference
  <2>4. 1 - 1 = 0
    OBVIOUS
  <2> QED BY ONLY <1>5, <2>3, <2>4 DEF b
<1>8. ~Congruent(a - 1, 0, m)
  <2>1. SUFFICES ASSUME Congruent(a - 1, 0, m) PROVE FALSE
    OBVIOUS
  <2>2. Congruent(1, 1, m)
    BY ONLY <1>1, CongruentRelation
  <2>3. Congruent((a - 1) + 1, 0 + 1, m)
    BY ONLY <1>1, <1>5, <2>1, <2>2, CongruentSum
  <2>4. (a - 1) + 1 = a /\ 0 + 1 = 1
    BY ONLY <1>5
  <2>5. Congruent(a, 1, m)
    BY ONLY <2>3, <2>4
  <2>6. a = 1
    BY ONLY <1>1, <1>3, <2>5, CongruentRelation
  <2> QED BY ONLY <1>2, <2>6
<1>9. Congruent(a + 1, 0, m)
  <2> DEFINE b == a - 1
             c == a + 1
  <2>1. b \in Int /\ c \in Int /\ Congruent(b * c, 0, m) /\ ~Congruent(b, 0, m)
    BY ONLY <1>5, <1>7, <1>8
  <2> HIDE DEF b, c
  <2>2. Congruent(c, 0, m)
    BY ONLY <2>1, NoZeroDivisors, Field(m)
  <2> QED BY ONLY <2>2 DEF c
<1>10. Congruent(a, -1, m)
  <2>1. Congruent(1, 1, m)
    BY ONLY <1>1, CongruentRelation
  <2>2. Congruent((a + 1) - 1, 0 - 1, m)
    BY ONLY <1>1, <1>5, <1>9, <2>1, CongruentDifference
  <2>3. (a + 1) - 1 = a /\ 0 - 1 = -1
    BY ONLY <1>5
  <2> QED BY ONLY <2>2, <2>3
<1> QED BY ONLY <1>10 DEF a

\* A half turn after the other.
LEMMA HalfTurns ==
  ASSUME NEW m, Field(m), NEW o \in Nat \ {0}, NEW x, NEW y, RootWithInverse(x, y, o, m), NEW j \in Nat
  PROVE  /\ j % 2 = 0 => Power(x, o * j, m) = 1
         /\ j % 2 = 1 => Congruent(Power(x, o * j, m), -1, m)
<1>1. m \in Nat \ {0, 1} /\ 2 * o \in Nat \ {0} /\ 0 \in 0 .. 2 * o - 1 /\ o \in 0 .. 2 * o - 1 /\ o \in Nat
  BY DEF Field
<1>2. x \in Nat /\ \A e \in Nat : Power(x, e % (2 * o), m) = Power(x, e, m)
  BY ONLY <1>1, RootPowers, o \in Nat \ {0}, RootWithInverse(x, y, o, m)
<1>3. PICK h \in Nat, b \in 0 .. 1 : b = j % 2 /\ j = 2 * h + b
  <2>1. \E q \in Nat, s \in 0 .. 2 - 1 : q = j \div 2 /\ s = j % 2 /\ j = 2 * q + s
    BY ONLY DivSplit, j \in Nat, 2 \in Nat \ {0}
  <2> QED BY ONLY <2>1
<1> DEFINE e == o * j
           r == o * b
<1>4. e = h * (2 * o) + r /\ e \in Nat
  BY ONLY <1>1, <1>3, h \in Nat, b \in 0 .. 1
<1>5. (b = 0 => r = 0) /\ (b = 1 => r = o)
  BY ONLY <1>1
<1>6. r \in 0 .. 2 * o - 1
  BY ONLY <1>1, <1>5, b \in 0 .. 1
<1> HIDE DEF e, r
<1>7. e % (2 * o) = r
  <2> DEFINE d == 2 * o
  <2>1. d \in Nat \ {0} /\ r \in 0 .. d - 1 /\ e = h * d + r /\ e \in Int /\ h \in Int
    BY ONLY <1>1, <1>4, <1>6, h \in Nat
  <2> HIDE DEF d
  <2>2. e % d = r
    BY ONLY <2>1, DivUnique
  <2> QED BY ONLY <2>2 DEF d
<1>8. Power(x, e, m) = Power(x, r, m)
  BY ONLY <1>2, <1>4, <1>7
<1>9. Power(x, 0, m) = 1
  BY ONLY <1>1, <1>2, PowerSteps
<1>10. Congruent(Power(x, o, m), -1, m)
  BY ONLY HalfTurn, Field(m), o \in Nat \ {0}, RootWithInverse(x, y, o, m)
<1> QED BY ONLY <1>3, <1>5, <1>8, <1>9, <1>10 DEF e

\* A power of the root is one where its exponent is a multiple of the order.
LEMMA OtherThanOne ==
  ASSUME NEW m \in Nat \ {0, 1}, NEW o \in Nat \ {0}, NEW x, NEW y, RootWithInverse(x, y, o, m),
         NEW e \in 1 .. 4 * o - 1, e # 2 * o
  PROVE  Power(x, e, m) # 1
<1>1. x \in Nat /\ \A f \in Nat : Power(x, f % (2 * o), m) = Power(x, f, m)
  BY ONLY RootPowers, m \in Nat \ {0, 1}, o \in Nat \ {0}, RootWithInverse(x, y, o, m)
<1>2. \A k \in 1 .. 2 * o - 1 : Power(x, k, m) # 1
  BY DEF RootWithInverse
<1>3. CASE e < 2 * o
  <2>1. e \in 1 .. 2 * o - 1
    BY ONLY <1>3, o \in Nat \ {0}, e \in 1 .. 4 * o - 1
  <2> QED BY ONLY <1>2, <2>1
<1>4. CASE 2 * o < e
  <2> DEFINE d == 2 * o
             s == e - d
  <2>1. s \in 0 .. d - 1 /\ s \in 1 .. 2 * o - 1 /\ d \in Nat \ {0} /\ e = 1 * d + s /\ e \in Int /\ e \in Nat
    BY ONLY <1>4, o \in Nat \ {0}, e \in 1 .. 4 * o - 1
  <2> HIDE DEF s, d
  <2>2. e % d = s
    BY ONLY <2>1, 1 \in Int, DivUnique
  <2>3. Power(x, s, m) # 1
    BY ONLY <1>2, <2>1
  <2> QED BY ONLY <1>1, <2>1, <2>2, <2>3 DEF d
<1> QED BY ONLY <1>3, <1>4, o \in Nat \ {0}, e \in 1 .. 4 * o - 1, e # 2 * o

\* A primitive root of a ring.
LEMMA PrimitiveRoot ==
  ASSUME NEW m, Field(m), NEW o \in Nat \ {0}, NEW x, NEW y, RootWithInverse(x, y, o, m),
         NEW k \in 1 .. o - 1
  PROVE  LET w == Power(x, 2 * k, m)
         IN  w \in 0 .. m - 1 /\ w # 1 /\ Power(w, o, m) = 1
<1> DEFINE e == 2 * k
           w == Power(x, e, m)
<1>1. m \in Nat \ {0, 1} /\ o \in Nat /\ k \in Nat /\ e \in Nat /\ e \in 1 .. 4 * o - 1 /\ e # 2 * o /\ e * o = o * e /\ e % 2 = 0
  BY DEF Field
<1>2. x \in Nat
  BY ONLY <1>1, RootPowers, o \in Nat \ {0}, RootWithInverse(x, y, o, m)
<1> HIDE DEF e
<1>3. w # 1
  BY ONLY <1>1, OtherThanOne, o \in Nat \ {0}, RootWithInverse(x, y, o, m)
<1>4. w \in 0 .. m - 1
  BY ONLY <1>1, <1>2, PowerSteps
<1>5. Power(w, o, m) = Power(x, e * o, m)
  <2>1. m \in Nat \ {0, 1} /\ e \in Nat /\ o \in Nat
    BY ONLY <1>1
  <2>2. \A j \in Nat : Power(Power(x, e, m), j, m) = Power(x, e * j, m)
    BY ONLY <1>2, <2>1, PowerOfPower, Zenon
  <2> QED BY ONLY <2>1, <2>2, Zenon
<1>6. Power(x, o * e, m) = 1
  BY ONLY <1>1, HalfTurns, Field(m), o \in Nat \ {0}, RootWithInverse(x, y, o, m)
<1> QED BY ONLY <1>1, <1>3, <1>4, <1>5, <1>6 DEF e

-----------------------------------------------------------------------------
(* What the maps hold.                                                     *)

\* The keys a ring uses.
NttKey(r)    == ModulusRoot(r.bigMod, r.bigRoot)
OwnKey(r, x) == ModulusRoot(r.modulus, x)

\* The keys of the maps.
Domains ==
  /\ DOMAIN nttTables = NttModulusRoots /\ DOMAIN powers = ModulusRoots
  /\ DOMAIN RBTables = ModulusRoots \X NttModulusRoots
  /\ DOMAIN cycloPoly = Moduli
  /\ DOMAIN division.of = Moduli /\ DOMAIN division.tables = BigModuli
  /\ DOMAIN divisionDim = Orders

\* Tables that are filled are those of every ring with their key.
TablesOfRings ==
  \A r \in Rings :
    /\ nttTables[NttKey(r)] \in {0, NttDim(r.order)}
    /\ \A x \in Roots(r) :
         /\ powers[OwnKey(r, x)] \in {Empty, PowersTable(r.order, r.modulus, x)}
         /\ RBTables[<<OwnKey(r, x), NttKey(r)>>] \in {Empty, RBTable(r.order, r.modulus, x)}

\* The division of a ring, once its polynomial is set.
DivisionOfRing(r) ==
  [mod     |-> r.bigMod,
   reverse |-> PadZeros(InversePolyMod(r.poly, r.modulus, r.order - Totient(r.order)), DivisionDim(r.order)),
   poly    |-> PadZeros(r.poly, DivisionDim(r.order))]

\* So are the tables of the division.
DivisionOfRings ==
  \A r \in Rings : Divides(r.order) =>
    /\ division.tables[r.bigMod] # 0 =>
         division.tables[r.bigMod] = DivisionDim(r.order) /\ divisionDim[r.order] = DivisionDim(r.order)
    /\ division.of[r.modulus].mod = r.bigMod => division.of[r.modulus] = DivisionOfRing(r)

\* The tables in the maps.
TablesInv == Domains /\ TablesOfRings /\ DivisionOfRings

\* The keys of a ring are in the maps.
LEMMA KeysInMaps ==
  ASSUME NEW r \in Rings
  PROVE  /\ NttKey(r) \in NttModulusRoots /\ r.modulus \in Moduli /\ r.bigMod \in BigModuli /\ r.order \in Orders
         /\ \A x \in Roots(r) : OwnKey(r, x) \in ModulusRoots
                                /\ <<OwnKey(r, x), NttKey(r)>> \in ModulusRoots \X NttModulusRoots
  BY DEF NttKey, OwnKey, Roots, ModulusRoots, NttModulusRoots, Moduli, BigModuli, Orders

\* The length of a vector.
LEMMA VectorLength ==
  ASSUME NEW n \in Nat
  PROVE  \A v : DOMAIN v = 0 .. n - 1 => Len0(v) = n
<1>1. 0 \in Int /\ n - 1 \in Int
  OBVIOUS
<1>2. Cardinality(0 .. n - 1) = IF 0 > n - 1 THEN 0 ELSE (n - 1) - 0 + 1
  BY ONLY <1>1, FS_Interval
<1>3. Cardinality(0 .. n - 1) = n
  BY ONLY <1>2, n \in Nat
<1> QED BY <1>3 DEF Len0

\* The lengths of the tables.
LEMMA TableLengths ==
  ASSUME NEW r \in Rings, NEW x
  PROVE  /\ Len0(PowersTable(r.order, r.modulus, x)) = r.order
         /\ Len0(RBTable(r.order, r.modulus, x)) = NttDim(r.order)
<1> DEFINE o == r.order
           m == r.modulus
<1>1. o \in Nat /\ NttDim(o) \in Nat
  BY RingOf
<1>2. DOMAIN PowersTable(o, m, x) = 0 .. o - 1
  BY DEF PowersTable, Vector
<1>3. DOMAIN RBTable(o, m, x) = 0 .. NttDim(o) - 1
  BY DEF RBTable, PadZeros, Vector
<1> HIDE DEF o, m
<1>4. Len0(PowersTable(o, m, x)) = o
  BY ONLY <1>1, <1>2, VectorLength
<1>5. Len0(RBTable(o, m, x)) = NttDim(o)
  BY ONLY <1>1, <1>3, VectorLength
<1> QED BY <1>4, <1>5 DEF o, m

\* The critical section leaves the tables of its ring, and disturbs no other's.
LEMMA FilledTables ==
  ASSUME TablesInv, NEW r \in Rings, NEW x \in Roots(r), FillTables(r, x)
  PROVE  /\ nttTables'[NttKey(r)] = NttDim(r.order)
         /\ powers'[OwnKey(r, x)] = PowersTable(r.order, r.modulus, x)
         /\ RBTables'[<<OwnKey(r, x), NttKey(r)>>] = RBTable(r.order, r.modulus, x)
         /\ TablesFit(r, x)
         /\ DOMAIN nttTables' = NttModulusRoots /\ DOMAIN powers' = ModulusRoots
         /\ DOMAIN RBTables' = ModulusRoots \X NttModulusRoots
         /\ TablesOfRings'
<1> DEFINE ntt == NttKey(r)
           own == OwnKey(r, x)
           pw  == PowersTable(r.order, r.modulus, x)
           rb  == RBTable(r.order, r.modulus, x)
           dim == NttDim(r.order)
<1>1. /\ ntt \in NttModulusRoots /\ own \in ModulusRoots /\ <<own, ntt>> \in ModulusRoots \X NttModulusRoots
  BY KeysInMaps
<1>2. /\ DOMAIN nttTables = NttModulusRoots /\ DOMAIN powers = ModulusRoots
      /\ DOMAIN RBTables = ModulusRoots \X NttModulusRoots
  BY DEF TablesInv, Domains
<1>3. /\ nttTables' = [nttTables EXCEPT ![ntt] = IF nttTables[ntt] = 0 THEN dim ELSE nttTables[ntt]]
      /\ powers' = FilledIn(powers, own, pw)
      /\ RBTables' = FilledIn(RBTables, <<own, ntt>>, rb)
  BY DEF FillTables, NttKey, OwnKey
<1>4. nttTables[ntt] \in {0, dim} /\ powers[own] \in {Empty, pw} /\ RBTables[<<own, ntt>>] \in {Empty, rb}
  BY DEF TablesInv, TablesOfRings
<1>5. Len0(pw) = r.order /\ Len0(rb) = dim
  BY TableLengths
<1> HIDE DEF ntt, own, pw, rb, dim
<1>6. /\ nttTables'[ntt] = dim /\ \A k \in NttModulusRoots : k # ntt => nttTables'[k] = nttTables[k]
      /\ DOMAIN nttTables' = NttModulusRoots
  BY ONLY <1>1, <1>2, <1>3, <1>4
<1>7. /\ powers'[own] = pw /\ \A k \in ModulusRoots : k # own => powers'[k] = powers[k]
      /\ DOMAIN powers' = ModulusRoots
  BY ONLY <1>1, <1>2, <1>3, <1>4 DEF FilledIn
<1>8. /\ RBTables'[<<own, ntt>>] = rb
      /\ \A k \in ModulusRoots \X NttModulusRoots : k # <<own, ntt>> => RBTables'[k] = RBTables[k]
      /\ DOMAIN RBTables' = ModulusRoots \X NttModulusRoots
  BY ONLY <1>1, <1>2, <1>3, <1>4 DEF FilledIn
<1>9. TablesFit(r, x)
  BY <1>5, <1>6, <1>7, <1>8 DEF TablesFit, ntt, own, dim, NttKey, OwnKey
<1>10. TablesOfRings'
  <2> SUFFICES ASSUME NEW s \in Rings
               PROVE  /\ nttTables'[NttKey(s)] \in {0, NttDim(s.order)}
                      /\ \A y \in Roots(s) :
                           /\ powers'[OwnKey(s, y)] \in {Empty, PowersTable(s.order, s.modulus, y)}
                           /\ RBTables'[<<OwnKey(s, y), NttKey(s)>>] \in {Empty, RBTable(s.order, s.modulus, y)}
    BY DEF TablesOfRings, NttKey, OwnKey, Roots, RootInverse
  <2>1. /\ NttKey(s) \in NttModulusRoots
        /\ \A y \in Roots(s) : OwnKey(s, y) \in ModulusRoots
                               /\ <<OwnKey(s, y), NttKey(s)>> \in ModulusRoots \X NttModulusRoots
    BY KeysInMaps
  <2>2. /\ nttTables[NttKey(s)] \in {0, NttDim(s.order)}
        /\ \A y \in Roots(s) :
             /\ powers[OwnKey(s, y)] \in {Empty, PowersTable(s.order, s.modulus, y)}
             /\ RBTables[<<OwnKey(s, y), NttKey(s)>>] \in {Empty, RBTable(s.order, s.modulus, y)}
    BY DEF TablesInv, TablesOfRings
  <2>3. NttKey(s) = ntt => NttDim(s.order) = dim
    <3>1. NttKey(s) = ntt => s.bigMod = r.bigMod /\ s.bigRoot = r.bigRoot
      BY DEF ntt, NttKey, ModulusRoot
    <3> QED BY <3>1, ArbAssumption DEF dim
  <2>4. ASSUME NEW y \in Roots(s), OwnKey(s, y) = own
        PROVE  PowersTable(s.order, s.modulus, y) = pw /\ RBTable(s.order, s.modulus, y) = rb
    <3>1. s.modulus = r.modulus /\ y = x /\ s.order = r.order
      BY <2>4, KeysDetermineOrder DEF own, OwnKey
    <3> QED BY <3>1 DEF pw, rb
  <2>5. nttTables'[NttKey(s)] \in {0, NttDim(s.order)}
    BY ONLY <1>6, <2>1, <2>2, <2>3
  <2>6. ASSUME NEW y \in Roots(s)
        PROVE  /\ powers'[OwnKey(s, y)] \in {Empty, PowersTable(s.order, s.modulus, y)}
               /\ RBTables'[<<OwnKey(s, y), NttKey(s)>>] \in {Empty, RBTable(s.order, s.modulus, y)}
    <3>1. powers'[OwnKey(s, y)] \in {Empty, PowersTable(s.order, s.modulus, y)}
      BY ONLY <1>7, <2>1, <2>2, <2>4, y \in Roots(s)
    <3>2. <<OwnKey(s, y), NttKey(s)>> = <<own, ntt>> => OwnKey(s, y) = own
      OBVIOUS
    <3>3. RBTables'[<<OwnKey(s, y), NttKey(s)>>] \in {Empty, RBTable(s.order, s.modulus, y)}
      BY ONLY <1>8, <2>1, <2>2, <2>4, <3>2, y \in Roots(s)
    <3> QED BY <3>1, <3>3
  <2> QED BY <2>5, <2>6
<1> QED BY <1>6, <1>7, <1>8, <1>9, <1>10 DEF ntt, own, pw, rb, dim

\* What a division is made of, and that it is never the missing one.
LEMMA DivisionMade ==
  ASSUME NEW r \in Rings, cycloPoly[r.modulus] = r.poly
  PROVE  DivisionOf(r) = DivisionOfRing(r)
BY DEF DivisionOf, DivisionOfRing

\* The precomputed division leaves the tables of its ring, and those of every
\* other ring that divides as they were.
LEMMA DivisionTablesSet ==
  ASSUME OneDivisionPerModulus, TablesInv, NEW r \in Rings, Divides(r.order),
         cycloPoly[r.modulus] = r.poly, SetDivisionTables(r)
  PROVE  /\ DOMAIN division'.of = Moduli /\ DOMAIN division'.tables = BigModuli /\ DOMAIN divisionDim' = Orders
         /\ division'.tables[r.bigMod] = DivisionDim(r.order)
         /\ divisionDim'[r.order] = DivisionDim(r.order)
         /\ division'.of[r.modulus] = DivisionOfRing(r)
         /\ DivisionOfRings'
<1> DEFINE d   == DivisionOfRing(r)
           dim == DivisionDim(r.order)
<1>1. r.modulus \in Moduli /\ r.bigMod \in BigModuli /\ r.order \in Orders
  BY KeysInMaps
<1>2. DOMAIN division.of = Moduli /\ DOMAIN division.tables = BigModuli /\ DOMAIN divisionDim = Orders
  BY DEF TablesInv, Domains
<1>3. division' = [of     |-> [division.of EXCEPT ![r.modulus] = d],
                   tables |-> [division.tables EXCEPT ![r.bigMod] = dim]]
      /\ divisionDim' = [divisionDim EXCEPT ![r.order] = dim]
  BY DivisionMade DEF SetDivisionTables
<1>4. division'.of = [division.of EXCEPT ![r.modulus] = d]
      /\ division'.tables = [division.tables EXCEPT ![r.bigMod] = dim]
  BY ONLY <1>3
<1> HIDE DEF d, dim
<1>5. /\ division'.of[r.modulus] = d /\ \A k \in Moduli : k # r.modulus => division'.of[k] = division.of[k]
      /\ division'.tables[r.bigMod] = dim
      /\ \A k \in BigModuli : k # r.bigMod => division'.tables[k] = division.tables[k]
      /\ divisionDim'[r.order] = dim /\ \A k \in Orders : k # r.order => divisionDim'[k] = divisionDim[k]
      /\ DOMAIN division'.of = Moduli /\ DOMAIN division'.tables = BigModuli /\ DOMAIN divisionDim' = Orders
  BY ONLY <1>1, <1>2, <1>3, <1>4
<1>6. DivisionOfRings'
  <2> SUFFICES ASSUME NEW s \in Rings, Divides(s.order)
               PROVE  /\ division'.tables[s.bigMod] # 0 =>
                           division'.tables[s.bigMod] = DivisionDim(s.order)
                           /\ divisionDim'[s.order] = DivisionDim(s.order)
                      /\ division'.of[s.modulus].mod = s.bigMod => division'.of[s.modulus] = DivisionOfRing(s)
    BY DEF DivisionOfRings, DivisionOfRing
  <2>1. s.modulus \in Moduli /\ s.bigMod \in BigModuli /\ s.order \in Orders
    BY KeysInMaps
  <2>2. CASE s = r
    BY <1>5, <2>2 DEF d, dim
  <2>3. CASE s # r
    <3>1. s.modulus # r.modulus /\ s.bigMod # r.bigMod
      BY <2>3 DEF OneDivisionPerModulus
    <3>2. /\ division.tables[s.bigMod] # 0 =>
               division.tables[s.bigMod] = DivisionDim(s.order) /\ divisionDim[s.order] = DivisionDim(s.order)
          /\ division.of[s.modulus].mod = s.bigMod => division.of[s.modulus] = DivisionOfRing(s)
      BY DEF TablesInv, DivisionOfRings
    <3>3. division'.tables[s.bigMod] = division.tables[s.bigMod] /\ division'.of[s.modulus] = division.of[s.modulus]
      BY ONLY <1>5, <2>1, <3>1
    <3>4. divisionDim'[s.order] = divisionDim[s.order] \/ divisionDim'[s.order] = DivisionDim(s.order)
      BY <1>5, <2>1 DEF dim
    <3> QED BY <3>2, <3>3, <3>4
  <2> QED BY <2>2, <2>3
<1> QED BY <1>5, <1>6 DEF d, dim

\* An inverse transform leaves the division of its ring.
LEMMA FilledDivision ==
  ASSUME OneDivisionPerModulus, QuotientsReach, TablesInv, NEW r \in Rings,
         DivisionMissing(r) => cycloPoly[r.modulus] = r.poly, FillDivision(r)
  PROVE  /\ DOMAIN division'.of = Moduli /\ DOMAIN division'.tables = BigModuli /\ DOMAIN divisionDim' = Orders
         /\ DivisionReads(r)
         /\ Divides(r.order) => division'.of[r.modulus] = DivisionOfRing(r)
                                /\ divisionDim'[r.order] = DivisionDim(r.order)
         /\ DivisionOfRings'
<1>1. Divides(r.order) => r.order <= DivisionDim(r.order)
  BY DEF QuotientsReach, DivisionDim
<1>2. CASE DivisionMissing(r)
  <2>1. Divides(r.order) /\ SetDivisionTables(r)
    BY <1>2 DEF DivisionMissing, FillDivision
  <2> QED BY <1>1, <1>2, <2>1, DivisionTablesSet DEF DivisionReads
<1>3. CASE ~DivisionMissing(r)
  <2>1. division' = division /\ divisionDim' = divisionDim
    BY <1>3 DEF FillDivision
  <2>2. Divides(r.order) => division.tables[r.bigMod] # 0 /\ division.of[r.modulus].mod = r.bigMod
    BY <1>3 DEF DivisionMissing
  <2>3. Divides(r.order) => /\ division.tables[r.bigMod] = DivisionDim(r.order)
                            /\ divisionDim[r.order] = DivisionDim(r.order)
                            /\ division.of[r.modulus] = DivisionOfRing(r)
    BY <2>2 DEF TablesInv, DivisionOfRings
  <2>4. DivisionOfRings'
    BY <2>1 DEF TablesInv, DivisionOfRings, DivisionOfRing
  <2>5. DivisionReads(r)
    BY <1>1, <2>1, <2>3 DEF DivisionReads
  <2>6. DOMAIN division'.of = Moduli /\ DOMAIN division'.tables = BigModuli /\ DOMAIN divisionDim' = Orders
    BY <2>1 DEF TablesInv, Domains
  <2> QED BY <2>1, <2>3, <2>4, <2>5, <2>6
<1> QED BY <1>2, <1>3

\* The maps are empty at first, and after a reset.
NoTables ==
  /\ nttTables = NoNttTables /\ powers = NoPowers /\ RBTables = NoRBTables
  /\ cycloPoly = NoPolys /\ division = NoDivisions /\ divisionDim = NoDims

\* Empty maps hold no wrong table.
LEMMA EmptyTables == NoTables => TablesInv
<1> SUFFICES ASSUME NoTables PROVE TablesInv
  OBVIOUS
<1>1. Domains
  BY DEF NoTables, Domains, NoNttTables, NoPowers, NoRBTables, NoPolys, NoDivisions, NoDims
<1>2. TablesOfRings
  <2> SUFFICES ASSUME NEW r \in Rings
               PROVE  /\ nttTables[NttKey(r)] = 0
                      /\ \A x \in Roots(r) : /\ powers[OwnKey(r, x)] = Empty
                                             /\ RBTables[<<OwnKey(r, x), NttKey(r)>>] = Empty
    BY DEF TablesOfRings
  <2> QED BY KeysInMaps DEF NoTables, NoNttTables, NoPowers, NoRBTables
<1>3. DivisionOfRings
  <2> SUFFICES ASSUME NEW r \in Rings
               PROVE  division.tables[r.bigMod] = 0 /\ division.of[r.modulus].mod # r.bigMod
    BY DEF DivisionOfRings
  <2>1. division.tables[r.bigMod] = 0 /\ division.of[r.modulus] = NoDivision
    BY KeysInMaps DEF NoTables, NoDivisions
  <2>2. r.bigMod # 0
    <3> DEFINE o == r.order
               m == r.modulus
               B == r.bigMod
    <3>1. o \in Nat /\ m \in Nat /\ B \in Nat /\ o * m * m < B
      BY RingOf
    <3> HIDE DEF o, m, B
    <3>2. o * m * m \in Nat
      BY ONLY <3>1, ProductInteger
    <3>3. B # 0
      BY ONLY <3>1, <3>2
    <3> QED BY <3>3 DEF B
  <2> QED BY <2>1, <2>2 DEF NoDivision
<1> QED BY <1>1, <1>2, <1>3 DEF TablesInv

\* What holds between calls.
ArbInv == TablesInv /\ CallsReturn

\* A forward transform returns, and leaves the tables right.
LEMMA ForwardReturns ==
  ASSUME ArbInv, NEW r \in Rings, NEW x, ForwardTransform(r, x)
  PROVE  ArbInv'
<1>1. TablesInv /\ FillTables(r, r.root) /\ UNCHANGED <<cycloPoly, division, divisionDim>>
  BY DEF ArbInv, ForwardTransform
<1>2. r.root \in Roots(r)
  BY DEF Roots
<1>3. /\ DOMAIN nttTables' = NttModulusRoots /\ DOMAIN powers' = ModulusRoots
      /\ DOMAIN RBTables' = ModulusRoots \X NttModulusRoots
      /\ TablesOfRings' /\ TablesFit(r, r.root)
  BY <1>1, <1>2, FilledTables
<1>4. Domains'
  BY <1>1, <1>3 DEF TablesInv, Domains
<1>5. DivisionOfRings'
  BY <1>1 DEF TablesInv, DivisionOfRings, DivisionOfRing
<1>6. CallsReturn'
  <2>1. last'.status = "returned"
    BY <1>3 DEF ForwardTransform, Answer
  <2> QED BY <2>1 DEF CallsReturn
<1> QED BY <1>3, <1>4, <1>5, <1>6 DEF ArbInv, TablesInv

\* So does an inverse transform.
LEMMA InverseReturns ==
  ASSUME OneDivisionPerModulus, QuotientsReach, ArbInv, NEW r \in Rings, NEW x, InverseTransform(r, x)
  PROVE  ArbInv'
<1>1. TablesInv /\ FillTables(r, RootInverse(r)) /\ FillDivision(r) /\ cycloPoly' = cycloPoly
      /\ (DivisionMissing(r) => cycloPoly[r.modulus] = r.poly)
  BY DEF ArbInv, InverseTransform
<1>2. RootInverse(r) \in Roots(r)
  BY DEF Roots
<1>3. /\ DOMAIN nttTables' = NttModulusRoots /\ DOMAIN powers' = ModulusRoots
      /\ DOMAIN RBTables' = ModulusRoots \X NttModulusRoots
      /\ TablesOfRings' /\ TablesFit(r, RootInverse(r))
  BY <1>1, <1>2, FilledTables
<1>4. /\ DOMAIN division'.of = Moduli /\ DOMAIN division'.tables = BigModuli /\ DOMAIN divisionDim' = Orders
      /\ DivisionReads(r) /\ DivisionOfRings'
  BY <1>1, FilledDivision
<1>5. Domains'
  BY <1>1, <1>3, <1>4 DEF TablesInv, Domains
<1>6. CallsReturn'
  <2>1. \E y : Answer("inverse", r, x, "returned", y)
    BY ONLY <1>3, <1>4, InverseTransform(r, x) DEF InverseTransform
  <2>2. last'.status = "returned"
    BY ONLY <2>1 DEF Answer
  <2> QED BY <2>2 DEF CallsReturn
<1> QED BY <1>3, <1>4, <1>5, <1>6 DEF ArbInv, TablesInv

\* It holds at the start.
LEMMA ArbInvInit == ArbInit => ArbInv
<1> SUFFICES ASSUME ArbInit PROVE ArbInv
  OBVIOUS
<1>1. TablesInv
  BY EmptyTables DEF ArbInit, NoTables
<1>2. CallsReturn
  BY DEF ArbInit, CallsReturn
<1> QED BY <1>1, <1>2 DEF ArbInv

\* Every call keeps it, if the quotients reach and one ring divides for each
\* modulus.
LEMMA ArbInvNext ==
  OneDivisionPerModulus /\ QuotientsReach /\ ArbInv /\ [ArbNext]_arbVars => ArbInv'
<1>0. NoTables' => TablesInv'
  <2>1. NoTables => TablesInv
    BY EmptyTables
  <2> QED BY <2>1, PTL
<1> SUFFICES ASSUME OneDivisionPerModulus, QuotientsReach, ArbInv, [ArbNext]_arbVars PROVE ArbInv'
  OBVIOUS
<1>1. ASSUME NEW r \in Rings, NEW x \in Elements(r), ForwardTransform(r, x) PROVE ArbInv'
  BY <1>1, ForwardReturns
<1>2. ASSUME NEW r \in Rings, NEW x \in Elements(r), InverseTransform(r, x) PROVE ArbInv'
  BY <1>2, InverseReturns
<1>3. ASSUME NEW r \in Rings, SetCylotomicPolynomial(r) PROVE ArbInv'
  <2>1. Domains'
    BY <1>3 DEF SetCylotomicPolynomial, ArbInv, TablesInv, Domains
  <2>2. TablesOfRings' /\ DivisionOfRings'
    BY <1>3 DEF SetCylotomicPolynomial, ArbInv, TablesInv, TablesOfRings, DivisionOfRings,
                NttKey, OwnKey, Roots, RootInverse, DivisionOfRing
  <2> QED BY <1>3, <2>1, <2>2 DEF SetCylotomicPolynomial, ArbInv, TablesInv, CallsReturn
<1>4. ASSUME NEW r \in Rings, SetPreComputedNTTModulus(r) PROVE ArbInv'
  <2>1. nttTables' = [nttTables EXCEPT ![NttKey(r)] = NttDim(r.order)]
        /\ UNCHANGED <<powers, RBTables, cycloPoly, division, divisionDim>> /\ last' = NoCall
    BY <1>4 DEF SetPreComputedNTTModulus, NttKey
  <2>2. Domains' /\ DivisionOfRings'
    BY <2>1 DEF ArbInv, TablesInv, Domains, DivisionOfRings, DivisionOfRing
  <2>3. TablesOfRings'
    <3> SUFFICES ASSUME NEW s \in Rings PROVE nttTables'[NttKey(s)] \in {0, NttDim(s.order)}
      BY <2>1 DEF ArbInv, TablesInv, TablesOfRings, NttKey, OwnKey, Roots, RootInverse
    <3>1. nttTables[NttKey(s)] \in {0, NttDim(s.order)} /\ DOMAIN nttTables = NttModulusRoots
          /\ NttKey(s) \in NttModulusRoots
      BY KeysInMaps DEF ArbInv, TablesInv, TablesOfRings, Domains
    <3>2. NttKey(s) = NttKey(r) => NttDim(s.order) = NttDim(r.order)
      <4>1. NttKey(s) = NttKey(r) => s.bigMod = r.bigMod /\ s.bigRoot = r.bigRoot
        BY DEF NttKey, ModulusRoot
      <4> QED BY <4>1, ArbAssumption
    <3> QED BY ONLY <2>1, <3>1, <3>2
  <2> QED BY <2>1, <2>2, <2>3 DEF ArbInv, TablesInv, CallsReturn
<1>5. ASSUME NEW r \in Rings, SetPreComputedNTTDivisionModulus(r) PROVE ArbInv'
  <2>1. Divides(r.order) /\ cycloPoly[r.modulus] = r.poly /\ SetDivisionTables(r) /\ last' = NoCall
        /\ UNCHANGED <<nttTables, powers, RBTables, cycloPoly>>
    BY <1>5 DEF SetPreComputedNTTDivisionModulus
  <2>2. /\ DOMAIN division'.of = Moduli /\ DOMAIN division'.tables = BigModuli /\ DOMAIN divisionDim' = Orders
        /\ DivisionOfRings'
    BY <2>1, DivisionTablesSet DEF ArbInv
  <2>3. Domains' /\ TablesOfRings'
    BY <2>1, <2>2 DEF ArbInv, TablesInv, Domains, TablesOfRings, NttKey, OwnKey, Roots, RootInverse
  <2> QED BY <2>1, <2>2, <2>3 DEF ArbInv, TablesInv, CallsReturn
<1>6. ASSUME Reset PROVE ArbInv'
  <2>1. NoTables'
    BY <1>6 DEF Reset, NoTables, NoNttTables, NoPowers, NoRBTables, NoPolys, NoDivisions, NoDims
  <2>2. TablesInv'
    BY <1>0, <2>1
  <2> QED BY <1>6, <2>2 DEF Reset, ArbInv, CallsReturn
<1>7. CASE UNCHANGED arbVars
  BY <1>7 DEF arbVars, ArbInv, TablesInv, Domains, TablesOfRings, DivisionOfRings, CallsReturn,
              NttKey, OwnKey, Roots, RootInverse, DivisionOfRing
<1> QED BY <1>1, <1>2, <1>3, <1>4, <1>5, <1>6, <1>7 DEF ArbNext

-----------------------------------------------------------------------------
(* Convolutions, and Bluestein's transform.                                *)

\* Sum is Total.
LEMMA SumIsTotal == \A v, n : Sum(v, n) = Total(v, n)
BY DEF Sum, Total

\* A vector of c residues modulo M and a vector of residues, and a number that
\* no sum of c of their products reaches.
Convolvable(a, b, n, c, M, B) ==
  /\ n \in Nat \ {0} /\ c \in 0 .. n /\ M \in Nat \ {0} /\ B \in Nat /\ c * M * M < B
  /\ \A i \in 0 .. n - 1 : a[i] \in 0 .. M - 1 /\ b[i] \in 0 .. M - 1
  /\ \A i \in c .. n - 1 : a[i] = 0

\* The products that entry k of their convolution sums.
Products(t, a, b, n, c, k) == \A i \in 0 .. c - 1 : t[i] = a[i] * b[(k + n - i) % n]

\* The convolution of the two, modulo that number.
LEMMA ConvolutionExact ==
  ASSUME NEW a, NEW b, NEW n, NEW c, NEW M, NEW B, Convolvable(a, b, n, c, M, B),
         NEW k \in 0 .. n - 1, NEW t, Products(t, a, b, n, c, k)
  PROVE  /\ Convolved(a, b, n, B)[k] = Total(t, c)
         /\ \A i \in 0 .. c - 1 : t[i] \in Nat
<1> USE DEF Convolvable, Products
<1> DEFINE K == M * M
           v == Vector(n, LAMBDA i : (a[i] * b[(k + n - i) % n]) % B)
<1>1. K \in Nat \ {0} /\ c * K < B /\ c * K \in Nat /\ (c # 0 => K < B) /\ B \in Nat \ {0}
  <2>1. K \in Nat \ {0}
    BY SMT
  <2>2. c \in Nat /\ c * M * M = c * K
    BY ONLY c \in 0 .. n, n \in Nat, M \in Nat
  <2> HIDE DEF K
  <2>3. c * K \in Nat
    BY ONLY <2>1, <2>2, ProductInteger
  <2>4. c # 0 => K <= c * K
    BY ONLY <2>1, <2>2
  <2> QED BY ONLY <2>1, <2>2, <2>3, <2>4, c * M * M < B, B \in Nat
<1>2. ASSUME NEW x \in 0 .. M - 1, NEW y \in 0 .. M - 1 PROVE x * y \in 0 .. K - 1
  <2>1. x * y <= (M - 1) * y /\ (M - 1) * y <= (M - 1) * (M - 1) /\ x * y \in Nat
    BY ONLY x \in 0 .. M - 1, y \in 0 .. M - 1, M \in Nat \ {0}, SMT
  <2>2. (M - 1) * (M - 1) = M * M - 2 * M + 1 /\ M * M \in Nat
    BY ONLY M \in Nat \ {0}, SMT
  <2> DEFINE p == x * y
             q == (M - 1) * y
             s == (M - 1) * (M - 1)
  <2>3. p <= q /\ q <= s /\ p \in Nat /\ s = K - 2 * M + 1 /\ K \in Nat /\ q \in Int
    BY <2>1, <2>2
  <2> HIDE DEF p, q, s, K
  <2>4. p \in 0 .. K - 1
    BY ONLY <2>3, M \in Nat \ {0}
  <2> QED BY <2>4 DEF p
<1> HIDE DEF K
<1>3. ASSUME NEW i \in 0 .. n - 1 PROVE (k + n - i) % n \in 0 .. n - 1
  <2>1. k + n - i \in Nat
    OBVIOUS
  <2> QED BY ONLY <2>1, Residues, n \in Nat \ {0}
<1>4. \A i \in 0 .. n - 1 : v[i] = (a[i] * b[(k + n - i) % n]) % B
  BY DEF Vector
<1>5. \A x \in Nat : x < B => x % B = x
  BY ONLY <1>1, Residues
<1>6. ASSUME NEW i \in 0 .. c - 1 PROVE t[i] \in 0 .. K - 1 /\ t[i] \in Nat /\ v[i] = t[i]
  <2>1. i \in 0 .. n - 1 /\ c # 0
    OBVIOUS
  <2>2. t[i] = a[i] * b[(k + n - i) % n] /\ v[i] = t[i] % B
    BY <1>4, <2>1
  <2>4. a[i] \in 0 .. M - 1 /\ b[(k + n - i) % n] \in 0 .. M - 1
    BY <1>3, <2>1
  <2>5. t[i] \in 0 .. K - 1
    BY ONLY <1>2, <2>2, <2>4
  <2>3. t[i] \in Nat /\ t[i] < B
    BY ONLY <1>1, <2>1, <2>5
  <2> QED BY ONLY <1>5, <2>2, <2>3, <2>5
<1>7. ASSUME NEW i \in c .. n - 1 PROVE v[i] = 0
  <2>1. i \in 0 .. n - 1 /\ a[i] = 0
    OBVIOUS
  <2>2. b[(k + n - i) % n] \in Int
    BY <1>3, <2>1
  <2>3. 0 * b[(k + n - i) % n] = 0
    BY ONLY <2>2
  <2>4. 0 % B = 0
    BY ONLY <1>1, <1>5
  <2>5. v[i] = (a[i] * b[(k + n - i) % n]) % B
    BY <1>4, <2>1
  <2> QED BY ONLY <2>1, <2>3, <2>4, <2>5
<1>8. Convolved(a, b, n, B)[k] = Total(v, n) % B
  BY SumIsTotal DEF Convolved, Vector
<1> HIDE DEF v
<1>9. Total(v, n) = Total(v, c)
  <2>1. \A i \in 0 .. n - 1 : i \in 0 .. c - 1 \/ i \in c .. n - 1
    OBVIOUS
  <2>2. \A i \in 0 .. n - 1 : v[i] \in Int
    BY ONLY <1>6, <1>7, <2>1, <1>1
  <2> QED BY ONLY <1>7, <2>2, TotalTail, n \in Nat, c \in 0 .. n
<1>10. Total(v, c) = Total(t, c) /\ Total(t, c) \in 0 .. c * (K - 1)
  <2>1. c \in Nat /\ K - 1 \in Nat
    BY <1>1
  <2>2. \A i \in 0 .. c - 1 : t[i] \in Int /\ v[i] = t[i]
    BY ONLY <1>1, <1>6
  <2>3. Total(v, c) = Total(t, c)
    BY ONLY <2>1, <2>2, TotalSame
  <2>4. Total(t, c) \in 0 .. c * (K - 1)
    BY ONLY <1>6, <2>1, TotalBounded
  <2> QED BY <2>3, <2>4
<1>11. Total(t, c) \in Nat /\ Total(t, c) < B
  <2>1. c * (K - 1) = c * K - c
    BY ONLY <1>1, c \in Int
  <2>2. c \in Nat
    OBVIOUS
  <2> DEFINE p == c * K
             s == Total(t, c)
  <2>3. s \in 0 .. p - c /\ p < B /\ p \in Nat /\ c \in Nat
    BY <1>1, <1>10, <2>1, <2>2
  <2> HIDE DEF p, s
  <2>4. s \in Nat /\ s < B
    BY ONLY <2>3, B \in Nat
  <2> QED BY <2>4 DEF s
<1> QED BY <1>5, <1>6, <1>8, <1>9, <1>10, <1>11

\* Bluestein's identity: i * i + k * k - (k - i) * (k - i) = 2 * i * k, in
\* exponents.
LEMMA BluesteinIdentity ==
  ASSUME NEW m \in Nat \ {0, 1}, NEW o \in Nat \ {0}, NEW x, NEW y, RootWithInverse(x, y, o, m),
         NEW i \in Nat, NEW k \in Nat, NEW d \in Int, d = k - i \/ d = i - k
  PROVE  Congruent(SquarePower(x, i, o, m) * SquarePower(x, k, o, m) * SquarePower(y, d, o, m),
                   Power(x, (2 * i * k) % (2 * o), m), m)
<1> DEFINE n == 2 * o
           P(e) == Power(x, e, m)
           I(e) == Power(y, e, m)
<1>1. /\ x \in Nat /\ y \in Nat /\ n \in Nat \ {0} /\ P(n) = 1 /\ (x * y) % m = 1
  BY DEF RootWithInverse
<1>2. I(n) = 1 /\ \A e \in Nat : (P(e) * I(e)) % m = 1
  <2>1. RootWithInverse(y, x, o, m)
    BY InverseOrder
  <2>2. \A e \in Nat : (Power(x, e, m) * Power(y, e, m)) % m = 1
    BY ONLY <1>1, InversePowers, m \in Nat \ {0, 1}
  <2> QED BY <2>1, <2>2 DEF RootWithInverse
<1>3. /\ \A e \in Nat : P(e) \in Int /\ I(e) \in Int
      /\ \A e, f \in Nat : P(e + f) = (P(e) * P(f)) % m
  <2>1. \A e \in Nat : P(e) \in 0 .. m - 1 /\ I(e) \in 0 .. m - 1
    BY ONLY <1>1, PowerSteps, m \in Nat \ {0, 1}
  <2>2. \A e, f \in Nat : P(e + f) = (P(e) * P(f)) % m
    BY ONLY <1>1, PowerSum, m \in Nat \ {0, 1}
  <2>3. \A q \in 0 .. m - 1 : q \in Int
    OBVIOUS
  <2> HIDE DEF P, I
  <2> QED BY ONLY <2>1, <2>2, <2>3
<1>4. \A e \in Nat : P(e % n) = P(e) /\ I(e % n) = I(e)
  BY ONLY <1>1, <1>2, PowersRepeat, m \in Nat \ {0, 1}
<1> DEFINE ii == i * i
           kk == k * k
           dd == d * d
           ik == 2 * i * k
<1>5. ii \in Nat /\ kk \in Nat /\ dd \in Nat /\ ik \in Nat /\ ii + kk = ik + dd
  <2>1. ii \in Nat /\ kk \in Nat /\ dd \in Nat /\ ik \in Nat
    BY SMT
  <2>2. dd = ii + kk - ik
    <3>1. d * d = (k - i) * (k - i)
      <4>1. (i - k) * (i - k) = (k - i) * (k - i)
        BY ONLY i \in Nat, k \in Nat, SMT
      <4> QED BY ONLY <4>1, d = k - i \/ d = i - k
    <3>2. (k - i) * (k - i) = i * i + k * k - 2 * i * k
      <4>1. \A e, f \in Int : (e - f) * k = e * k - f * k /\ (e - f) * i = e * i - f * i
                              /\ i * (e - f) = i * e - i * f /\ k * (e - f) = k * e - k * f
        BY ONLY i \in Nat, k \in Nat
      <4>2. (k - i) * (k - i) = k * (k - i) - i * (k - i)
        BY ONLY i \in Nat, k \in Nat
      <4>3. k * i = i * k /\ 2 * i * k = i * k + i * k
        BY ONLY i \in Nat, k \in Nat
      <4>4. k * i \in Int /\ i * k \in Int /\ k * k \in Int /\ i * i \in Int
        BY ONLY i \in Nat, k \in Nat, ProductInteger
      <4>5. k * (k - i) = k * k - k * i /\ i * (k - i) = i * k - i * i
        BY ONLY <4>1, i \in Int, k \in Int
      <4> QED BY ONLY <4>2, <4>3, <4>4, <4>5
    <3> QED BY <3>1, <3>2
  <2> QED BY ONLY <2>1, <2>2
<1>6. /\ SquarePower(x, i, o, m) = P(ii) /\ SquarePower(x, k, o, m) = P(kk)
      /\ SquarePower(y, d, o, m) = I(dd) /\ Power(x, (2 * i * k) % (2 * o), m) = P(ik)
  BY <1>4, <1>5 DEF SquarePower
<1> HIDE DEF ii, kk, dd, ik, P, I
<1> DEFINE a == P(ii)
           b == P(kk)
           c == P(ik)
           g == P(dd)
           h == I(dd)
<1>7. a \in Int /\ b \in Int /\ c \in Int /\ g \in Int /\ h \in Int
  BY ONLY <1>3, <1>5
<1>8. (a * b) % m = (c * g) % m /\ (g * h) % m = 1 % m
  <2>1. P(ii + kk) = (a * b) % m /\ P(ik + dd) = (c * g) % m
    BY ONLY <1>3, <1>5
  <2>2. (g * h) % m = 1
    BY ONLY <1>2, <1>5
  <2>3. 1 % m = 1
    <3>1. \A u \in 0 .. m - 1 : u % m = u
      BY ONLY Remainders, m \in Nat \ {0, 1}
    <3>2. 1 \in 0 .. m - 1
      BY ONLY m \in Nat \ {0, 1}
    <3> QED BY ONLY <3>1, <3>2
  <2> QED BY ONLY <1>5, <2>1, <2>2, <2>3
<1> HIDE DEF a, b, c, g, h
<1>9. a * b \in Int /\ c * g \in Int /\ g * h \in Int
  BY ONLY <1>7, ProductInteger
<1>10. Congruent(a * b, c * g, m) /\ Congruent(g * h, 1, m)
  BY ONLY <1>8 DEF Congruent
<1>11. \A u : Congruent(u, u, m)
  BY ONLY CongruentRelation, m \in Nat \ {0, 1}
<1>12. Congruent((a * b) * h, (c * g) * h, m)
  BY ONLY <1>7, <1>9, <1>10, <1>11, CongruentProduct, m \in Nat \ {0, 1}
<1>13. Congruent(c * (g * h), c * 1, m)
  BY ONLY <1>7, <1>9, <1>10, <1>11, CongruentProduct, m \in Nat \ {0, 1}, 1 \in Int
<1>14. (c * g) * h = c * (g * h) /\ c * 1 = c
  BY ONLY <1>7, Reorder
<1>15. Congruent((a * b) * h, c, m)
  BY <1>12, <1>13, <1>14 DEF Congruent
<1> QED BY <1>6, <1>15 DEF a, b, c, h

\* Entry k of the transform of the vector x, of length n, with the root u.
Evaluated(x, u, n, k, o, m) ==
  Total([i \in 0 .. n - 1 |-> x[i] * Power(u, (2 * i * k) % (2 * o), m)], n) % m

\* The entries of the tables are residues.
LEMMA SquarePowers ==
  ASSUME NEW m \in Nat \ {0, 1}, NEW o \in Nat \ {0}, NEW u \in Nat, NEW d \in Int
  PROVE  SquarePower(u, d, o, m) \in 0 .. m - 1
<1>1. d * d \in Nat
  BY SMT
<1>2. 2 * o \in Nat \ {0}
  OBVIOUS
<1> DEFINE e == (d * d) % (2 * o)
<1>3. e \in Nat
  <2> DEFINE f == d * d
             n == 2 * o
  <2>1. f \in Nat /\ n \in Nat \ {0}
    BY <1>1, <1>2
  <2> HIDE DEF f, n
  <2>2. f % n \in Nat
    BY ONLY <2>1, Residues
  <2> QED BY <2>2 DEF f, n
<1> HIDE DEF e
<1>4. Power(u, e, m) \in 0 .. m - 1
  BY ONLY <1>3, PowerSteps, m \in Nat \ {0, 1}, u \in Nat
<1> QED BY <1>4 DEF SquarePower, e

\* The entries of the second table, around its middle.
LEMMA TableEntries ==
  ASSUME NEW r \in Rings, NEW u \in Roots(r)
  PROVE  LET o == r.order
             m == r.modulus
             y == InverseOf(u, m)
             rb == RBTable(o, m, u)
         IN  /\ \A k \in 0 .. NttDim(o) - 1 : rb[k] \in 0 .. m - 1
             /\ \A k, i \in 0 .. o - 1 : \E d \in Int :
                  /\ d = k - i \/ d = i - k
                  /\ rb[(o - 1 + k) - i] = SquarePower(y, d, o, m)
<1> DEFINE o == r.order
           m == r.modulus
           y == InverseOf(u, m)
           n == NttDim(o)
           middle(k) == IF k < o THEN o - 1 - k ELSE k - (o - 1)
           b == Vector(2 * o - 1, LAMBDA k : SquarePower(y, IF k < o THEN o - 1 - k ELSE k - (o - 1), o, m))
           rb == RBTable(o, m, u)
<1>1. o \in Nat \ {0} /\ m \in Nat \ {0, 1} /\ n \in Nat \ {0} /\ 2 * o - 1 <= n
  BY RingOf
<1>2. y \in 0 .. m - 1 /\ y \in Nat
  BY <1>1, RootsOfRing DEF RootWithInverse
<1>3. rb = PadZeros(b, n)
  BY DEF RBTable
<1> HIDE DEF o, m, y, n, rb
<1>4. Len0(b) = 2 * o - 1
  <2>1. DOMAIN b = 0 .. (2 * o - 1) - 1 /\ 2 * o - 1 \in Nat
    BY ONLY <1>1 DEF Vector
  <2> HIDE DEF b
  <2> QED BY ONLY <2>1, VectorLength
<1>5. ASSUME NEW k \in 0 .. n - 1
      PROVE  rb[k] = IF k < 2 * o - 1 THEN SquarePower(y, middle(k), o, m) ELSE 0
  <2>1. rb[k] = IF k < 2 * o - 1 THEN b[k] ELSE 0
    BY <1>3, <1>4 DEF PadZeros, Vector
  <2>2. k < 2 * o - 1 => k \in 0 .. (2 * o - 1) - 1
    BY ONLY <1>1, k \in 0 .. n - 1
  <2>3. k < 2 * o - 1 => b[k] = SquarePower(y, middle(k), o, m)
    BY <2>2 DEF Vector
  <2> QED BY <2>1, <2>3
<1> HIDE DEF b
<1>6. ASSUME NEW k \in 0 .. n - 1 PROVE rb[k] \in 0 .. m - 1
  <2>1. middle(k) \in Int
    BY ONLY <1>1, k \in 0 .. n - 1
  <2> DEFINE d == middle(k)
  <2> HIDE DEF d
  <2>2. SquarePower(y, d, o, m) \in 0 .. m - 1
    BY <1>1, <1>2, <2>1, SquarePowers DEF d
  <2>3. rb[k] = IF k < 2 * o - 1 THEN SquarePower(y, d, o, m) ELSE 0
    BY <1>5 DEF d
  <2>4. 0 \in 0 .. m - 1
    BY ONLY <1>1
  <2> QED BY ONLY <2>2, <2>3, <2>4
<1>7. ASSUME NEW k \in 0 .. o - 1, NEW i \in 0 .. o - 1
      PROVE  \E d \in Int : /\ d = k - i \/ d = i - k
                            /\ rb[(o - 1 + k) - i] = SquarePower(y, d, o, m)
  <2> DEFINE j == (o - 1 + k) - i
             d == middle(j)
  <2>1. j \in 0 .. n - 1 /\ j < 2 * o - 1
    BY ONLY <1>1, k \in 0 .. o - 1, i \in 0 .. o - 1
  <2>2. d \in Int /\ (d = k - i \/ d = i - k)
    BY ONLY <1>1, k \in 0 .. o - 1, i \in 0 .. o - 1
  <2>3. rb[j] = SquarePower(y, d, o, m)
    <3> HIDE DEF j
    <3> QED BY <1>5, <2>1
  <2> QED BY <2>2, <2>3
<1> QED BY <1>6, <1>7 DEF o, m, y, n, rb

\* BluesteinFFTNat computes the transform of its input.
LEMMA BluesteinEvaluates ==
  ASSUME NEW r \in Rings, NEW u \in Roots(r), NEW x, \A i \in 0 .. r.order - 1 : x[i] \in 0 .. r.modulus - 1
  PROVE  LET e == Bluestein(x, PowersTable(r.order, r.modulus, u), RBTable(r.order, r.modulus, u), r)
         IN  /\ DOMAIN e = 0 .. r.order - 1
             /\ \A k \in 0 .. r.order - 1 : e[k] = Evaluated(x, u, r.order, k, r.order, r.modulus)
<1> DEFINE o == r.order
           m == r.modulus
           B == r.bigMod
           y == InverseOf(u, m)
           n == NttDim(o)
           pw == PowersTable(o, m, u)
           rb == RBTable(o, m, u)
           low == Vector(o, LAMBDA i : (x[i] * pw[i]) % m)
           Ra == PadZeros(low, n)
           C == Convolved(Ra, rb, n, B)
           Rc == Resize(C, o - 1, 2 * (o - 1))
           e == Bluestein(x, pw, rb, r)
<1>1. o \in Nat \ {0} /\ m \in Nat \ {0, 1} /\ n \in Nat \ {0} /\ 2 * o - 1 <= n
      /\ B \in Nat /\ o * m * m < B /\ \A i \in 0 .. o - 1 : x[i] \in 0 .. m - 1
  BY RingOf
<1>2. RootWithInverse(u, y, o, m)
  BY RootsOfRing
<1>3. /\ \A k \in 0 .. n - 1 : rb[k] \in 0 .. m - 1
      /\ \A k, i \in 0 .. o - 1 : \E d \in Int :
           /\ d = k - i \/ d = i - k
           /\ rb[(o - 1 + k) - i] = SquarePower(y, d, o, m)
  BY TableEntries
<1>4. e = Vector(o, LAMBDA i : ((Rc[i] % m) * pw[i]) % m)
  BY DEF Bluestein
<1>5. \A i \in 0 .. o - 1 : pw[i] = SquarePower(u, i, o, m)
  BY DEF PowersTable, Vector
<1> HIDE DEF o, m, B, y, n, pw, rb, e
<1>6. u \in Nat /\ y \in Nat
  BY <1>1, <1>2 DEF RootWithInverse
<1>7. \A i \in 0 .. o - 1 : pw[i] \in 0 .. m - 1
  <2>1. \A i \in 0 .. o - 1 : i \in Int
    OBVIOUS
  <2> QED BY ONLY <1>1, <1>5, <1>6, <2>1, SquarePowers
<1>8. \A i \in 0 .. n - 1 : Ra[i] = IF i < o THEN (x[i] * pw[i]) % m ELSE 0
  <2>1. Len0(low) = o
    <3>1. DOMAIN low = 0 .. o - 1 /\ o \in Nat
      BY ONLY <1>1 DEF Vector
    <3> HIDE DEF low
    <3> QED BY ONLY <3>1, VectorLength
  <2>2. ASSUME NEW i \in 0 .. n - 1 PROVE Ra[i] = IF i < o THEN low[i] ELSE 0
    BY <2>1 DEF PadZeros, Vector
  <2>3. \A i \in 0 .. n - 1 : i < o => i \in 0 .. o - 1
    BY ONLY <1>1
  <2>4. \A i \in 0 .. o - 1 : low[i] = (x[i] * pw[i]) % m
    BY DEF Vector
  <2> HIDE DEF Ra, low
  <2> QED BY ONLY <2>2, <2>3, <2>4
<1> HIDE DEF Ra, low
<1>9. \A i \in 0 .. o - 1 : x[i] * pw[i] \in Int /\ (x[i] * pw[i]) % m \in 0 .. m - 1
                            /\ Congruent((x[i] * pw[i]) % m, x[i] * pw[i], m)
  <2>1. \A i \in 0 .. o - 1 : x[i] * pw[i] \in Int
    <3>1. \A i \in 0 .. o - 1 : x[i] \in Int /\ pw[i] \in Int
      BY ONLY <1>1, <1>7
    <3> QED BY ONLY <3>1, ProductInteger
  <2>2. \A g \in Int : g % m \in 0 .. m - 1 /\ Congruent(g % m, g, m)
    BY ONLY <1>1, CongruentRelation
  <2> QED BY ONLY <2>1, <2>2
<1>10. /\ \A i \in 0 .. n - 1 : Ra[i] \in 0 .. m - 1 /\ rb[i] \in 0 .. m - 1
       /\ \A i \in o .. n - 1 : Ra[i] = 0
  <2>1. \A i \in 0 .. n - 1 : (i < o => i \in 0 .. o - 1) /\ 0 \in 0 .. m - 1
    BY ONLY <1>1
  <2>2. \A i \in o .. n - 1 : i \in 0 .. n - 1 /\ ~(i < o)
    BY ONLY <1>1
  <2> QED BY ONLY <1>3, <1>8, <1>9, <2>1, <2>2
<1>11. ASSUME NEW k \in 0 .. o - 1
       PROVE  e[k] = Evaluated(x, u, o, k, o, m)
  <2> DEFINE c == o - 1 + k
             t == [i \in 0 .. o - 1 |-> Ra[i] * rb[(c + n - i) % n]]
             w == [i \in 0 .. o - 1 |-> pw[k] * t[i]]
             v == [i \in 0 .. o - 1 |-> x[i] * Power(u, (2 * i * k) % (2 * o), m)]
  <2>1. c \in 0 .. n - 1 /\ o \in 0 .. n /\ m \in Nat \ {0}
    BY ONLY <1>1, k \in 0 .. o - 1
  <2>2. C[c] = Total(t, o) /\ \A i \in 0 .. o - 1 : t[i] \in Nat
    <3>1. \A i \in 0 .. o - 1 : t[i] = Ra[i] * rb[(c + n - i) % n]
      OBVIOUS
    <3>2. Products(t, Ra, rb, n, o, c)
      BY ONLY <3>1 DEF Products
    <3>3. Convolvable(Ra, rb, n, o, m, B)
      BY ONLY <1>1, <1>10, <2>1 DEF Convolvable
    <3> HIDE DEF c, t
    <3>4. Convolved(Ra, rb, n, B)[c] = Total(t, o) /\ \A i \in 0 .. o - 1 : t[i] \in Nat
      BY ONLY <2>1, <3>2, <3>3, ConvolutionExact
    <3> QED BY <3>4
  <2>3. Rc[k] = C[c]
    <3> HIDE DEF C
    <3>1. k \in 0 .. (2 * (o - 1) - (o - 1) + 1) - 1
      BY ONLY <1>1, k \in 0 .. o - 1
    <3> QED BY <3>1 DEF Resize, Vector
  <2> DEFINE s == Total(t, o)
  <2>4. e[k] = ((s % m) * pw[k]) % m
    BY <1>4, <2>2, <2>3 DEF Vector
  <2>5. pw[k] \in Int /\ s \in Int /\ o \in Nat
    <3>1. \A i \in 0 .. o - 1 : t[i] \in Int
      BY <2>2
    <3> HIDE DEF t
    <3> QED BY <1>1, <1>7, <3>1, TotalInteger
  <2>6. e[k] = (pw[k] * s) % m
    <3> HIDE DEF s
    <3>1. ((s % m) * pw[k]) % m = (s * pw[k]) % m
      BY ONLY <2>1, <2>5, Remainders
    <3>2. s * pw[k] = pw[k] * s
      BY ONLY <2>5
    <3> QED BY ONLY <2>4, <3>1, <3>2
  <2>7. Total(w, o) = pw[k] * s
    <3>1. \A i \in 0 .. o - 1 : t[i] \in Int /\ w[i] = pw[k] * t[i]
      BY <2>2
    <3> HIDE DEF t, w
    <3> QED BY ONLY <2>5, <3>1, TotalTimes DEF s
  <2>8. ASSUME NEW i \in 0 .. o - 1
        PROVE  w[i] \in Int /\ v[i] \in Int /\ Congruent(w[i], v[i], m)
    <3>1. (c + n - i) % n = c - i
      <4>1. c - i \in 0 .. n - 1 /\ c + n - i = 1 * n + (c - i) /\ c + n - i \in Int
        BY ONLY <1>1, k \in 0 .. o - 1, i \in 0 .. o - 1
      <4> HIDE DEF c
      <4> QED BY ONLY <1>1, <4>1, DivUnique, 1 \in Int
    <3>2. PICK d \in Int : (d = k - i \/ d = i - k) /\ rb[c - i] = SquarePower(y, d, o, m)
      BY <1>3
    <3> DEFINE a == pw[i]
               b == pw[k]
               f == SquarePower(y, d, o, m)
               g == Power(u, (2 * i * k) % (2 * o), m)
               xi == x[i]
               ra == Ra[i]
    <3>3. w[i] = b * (ra * f) /\ v[i] = xi * g
      BY <3>1, <3>2
    <3>4. i < o /\ i \in 0 .. n - 1
      BY ONLY <1>1, i \in 0 .. o - 1
    <3>5. ra = (xi * a) % m /\ xi \in Int /\ a \in Int /\ b \in Int /\ ra \in Int /\ xi * a \in Int
          /\ Congruent(ra, xi * a, m)
      <4>1. ra = (xi * a) % m
        BY <1>8, <3>4
      <4>2. xi \in Int /\ a \in Int /\ b \in Int
        BY <1>1, <1>7
      <4>3. ra \in 0 .. m - 1 /\ Congruent(ra, xi * a, m) /\ xi * a \in Int
        BY <1>9, <4>1
      <4>4. ra \in Int
        BY <4>3
      <4> QED BY <4>1, <4>2, <4>3, <4>4
    <3>6. f \in Int /\ g \in Int /\ Congruent(a * b * f, g, m)
      <4>1. i \in Nat /\ k \in Nat
        OBVIOUS
      <4>2. a = SquarePower(u, i, o, m) /\ b = SquarePower(u, k, o, m)
        BY <1>5
      <4>3. Congruent(SquarePower(u, i, o, m) * SquarePower(u, k, o, m) * SquarePower(y, d, o, m),
                      Power(u, (2 * i * k) % (2 * o), m), m)
        BY ONLY <1>1, <1>2, <3>2, <4>1, BluesteinIdentity
      <4>4. f \in 0 .. m - 1
        BY ONLY <1>1, <1>6, <3>2, SquarePowers
      <4>5. g \in 0 .. m - 1
        <5> DEFINE p == 2 * i * k
                   q == 2 * o
        <5>1. p \in Nat /\ q \in Nat \ {0}
          BY <1>1, <4>1, SMT
        <5> HIDE DEF p, q
        <5>2. p % q \in Nat
          BY ONLY <5>1, Residues
        <5>3. Power(u, p % q, m) \in 0 .. m - 1
          BY ONLY <1>1, <1>6, <5>2, PowerSteps
        <5> QED BY <5>3 DEF p, q
      <4>6. f \in Int /\ g \in Int
        BY ONLY <1>1, <4>4, <4>5
      <4> QED BY <4>2, <4>3, <4>6
    <3> HIDE DEF a, b, f, g, xi, ra
    <3>7. ra * f \in Int /\ b * (ra * f) \in Int /\ xi * g \in Int /\ a * b * f \in Int
          /\ b * f \in Int /\ (xi * a) * (b * f) \in Int
      BY ONLY <3>5, <3>6, ProductInteger
    <3>8. b * (ra * f) = ra * (b * f) /\ (xi * a) * (b * f) = xi * (a * b * f)
      <4>1. b * (ra * f) = ra * (b * f)
        BY ONLY <3>5, <3>6, Reorder
      <4>2. (xi * a) * (b * f) = xi * (a * (b * f)) /\ a * b * f = a * (b * f)
        BY ONLY <3>5, <3>6, <3>7, Reorder
      <4> QED BY ONLY <4>1, <4>2
    <3>9. \A h : Congruent(h, h, m)
      BY ONLY <2>1, CongruentRelation
    <3>10. Congruent(ra * (b * f), (xi * a) * (b * f), m)
      BY ONLY <2>1, <3>5, <3>7, <3>9, CongruentProduct
    <3>11. Congruent(xi * (a * b * f), xi * g, m)
      BY ONLY <2>1, <3>5, <3>6, <3>7, <3>9, CongruentProduct
    <3>12. Congruent(b * (ra * f), xi * g, m)
      BY ONLY <3>8, <3>10, <3>11 DEF Congruent
    <3> QED BY ONLY <3>3, <3>7, <3>12
  <2>9. Congruent(Total(w, o), Total(v, o), m)
    <3> HIDE DEF w, v
    <3> QED BY ONLY <2>1, <2>5, <2>8, TotalCongruent
  <2>10. e[k] = Total(v, o) % m
    BY <2>6, <2>7, <2>9 DEF Congruent
  <2> QED BY <2>10 DEF Evaluated
<1>12. DOMAIN e = 0 .. o - 1
  BY <1>4 DEF Vector
<1> QED BY <1>11, <1>12 DEF o, m, pw, rb, e

\* A term of a transform.
LEMMA EvaluatedTerm ==
  ASSUME NEW m \in Nat \ {0, 1}, NEW o \in Nat \ {0}, NEW u \in Nat
  PROVE  \A i, k \in Nat : Power(u, (2 * i * k) % (2 * o), m) \in 0 .. m - 1
<1> SUFFICES ASSUME NEW i \in Nat, NEW k \in Nat PROVE Power(u, (2 * i * k) % (2 * o), m) \in 0 .. m - 1
  OBVIOUS
<1> DEFINE p == 2 * i * k
           q == 2 * o
<1>1. p \in Nat /\ q \in Nat \ {0}
  <2>1. 2 * i \in Nat /\ q \in Nat \ {0}
    OBVIOUS
  <2>2. (2 * i) * k \in Nat
    BY ONLY <2>1, ProductInteger, k \in Nat
  <2> QED BY <2>1, <2>2
<1> HIDE DEF p, q
<1>2. p % q \in Nat
  BY ONLY <1>1, Residues
<1>3. Power(u, p % q, m) \in 0 .. m - 1
  BY ONLY <1>2, PowerSteps, m \in Nat \ {0, 1}, u \in Nat
<1> QED BY <1>3 DEF p, q

\* The transform does not see the zeros that a vector is padded with.
LEMMA EvaluatedPadded ==
  ASSUME NEW m \in Nat \ {0, 1}, NEW o \in Nat \ {0}, NEW u \in Nat, NEW n \in 0 .. o, NEW x, NEW w,
         Padded(w, x, n, o), NEW k \in Nat
  PROVE  Evaluated(w, u, o, k, o, m) = Evaluated(x, u, n, k, o, m)
<1> DEFINE g(i) == Power(u, (2 * i * k) % (2 * o), m)
           s == [i \in 0 .. o - 1 |-> w[i] * g(i)]
           t == [i \in 0 .. n - 1 |-> x[i] * g(i)]
<1>1. \A i \in 0 .. o - 1 : g(i) \in Int
  <2>1. \A i \in 0 .. o - 1 : g(i) \in 0 .. m - 1
    BY EvaluatedTerm
  <2> HIDE DEF g
  <2> QED BY ONLY <2>1, m \in Nat
<1>2. Evaluated(w, u, o, k, o, m) = Total(s, o) % m /\ Evaluated(x, u, n, k, o, m) = Total(t, n) % m
  BY DEF Evaluated
<1> HIDE DEF g
<1>3. \A i \in 0 .. o - 1 : s[i] = w[i] * g(i)
  OBVIOUS
<1>4. \A i \in 0 .. n - 1 : t[i] = x[i] * g(i)
  OBVIOUS
<1> HIDE DEF s, t
<1>5. ASSUME NEW i \in 0 .. n - 1 PROVE t[i] \in Int /\ s[i] = t[i]
  <2>1. i \in 0 .. o - 1
    OBVIOUS
  <2>2. w[i] = x[i] /\ x[i] \in Int /\ g(i) \in Int
    BY <1>1, <2>1 DEF Padded
  <2>3. x[i] * g(i) \in Int
    BY ONLY <2>2, ProductInteger
  <2> QED BY <1>3, <1>4, <2>1, <2>2, <2>3
<1>6. ASSUME NEW i \in n .. o - 1 PROVE s[i] = 0
  <2>1. i \in 0 .. o - 1
    OBVIOUS
  <2>2. w[i] = 0 /\ g(i) \in Int
    BY <1>1, <2>1 DEF Padded
  <2>3. 0 * g(i) = 0
    BY ONLY <2>2
  <2> QED BY <1>3, <2>1, <2>2, <2>3
<1>7. Total(s, o) = Total(s, n)
  <2>1. \A i \in 0 .. o - 1 : i \in 0 .. n - 1 \/ i \in n .. o - 1
    OBVIOUS
  <2>2. \A i \in 0 .. o - 1 : s[i] \in Int
    BY ONLY <1>5, <1>6, <2>1, 0 \in Int
  <2> QED BY ONLY <1>6, <2>2, TotalTail, o \in Nat, n \in 0 .. o
<1>8. Total(s, n) = Total(t, n)
  <2>1. n \in Nat
    OBVIOUS
  <2> QED BY ONLY <1>5, <2>1, TotalSame
<1> QED BY <1>2, <1>7, <1>8

\* The values of a polynomial are entries of its transform.
LEMMA ValuesEvaluated ==
  ASSUME NEW r \in Rings, NEW v, DOMAIN v = 0 .. Totient(r.order) - 1,
         \A j \in 0 .. Totient(r.order) - 1 : v[j] \in Int
  PROVE  Values(v, r) = [i \in 0 .. Totient(r.order) - 1 |->
           Evaluated(v, r.root, Totient(r.order), TotientList(r.order)[i], r.order, r.modulus)]
<1> DEFINE o == r.order
           m == r.modulus
           z == r.root
           n == Totient(o)
           list == TotientList(o)
           g(i, j) == Power(z, (2 * j * list[i]) % (2 * o), m)
           s(i) == Vector(n, LAMBDA j : (v[j] * g(i, j)) % m)
           t(i) == [j \in 0 .. n - 1 |-> v[j] * g(i, j)]
<1>1. o \in Nat \ {0} /\ m \in Nat \ {0, 1} /\ z \in Nat
  BY RingOf
<1>2. n \in Nat /\ Totatives(o) \subseteq 0 .. o - 1
  BY <1>1, TotativesFinite
<1>3. list \in [0 .. n - 1 -> Totatives(o)]
  BY <1>1, ListOfTotatives
<1>4. Len0(v) = n /\ Len0(list) = n
  BY ONLY <1>2, <1>3, VectorLength, DOMAIN v = 0 .. n - 1
<1>5. Values(v, r) = [i \in 0 .. n - 1 |-> Sum(s(i), n) % m]
  BY <1>4 DEF Values, Vector
<1>6. ASSUME NEW i \in 0 .. n - 1 PROVE Sum(s(i), n) % m = Evaluated(v, z, n, list[i], o, m)
  <2>1. list[i] \in Nat
    BY <1>1, <1>2, <1>3
  <2>2. ASSUME NEW j \in 0 .. n - 1
        PROVE  s(i)[j] \in Int /\ t(i)[j] \in Int /\ Congruent(s(i)[j], t(i)[j], m)
    <3>1. g(i, j) \in 0 .. m - 1
      <4>1. j \in Nat
        OBVIOUS
      <4> HIDE DEF o, m, z, list
      <4> QED BY ONLY <1>1, <2>1, <4>1, EvaluatedTerm
    <3>2. s(i)[j] = (v[j] * g(i, j)) % m /\ t(i)[j] = v[j] * g(i, j)
      BY DEF Vector
    <3> DEFINE a == v[j]
               b == g(i, j)
    <3>3. a \in Int /\ b \in Int
      BY <1>1, <3>1
    <3> HIDE DEF a, b
    <3>4. a * b \in Int
      BY ONLY <3>3, ProductInteger
    <3>5. (a * b) % m \in 0 .. m - 1 /\ Congruent((a * b) % m, a * b, m)
      BY ONLY <1>1, <3>4, CongruentRelation
    <3>6. (a * b) % m \in Int
      BY ONLY <1>1, <3>5
    <3> QED BY <3>2, <3>4, <3>5, <3>6 DEF a, b
  <2>3. Sum(s(i), n) = Total(s(i), n)
    BY SumIsTotal
  <2>4. Evaluated(v, z, n, list[i], o, m) = Total(t(i), n) % m
    BY DEF Evaluated
  <2> HIDE DEF s, t
  <2>5. m \in Nat \ {0}
    BY <1>1
  <2>6. Congruent(Total(s(i), n), Total(t(i), n), m)
    <3> DEFINE a == s(i)
               b == t(i)
    <3>1. \A j \in 0 .. n - 1 : a[j] \in Int /\ b[j] \in Int /\ Congruent(a[j], b[j], m)
      BY <2>2
    <3> HIDE DEF a, b, n, m
    <3>2. Congruent(Total(a, n), Total(b, n), m)
      BY ONLY <1>2, <2>5, <3>1, TotalCongruent
    <3> QED BY <3>2 DEF a, b
  <2> QED BY ONLY <2>3, <2>4, <2>6 DEF Congruent
<1> HIDE DEF s
<1> QED BY <1>5, <1>6

\* An element's entries.
LEMMA ElementEntries ==
  ASSUME NEW r \in Rings, NEW x \in Elements(r)
  PROVE  x \in [0 .. Totient(r.order) - 1 -> 0 .. r.modulus - 1]
<1>1. PICK p \in Patterns : x = Vector(Totient(r.order), LAMBDA i : p[i] % r.modulus)
  BY DEF Elements
<1>2. \A i \in 0 .. Totient(r.order) - 1 : p[i] \in Int
  BY ArbAssumption
<1>3. r.modulus \in Nat \ {0}
  BY RingOf
<1>4. \A i \in 0 .. Totient(r.order) - 1 : p[i] % r.modulus \in 0 .. r.modulus - 1
  BY ONLY <1>2, <1>3, Remainders
<1> QED BY ONLY <1>1, <1>4 DEF Vector

\* The forward transform evaluates at the primitive roots.
LEMMA ForwardEvaluates ==
  ASSUME NEW r \in Rings, NEW x \in Elements(r)
  PROVE  DropForward(Bluestein(Pad(x, r.order, TRUE), PowersTable(r.order, r.modulus, r.root),
                               RBTable(r.order, r.modulus, r.root), r), r)
         = Values(x, r)
<1> DEFINE o == r.order
           m == r.modulus
           z == r.root
           n == Totient(o)
           list == TotientList(o)
           w == Pad(x, o, TRUE)
           e == Bluestein(w, PowersTable(o, m, z), RBTable(o, m, z), r)
<1>1. o \in Nat \ {0} /\ m \in Nat \ {0, 1} /\ z \in Nat
  BY RingOf
<1>2. n \in 0 .. o /\ Totatives(o) \subseteq 0 .. o - 1 /\ list \in [0 .. n - 1 -> Totatives(o)]
  <2> HIDE DEF o
  <2>1. o \in Nat
    BY <1>1
  <2>2. n \in Nat /\ n <= o /\ Totatives(o) \subseteq 0 .. o - 1
    BY ONLY <2>1, TotativesFinite
  <2>3. list \in [0 .. n - 1 -> Totatives(o)]
    BY ONLY <2>1, ListOfTotatives
  <2> HIDE DEF n
  <2> QED BY <2>1, <2>2, <2>3
<1>3. x \in [0 .. n - 1 -> 0 .. m - 1]
  BY ElementEntries
<1>4. \A i \in 0 .. o - 1 : w[i] = IF i < n THEN x[i] ELSE 0
  <2>1. Len0(x) = n
    BY <1>2, <1>3, VectorLength
  <2> QED BY <2>1 DEF Pad, PadZeros, Vector
<1>5. \A i \in 0 .. o - 1 : w[i] \in 0 .. m - 1
  <2> HIDE DEF w
  <2>1. \A i \in 0 .. o - 1 : i < n => i \in 0 .. n - 1
    BY ONLY <1>2
  <2>2. 0 \in 0 .. m - 1
    BY ONLY <1>1
  <2> QED BY ONLY <1>3, <1>4, <2>1, <2>2
<1>6. z \in Roots(r)
  BY DEF Roots
<1>7. \A k \in 0 .. o - 1 : e[k] = Evaluated(w, z, o, k, o, m)
  <2> HIDE DEF w
  <2> QED BY <1>5, <1>6, BluesteinEvaluates
<1>8. Values(x, r) = [i \in 0 .. n - 1 |-> Evaluated(x, z, n, list[i], o, m)]
  <2>1. DOMAIN x = 0 .. n - 1 /\ \A j \in 0 .. n - 1 : x[j] \in Int
    BY <1>1, <1>3
  <2> QED BY <2>1, ValuesEvaluated
<1>9. DropForward(e, r) = [i \in 0 .. n - 1 |-> e[list[i]]]
  BY DEF DropForward, Vector
<1> HIDE DEF o, m, z, n, list, w, e
<1>10. ASSUME NEW i \in 0 .. n - 1 PROVE e[list[i]] = Evaluated(x, z, n, list[i], o, m)
  <2> DEFINE k == list[i]
  <2>1. k \in 0 .. o - 1 /\ k \in Nat
    BY <1>1, <1>2
  <2> HIDE DEF k
  <2>2. Padded(w, x, n, o)
    <3>1. \A j \in 0 .. n - 1 : x[j] \in Int /\ j \in 0 .. o - 1 /\ j < n
      BY ONLY <1>1, <1>2, <1>3
    <3>2. \A j \in n .. o - 1 : j \in 0 .. o - 1 /\ ~(j < n)
      BY ONLY <1>1, <1>2
    <3> QED BY ONLY <1>4, <3>1, <3>2 DEF Padded
  <2>3. Evaluated(w, z, o, k, o, m) = Evaluated(x, z, n, k, o, m)
    BY ONLY <1>1, <1>2, <2>1, <2>2, EvaluatedPadded
  <2>4. e[k] = Evaluated(x, z, n, k, o, m)
    BY ONLY <1>7, <2>1, <2>3
  <2> QED BY <2>4 DEF k
<1>11. DropForward(e, r) = Values(x, r)
  BY ONLY <1>8, <1>9, <1>10
<1> QED BY <1>11 DEF o, m, z, w, e

-----------------------------------------------------------------------------
(* The transform with the inverse root.                                    *)

\* The sum that entry i of one transform contributes to entry k of the other.
Crossed(x, y, i, k, o, m) ==
  Total([j \in 0 .. o - 1 |-> Power(x, (2 * j * k) % (2 * o), m) * Power(y, (2 * i * j) % (2 * o), m)], o)

\* It is zero for entries k above i,
LEMMA CrossedAbove ==
  ASSUME NEW m, Field(m), NEW o \in Nat \ {0}, NEW x, NEW y, RootWithInverse(x, y, o, m),
         NEW i \in 0 .. o - 1, NEW k \in 0 .. o - 1, i < k
  PROVE  Congruent(Crossed(x, y, i, k, o, m), 0, m)
<1>1. m \in Nat \ {0, 1} /\ m \in Nat \ {0}
  BY DEF Field
<1> DEFINE d == k - i
           w == Power(x, 2 * d, m)
           t == [j \in 0 .. o - 1 |-> Power(w, j, m)]
           s == [j \in 0 .. o - 1 |-> Power(x, (2 * j * k) % (2 * o), m) * Power(y, (2 * i * j) % (2 * o), m)]
<1>2. d \in 1 .. o - 1 /\ d \in Nat /\ k = d + i /\ 2 * d \in Nat /\ 2 * d \in 1 .. 2 * o - 1 /\ i \in Nat /\ k \in Nat
  OBVIOUS
<1> HIDE DEF d
<1>3. /\ x \in Nat /\ y \in Nat
      /\ \A e \in Nat : Power(x, e % (2 * o), m) = Power(x, e, m)
      /\ \A e \in Nat : Power(y, e % (2 * o), m) = Power(y, e, m)
      /\ \A e \in Nat : Power(x, e, m) \in 0 .. m - 1 /\ Power(x, e, m) \in Int
      /\ \A e \in Nat : Power(y, e, m) \in 0 .. m - 1 /\ Power(y, e, m) \in Int
      /\ \A e, f \in Nat : Congruent(Power(x, e + f, m), Power(x, e, m) * Power(x, f, m), m)
      /\ \A e \in Nat : Congruent(Power(x, e, m) * Power(y, e, m), 1, m)
  BY ONLY <1>1, RootPowers, o \in Nat \ {0}, RootWithInverse(x, y, o, m)
<1>4. w \in 0 .. m - 1 /\ w # 1
  BY <1>2, <1>3 DEF RootWithInverse
<1>5. \A j \in Nat : Power(w, j, m) = Power(x, (2 * d) * j, m)
  BY ONLY <1>1, <1>2, <1>3, PowerOfPower
<1>6. Power(w, o, m) = 1
  <2>1. (2 * d) * o = (2 * o) * d /\ (2 * o) * d = d * (2 * o) + 0 /\ (2 * o) * d \in Nat /\ 2 * o \in Nat \ {0}
        /\ 0 \in 0 .. 2 * o - 1
    BY ONLY <1>2, o \in Nat \ {0}
  <2> DEFINE e == (2 * o) * d
             n == 2 * o
  <2>2. e \in Int /\ n \in Nat \ {0} /\ d \in Int /\ 0 \in 0 .. n - 1 /\ e = d * n + 0
    BY <1>2, <2>1
  <2> HIDE DEF e, n
  <2>3. e % n = 0
    BY ONLY <2>2, DivUnique
  <2>4. Power(x, 0, m) = 1
    BY ONLY <1>1, <1>3, PowerSteps
  <2>5. Power(x, e, m) = Power(x, e % n, m)
    BY <1>3, <2>1 DEF e, n
  <2> QED BY <1>5, <2>1, <2>3, <2>4, <2>5 DEF e
<1>7. Congruent(Total(t, o), 0, m)
  <2>1. \A j \in 0 .. o - 1 : t[j] = Power(w, j, m)
    OBVIOUS
  <2>2. o \in Nat
    OBVIOUS
  <2> HIDE DEF t, w
  <2> QED BY ONLY <1>4, <1>6, <2>1, <2>2, GeometricSum, Field(m)
<1>8. ASSUME NEW j \in 0 .. o - 1 PROVE s[j] \in Int /\ t[j] \in Int /\ Congruent(s[j], t[j], m)
  <2> DEFINE ej == 2 * j * k
             ei == 2 * i * j
             ed == (2 * d) * j
  <2>1. ej \in Nat /\ ei \in Nat /\ ed \in Nat /\ ej = ed + ei
    <3>1. j \in Nat
      OBVIOUS
    <3>2. 2 * i \in Nat /\ 2 * j \in Nat /\ 2 * d \in Nat
      BY ONLY <1>2, <3>1
    <3>3. ej \in Nat /\ ei \in Nat /\ ed \in Nat
      BY ONLY <1>2, <3>1, <3>2, ProductInteger
    <3>4. j * k = j * d + j * i /\ j * d \in Nat /\ j * i \in Nat /\ j * k \in Nat
      BY ONLY <1>2, <3>1, ProductInteger
    <3>5. ej = 2 * (j * k) /\ ei = 2 * (j * i) /\ ed = 2 * (j * d)
      BY ONLY <1>2, <3>1
    <3> QED BY ONLY <3>3, <3>4, <3>5
  <2> DEFINE a == Power(x, ej, m)
             b == Power(y, ei, m)
             c == Power(x, ed, m)
             f == Power(x, ei, m)
  <2>2. s[j] = a * b
    BY <1>3, <2>1
  <2>3. t[j] = c
    BY <1>5
  <2>4. a \in Int /\ b \in Int /\ c \in Int /\ f \in Int /\ Congruent(a, c * f, m) /\ Congruent(f * b, 1, m)
    BY <1>3, <2>1
  <2> HIDE DEF a, b, c, f, s, t
  <2>5. c * f \in Int /\ f * b \in Int /\ a * b \in Int /\ (c * f) * b = c * (f * b) /\ c * 1 = c
    BY ONLY <2>4, ProductInteger, Reorder
  <2>6. \A g : Congruent(g, g, m)
    BY ONLY <1>1, CongruentRelation
  <2>7. Congruent(a * b, (c * f) * b, m)
    BY ONLY <1>1, <2>4, <2>5, <2>6, CongruentProduct
  <2>8. Congruent(c * (f * b), c * 1, m)
    BY ONLY <1>1, <2>4, <2>5, <2>6, CongruentProduct, 1 \in Int
  <2>9. Congruent(a * b, c, m)
    BY ONLY <2>5, <2>7, <2>8 DEF Congruent
  <2> QED BY ONLY <2>2, <2>3, <2>4, <2>5, <2>9
<1>9. Crossed(x, y, i, k, o, m) = Total(s, o)
  BY DEF Crossed
<1> HIDE DEF s, t
<1>10. Congruent(Total(s, o), Total(t, o), m)
  BY ONLY <1>1, <1>8, TotalCongruent, o \in Nat
<1> QED BY ONLY <1>7, <1>9, <1>10 DEF Congruent

\* for those below,
LEMMA CrossedBelow ==
  ASSUME NEW m, Field(m), NEW o \in Nat \ {0}, NEW x, NEW y, RootWithInverse(x, y, o, m),
         NEW i \in 0 .. o - 1, NEW k \in 0 .. o - 1, k < i
  PROVE  Congruent(Crossed(x, y, i, k, o, m), 0, m)
<1>1. m \in Nat \ {0, 1} /\ m \in Nat
  BY DEF Field
<1>2. RootWithInverse(y, x, o, m)
  BY ONLY <1>1, InverseOrder, o \in Nat \ {0}, RootWithInverse(x, y, o, m)
<1>3. Congruent(Crossed(y, x, k, i, o, m), 0, m)
  BY ONLY <1>2, CrossedAbove, Field(m), o \in Nat \ {0}, i \in 0 .. o - 1, k \in 0 .. o - 1, k < i
<1> DEFINE s == [j \in 0 .. o - 1 |-> Power(x, (2 * j * k) % (2 * o), m) * Power(y, (2 * i * j) % (2 * o), m)]
           t == [j \in 0 .. o - 1 |-> Power(y, (2 * j * i) % (2 * o), m) * Power(x, (2 * k * j) % (2 * o), m)]
<1>4. ASSUME NEW j \in 0 .. o - 1 PROVE s[j] = t[j]
  <2>1. 2 * j * k = 2 * k * j /\ 2 * i * j = 2 * j * i
    <3>1. \A e, f \in Int : 2 * e * f = 2 * f * e
      BY SMT
    <3> QED BY <3>1
  <2> DEFINE a == Power(x, (2 * j * k) % (2 * o), m)
             b == Power(y, (2 * i * j) % (2 * o), m)
  <2>2. a \in Int /\ b \in Int
    <3>1. x \in Nat /\ y \in Nat
      BY <1>1 DEF RootWithInverse
    <3>2. i \in Nat /\ j \in Nat /\ k \in Nat
      OBVIOUS
    <3>3. a \in 0 .. m - 1 /\ b \in 0 .. m - 1
      BY ONLY <1>1, <3>1, <3>2, EvaluatedTerm, o \in Nat \ {0}
    <3> HIDE DEF a, b
    <3> QED BY ONLY <1>1, <3>3
  <2>3. s[j] = a * b /\ t[j] = b * a
    BY <2>1
  <2> HIDE DEF a, b
  <2> QED BY ONLY <2>2, <2>3
<1>5. s = t
  BY ONLY <1>4
<1>6. Crossed(x, y, i, k, o, m) = Crossed(y, x, k, i, o, m)
  BY <1>5 DEF Crossed
<1> QED BY <1>3, <1>6

\* and o for i itself.
LEMMA CrossedSame ==
  ASSUME NEW m \in Nat \ {0, 1}, NEW o \in Nat \ {0}, NEW x, NEW y, RootWithInverse(x, y, o, m),
         NEW k \in 0 .. o - 1
  PROVE  Congruent(Crossed(x, y, k, k, o, m), o, m)
<1> DEFINE s == [j \in 0 .. o - 1 |-> Power(x, (2 * j * k) % (2 * o), m) * Power(y, (2 * k * j) % (2 * o), m)]
           t == [j \in 0 .. o - 1 |-> 1]
<1>1. ASSUME NEW j \in 0 .. o - 1 PROVE s[j] \in Int /\ Congruent(s[j], 1, m)
  <2>1. 2 * j * k = 2 * k * j /\ 2 * k * j \in Nat
    <3>1. j \in Nat /\ k \in Nat /\ 2 * k \in Nat
      OBVIOUS
    <3>2. (2 * k) * j \in Nat
      BY ONLY <3>1, ProductInteger
    <3>3. \A e, f \in Int : 2 * e * f = 2 * f * e
      BY SMT
    <3> QED BY <3>1, <3>2, <3>3
  <2> DEFINE e == 2 * k * j
             a == Power(x, e, m)
             b == Power(y, e, m)
  <2>2. s[j] = a * b /\ a \in Int /\ b \in Int /\ Congruent(a * b, 1, m)
    <3>1. /\ x \in Nat /\ y \in Nat
          /\ \A f \in Nat : Power(x, f % (2 * o), m) = Power(x, f, m)
          /\ \A f \in Nat : Power(y, f % (2 * o), m) = Power(y, f, m)
          /\ \A f \in Nat : Power(x, f, m) \in 0 .. m - 1 /\ Power(x, f, m) \in Int
          /\ \A f \in Nat : Power(y, f, m) \in 0 .. m - 1 /\ Power(y, f, m) \in Int
          /\ \A f, g \in Nat : Congruent(Power(x, f + g, m), Power(x, f, m) * Power(x, g, m), m)
          /\ \A f \in Nat : Congruent(Power(x, f, m) * Power(y, f, m), 1, m)
      BY ONLY RootPowers, m \in Nat \ {0, 1}, o \in Nat \ {0}, RootWithInverse(x, y, o, m)
    <3>2. a \in Int /\ b \in Int /\ Congruent(a * b, 1, m)
      BY ONLY <2>1, <3>1
    <3>3. s[j] = Power(x, (2 * j * k) % (2 * o), m) * Power(y, (2 * k * j) % (2 * o), m)
      OBVIOUS
    <3>4. Power(x, (2 * j * k) % (2 * o), m) = a /\ Power(y, (2 * k * j) % (2 * o), m) = b
      <4>1. 2 * j * k = e /\ 2 * k * j = e /\ e \in Nat
        BY <2>1
      <4> HIDE DEF e
      <4>2. Power(x, (2 * j * k) % (2 * o), m) = Power(x, e % (2 * o), m)
            /\ Power(y, (2 * k * j) % (2 * o), m) = Power(y, e % (2 * o), m)
        BY ONLY <4>1, Zenon
      <4> QED BY ONLY <3>1, <4>1, <4>2, Zenon
    <3> HIDE DEF s, a, b
    <3> QED BY ONLY <3>2, <3>3, <3>4
  <2> HIDE DEF a, b, s
  <2>3. a * b \in Int
    BY ONLY <2>2, ProductInteger
  <2> QED BY ONLY <2>2, <2>3
<1>2. Crossed(x, y, k, k, o, m) = Total(s, o)
  BY DEF Crossed
<1>3. \A j \in 0 .. o - 1 : t[j] = 1
  OBVIOUS
<1> HIDE DEF s, t
<1>4. Congruent(Total(s, o), Total(t, o), m)
  <2>1. \A j \in 0 .. o - 1 : s[j] \in Int /\ t[j] \in Int /\ Congruent(s[j], t[j], m)
    BY ONLY <1>1, <1>3, 1 \in Int
  <2> QED BY ONLY <2>1, TotalCongruent, o \in Nat, m \in Nat \ {0}
<1>5. Total(t, o) = o
  <2> DEFINE Q == {n \in Nat : n <= o => Total(t, n) = n}
  <2>1. Total(t, 0) = 0 /\ \A n \in 0 .. o - 1 : Total(t, n + 1) = Total(t, n) + t[n]
    <3>1. \A j \in 0 .. o - 1 : t[j] \in Int
      BY ONLY <1>3, 1 \in Int
    <3> QED BY ONLY <3>1, TotalSteps, o \in Nat
  <2>2. 0 \in Q
    BY <2>1
  <2>3. ASSUME NEW n \in Nat, n \in Q PROVE n + 1 \in Q
    <3>1. SUFFICES ASSUME n + 1 <= o PROVE Total(t, n + 1) = n + 1
      OBVIOUS
    <3>2. n \in 0 .. o - 1 /\ Total(t, n) = n
      BY <2>3, <3>1
    <3> QED BY <1>3, <2>1, <3>2
  <2>4. Nat \subseteq Q
    <3> HIDE DEF Q
    <3> QED BY ONLY <2>2, <2>3, Induction
  <2> QED BY <2>4
<1> QED BY ONLY <1>2, <1>4, <1>5

\* The entries of one transform, scaled: f is c times that of p with the root y.
ScaledTransform(f, p, y, c, o, m) ==
  \A j \in 0 .. o - 1 :
    f[j] \in Int
    /\ Congruent(f[j], c * Total([i \in 0 .. o - 1 |-> p[i] * Power(y, (2 * i * j) % (2 * o), m)], o), m)

\* The transform with the inverse root, divided by the order, is undone by the
\* transform with the root.
LEMMA TransformInverts ==
  ASSUME NEW m, Field(m), NEW o \in Nat \ {0}, NEW x, NEW y, RootWithInverse(x, y, o, m),
         NEW c \in Int, Congruent(c * o, 1, m),
         NEW p, \A i \in 0 .. o - 1 : p[i] \in 0 .. m - 1,
         NEW f, ScaledTransform(f, p, y, c, o, m), NEW k \in 0 .. o - 1
  PROVE  Evaluated(f, x, o, k, o, m) = p[k]
<1> DEFINE X(j) == Power(x, (2 * j * k) % (2 * o), m)
           Y(i, j) == Power(y, (2 * i * j) % (2 * o), m)
           row(j) == [i \in 0 .. o - 1 |-> p[i] * Y(i, j)]
           cross(i) == [j \in 0 .. o - 1 |-> X(j) * Y(i, j)]
           tab == [j \in 0 .. o - 1 |-> [i \in 0 .. o - 1 |-> (c * p[i]) * (X(j) * Y(i, j))]]
           bat == [i \in 0 .. o - 1 |-> [j \in 0 .. o - 1 |-> (c * p[i]) * (X(j) * Y(i, j))]]
           rows == [j \in 0 .. o - 1 |-> Total(tab[j], o)]
           cols == [i \in 0 .. o - 1 |-> Total(bat[i], o)]
           s == [j \in 0 .. o - 1 |-> f[j] * X(j)]
           one == [i \in 0 .. o - 1 |-> IF i = k THEN c * p[i] * o ELSE 0]
<1>1. m \in Nat \ {0, 1} /\ m \in Nat \ {0} /\ m \in Nat /\ x \in Nat /\ y \in Nat /\ o \in Nat
  <2>1. m \in Nat \ {0, 1} /\ m \in Nat \ {0} /\ m \in Nat
    BY DEF Field
  <2> QED BY <2>1 DEF RootWithInverse
<1>2. /\ \A j \in 0 .. o - 1 : X(j) \in Int
      /\ \A i, j \in 0 .. o - 1 : Y(i, j) \in Int
  <2>1. \A j \in 0 .. o - 1 : j \in Nat /\ k \in Nat
    OBVIOUS
  <2>2. /\ \A j \in 0 .. o - 1 : X(j) \in 0 .. m - 1
        /\ \A i, j \in 0 .. o - 1 : Y(i, j) \in 0 .. m - 1
    BY ONLY <1>1, <2>1, EvaluatedTerm, o \in Nat \ {0}
  <2> HIDE DEF X, Y
  <2> QED BY ONLY <1>1, <2>2
<1>3. \A i \in 0 .. o - 1 : p[i] \in Int /\ c * p[i] \in Int /\ c * p[i] * o \in Int
  <2>1. \A i \in 0 .. o - 1 : p[i] \in Int
    BY ONLY <1>1, \A i \in 0 .. o - 1 : p[i] \in 0 .. m - 1
  <2>2. \A i \in 0 .. o - 1 : c * p[i] \in Int
    BY ONLY <2>1, ProductInteger, c \in Int
  <2>3. \A i \in 0 .. o - 1 : (c * p[i]) * o \in Int
    BY ONLY <1>1, <2>2, ProductInteger
  <2> QED BY <2>1, <2>2, <2>3
<1>4. \A j \in 0 .. o - 1 : f[j] \in Int /\ Congruent(f[j], c * Total(row(j), o), m)
  BY DEF ScaledTransform
<1>5. \A i \in 0 .. o - 1 : Crossed(x, y, i, k, o, m) = Total(cross(i), o)
  BY DEF Crossed
<1>6. Evaluated(f, x, o, k, o, m) = Total(s, o) % m
  BY DEF Evaluated
<1> HIDE DEF X, Y
<1>7. \A a : Congruent(a, a, m)
  BY ONLY <1>1, CongruentRelation
<1>8. /\ \A i, j \in 0 .. o - 1 : X(j) * Y(i, j) \in Int /\ p[i] * Y(i, j) \in Int
                                  /\ (c * p[i]) * (X(j) * Y(i, j)) \in Int
  <2>1. \A i, j \in 0 .. o - 1 : X(j) * Y(i, j) \in Int /\ p[i] * Y(i, j) \in Int
    BY ONLY <1>2, <1>3, ProductInteger
  <2>2. \A i, j \in 0 .. o - 1 : (c * p[i]) * (X(j) * Y(i, j)) \in Int
    BY ONLY <1>3, <2>1, ProductInteger
  <2> QED BY ONLY <2>1, <2>2
<1>9. Total(rows, o) = Total(cols, o)
  <2>1. \A j, i \in 0 .. o - 1 : tab[j][i] \in Int /\ bat[i][j] = tab[j][i]
    BY <1>8
  <2>2. \A j \in 0 .. o - 1 : rows[j] = Total(tab[j], o)
    OBVIOUS
  <2>3. \A i \in 0 .. o - 1 : cols[i] = Total(bat[i], o)
    OBVIOUS
  <2> HIDE DEF tab, bat, rows, cols
  <2>4. Transposed(tab, bat, o, o) /\ Sums(rows, tab, o, o) /\ Sums(cols, bat, o, o)
    BY ONLY <2>1, <2>2, <2>3 DEF Transposed, Sums
  <2> QED BY ONLY <1>1, <2>4, TotalSwaps
<1>10. ASSUME NEW j \in 0 .. o - 1
       PROVE  rows[j] \in Int /\ s[j] \in Int /\ Congruent(s[j], rows[j], m)
  <2> DEFINE a == X(j)
             ca == c * X(j)
             t == row(j)
             u == tab[j]
  <2>1. a \in Int /\ f[j] \in Int /\ ca \in Int
    <3>1. a \in Int /\ f[j] \in Int
      BY <1>2, <1>4
    <3> HIDE DEF a
    <3>2. c * a \in Int
      BY ONLY <3>1, ProductInteger, c \in Int
    <3> QED BY <3>1, <3>2 DEF a
  <2>2. ASSUME NEW i \in 0 .. o - 1 PROVE t[i] \in Int /\ u[i] = ca * t[i]
    <3>1. t[i] = p[i] * Y(i, j) /\ u[i] = (c * p[i]) * (X(j) * Y(i, j))
      OBVIOUS
    <3>2. p[i] \in Int /\ Y(i, j) \in Int /\ p[i] * Y(i, j) \in Int /\ X(j) \in Int
      BY <1>2, <1>3, <1>8
    <3> DEFINE b == p[i]
               d == Y(i, j)
               e == X(j)
    <3>3. b \in Int /\ d \in Int /\ e \in Int
      BY <3>2
    <3> HIDE DEF b, d, e
    <3>4. (c * b) * (e * d) = (c * e) * (b * d)
      BY ONLY <3>3, c \in Int
    <3> QED BY <3>1, <3>2, <3>4 DEF b, d, e
  <2>3. Total(u, o) = ca * Total(t, o) /\ Total(t, o) \in Int
    <3> HIDE DEF t, u, ca
    <3>1. \A i \in 0 .. o - 1 : t[i] \in Int
      BY ONLY <2>2
    <3>2. Total(u, o) = ca * Total(t, o)
      BY ONLY <1>1, <2>1, <2>2, TotalTimes
    <3> QED BY ONLY <1>1, <3>1, <3>2, TotalInteger
  <2>4. rows[j] = Total(u, o) /\ s[j] = f[j] * a /\ Congruent(f[j], c * Total(t, o), m)
    BY <1>4
  <2> DEFINE T == Total(t, o)
             g == f[j]
  <2>5. a \in Int /\ T \in Int /\ g \in Int /\ rows[j] = (c * a) * T /\ s[j] = g * a /\ Congruent(g, c * T, m)
    BY <2>1, <2>3, <2>4
  <2> HIDE DEF a, ca, t, u, T, g, rows, s
  <2>6. c * T \in Int /\ c * a \in Int /\ (c * a) * T \in Int /\ g * a \in Int /\ (c * T) * a = (c * a) * T
    BY ONLY <2>5, ProductInteger, Reorder, c \in Int
  <2>7. Congruent(g * a, (c * T) * a, m)
    BY ONLY <1>1, <1>7, <2>5, <2>6, CongruentProduct
  <2> QED BY ONLY <2>5, <2>6, <2>7
<1>11. ASSUME NEW i \in 0 .. o - 1
       PROVE  cols[i] \in Int /\ one[i] \in Int /\ Congruent(cols[i], one[i], m)
  <2> DEFINE cp == c * p[i]
             t == cross(i)
             u == bat[i]
  <2>1. cp \in Int /\ cp * o \in Int
    BY <1>3
  <2>2. \A j \in 0 .. o - 1 : t[j] \in Int /\ u[j] = cp * t[j]
    <3>1. \A j \in 0 .. o - 1 : t[j] = X(j) * Y(i, j) /\ u[j] = (c * p[i]) * (X(j) * Y(i, j))
      OBVIOUS
    <3> QED BY <1>8, <3>1
  <2>3. Total(u, o) = cp * Total(t, o) /\ Total(t, o) \in Int
    <3> HIDE DEF t, u, cp
    <3>1. \A j \in 0 .. o - 1 : t[j] \in Int
      BY ONLY <2>2
    <3>2. Total(u, o) = cp * Total(t, o)
      BY ONLY <1>1, <2>1, <2>2, TotalTimes
    <3> QED BY ONLY <1>1, <3>1, <3>2, TotalInteger
  <2>4. cols[i] = Total(u, o) /\ one[i] = IF i = k THEN cp * o ELSE 0
    OBVIOUS
  <2>5. Congruent(Total(t, o), IF i = k THEN o ELSE 0, m)
    <3>1. Crossed(x, y, i, k, o, m) = Total(t, o)
      BY <1>5
    <3> HIDE DEF t
    <3>2. CASE i = k
      BY ONLY <1>1, <3>1, <3>2, CrossedSame, o \in Nat \ {0}, RootWithInverse(x, y, o, m), k \in 0 .. o - 1
    <3>3. CASE i < k
      BY ONLY <3>1, <3>3, CrossedAbove, Field(m), o \in Nat \ {0}, RootWithInverse(x, y, o, m),
              k \in 0 .. o - 1, i \in 0 .. o - 1
    <3>4. CASE k < i
      BY ONLY <3>1, <3>4, CrossedBelow, Field(m), o \in Nat \ {0}, RootWithInverse(x, y, o, m),
              k \in 0 .. o - 1, i \in 0 .. o - 1
    <3>5. i = k \/ i < k \/ k < i
      OBVIOUS
    <3> QED BY ONLY <3>2, <3>3, <3>4, <3>5
  <2> DEFINE T == Total(t, o)
             v == IF i = k THEN o ELSE 0
  <2>6. T \in Int /\ v \in Int /\ Congruent(T, v, m) /\ cols[i] = cp * T /\ one[i] = cp * v
    <3>1. v \in Int
      BY ONLY <1>1
    <3>2. cp * v = IF i = k THEN cp * o ELSE 0
      BY ONLY <2>1, <1>1
    <3> QED BY <2>3, <2>4, <2>5, <3>1, <3>2
  <2> HIDE DEF cp, t, u, T, v, cols, one
  <2>7. Congruent(cp * T, cp * v, m)
    BY ONLY <1>1, <1>7, <2>1, <2>6, CongruentProduct
  <2>8. cp * T \in Int /\ cp * v \in Int
    BY ONLY <2>1, <2>6, ProductInteger
  <2> QED BY ONLY <2>6, <2>7, <2>8
<1>12. one[k] = c * p[k] * o /\ one[k] \in Int /\ \A i \in 0 .. o - 1 : i # k => one[i] = 0
  BY <1>3
<1> HIDE DEF tab, bat, rows, cols, s, one
<1>13. Congruent(Total(s, o), Total(rows, o), m)
  BY ONLY <1>1, <1>10, TotalCongruent
<1>14. Congruent(Total(cols, o), Total(one, o), m)
  BY ONLY <1>1, <1>11, TotalCongruent
<1>15. Total(one, o) = c * p[k] * o
  BY ONLY <1>1, <1>12, TotalSingle, k \in 0 .. o - 1
<1> DEFINE q == p[k]
<1>16. q \in Int /\ q \in 0 .. m - 1 /\ c * q * o \in Int
  BY <1>3
<1>17. Congruent(c * p[k] * o, q, m)
  <2>1. c * q * o = q * (c * o) /\ q * 1 = q /\ c * o \in Int
    <3> HIDE DEF q
    <3>1. q * 1 = q /\ c * o \in Int
      BY ONLY <1>1, <1>16, ProductInteger, c \in Int
    <3>2. (c * q) * o = q * (c * o)
      BY ONLY <1>1, <1>16, Reorder, c \in Int
    <3> QED BY ONLY <3>1, <3>2
  <2> HIDE DEF q
  <2>2. Congruent(q * (c * o), q * 1, m)
    BY ONLY <1>1, <1>7, <1>16, <2>1, CongruentProduct, Congruent(c * o, 1, m), 1 \in Int
  <2>3. Congruent(c * q * o, q, m)
    BY ONLY <2>1, <2>2
  <2> QED BY <2>3 DEF q
<1>18. Total(s, o) % m = q % m
  BY ONLY <1>9, <1>13, <1>14, <1>15, <1>17 DEF Congruent
<1>19. q % m = q
  <2> HIDE DEF q
  <2> QED BY ONLY <1>1, <1>16, Remainders
<1> QED BY <1>6, <1>18, <1>19

\* A transform is the value at a power of the root.
LEMMA EvaluatedAt ==
  ASSUME NEW m \in Nat \ {0, 1}, NEW o \in Nat \ {0}, NEW x, NEW y, RootWithInverse(x, y, o, m),
         NEW n \in Nat, NEW v, NEW k \in Nat
  PROVE  /\ Evaluated(v, x, n, k, o, m) = ValueAt(v, Power(x, 2 * k, m), n, m) % m
         /\ Power(x, 2 * k, m) \in 0 .. m - 1
<1> DEFINE w == Power(x, 2 * k, m)
           s == [i \in 0 .. n - 1 |-> v[i] * Power(x, (2 * i * k) % (2 * o), m)]
           t == [i \in 0 .. n - 1 |-> v[i] * Power(w, i, m)]
<1>1. x \in Nat /\ \A e \in Nat : Power(x, e % (2 * o), m) = Power(x, e, m)
  BY ONLY RootPowers, m \in Nat \ {0, 1}, o \in Nat \ {0}, RootWithInverse(x, y, o, m)
<1>2. 2 * k \in Nat
  OBVIOUS
<1>3. w \in 0 .. m - 1
  BY ONLY <1>1, <1>2, PowerSteps, m \in Nat \ {0, 1}
<1>4. ASSUME NEW i \in 0 .. n - 1 PROVE s[i] = t[i]
  <2> DEFINE e == (2 * k) * i
  <2>1. i \in Nat
    OBVIOUS
  <2>2. 2 * i * k = e /\ e \in Nat
    <3>1. \A a, b \in Nat : 2 * a * b = (2 * b) * a
      BY SMT
    <3>2. e \in Nat
      BY ONLY <1>2, <2>1, ProductInteger
    <3> QED BY ONLY <2>1, <3>1, <3>2, k \in Nat
  <2>3. Power(w, i, m) = Power(x, e, m)
    BY ONLY <1>1, <1>2, <2>1, PowerOfPower, m \in Nat \ {0, 1}
  <2> HIDE DEF e, w
  <2>4. Power(x, (2 * i * k) % (2 * o), m) = Power(x, e % (2 * o), m)
    BY ONLY <2>2, Zenon
  <2>5. Power(x, (2 * i * k) % (2 * o), m) = Power(w, i, m)
    BY ONLY <1>1, <2>2, <2>3, <2>4
  <2> QED BY <2>5
<1>5. s = t
  BY ONLY <1>4
<1> QED BY <1>3, <1>5 DEF Evaluated, ValueAt

-----------------------------------------------------------------------------
(* Drop for orders that are prime, or twice a prime.                       *)

\* Sums and differences of residues, the modulus itself among them.
LEMMA ModularSums ==
  ASSUME NEW m, BarrettModulus(m), NEW a \in 0 .. m, NEW b \in 0 .. m - 1
  PROVE  /\ ModSubMu(a, b, m, ComputeMu(m)) = (a - b) % m
         /\ ModAddMu(a, b, m, ComputeMu(m)) = (a + b) % m
<1> DEFINE n == GetMSB(m) - 2
           p == 2^n
           q == 2^(n + 7)
           K == 2^(2 * GetMSB(m) + 2)
           mu == ComputeMu(m)
<1>1. /\ m \in Nat \ {0} /\ m \in Word /\ p \in Nat \ {0} /\ m < 4 * p /\ q = 128 * p
      /\ 2^(2 * GetMSB(m) + 3) = p * q /\ 2^(2 * GetMSB(m) + 3) = 2 * K
  <2>1. n = GetMSB(m) - 2
    OBVIOUS
  <2> HIDE DEF n
  <2> QED BY ONLY <2>1, ModulusPowers, BarrettModulus(m)
<1>2. m < K /\ K \in Int
  <2>1. 2 * K = p * q
    BY ONLY <1>1
  <2>2. K \in Int
    <3>1. \A u, v, w \in Nat : u * w \in Nat
      BY SMT
    <3>2. 2 * GetMSB(m) + 2 \in Nat
      <4>1. n \in 1 .. W - 6
        <5>1. n = GetMSB(m) - 2
          OBVIOUS
        <5> HIDE DEF n
        <5> QED BY ONLY <5>1, ModulusPowers, BarrettModulus(m)
      <4>2. GetMSB(m) = n + 2 /\ W \in Nat
        <5>1. GetMSB(m) \in Int
          BY DEF BarrettModulus
        <5> QED BY <5>1, PowersOfTwo
      <4> HIDE DEF n
      <4> QED BY ONLY <4>1, <4>2
    <3> QED BY <3>2, PowerAssumption
  <2> HIDE DEF p, q, K
  <2>3. p * q = 128 * (p * p) /\ p * p \in Nat /\ p <= p * p
    <3>1. p * (128 * p) = 128 * (p * p)
      BY ONLY <1>1
    <3>2. p * p \in Nat /\ p <= p * p
      BY ONLY <1>1
    <3> QED BY ONLY <1>1, <3>1, <3>2
  <2> DEFINE s == p * p
  <2>4. 2 * K = 128 * s /\ s \in Nat /\ p <= s /\ p \in Nat /\ m < 4 * p /\ m \in Nat
    BY ONLY <1>1, <2>1, <2>3
  <2> HIDE DEF s
  <2> QED BY ONLY <2>2, <2>4
<1> HIDE DEF p, q, K, n
<1>3. a \in Word /\ b \in Word /\ a < K /\ b < K /\ a \in Nat /\ b \in Nat
  <2>1. Word = 0 .. 2^W - 1 /\ 2^W \in Nat
    BY WordSize
  <2> DEFINE N == 2^W
  <2>2. m \in 0 .. N - 1 /\ N \in Nat
    BY <1>1, <2>1
  <2> HIDE DEF N
  <2>3. a \in 0 .. N - 1 /\ b \in 0 .. N - 1 /\ a < K /\ b < K /\ a \in Nat /\ b \in Nat
    BY ONLY <1>1, <1>2, <2>2, a \in 0 .. m, b \in 0 .. m - 1
  <2> QED BY <2>1, <2>3 DEF N
<1>4. Reduced(a, m, mu) = a % m /\ Reduced(b, m, mu) = b % m
  <2>1. a < 2^(2 * GetMSB(m) + 2) /\ b < 2^(2 * GetMSB(m) + 2)
    BY <1>3 DEF K
  <2> QED BY ONLY <1>3, <2>1, ReducedExact, BarrettModulus(m) DEF mu
<1>5. a % m \in 0 .. m - 1 /\ b % m \in 0 .. m - 1
  BY ONLY <1>1, <1>3, Residues
<1>6. /\ ModAddFast(a % m, b % m, m) = ((a % m) + (b % m)) % m
      /\ ModSubFast(a % m, b % m, m) = ((a % m) - (b % m)) % m
  BY ONLY <1>5, SumsExact, BarrettModulus(m)
<1>7. ((a % m) - (b % m)) % m = (a - b) % m /\ ((a % m) + (b % m)) % m = (a + b) % m
  <2>1. Congruent(a % m, a, m) /\ Congruent(b % m, b, m)
    BY ONLY <1>1, <1>3, CongruentRelation
  <2>2. a % m \in Int /\ b % m \in Int /\ a \in Int /\ b \in Int
    BY ONLY <1>1, <1>3, <1>5
  <2>3. Congruent((a % m) - (b % m), a - b, m)
    BY ONLY <1>1, <2>1, <2>2, CongruentDifference
  <2>4. Congruent((a % m) + (b % m), a + b, m)
    BY ONLY <1>1, <2>1, <2>2, CongruentSum
  <2> QED BY <2>3, <2>4 DEF Congruent
<1> QED BY <1>4, <1>6, <1>7 DEF ModSubMu, ModAddMu, mu

\* The quotient for a prime order: 1 + x + ... vanishes at the roots.
LEMMA PrimeDropped ==
  ASSUME NEW m, BarrettModulus(m), Field(m), NEW n \in Nat, NEW f \in [0 .. n -> 0 .. m - 1],
         NEW w \in 0 .. m - 1, w # 1, Power(w, n + 1, m) = 1
  PROVE  /\ DropPrime(f, n, m) \in [0 .. n - 1 -> 0 .. m - 1]
         /\ Congruent(ValueAt(DropPrime(f, n, m), w, n, m), ValueAt(f, w, n + 1, m), m)
<1> DEFINE h == DropPrime(f, n, m)
           g == [i \in 0 .. n |-> f[n]]
<1>1. m \in Nat \ {0, 1} /\ m \in Nat \ {0} /\ n + 1 \in Nat /\ (n + 1) - 1 = n /\ n \in 0 .. n
  BY DEF Field
<1>2. h = [i \in 0 .. n - 1 |-> SubMod(f[i], f[n], m)]
  BY DEF DropPrime, Vector
<1>3. \A i \in 0 .. n : f[i] \in 0 .. m - 1 /\ f[i] \in 0 .. m /\ f[i] \in Int
  BY ONLY <1>1, f \in [0 .. n -> 0 .. m - 1]
<1>4. \A i \in 0 .. n - 1 : i \in 0 .. n
  OBVIOUS
<1>5. \A i \in 0 .. n - 1 : SubMod(f[i], f[n], m) = (f[i] - f[n]) % m
  BY ONLY <1>1, <1>3, <1>4, ModularSums, BarrettModulus(m) DEF SubMod
<1>6. \A i \in 0 .. n - 1 : (f[i] - f[n]) % m \in 0 .. m - 1 /\ Congruent((f[i] - f[n]) % m, f[i] - f[n], m)
  <2>1. \A i \in 0 .. n - 1 : f[i] - f[n] \in Int
    BY ONLY <1>1, <1>3, <1>4
  <2> QED BY ONLY <1>1, <2>1, CongruentRelation
<1>7. h \in [0 .. n - 1 -> 0 .. m - 1]
  BY ONLY <1>2, <1>5, <1>6
<1>8. \A i \in 0 .. n : g[i] = f[n]
  OBVIOUS
<1> HIDE DEF g
<1>9. ASSUME NEW i \in 0 .. n - 1 PROVE h[i] \in Int /\ Congruent(f[i], h[i] + g[i], m)
  <2> DEFINE a == f[i]
             b == f[n]
             c == h[i]
  <2>1. a \in Int /\ b \in Int /\ c \in 0 .. m - 1 /\ Congruent(c, a - b, m) /\ g[i] = b
    BY <1>1, <1>2, <1>3, <1>4, <1>5, <1>6, <1>8
  <2> HIDE DEF a, b, c
  <2>2. c \in Int /\ a - b \in Int
    BY ONLY <1>1, <2>1
  <2>3. Congruent(c + b, (a - b) + b, m)
    BY ONLY <1>1, <2>1, <2>2, CongruentSum, CongruentRelation
  <2>4. (a - b) + b = a
    BY ONLY <2>1
  <2>5. Congruent(a, c + b, m)
    BY ONLY <1>1, <2>3, <2>4, CongruentRelation
  <2> QED BY <2>1, <2>2, <2>5 DEF a, c
<1> HIDE DEF h
<1>10. Reduces(f, g, h, n, m)
  <2>1. \A i \in 0 .. n : f[i] \in Int /\ g[i] \in Int
    BY ONLY <1>1, <1>3, <1>8
  <2>2. Congruent(f[n], g[n], m)
    BY ONLY <1>1, <1>8, CongruentRelation
  <2> QED BY ONLY <1>9, <2>1, <2>2 DEF Reduces
<1>11. Congruent(ValueAt(g, w, n + 1, m), 0, m)
  <2> DEFINE c == f[n]
             o == n + 1
  <2>1. c \in Int /\ o \in Nat /\ \A i \in 0 .. o - 1 : g[i] = c
    BY <1>1, <1>3, <1>8
  <2> HIDE DEF c, o
  <2>2. Power(w, o, m) = 1
    BY DEF o
  <2>3. Congruent(ValueAt(g, w, o, m), 0, m)
    BY ONLY <2>1, <2>2, AtConstant, Field(m), w \in 0 .. m - 1, w # 1
  <2> QED BY <2>3 DEF o
<1>12. Congruent(ValueAt(h, w, n, m), ValueAt(f, w, n + 1, m), m)
  BY ONLY <1>1, <1>10, <1>11, ReducedValue, w \in 0 .. m - 1, n \in Nat
<1> QED BY <1>7, <1>12 DEF h

\* The power p of w is minus one, and v is minus w, a root of order p.
Opposite(w, v, p, m) ==
  /\ w \in 0 .. m - 1 /\ v \in 0 .. m - 1 /\ v # 1 /\ Power(v, p, m) = 1
  /\ Congruent(Power(w, p, m), -1, m)
  /\ \A i \in 0 .. p : Congruent(Power(v, i, m), IF i % 2 = 0 THEN Power(w, i, m) ELSE -Power(w, i, m), m)

\* One of an order that is twice an odd number is minus a root of that number.
LEMMA PrimitiveOpposite ==
  ASSUME NEW m, Field(m), NEW p \in Nat \ {0, 1}, p % 2 = 1,
         NEW x, NEW y, RootWithInverse(x, y, 2 * p, m), NEW k \in 1 .. 2 * p - 1, k % 2 = 1, k # p
  PROVE  Opposite(Power(x, 2 * k, m), Power(x, 2 * k + 2 * p, m), p, m)
<1> DEFINE o == 2 * p
           e == 2 * k
           d == e + o
           w == Power(x, e, m)
           v == Power(x, d, m)
<1>1. /\ m \in Nat \ {0, 1} /\ m \in Nat \ {0} /\ o \in Nat \ {0} /\ o \in Nat /\ p \in Nat /\ k \in Nat
      /\ e \in Nat /\ d \in Nat /\ d \in 1 .. 4 * o - 1 /\ d # 2 * o
      /\ e * p = o * k /\ k + p \in Nat /\ d * p = o * (k + p)
  <2>1. m \in Nat \ {0, 1}
    BY DEF Field
  <2> QED BY ONLY <2>1, p \in Nat \ {0, 1}, k \in 1 .. 2 * p - 1, k # p
<1>2. (k + p) % 2 = 0
  BY ONLY <1>1, k % 2 = 1, p % 2 = 1
<1>3. \A i \in Nat : e * i \in Nat /\ o * i \in Nat /\ d * i = e * i + o * i
  BY ONLY <1>1
<1>4. RootWithInverse(x, y, o, m)
  OBVIOUS
<1> HIDE DEF o, d, e
<1>5. x \in Nat
  BY ONLY <1>1, <1>4, RootPowers
<1>6. w \in 0 .. m - 1 /\ v \in 0 .. m - 1 /\ w \in Nat /\ v \in Nat
  <2>1. w \in 0 .. m - 1 /\ v \in 0 .. m - 1
    BY ONLY <1>1, <1>5, PowerSteps
  <2> QED BY ONLY <1>1, <2>1
<1>7. v # 1
  BY ONLY <1>1, <1>4, OtherThanOne
<1>8. \A i \in Nat : Power(w, i, m) = Power(x, e * i, m) /\ Power(v, i, m) = Power(x, d * i, m)
  BY ONLY <1>1, <1>5, PowerOfPower
<1>9. \A j \in Nat : (j % 2 = 0 => Power(x, o * j, m) = 1) /\ (j % 2 = 1 => Congruent(Power(x, o * j, m), -1, m))
  BY ONLY <1>1, <1>4, HalfTurns, Field(m)
<1>10. Power(v, p, m) = 1
  BY ONLY <1>1, <1>2, <1>8, <1>9
<1>11. Congruent(Power(w, p, m), -1, m)
  BY ONLY <1>1, <1>8, <1>9, k % 2 = 1
<1>12. ASSUME NEW i \in 0 .. p
       PROVE  Congruent(Power(v, i, m), IF i % 2 = 0 THEN Power(w, i, m) ELSE -Power(w, i, m), m)
  <2> DEFINE a == Power(w, i, m)
             b == Power(x, o * i, m)
  <2>1. i \in Nat
    BY ONLY <1>1, i \in 0 .. p
  <2>2. Power(v, i, m) = (a * b) % m
    <3>1. Power(x, e * i + o * i, m) = (Power(x, e * i, m) * Power(x, o * i, m)) % m
      BY ONLY <1>1, <1>3, <1>5, <2>1, PowerSum
    <3> QED BY ONLY <1>3, <1>8, <2>1, <3>1
  <2>3. a \in Int /\ b \in Int
    <3>1. a \in 0 .. m - 1 /\ b \in 0 .. m - 1
      BY ONLY <1>1, <1>3, <1>5, <1>6, <2>1, PowerSteps
    <3> QED BY ONLY <1>1, <3>1
  <2>4. (i % 2 = 0 => b = 1) /\ (i % 2 = 1 => Congruent(b, -1, m))
    BY ONLY <1>9, <2>1
  <2> HIDE DEF a, b
  <2>5. a * b \in Int /\ -a \in Int /\ -1 \in Int /\ a * (-1) = -a /\ a * 1 = a
    BY ONLY <2>3, ProductInteger
  <2>6. Congruent(Power(v, i, m), a * b, m)
    <3> DEFINE c == a * b
    <3>1. c \in Int /\ Power(v, i, m) = c % m
      BY ONLY <2>2, <2>5
    <3> HIDE DEF c
    <3>2. Congruent(c % m, c, m)
      BY ONLY <1>1, <3>1, CongruentRelation
    <3> QED BY ONLY <3>1, <3>2 DEF c
  <2>7. CASE i % 2 = 0
    <3>1. a * b = a
      BY ONLY <2>4, <2>5, <2>7
    <3> QED BY ONLY <2>6, <2>7, <3>1 DEF a
  <2>8. CASE i % 2 = 1
    <3>1. Congruent(a, a, m)
      BY ONLY <1>1, CongruentRelation
    <3>2. Congruent(a * b, a * (-1), m)
      BY ONLY <1>1, <2>3, <2>4, <2>5, <2>8, <3>1, CongruentProduct
    <3>3. Congruent(a * b, -a, m)
      BY ONLY <2>5, <3>2
    <3>4. Congruent(Power(v, i, m), -a, m)
      BY ONLY <2>6, <3>3 DEF Congruent
    <3>5. i % 2 # 0
      BY ONLY <2>8
    <3> QED BY ONLY <3>4, <3>5, Zenon DEF a
  <2>9. i % 2 = 0 \/ i % 2 = 1
    BY ONLY <2>1
  <2> QED BY ONLY <2>7, <2>8, <2>9
<1>13. Opposite(w, v, p, m)
  <2> HIDE DEF w, v
  <2> QED BY ONLY <1>6, <1>7, <1>10, <1>11, <1>12 DEF Opposite
<1> QED BY ONLY <1>13 DEF d, e, o

\* The quotient for twice a prime order: 1 - x + x * x - ... vanishes.
LEMMA TwicePrimeDropped ==
  ASSUME NEW m, BarrettModulus(m), Field(m), NEW n \in Nat, n % 2 = 0,
         NEW f \in [0 .. 2 * n + 1 -> 0 .. m - 1], NEW w, NEW v, Opposite(w, v, n + 1, m)
  PROVE  /\ DropTwicePrime(f, n, m) \in [0 .. n - 1 -> 0 .. m - 1]
         /\ Congruent(ValueAt(DropTwicePrime(f, n, m), w, n, m), ValueAt(f, w, 2 * (n + 1), m), m)
<1> DEFINE h == DropTwicePrime(f, n, m)
           p == n + 1
           F(i) == SubMod(f[i], f[i + n + 1], m)
           G == [i \in 0 .. n |-> F(i)]
           g == [i \in 0 .. n |-> IF i % 2 = 0 THEN G[n] ELSE -G[n]]
<1>1. m \in Nat \ {0, 1} /\ m \in Nat \ {0} /\ p \in Nat /\ p - 1 = n /\ n \in 0 .. n /\ 2 * p = 2 * n + 2
      /\ n + n + 1 = 2 * n + 1 /\ w \in 0 .. m - 1
  BY DEF Field, Opposite
<1>2. \A i \in 0 .. 2 * n + 1 : f[i] \in 0 .. m - 1 /\ f[i] \in 0 .. m /\ f[i] \in Int
  BY ONLY <1>1, f \in [0 .. 2 * n + 1 -> 0 .. m - 1]
<1>3. \A i \in 0 .. n : i \in 0 .. 2 * n + 1 /\ i + n + 1 \in 0 .. 2 * n + 1 /\ i + p = i + n + 1
  BY ONLY <1>1, n \in Nat
<1>4. \A i \in 0 .. n : F(i) = (f[i] - f[i + n + 1]) % m
  BY ONLY <1>2, <1>3, ModularSums, BarrettModulus(m) DEF SubMod
<1>5. \A i \in 0 .. n : /\ F(i) \in 0 .. m - 1 /\ F(i) \in 0 .. m /\ F(i) \in Int
                        /\ Congruent(F(i), f[i] - f[i + n + 1], m)
  <2>1. \A i \in 0 .. n : f[i] - f[i + n + 1] \in Int
    BY ONLY <1>2, <1>3
  <2>2. \A i \in 0 .. n : /\ (f[i] - f[i + n + 1]) % m \in 0 .. m - 1
                          /\ Congruent((f[i] - f[i + n + 1]) % m, f[i] - f[i + n + 1], m)
    BY ONLY <1>1, <2>1, CongruentRelation
  <2> HIDE DEF F
  <2>3. \A i \in 0 .. n : F(i) \in 0 .. m - 1 /\ Congruent(F(i), f[i] - f[i + n + 1], m)
    BY ONLY <1>4, <2>2
  <2> QED BY ONLY <1>1, <2>3
<1>6. h = [i \in 0 .. n - 1 |-> IF i % 2 = 0 THEN SubMod(F(i), F(n), m) ELSE AddMod(F(i), F(n), m)]
  BY <1>1 DEF DropTwicePrime, Vector
<1> HIDE DEF F, h
<1>7. \A i \in 0 .. n - 1 : i \in 0 .. n
  OBVIOUS
<1>8. \A i \in 0 .. n - 1 : SubMod(F(i), F(n), m) = (F(i) - F(n)) % m /\ AddMod(F(i), F(n), m) = (F(i) + F(n)) % m
  BY ONLY <1>1, <1>5, <1>7, ModularSums, BarrettModulus(m) DEF SubMod, AddMod
<1>9. \A i \in 0 .. n : G[i] = F(i) /\ g[i] = IF i % 2 = 0 THEN G[n] ELSE -G[n]
  OBVIOUS
<1> HIDE DEF G, g
<1>10. ASSUME NEW i \in 0 .. n - 1
       PROVE  h[i] \in 0 .. m - 1 /\ h[i] \in Int /\ Congruent(G[i], h[i] + g[i], m)
  <2> DEFINE a == F(i)
             b == F(n)
             c == h[i]
             e == g[i]
  <2>1. a \in Int /\ b \in Int /\ G[i] = a
    BY <1>1, <1>5, <1>7, <1>9
  <2>2. e \in Int /\ c = (a - e) % m
    <3>1. c = IF i % 2 = 0 THEN (a - b) % m ELSE (a + b) % m
      BY <1>6, <1>8
    <3>2. e = IF i % 2 = 0 THEN b ELSE -b
      BY <1>1, <1>7, <1>9
    <3> HIDE DEF a, b, c, e
    <3>3. a - (-b) = a + b /\ -b \in Int
      BY ONLY <2>1
    <3>4. CASE i % 2 = 0
      BY <2>1, <3>1, <3>2, <3>4
    <3>5. CASE ~(i % 2 = 0)
      <4>1. e = -b /\ c = (a + b) % m
        BY <3>1, <3>2, <3>5
      <4> QED BY ONLY <3>3, <4>1
    <3> QED BY <3>4, <3>5
  <2> HIDE DEF a, b, c, e
  <2>3. a - e \in Int /\ (a - e) + e = a
    BY ONLY <2>1, <2>2
  <2>4. c \in 0 .. m - 1 /\ Congruent(c, a - e, m)
    BY ONLY <1>1, <2>2, <2>3, CongruentRelation
  <2>5. c \in Int
    BY ONLY <1>1, <2>4
  <2>6. Congruent(c + e, (a - e) + e, m)
    BY ONLY <1>1, <2>2, <2>3, <2>4, <2>5, CongruentSum, CongruentRelation
  <2>7. Congruent(a, c + e, m)
    BY ONLY <1>1, <2>3, <2>6, CongruentRelation
  <2> QED BY <2>1, <2>4, <2>5, <2>7 DEF c, e
<1>11. h \in [0 .. n - 1 -> 0 .. m - 1]
  <2>1. DOMAIN h = 0 .. n - 1 /\ h = [i \in 0 .. n - 1 |-> h[i]]
    BY <1>6
  <2> QED BY ONLY <1>10, <2>1
<1>12. \A i \in 0 .. n : G[i] \in Int /\ g[i] \in Int
  <2>1. \A i \in 0 .. n : G[i] \in Int
    BY ONLY <1>5, <1>9
  <2>2. G[n] \in Int /\ -G[n] \in Int
    BY ONLY <1>1, <2>1
  <2> QED BY ONLY <1>9, <2>1, <2>2
<1>13. Reduces(G, g, h, n, m)
  <2>1. g[n] = G[n]
    BY <1>1, <1>9
  <2>2. Congruent(G[n], g[n], m)
    BY ONLY <1>1, <2>1, CongruentRelation
  <2> QED BY ONLY <1>10, <1>12, <2>2 DEF Reduces
<1>14. Congruent(ValueAt(g, w, p, m), 0, m)
  <2> DEFINE c == G[n]
             s == [i \in 0 .. p - 1 |-> g[i] * Power(w, i, m)]
             e == [i \in 0 .. p - 1 |-> c]
             t == [i \in 0 .. p - 1 |-> e[i] * Power(v, i, m)]
  <2>1. v \in 0 .. m - 1 /\ v # 1 /\ Power(v, p, m) = 1 /\ v \in Nat /\ w \in Nat
    BY <1>1 DEF Opposite
  <2>2. \A i \in 0 .. p : Congruent(Power(v, i, m), IF i % 2 = 0 THEN Power(w, i, m) ELSE -Power(w, i, m), m)
    BY DEF Opposite
  <2>3. c \in Int
    BY <1>1, <1>12
  <2>4. ValueAt(g, w, p, m) = Total(s, p) /\ ValueAt(e, v, p, m) = Total(t, p)
    BY DEF ValueAt
  <2>5. \A i \in 0 .. p - 1 : i \in 0 .. n /\ i \in 0 .. p /\ i \in Nat
    BY ONLY <1>1
  <2>6. \A i \in Nat : Power(v, i, m) \in 0 .. m - 1 /\ Power(w, i, m) \in 0 .. m - 1
    BY ONLY <1>1, <2>1, PowerSteps
  <2>7. ASSUME NEW i \in 0 .. p - 1 PROVE s[i] \in Int /\ t[i] \in Int /\ Congruent(s[i], t[i], m)
    <3> DEFINE a == Power(w, i, m)
               b == Power(v, i, m)
    <3>1. a \in Int /\ b \in Int
      <4>1. a \in 0 .. m - 1 /\ b \in 0 .. m - 1
        BY <2>5, <2>6
      <4> HIDE DEF a, b
      <4> QED BY ONLY <1>1, <4>1
    <3>2. s[i] = (IF i % 2 = 0 THEN c ELSE -c) * a /\ t[i] = c * b
      BY <1>9, <2>5
    <3>3. Congruent(b, IF i % 2 = 0 THEN a ELSE -a, m)
      BY <2>2, <2>5
    <3> HIDE DEF a, b, c, s, t
    <3> DEFINE x == IF i % 2 = 0 THEN a ELSE -a
    <3>4. x \in Int /\ s[i] = c * x
      <4>1. CASE i % 2 = 0
        BY <3>1, <3>2, <4>1
      <4>2. CASE ~(i % 2 = 0)
        <5>1. (-c) * a = c * (-a) /\ -a \in Int
          BY ONLY <2>3, <3>1
        <5> QED BY <3>2, <4>2, <5>1
      <4> QED BY <4>1, <4>2
    <3>5. Congruent(b, x, m)
      BY <3>3
    <3> HIDE DEF x
    <3>6. Congruent(c * b, c * x, m)
      BY ONLY <1>1, <2>3, <3>1, <3>4, <3>5, CongruentProduct, CongruentRelation
    <3>7. c * b \in Int /\ c * x \in Int
      BY ONLY <2>3, <3>1, <3>4, ProductInteger
    <3>8. Congruent(c * x, c * b, m)
      BY ONLY <1>1, <3>6, CongruentRelation
    <3> QED BY ONLY <3>2, <3>4, <3>7, <3>8
  <2>8. \A i \in 0 .. p - 1 : e[i] = c
    OBVIOUS
  <2> HIDE DEF c, s, e, t, p
  <2>9. Congruent(Total(s, p), Total(t, p), m)
    BY ONLY <1>1, <2>7, TotalCongruent
  <2>10. Congruent(ValueAt(e, v, p, m), 0, m)
    BY ONLY <1>1, <2>1, <2>3, <2>8, AtConstant, Field(m)
  <2> QED BY ONLY <2>4, <2>9, <2>10 DEF Congruent
<1>15. Congruent(ValueAt(h, w, n, m), ValueAt(G, w, n + 1, m), m)
  BY ONLY <1>1, <1>13, <1>14, ReducedValue, n \in Nat
<1>16. Congruent(ValueAt(G, w, p, m), ValueAt(f, w, 2 * p, m), m)
  <2>1. Congruent(Power(w, p, m), -1, m)
    BY DEF Opposite
  <2>2. \A i \in 0 .. 2 * p - 1 : f[i] \in Int
    BY ONLY <1>1, <1>2
  <2>3. \A i \in 0 .. p - 1 : G[i] \in Int /\ Congruent(G[i], f[i] - f[i + p], m)
    <3>1. \A i \in 0 .. n : i + p = i + n + 1
      BY ONLY <1>3
    <3>2. \A i \in 0 .. n : f[i + p] = f[i + n + 1]
      BY ONLY <3>1
    <3>3. \A i \in 0 .. n : G[i] \in Int /\ Congruent(G[i], f[i] - f[i + p], m)
      BY ONLY <1>5, <1>9, <3>2
    <3> QED BY ONLY <1>1, <3>3
  <2> HIDE DEF p
  <2> QED BY ONLY <1>1, <2>1, <2>2, <2>3, Folded
<1> QED BY <1>11, <1>15, <1>16 DEF Congruent, h

-----------------------------------------------------------------------------
(* InversePolyMod.                                                         *)

\* The product of two vectors as series, up to n coefficients.
LEMMA TimesModAgrees ==
  ASSUME NEW m \in Nat \ {0}, NEW p \in Nat, NEW q \in Nat, NEW n \in Nat,
         NEW a \in [0 .. p - 1 -> Int], NEW b \in [0 .. q - 1 -> Int]
  PROVE  /\ TimesMod(a, b, n, m) \in [0 .. n - 1 -> 0 .. m - 1]
         /\ Agree(SeriesOf(TimesMod(a, b, n, m), n), Cauchy(SeriesOf(a, p), SeriesOf(b, q)), n, m)
<1> DEFINE A == SeriesOf(a, p)
           B == SeriesOf(b, q)
           U(k, i) == IF i < p /\ k - i < q THEN (a[i] * b[k - i]) % m ELSE 0
           u(k) == [i \in 0 .. k |-> U(k, i)]
           f == TimesMod(a, b, n, m)
<1>1. Len0(a) = p /\ Len0(b) = q
  BY VectorLength
<1>2. A \in Series /\ B \in Series /\ \A i \in Nat : A[i] = (IF i < p THEN a[i] ELSE 0) /\ B[i] = (IF i < q THEN b[i] ELSE 0)
  <2>1. (\A i \in 0 .. p - 1 : a[i] \in Int) /\ (\A i \in 0 .. q - 1 : b[i] \in Int)
    OBVIOUS
  <2> QED BY ONLY <2>1, SeriesOfVector, p \in Nat, q \in Nat
<1>3. f = [k \in 0 .. n - 1 |-> Total(u(k), k + 1) % m]
  <2>1. f = [k \in 0 .. n - 1 |-> Sum(Vector(k + 1, LAMBDA i : U(k, i)), k + 1) % m]
    BY <1>1, Zenon DEF TimesMod, Vector
  <2>2. ASSUME NEW k \in 0 .. n - 1 PROVE Vector(k + 1, LAMBDA i : U(k, i)) = u(k)
    <3>1. (k + 1) - 1 = k
      OBVIOUS
    <3> HIDE DEF U
    <3> QED BY ONLY <3>1 DEF Vector
  <2>3. \A k \in 0 .. n - 1 : Sum(Vector(k + 1, LAMBDA i : U(k, i)), k + 1) = Total(u(k), k + 1)
    <3> HIDE DEF u
    <3> QED BY ONLY <2>2, SumIsTotal
  <2> HIDE DEF U, u, f
  <2> QED BY ONLY <2>1, <2>3, Zenon
<1> HIDE DEF f, A, B
<1>4. ASSUME NEW k \in 0 .. n - 1
      PROVE  /\ f[k] \in 0 .. m - 1 /\ Congruent(f[k], Cauchy(A, B)[k], m)
  <2> DEFINE t == [i \in 0 .. k |-> A[i] * B[k - i]]
             v == u(k)
  <2>1. k \in Nat /\ k + 1 \in Nat /\ (k + 1) - 1 = k
    OBVIOUS
  <2>2. \A i \in 0 .. k : t[i] = A[i] * B[k - i] /\ v[i] = U(k, i) /\ i \in Nat /\ k - i \in Nat
    OBVIOUS
  <2> HIDE DEF t, v
  <2>3. Cauchy(A, B)[k] = Total(t, k + 1) /\ \A i \in 0 .. k : t[i] \in Int
    BY ONLY <1>2, <2>1, <2>2, CauchyTerms
  <2>4. ASSUME NEW i \in 0 .. k PROVE v[i] \in Int /\ Congruent(v[i], t[i], m)
    <3> DEFINE x == A[i]
               y == B[k - i]
    <3>1. x \in Int /\ y \in Int /\ t[i] = x * y
      BY <1>2, <2>2 DEF Series
    <3>2. i \in Nat /\ k - i \in Nat /\ v[i] = U(k, i)
      BY ONLY <2>2
    <3>3. CASE i < p /\ k - i < q
      <4>1. x = a[i] /\ y = b[k - i]
        BY ONLY <1>2, <3>2, <3>3
      <4>2. v[i] = (a[i] * b[k - i]) % m
        BY ONLY <3>2, <3>3
      <4> HIDE DEF x, y
      <4>3. v[i] = (x * y) % m
        BY ONLY <4>1, <4>2
      <4>4. x * y \in Int
        BY ONLY <3>1, ProductInteger
      <4>5. (x * y) % m \in 0 .. m - 1 /\ Congruent((x * y) % m, x * y, m)
        BY ONLY <4>4, CongruentRelation, m \in Nat \ {0}
      <4>6. \A z \in 0 .. m - 1 : z \in Int
        OBVIOUS
      <4> QED BY ONLY <3>1, <4>3, <4>5, <4>6
    <3>4. CASE ~(i < p /\ k - i < q)
      <4>1. x = 0 \/ y = 0
        BY ONLY <1>2, <3>2, <3>4
      <4>2. v[i] = 0
        BY ONLY <3>2, <3>4
      <4> HIDE DEF x, y
      <4>3. x * y = 0
        BY ONLY <3>1, <4>1
      <4> QED BY ONLY <3>1, <4>2, <4>3, 0 \in Int DEF Congruent
    <3> QED BY ONLY <3>3, <3>4
  <2>5. \A i \in 0 .. (k + 1) - 1 : v[i] \in Int /\ t[i] \in Int /\ Congruent(v[i], t[i], m)
    BY ONLY <2>1, <2>3, <2>4
  <2>6. Congruent(Total(v, k + 1), Total(t, k + 1), m)
    BY ONLY <2>1, <2>5, TotalCongruent, m \in Nat \ {0}
  <2>7. Total(v, k + 1) \in Int
    BY ONLY <2>1, <2>5, TotalInteger
  <2>8. f[k] = Total(v, k + 1) % m
    BY <1>3 DEF v
  <2> HIDE DEF u, U
  <2>9. Total(v, k + 1) % m \in 0 .. m - 1 /\ Congruent(Total(v, k + 1) % m, Total(v, k + 1), m)
    BY ONLY <2>7, CongruentRelation, m \in Nat \ {0}
  <2> QED BY ONLY <2>3, <2>6, <2>8, <2>9 DEF Congruent
<1>5. f \in [0 .. n - 1 -> 0 .. m - 1]
  <2> HIDE DEF u, U
  <2>1. f = [k \in 0 .. n - 1 |-> f[k]]
    BY ONLY <1>3
  <2> QED BY ONLY <1>4, <2>1
<1>6. \A k \in Nat : k < n => k \in 0 .. n - 1 /\ SeriesOf(f, n)[k] = f[k]
  BY DEF SeriesOf
<1>7. Agree(SeriesOf(f, n), Cauchy(A, B), n, m)
  BY ONLY <1>4, <1>6 DEF Agree
<1> QED BY <1>5, <1>7 DEF f, A, B

\* h is the inverse of g below n, with residues for coefficients.
Inverts(h, g, n, q, m) ==
  h \in [0 .. n - 1 -> 0 .. m - 1] /\ Agree(Cauchy(SeriesOf(h, n), SeriesOf(g, q)), Unit, n, m)

\* A step of the iteration in InversePolyMod.
LEMMA NewtonStepInverts ==
  ASSUME NEW m, BarrettModulus(m), m \in Nat \ {0, 1}, NEW q \in Nat, NEW g \in [0 .. q - 1 -> 0 .. m - 1],
         NEW p \in Nat \ {0}, NEW h, Inverts(h, g, p, q, m)
  PROVE  Inverts(NewtonStep(h, g, 2 * p, m), g, 2 * p, q, m)
<1> DEFINE n == 2 * p
           s == TimesMod(h, h, n, m)
           t == TimesMod(s, g, n, m)
           f == NewtonStep(h, g, n, m)
           H == SeriesOf(h, p)
           G == SeriesOf(g, q)
           X(j) == IF j < p THEN (2 * h[j]) % m ELSE m
<1>1. m \in Nat \ {0} /\ n \in Nat /\ p \in Nat
  OBVIOUS
<1>2. \A x \in 0 .. m - 1 : x \in Int
  OBVIOUS
<1>3. h \in [0 .. p - 1 -> Int] /\ g \in [0 .. q - 1 -> Int] /\ Len0(h) = p
  <2>1. h \in [0 .. p - 1 -> 0 .. m - 1]
    BY DEF Inverts
  <2>2. DOMAIN h = 0 .. p - 1
    BY <2>1
  <2>3. Len0(h) = p
    BY ONLY <2>2, VectorLength, p \in Nat \ {0}
  <2> QED BY ONLY <1>2, <2>1, <2>3, g \in [0 .. q - 1 -> 0 .. m - 1]
<1>4. /\ s \in [0 .. n - 1 -> 0 .. m - 1]
      /\ Agree(SeriesOf(s, n), Cauchy(H, H), n, m)
  BY ONLY <1>1, <1>3, TimesModAgrees
<1>5. s \in [0 .. n - 1 -> Int]
  <2> HIDE DEF s, n
  <2> QED BY ONLY <1>2, <1>4
<1>6. /\ t \in [0 .. n - 1 -> 0 .. m - 1]
      /\ Agree(SeriesOf(t, n), Cauchy(SeriesOf(s, n), G), n, m)
  <2> HIDE DEF s
  <2> QED BY ONLY <1>1, <1>3, <1>5, TimesModAgrees, q \in Nat
<1>7. f = [j \in 0 .. n - 1 |-> SubMod(X(j), t[j], m)]
  BY <1>3, Zenon DEF NewtonStep, Vector
<1>8. H \in Series /\ G \in Series /\ SeriesOf(s, n) \in Series /\ SeriesOf(t, n) \in Series
  <2>1. \A v, k : v \in [0 .. k - 1 -> Int] => \A i \in 0 .. k - 1 : v[i] \in Int
    OBVIOUS
  <2>2. t \in [0 .. n - 1 -> Int]
    <3> HIDE DEF t, n
    <3> QED BY ONLY <1>2, <1>6
  <2> HIDE DEF s, t, n
  <2> QED BY ONLY <1>1, <1>3, <1>5, <2>1, <2>2, SeriesOfVector, q \in Nat
<1> HIDE DEF f, s, t, X
<1>9. ASSUME NEW j \in 0 .. n - 1
      PROVE  f[j] \in 0 .. m - 1 /\ Congruent(f[j], 2 * H[j] - t[j], m)
  <2>1. t[j] \in 0 .. m - 1 /\ t[j] \in Int
    <3> HIDE DEF n
    <3> QED BY ONLY <1>2, <1>6, j \in 0 .. n - 1
  <2>2. j \in Nat
    BY ONLY j \in 0 .. n - 1, p \in Nat
  <2>3. H[j] \in Int /\ H[j] = IF j < p THEN h[j] ELSE 0
    <3>1. H[j] \in Int
      BY ONLY <1>8, <2>2 DEF Series
    <3> QED BY ONLY <2>2, <3>1 DEF SeriesOf
  <2>4. X(j) \in 0 .. m /\ X(j) \in Int /\ Congruent(X(j), 2 * H[j], m)
    <3>1. CASE j < p
      <4>1. X(j) = (2 * H[j]) % m /\ 2 * H[j] \in Int
        BY ONLY <2>3, <3>1 DEF X
      <4> DEFINE y == 2 * H[j]
      <4>2. X(j) = y % m /\ y \in Int
        BY <4>1
      <4> HIDE DEF y, H
      <4>3. y % m \in 0 .. m - 1 /\ Congruent(y % m, y, m)
        BY ONLY <4>2, CongruentRelation, m \in Nat \ {0, 1}
      <4>4. \A z \in 0 .. m - 1 : z \in 0 .. m
        OBVIOUS
      <4> QED BY ONLY <1>2, <4>2, <4>3, <4>4 DEF y
    <3>2. CASE ~(j < p)
      <4>1. X(j) = m /\ 2 * H[j] = 0
        BY ONLY <2>3, <3>2 DEF X
      <4>2. m % m = 0 /\ 0 % m = 0 /\ m \in 0 .. m
        BY ONLY m \in Nat \ {0, 1}
      <4> QED BY ONLY <4>1, <4>2, m \in Nat \ {0, 1} DEF Congruent
    <3> QED BY ONLY <3>1, <3>2
  <2>5. f[j] = (X(j) - t[j]) % m
    <3>1. f[j] = SubMod(X(j), t[j], m)
      BY <1>7
    <3> HIDE DEF n
    <3> QED BY ONLY <2>1, <2>4, <3>1, ModularSums, BarrettModulus(m) DEF SubMod
  <2> DEFINE x == X(j)
             y == t[j]
             z == 2 * H[j]
  <2>6. x \in Int /\ y \in Int /\ z \in Int /\ Congruent(x, z, m) /\ f[j] = (x - y) % m
    <3>1. 2 * H[j] \in Int
      BY ONLY <2>3
    <3> QED BY ONLY <2>1, <2>4, <2>5, <3>1
  <2> HIDE DEF x, y, z
  <2>7. x - y \in Int /\ Congruent(y, y, m)
    BY ONLY <2>6 DEF Congruent
  <2>8. Congruent(x - y, z - y, m)
    BY ONLY <1>1, <2>6, <2>7, CongruentDifference
  <2>9. (x - y) % m \in 0 .. m - 1 /\ Congruent((x - y) % m, x - y, m)
    BY ONLY <1>1, <2>7, CongruentRelation
  <2> QED BY ONLY <2>6, <2>8, <2>9 DEF Congruent, y, z
<1>10. f \in [0 .. n - 1 -> 0 .. m - 1]
  <2> HIDE DEF n
  <2>1. f = [j \in 0 .. n - 1 |-> f[j]]
    BY ONLY <1>7
  <2> QED BY ONLY <1>9, <2>1
<1> DEFINE F == SeriesOf(f, n)
           T == SeriesOf(t, n)
<1>11. F \in Series /\ \A j \in Nat : j < n => F[j] = f[j] /\ T[j] = t[j]
  <2>1. \A j \in 0 .. n - 1 : f[j] \in Int
    <3> HIDE DEF n
    <3> QED BY ONLY <1>2, <1>9
  <2>2. F \in Series
    <3> HIDE DEF n
    <3> QED BY ONLY <1>1, <2>1, SeriesOfVector
  <2> QED BY ONLY <2>2 DEF SeriesOf
<1>12. Corrects(F, H, T, n, m)
  <2>1. \A j \in Nat : j < n => j \in 0 .. n - 1
    BY <1>1
  <2> HIDE DEF F, H, T, n
  <2> QED BY ONLY <1>9, <1>11, <2>1 DEF Corrects
<1>13. Agree(T, Cauchy(Cauchy(H, H), G), n, m)
  <2> DEFINE S == SeriesOf(s, n)
             HH == Cauchy(H, H)
  <2>1. Agree(S, HH, n, m) /\ Agree(G, G, n, m) /\ S \in Series /\ HH \in Series
    <3>1. Agree(G, G, n, m)
      BY ONLY <1>1, AgreeRelation
    <3>2. HH \in Series
      BY ONLY <1>8, CauchySeries
    <3> QED BY ONLY <1>4, <1>8, <3>1, <3>2
  <2> HIDE DEF S, HH, G, n
  <2>2. Agree(Cauchy(S, G), Cauchy(HH, G), n, m)
    BY ONLY <1>1, <1>8, <2>1, CauchyAgrees
  <2>3. Agree(T, Cauchy(S, G), n, m)
    BY ONLY <1>6 DEF S
  <2> HIDE DEF T
  <2> QED BY ONLY <1>1, <2>2, <2>3, AgreeRelation DEF HH
<1>14. Agree(Cauchy(H, G), Unit, p, m)
  BY DEF Inverts
<1>15. Agree(Cauchy(F, G), Unit, 2 * p, m)
  <2>1. Corrects(F, H, T, 2 * p, m) /\ Agree(T, Cauchy(Cauchy(H, H), G), 2 * p, m) /\ T \in Series
    BY ONLY <1>8, <1>12, <1>13
  <2> HIDE DEF F, T, H, G
  <2> QED BY ONLY <1>1, <1>8, <1>11, <1>14, <2>1, NewtonDoubles, p \in Nat \ {0}
<1> QED BY ONLY <1>10, <1>15 DEF Inverts, f

\* The number of steps is that of PowerAbove.
LEMMA NewtonRounds ==
  ASSUME NEW n \in Nat \ {0}, n <= 2^W
  PROVE  LET rounds == CHOOSE e \in 0 .. W : 2^e = PowerAbove(n)
         IN  rounds \in 0 .. W /\ n <= 2^rounds
<1> DEFINE rounds == CHOOSE e \in 0 .. W : 2^e = PowerAbove(n)
<1>1. \E e \in 0 .. W : 2^e = PowerAbove(n)
  BY PowerAboveFound
<1>2. rounds \in 0 .. W /\ 2^rounds = PowerAbove(n)
  BY <1>1
<1>3. n <= PowerAbove(n)
  BY PowerAboveFound
<1> HIDE DEF rounds
<1> QED BY ONLY <1>2, <1>3 DEF rounds

\* The iterates of InversePolyMod.
Iterates(newton, g, m, k) ==
  newton = [i \in 0 .. k |-> IF i = 0 THEN Vector(1, LAMBDA j : 1) ELSE NewtonStep(newton[i - 1], g, 2^i, m)]

\* There are iterates.
LEMMA IteratesExist ==
  ASSUME NEW g, NEW m
  PROVE  \A k \in Nat : \E newton : Iterates(newton, g, m, k)
<1> DEFINE S == {k \in Nat : \E newton : Iterates(newton, g, m, k)}
           first == Vector(1, LAMBDA j : 1)
           Next1(v, i) == NewtonStep(v, g, 2^i, m)
<1>1. \A f, k : Iterates(f, g, m, k) <=> f = [i \in 0 .. k |-> IF i = 0 THEN first ELSE Next1(f[i - 1], i)]
  BY DEF Iterates
<1> HIDE DEF first, Next1
<1>2. 0 \in S
  <2> DEFINE f == [i \in 0 .. 0 |-> first]
  <2>1. \A i \in 0 .. 0 : i = 0
    OBVIOUS
  <2>2. f = [i \in 0 .. 0 |-> IF i = 0 THEN first ELSE Next1(f[i - 1], i)]
    BY <2>1
  <2> QED BY <1>1, <2>2
<1>3. ASSUME NEW k \in Nat, k \in S PROVE k + 1 \in S
  <2>1. PICK f : f = [i \in 0 .. k |-> IF i = 0 THEN first ELSE Next1(f[i - 1], i)]
    BY <1>1, <1>3
  <2> DEFINE h == [i \in 0 .. k + 1 |-> IF i <= k THEN f[i] ELSE Next1(f[k], k + 1)]
  <2>2. \A i \in 0 .. k : h[i] = f[i]
    OBVIOUS
  <2>3. ASSUME NEW i \in 0 .. k + 1 PROVE h[i] = IF i = 0 THEN first ELSE Next1(h[i - 1], i)
    <3>1. CASE i = k + 1
      <4>1. i # 0 /\ i - 1 = k /\ k \in 0 .. k
        BY <3>1
      <4>2. h[i] = Next1(f[k], k + 1)
        BY <3>1
      <4> QED BY <2>2, <3>1, <4>1, <4>2
    <3>2. CASE i \in 0 .. k
      <4>1. f[i] = IF i = 0 THEN first ELSE Next1(f[i - 1], i)
        BY <2>1, <3>2
      <4>2. i # 0 => i - 1 \in 0 .. k
        BY <3>2
      <4> QED BY <2>2, <3>2, <4>1, <4>2
    <3> QED BY <3>1, <3>2
  <2>4. h = [i \in 0 .. k + 1 |-> IF i = 0 THEN first ELSE Next1(h[i - 1], i)]
    <3>1. h = [i \in 0 .. k + 1 |-> h[i]]
      OBVIOUS
    <3> HIDE DEF h
    <3> QED BY ONLY <2>3, <3>1
  <2> HIDE DEF h
  <2>5. \E newton : Iterates(newton, g, m, k + 1)
    BY <1>1, <2>4
  <2> QED BY <2>5
<1>4. Nat \subseteq S
  <2> HIDE DEF S
  <2> QED BY ONLY <1>2, <1>3, Induction
<1> QED BY <1>4

\* Each is an inverse of g below a power of two.
LEMMA IteratesInvert ==
  ASSUME NEW m, BarrettModulus(m), m \in Nat \ {0, 1}, NEW q \in Nat \ {0}, NEW g \in [0 .. q - 1 -> 0 .. m - 1],
         g[0] = 1, NEW k \in 0 .. W, NEW newton, Iterates(newton, g, m, k)
  PROVE  Inverts(newton[k], g, 2^k, q, m)
<1> DEFINE S == {i \in Nat : i <= k => Inverts(newton[i], g, 2^i, q, m)}
<1>1. k \in Nat /\ k <= W /\ W \in Nat
  BY PowersOfTwo
<1>2. 0 \in S
  <2> DEFINE h == Vector(1, LAMBDA j : 1)
             H == SeriesOf(h, 1)
             G == SeriesOf(g, q)
  <2>1. newton[0] = h
    <3>1. 0 \in 0 .. k
      BY ONLY <1>1
    <3> QED BY <3>1 DEF Iterates, Vector
  <2>2. h \in [0 .. 1 - 1 -> 0 .. m - 1] /\ h[0] = 1 /\ \A i \in 0 .. 1 - 1 : h[i] \in Int
    <3>1. h = [j \in 0 .. 1 - 1 |-> 1]
      BY DEF Vector
    <3>2. 1 \in 0 .. m - 1 /\ 0 \in 0 .. 1 - 1 /\ 1 \in Int
      BY ONLY m \in Nat \ {0, 1}
    <3> QED BY ONLY <3>1, <3>2
  <2> HIDE DEF h
  <2>3. (\A i \in 0 .. q - 1 : g[i] \in Int) /\ 0 \in 0 .. q - 1
    OBVIOUS
  <2>4. H \in Series /\ H[0] = 1 /\ G \in Series /\ G[0] = 1
    <3>1. H \in Series /\ G \in Series
      BY ONLY <2>2, <2>3, SeriesOfVector, 1 \in Nat, q \in Nat \ {0}
    <3>2. H[0] = 1 /\ G[0] = 1
      BY <2>2 DEF SeriesOf
    <3> QED BY <3>1, <3>2
  <2> HIDE DEF H, G
  <2>5. Cauchy(H, G)[0] = 1
    <3> DEFINE t == [i \in 0 .. 0 |-> H[i] * G[0 - i]]
    <3>1. (\A i \in 0 .. 0 : t[i] = H[i] * G[0 - i]) /\ t[0] = 1
      <4>1. \A i \in 0 .. 0 : t[i] = H[i] * G[0 - i]
        OBVIOUS
      <4>2. 0 \in 0 .. 0 /\ 0 - 0 = 0 /\ 1 * 1 = 1
        OBVIOUS
      <4> HIDE DEF t
      <4>3. t[0] = H[0] * G[0 - 0]
        BY ONLY <4>1, <4>2
      <4>4. t[0] = H[0] * G[0]
        BY ONLY <4>2, <4>3
      <4> QED BY ONLY <2>4, <4>1, <4>2, <4>4
    <3> HIDE DEF t
    <3>2. Cauchy(H, G)[0] = Total(t, 0 + 1)
      <4> DEFINE z == 0
      <4>1. z \in Nat /\ \A i \in 0 .. z : t[i] = H[i] * G[z - i]
        BY <3>1
      <4> HIDE DEF z
      <4>2. Cauchy(H, G)[z] = Total(t, z + 1)
        BY ONLY <2>4, <4>1, CauchyTerms
      <4> QED BY <4>2 DEF z
    <3>3. Total(t, 1) = t[0]
      <4>1. 1 \in Nat /\ 0 \in 0 .. 1 - 1 /\ t[0] \in Int /\ \A i \in 0 .. 1 - 1 : i # 0 => t[i] = 0
        BY <3>1
      <4> QED BY ONLY <4>1, TotalSingle
    <3> QED BY <3>1, <3>2, <3>3
  <2>6. \A i \in Nat : i < 1 => i = 0
    OBVIOUS
  <2>7. Agree(Cauchy(H, G), Unit, 1, m)
    <3>1. Unit[0] = 1
      BY DEF Unit
    <3> QED BY ONLY <2>5, <2>6, <3>1 DEF Agree, Congruent
  <2>8. 2^0 = 1
    BY PowersOfTwo
  <2>9. Inverts(newton[0], g, 2^0, q, m)
    BY ONLY <2>1, <2>2, <2>7, <2>8 DEF Inverts, H, G
  <2> QED BY <2>9
<1>3. ASSUME NEW i \in Nat, i \in S PROVE i + 1 \in S
  <2>1. SUFFICES ASSUME i + 1 <= k PROVE Inverts(newton[i + 1], g, 2^(i + 1), q, m)
    OBVIOUS
  <2>2. i \in 0 .. W /\ i + 1 \in 1 .. W /\ (i + 1) - 1 = i /\ i <= k /\ i + 1 \in 0 .. k /\ i + 1 # 0
    BY ONLY <1>1, <2>1, i \in Nat
  <2>3. Inverts(newton[i], g, 2^i, q, m)
    BY <1>3, <2>2
  <2>4. newton[i + 1] = NewtonStep(newton[i], g, 2^(i + 1), m)
    <3>1. \A j \in 0 .. k : j # 0 => newton[j] = NewtonStep(newton[j - 1], g, 2^j, m)
      BY DEF Iterates
    <3> QED BY ONLY <2>2, <3>1
  <2>5. 2^(i + 1) = 2 * 2^i /\ 2^i \in Nat \ {0}
    BY ONLY <2>2, PowersOfTwo
  <2>6. Inverts(NewtonStep(newton[i], g, 2 * 2^i, m), g, 2 * 2^i, q, m)
    <3> DEFINE p == 2^i
               h == newton[i]
    <3>1. p \in Nat \ {0} /\ Inverts(h, g, p, q, m)
      BY <2>3, <2>5
    <3> HIDE DEF p, h
    <3>2. Inverts(NewtonStep(h, g, 2 * p, m), g, 2 * p, q, m)
      BY ONLY <3>1, NewtonStepInverts, BarrettModulus(m), m \in Nat \ {0, 1}, q \in Nat \ {0},
              g \in [0 .. q - 1 -> 0 .. m - 1]
    <3> QED BY <3>2 DEF p, h
  <2> QED BY ONLY <2>4, <2>5, <2>6
<1>4. Nat \subseteq S
  <2> HIDE DEF S
  <2> QED BY ONLY <1>2, <1>3, Induction
<1> QED BY <1>1, <1>4

\* InversePolyMod finds the inverse of g modulo x^n.
LEMMA InversePolyModInverts ==
  ASSUME NEW m, BarrettModulus(m), m \in Nat \ {0, 1}, NEW q \in Nat \ {0}, NEW g \in [0 .. q - 1 -> 0 .. m - 1],
         g[0] = 1, NEW n \in Nat \ {0}, n <= 2^W
  PROVE  Inverts(InversePolyMod(g, m, n), g, n, q, m)
<1> DEFINE rounds == CHOOSE e \in 0 .. W : 2^e = PowerAbove(n)
           Is(f) == Iterates(f, g, m, rounds)
           newton == CHOOSE f : Is(f)
           h == newton[rounds]
           N == 2^rounds
           f == InversePolyMod(g, m, n)
<1>1. rounds \in 0 .. W /\ n <= N
  BY NewtonRounds
<1>2. f = Resize(h, 0, n - 1)
  BY DEF InversePolyMod, Iterates
<1> HIDE DEF rounds
<1>3. Is(newton)
  <2>1. rounds \in Nat
    BY <1>1, PowersOfTwo
  <2>2. \E x : Is(x)
    BY <2>1, IteratesExist
  <2> QED BY <2>2
<1> HIDE DEF newton
<1>4. Inverts(h, g, N, q, m) /\ N \in Nat \ {0}
  <2>1. N \in Nat \ {0}
    BY ONLY <1>1, PowersOfTwo
  <2>2. Inverts(newton[rounds], g, 2^rounds, q, m)
    BY ONLY <1>1, <1>3, IteratesInvert, BarrettModulus(m), m \in Nat \ {0, 1}, q \in Nat \ {0},
            g \in [0 .. q - 1 -> 0 .. m - 1], g[0] = 1
  <2> QED BY <2>1, <2>2
<1> HIDE DEF N, h, f
<1>5. \A i \in 0 .. n - 1 : i \in 0 .. N - 1
  BY ONLY <1>1, <1>4, n \in Nat \ {0}
<1>6. h \in [0 .. N - 1 -> 0 .. m - 1] /\ Agree(Cauchy(SeriesOf(h, N), SeriesOf(g, q)), Unit, N, m)
  BY ONLY <1>4 DEF Inverts
<1>7. f = [i \in 0 .. n - 1 |-> h[i]]
  <2>1. ((n - 1) - 0) + 1 = n /\ \A i \in 0 .. n - 1 : 0 + i = i
    OBVIOUS
  <2> QED BY ONLY <1>2, <2>1 DEF Resize, Vector
<1>8. f \in [0 .. n - 1 -> 0 .. m - 1]
  BY ONLY <1>5, <1>6, <1>7
<1> DEFINE F == SeriesOf(f, n)
           H == SeriesOf(h, N)
           G == SeriesOf(g, q)
<1>9. F \in Series /\ H \in Series /\ G \in Series
  <2>1. \A x \in 0 .. m - 1 : x \in Int
    OBVIOUS
  <2>2. (\A i \in 0 .. n - 1 : f[i] \in Int) /\ (\A i \in 0 .. N - 1 : h[i] \in Int) /\ (\A i \in 0 .. q - 1 : g[i] \in Int)
    BY ONLY <1>6, <1>8, <2>1, g \in [0 .. q - 1 -> 0 .. m - 1]
  <2> QED BY ONLY <1>4, <2>2, SeriesOfVector, n \in Nat \ {0}, q \in Nat \ {0}
<1>10. Agree(F, H, n, m)
  <2>1. ASSUME NEW i \in Nat, i < n PROVE F[i] = H[i]
    <3>1. i \in 0 .. n - 1 /\ i < N
      BY ONLY <1>1, <1>4, <2>1, n \in Nat \ {0}
    <3>2. F[i] = f[i] /\ H[i] = h[i]
      BY ONLY <2>1, <3>1 DEF SeriesOf
    <3> QED BY ONLY <1>7, <3>1, <3>2
  <2> QED BY ONLY <2>1 DEF Agree, Congruent
<1>11. Agree(Cauchy(F, G), Cauchy(H, G), n, m)
  <2>1. Agree(G, G, n, m)
    BY ONLY AgreeRelation, m \in Nat \ {0, 1}
  <2> HIDE DEF F, G, H
  <2> QED BY ONLY <1>9, <1>10, <2>1, CauchyAgrees, m \in Nat \ {0, 1}, n \in Nat \ {0}
<1>12. Agree(Cauchy(H, G), Unit, n, m)
  <2>1. \A k \in Nat : k < n => k < N
    BY ONLY <1>1, <1>4, n \in Nat \ {0}
  <2>2. Agree(Cauchy(H, G), Unit, N, m)
    BY ONLY <1>6
  <2> HIDE DEF H, G
  <2> QED BY ONLY <2>1, <2>2 DEF Agree
<1>13. Agree(Cauchy(F, G), Unit, n, m)
  <2> HIDE DEF F, G, H
  <2> QED BY ONLY <1>11, <1>12, AgreeRelation, m \in Nat \ {0, 1}
<1> QED BY ONLY <1>8, <1>13 DEF Inverts, f

-----------------------------------------------------------------------------
(* Drop for the other orders.                                              *)

\* Where nothing wraps around, an entry of a convolution is a coefficient of
\* the product of the two series.
LEMMA ConvolvedSeries ==
  ASSUME NEW a, NEW b, NEW n, NEW c, NEW M, NEW B, Convolvable(a, b, n, c, M, B), NEW k \in 0 .. n - 1,
         \A i \in 0 .. c - 1 : k < i => b[k + n - i] = 0
  PROVE  Convolved(a, b, n, B)[k] = Cauchy(SeriesOf(a, n), SeriesOf(b, n))[k]
<1> DEFINE A == SeriesOf(a, n)
           D == SeriesOf(b, n)
           t == [i \in 0 .. c - 1 |-> a[i] * b[(k + n - i) % n]]
           C == Convolved(a, b, n, B)
<1>1. /\ n \in Nat \ {0} /\ c \in 0 .. n /\ c \in Nat /\ M \in Nat \ {0} /\ k \in Nat
      /\ \A i \in 0 .. n - 1 : a[i] \in 0 .. M - 1 /\ b[i] \in 0 .. M - 1
      /\ \A i \in c .. n - 1 : a[i] = 0
  BY DEF Convolvable
<1>2. \A i \in 0 .. n - 1 : a[i] \in Int /\ b[i] \in Int
  <2>1. \A x \in 0 .. M - 1 : x \in Int
    BY ONLY <1>1
  <2> QED BY ONLY <1>1, <2>1
<1>3. \A i \in 0 .. c - 1 : t[i] = a[i] * b[(k + n - i) % n]
  OBVIOUS
<1> HIDE DEF t, C
<1>4. C[k] = Total(t, c) /\ \A i \in 0 .. c - 1 : t[i] \in Int
  <2>1. Products(t, a, b, n, c, k)
    BY ONLY <1>3 DEF Products
  <2>2. Convolved(a, b, n, B)[k] = Total(t, c) /\ \A i \in 0 .. c - 1 : t[i] \in Nat
    BY ONLY <2>1, ConvolutionExact, Convolvable(a, b, n, c, M, B), k \in 0 .. n - 1
  <2> QED BY ONLY <2>2 DEF C
<1>5. A \in Series /\ D \in Series /\ \A i \in 0 .. n - 1 : A[i] = a[i] /\ D[i] = b[i]
  BY ONLY <1>1, <1>2, SeriesOfVector
<1> HIDE DEF A, D
<1>6. ASSUME NEW i \in 0 .. c - 1, i <= k PROVE t[i] = A[i] * D[k - i]
  <2>1. i \in 0 .. n - 1 /\ k - i \in 0 .. n - 1
    BY ONLY <1>1, <1>6, k \in 0 .. n - 1
  <2>2. (k + n - i) % n = k - i
    <3> DEFINE z == k - i
    <3>1. z \in 0 .. n - 1 /\ k + n - i = 1 * n + z /\ k + n - i \in Int
      BY ONLY <1>1, <2>1
    <3> HIDE DEF z
    <3>2. (1 * n + z) % n = z
      BY ONLY <1>1, <3>1
    <3> QED BY ONLY <3>1, <3>2 DEF z
  <2> QED BY ONLY <1>3, <1>5, <2>1, <2>2, i \in 0 .. c - 1
<1>7. ASSUME NEW i \in 0 .. c - 1, k < i PROVE t[i] = 0
  <2>1. k + n - i \in 0 .. n - 1 /\ i \in 0 .. n - 1
    BY ONLY <1>1, <1>7, k \in 0 .. n - 1
  <2>2. (k + n - i) % n = k + n - i
    BY ONLY <1>1, <2>1
  <2>3. a[i] * 0 = 0
    BY ONLY <1>2, <2>1
  <2> QED BY ONLY <1>3, <1>7, <2>2, <2>3, \A j \in 0 .. c - 1 : k < j => b[k + n - j] = 0
<1>8. CASE c <= k + 1
  <2>1. c \in 0 .. k + 1 /\ \A i \in c .. k : i \in c .. n - 1 /\ i \in 0 .. n - 1
    BY ONLY <1>1, <1>8, k \in 0 .. n - 1
  <2>2. \A i \in c .. k : A[i] = 0
    BY ONLY <1>1, <1>5, <2>1
  <2>3. \A i \in 0 .. c - 1 : t[i] = A[i] * D[k - i]
    <3>1. \A i \in 0 .. c - 1 : i <= k
      BY ONLY <1>1, <1>8
    <3> QED BY ONLY <1>6, <3>1
  <2>4. Cauchy(A, D)[k] = Total(t, c)
    BY ONLY <1>1, <1>5, <2>1, <2>2, <2>3, CauchyUpTo
  <2> QED BY ONLY <1>4, <2>4 DEF A, D, C
<1>9. CASE k + 1 < c
  <2>1. k + 1 \in 0 .. c /\ (k + 1) - 1 = k
    BY ONLY <1>1, <1>9
  <2>2. \A i \in k + 1 .. c - 1 : i \in 0 .. c - 1 /\ k < i
    BY ONLY <1>1
  <2>3. \A i \in k + 1 .. c - 1 : t[i] = 0
    BY ONLY <1>7, <2>2
  <2>4. Total(t, c) = Total(t, k + 1)
    BY ONLY <1>1, <1>4, <2>1, <2>3, TotalTail
  <2>5. \A i \in 0 .. k : t[i] = A[i] * D[k - i]
    <3>1. \A i \in 0 .. k : i <= k /\ i \in 0 .. c - 1
      BY ONLY <1>1, <1>9
    <3> QED BY ONLY <1>6, <3>1
  <2>6. Cauchy(A, D)[k] = Total(t, k + 1)
    BY ONLY <1>1, <1>5, <2>5, CauchyTerms
  <2> QED BY ONLY <1>4, <2>4, <2>6 DEF A, D, C
<1>10. c <= k + 1 \/ k + 1 < c
  BY ONLY <1>1
<1> QED BY <1>8, <1>9, <1>10

\* The value of the cyclotomic polynomial at a primitive root.
LEMMA PolynomialVanishes ==
  ASSUME NEW r \in Rings, NEW k \in Totatives(r.order)
  PROVE  /\ r.poly \in [0 .. Totient(r.order) -> 0 .. r.modulus - 1] /\ r.poly[0] = 1
         /\ Power(r.root, 2 * k, r.modulus) \in 0 .. r.modulus - 1
         /\ Vanishes(r.poly, Power(r.root, 2 * k, r.modulus), Totient(r.order), r.modulus)
<1> DEFINE o == r.order
           m == r.modulus
           z == r.root
           n == Totient(o)
           g == r.poly
           w == Power(z, 2 * k, m)
           N == n + 1
<1>1. o \in Nat \ {0} /\ o \in Nat \ {0, 1} /\ m \in Nat \ {0, 1} /\ m \in Nat \ {0}
  BY RingOf
<1>2. RootWithInverse(z, RootInverse(r), o, m)
  <2>1. r.root \in Roots(r)
    BY DEF Roots
  <2> QED BY <2>1, RootsOfRing
<1>3. Cyclotomic(g, n, o, z, m)
  BY ArbAssumption
<1>4. n \in Nat /\ N \in Nat /\ N - 1 = n /\ k \in Nat /\ k \in Totatives(o)
  <2>1. n \in Nat /\ \A j \in Totatives(o) : j \in Nat
    BY ONLY <1>1, TotientBelow
  <2> QED BY <2>1
<1> HIDE DEF o, m, z, n, g
<1>5. /\ g \in [0 .. n -> 0 .. m - 1] /\ g[0] = 1
      /\ \A i \in 0 .. n : g[i] = g[n - i]
      /\ Sum(Vector(n + 1, LAMBDA i : g[i] * Power(z, (2 * i * k) % (2 * o), m)), n + 1) % m = 0
  BY ONLY <1>3, <1>4 DEF Cyclotomic
<1>6. Evaluated(g, z, N, k, o, m) = 0
  BY ONLY <1>5, SumIsTotal DEF Evaluated, Vector
<1>7. Evaluated(g, z, N, k, o, m) = ValueAt(g, w, N, m) % m /\ w \in 0 .. m - 1
  <2> HIDE DEF N, w
  <2>1. Evaluated(g, z, N, k, o, m) = ValueAt(g, Power(z, 2 * k, m), N, m) % m /\ Power(z, 2 * k, m) \in 0 .. m - 1
    BY ONLY <1>1, <1>2, <1>4, EvaluatedAt
  <2> QED BY ONLY <2>1 DEF w
<1>8. Congruent(ValueAt(g, w, N, m), 0, m)
  <2>1. 0 % m = 0
    BY ONLY <1>1
  <2> QED BY ONLY <1>6, <1>7, <2>1 DEF Congruent
<1>9. \A i \in 0 .. n : g[i] \in Int
  <2>1. \A i \in 0 .. n : g[i] \in 0 .. m - 1
    <3>1. g \in [0 .. n -> 0 .. m - 1]
      BY ONLY <1>5
    <3> QED BY ONLY <3>1
  <2>2. \A x \in 0 .. m - 1 : x \in Int
    BY ONLY <1>1
  <2> QED BY ONLY <2>1, <2>2
<1>10. Vanishes(g, w, n, m)
  BY ONLY <1>5, <1>8, <1>9 DEF Vanishes, N
<1> QED BY ONLY <1>5, <1>7, <1>10 DEF o, m, n, g, w, z

\* The lengths of the division, and its sums.
LEMMA DivisionLengths ==
  ASSUME NEW r \in Rings, r.order <= DivisionDim(r.order)
  PROVE  LET o == r.order
             m == r.modulus
             n == Totient(o)
             q == o - n
             D == DivisionDim(o)
         IN  /\ n \in Nat /\ q \in Nat \ {0} /\ q <= 2^W /\ o = n + q /\ D \in Nat \ {0} /\ 2 * q <= D /\ o <= D
             /\ q * m * m < r.bigMod
<1> DEFINE o == r.order
           m == r.modulus
           n == Totient(o)
           q == o - n
           D == DivisionDim(o)
           B == r.bigMod
           N == 2^W
<1>1. o \in Nat \ {0, 1} /\ m \in Nat /\ B \in Nat /\ o * m * m < B /\ 2 * o <= N
  BY RingOf
<1>2. N \in Nat
  BY WordSize
<1>3. D = 2 * PowerAbove(q) /\ o <= D
  BY DEF DivisionDim
<1>4. n \in Nat /\ n < o
  <2> HIDE DEF o
  <2> QED BY ONLY <1>1, TotientBelow
<1> HIDE DEF o, n, D, B, N, m
<1>5. q \in Nat \ {0} /\ o = n + q /\ q <= o /\ q <= N
  BY ONLY <1>1, <1>2, <1>4
<1> HIDE DEF q
<1>6. PowerAbove(q) \in Nat \ {0} /\ q <= PowerAbove(q)
  <2>1. q <= 2^W
    BY ONLY <1>5 DEF N
  <2> QED BY ONLY <1>5, <2>1, PowerAboveFound
<1>7. D \in Nat \ {0} /\ 2 * q <= D
  BY ONLY <1>3, <1>5, <1>6
<1>8. q * m * m <= o * m * m /\ q * m * m \in Int /\ o * m * m \in Int
  <2>1. q * m <= o * m /\ q * m \in Nat /\ o * m \in Nat
    BY ONLY <1>1, <1>5
  <2> DEFINE a == q * m
             b == o * m
  <2>2. a <= b /\ a \in Nat /\ b \in Nat
    BY <2>1
  <2> HIDE DEF a, b
  <2>3. a * m <= b * m /\ a * m \in Int /\ b * m \in Int
    BY ONLY <1>1, <2>2
  <2> QED BY ONLY <2>3 DEF a, b
<1>9. q * m * m < B
  <2> DEFINE a == q * m * m
             b == o * m * m
  <2>1. a <= b /\ b < B /\ a \in Int /\ b \in Int
    BY <1>1, <1>8
  <2> HIDE DEF a, b
  <2>2. a < B
    BY ONLY <1>1, <2>1
  <2> QED BY ONLY <2>2 DEF a
<1> QED BY ONLY <1>3, <1>4, <1>5, <1>7, <1>9 DEF o, m, n, q, D, B, N

\* DropDividing finds the remainder.
LEMMA DividingDropped ==
  ASSUME NEW r \in Rings, r.order <= DivisionDim(r.order),
         NEW e \in [0 .. r.order - 1 -> 0 .. r.modulus - 1]
  PROVE  LET o == r.order
             m == r.modulus
             n == Totient(o)
             h == DropDividing(e, n, r, DivisionOfRing(r), DivisionDim(o))
         IN  /\ h \in [0 .. n - 1 -> 0 .. m - 1]
             /\ \A k \in Totatives(o) :
                  Congruent(ValueAt(h, Power(r.root, 2 * k, m), n, m), ValueAt(e, Power(r.root, 2 * k, m), o, m), m)
<1> DEFINE o == r.order
           m == r.modulus
           B == r.bigMod
           n == Totient(o)
           q == o - n
           D == DivisionDim(o)
           g == r.poly
           f == InversePolyMod(g, m, q)
           rev == PadZeros(f, D)
           pol == PadZeros(g, D)
           top == Vector(D, LAMBDA k : IF k < q THEN e[o - 1 - k] ELSE 0)
           c == Convolved(top, rev, D, B)
           quo == Vector(D, LAMBDA i : IF i < q THEN c[i] % m ELSE 0)
           p == Convolved(quo, pol, D, B)
           h == DropDividing(e, n, r, DivisionOfRing(r), D)
           N == n + 1
<1>1. /\ n \in Nat /\ q \in Nat \ {0} /\ q <= 2^W /\ o = n + q /\ D \in Nat \ {0} /\ 2 * q <= D /\ o <= D
      /\ q * m * m < B
  BY ONLY DivisionLengths, r \in Rings, r.order <= DivisionDim(r.order)
<1>2. /\ m \in Nat \ {0, 1} /\ m \in Nat \ {0} /\ BarrettModulus(m) /\ B \in Nat
      /\ r.root \in Nat
  BY ONLY RingOf, r \in Rings
<1>3. g \in [0 .. n -> 0 .. m - 1] /\ g[0] = 1
  <2>1. Cyclotomic(g, n, o, r.root, m)
    BY ArbAssumption
  <2> HIDE DEF g, n, o, m
  <2> QED BY ONLY <2>1 DEF Cyclotomic
<1>4. h = [i \in 0 .. n - 1 |-> SubMod(e[i], p[o - 1 - i] % m, m)]
  BY Zenon DEF DropDividing, DivisionOfRing, Vector
<1>5. \A k \in 0 .. D - 1 : top[k] = (IF k < q THEN e[o - 1 - k] ELSE 0) /\ quo[k] = (IF k < q THEN c[k] % m ELSE 0)
  BY DEF Vector
<1>6. \A k \in Totatives(o) : Power(r.root, 2 * k, m) \in 0 .. m - 1 /\ Vanishes(g, Power(r.root, 2 * k, m), n, m)
  BY ONLY PolynomialVanishes, r \in Rings
<1>7. \A i \in 0 .. o - 1 : e[i] \in 0 .. m - 1
  OBVIOUS
<1> HIDE DEF o, m, B, n, D, g, h, top, quo, c, p
<1>8. N \in Nat \ {0} /\ N - 1 = n /\ N <= D /\ q \in 0 .. D /\ q \in Nat /\ o \in Nat
  BY ONLY <1>1
<1> HIDE DEF q
<1>9. Inverts(f, g, q, N, m)
  <2>1. g \in [0 .. N - 1 -> 0 .. m - 1]
    BY ONLY <1>3, <1>8
  <2> HIDE DEF N
  <2> QED BY ONLY <1>1, <1>2, <1>3, <1>8, <2>1, InversePolyModInverts
<1> HIDE DEF f
<1>10. f \in [0 .. q - 1 -> 0 .. m - 1] /\ Agree(Cauchy(SeriesOf(f, q), SeriesOf(g, N)), Unit, q, m)
  BY ONLY <1>9 DEF Inverts
<1>11. /\ \A i \in 0 .. D - 1 : rev[i] = (IF i < q THEN f[i] ELSE 0) /\ pol[i] = (IF i < N THEN g[i] ELSE 0)
       /\ \A i \in 0 .. q - 1 : f[i] \in 0 .. m - 1
       /\ \A i \in 0 .. N - 1 : g[i] \in 0 .. m - 1
  <2>1. DOMAIN f = 0 .. q - 1 /\ DOMAIN g = 0 .. N - 1
    BY ONLY <1>3, <1>8, <1>10
  <2>2. Len0(f) = q /\ Len0(g) = N
    <3> HIDE DEF N
    <3> QED BY ONLY <1>8, <2>1, VectorLength
  <2>3. \A i \in 0 .. D - 1 : rev[i] = (IF i < q THEN f[i] ELSE 0) /\ pol[i] = (IF i < N THEN g[i] ELSE 0)
    BY <2>2 DEF PadZeros, Vector
  <2> QED BY ONLY <1>3, <1>8, <1>10, <2>3
<1> HIDE DEF rev, pol, N
<1>12. \A i \in 0 .. D - 1 : /\ top[i] \in 0 .. m - 1 /\ rev[i] \in 0 .. m - 1 /\ pol[i] \in 0 .. m - 1
  <2>1. 0 \in 0 .. m - 1
    BY ONLY <1>2
  <2>2. ASSUME NEW i \in 0 .. D - 1 PROVE top[i] \in 0 .. m - 1
    <3>1. CASE i < q
      <4>1. o - 1 - i \in 0 .. o - 1
        BY ONLY <1>1, <1>8, <3>1, i \in 0 .. D - 1
      <4>2. e[o - 1 - i] \in 0 .. m - 1
        BY ONLY <1>7, <4>1
      <4>3. top[i] = e[o - 1 - i]
        BY ONLY Zenon, <1>5, <3>1, i \in 0 .. D - 1
      <4> QED BY ONLY Zenon, <4>2, <4>3
    <3>2. CASE ~(i < q)
      <4>1. top[i] = 0
        BY ONLY Zenon, <1>5, <3>2, i \in 0 .. D - 1
      <4> QED BY ONLY Zenon, <2>1, <4>1
    <3> QED BY ONLY <3>1, <3>2
  <2>3. ASSUME NEW i \in 0 .. D - 1 PROVE rev[i] \in 0 .. m - 1
    <3>1. CASE i < q
      <4>1. i \in 0 .. q - 1
        BY ONLY <1>8, <3>1, i \in 0 .. D - 1
      <4>2. f[i] \in 0 .. m - 1
        BY ONLY Zenon, <1>11, <4>1
      <4> QED BY ONLY Zenon, <1>11, <3>1, <4>2, i \in 0 .. D - 1
    <3>2. CASE ~(i < q)
      BY ONLY Zenon, <1>11, <2>1, <3>2, i \in 0 .. D - 1
    <3> QED BY ONLY <3>1, <3>2
  <2>4. ASSUME NEW i \in 0 .. D - 1 PROVE pol[i] \in 0 .. m - 1
    <3>1. CASE i < N
      <4>1. i \in 0 .. N - 1
        BY ONLY <1>8, <3>1, i \in 0 .. D - 1
      <4>2. g[i] \in 0 .. m - 1
        BY ONLY Zenon, <1>11, <4>1
      <4> QED BY ONLY Zenon, <1>11, <3>1, <4>2, i \in 0 .. D - 1
    <3>2. CASE ~(i < N)
      BY ONLY Zenon, <1>11, <2>1, <3>2, i \in 0 .. D - 1
    <3> QED BY ONLY <3>1, <3>2
  <2> QED BY ONLY <2>2, <2>3, <2>4
<1>13. \A i \in q .. D - 1 : i \in 0 .. D - 1 /\ ~(i < q)
  BY ONLY <1>8
<1>14. Convolvable(top, rev, D, q, m, B)
  BY ONLY <1>1, <1>2, <1>5, <1>8, <1>12, <1>13 DEF Convolvable
<1> DEFINE a == SeriesOf(top, D)
           F == SeriesOf(f, q)
           G == SeriesOf(g, N)
           s == SeriesOf(quo, D)
<1>15. \A x \in 0 .. m - 1 : x \in Int
  BY ONLY <1>2
<1>16. SeriesOf(rev, D) = F /\ SeriesOf(pol, D) = G
  <2>1. \A i \in Nat : (i < D => i \in 0 .. D - 1) /\ (i < q => i < D) /\ (i < N => i < D)
    BY ONLY <1>1, <1>8
  <2>2. \A i \in Nat : /\ (IF i < D THEN rev[i] ELSE 0) = (IF i < q THEN f[i] ELSE 0)
                       /\ (IF i < D THEN pol[i] ELSE 0) = (IF i < N THEN g[i] ELSE 0)
    BY ONLY <1>11, <2>1
  <2> QED BY ONLY <2>2 DEF SeriesOf
<1>17. a \in Series /\ F \in Series /\ G \in Series
  <2>1. (\A i \in 0 .. D - 1 : top[i] \in Int) /\ (\A i \in 0 .. q - 1 : f[i] \in Int) /\ (\A i \in 0 .. N - 1 : g[i] \in Int)
    BY ONLY <1>11, <1>12, <1>15
  <2> QED BY ONLY <1>1, <1>8, <2>1, SeriesOfVector
<1>18. \A i \in 0 .. q - 1 : a[i] = e[o - 1 - i]
  <2>1. \A i \in 0 .. q - 1 : i \in Nat /\ i < D /\ i \in 0 .. D - 1 /\ i < q
    BY ONLY <1>1, <1>8
  <2> QED BY ONLY <1>5, <2>1 DEF SeriesOf
<1>19. ASSUME NEW k \in 0 .. q - 1
       PROVE  c[k] = Cauchy(a, F)[k] /\ c[k] \in Int
  <2>1. k \in 0 .. D - 1 /\ k \in Nat
    BY ONLY <1>1, <1>8, k \in 0 .. q - 1
  <2>2. \A i \in 0 .. q - 1 : k < i => rev[k + D - i] = 0
    <3>1. \A i \in 0 .. q - 1 : k < i => k + D - i \in 0 .. D - 1 /\ ~(k + D - i < q)
      BY ONLY <1>1, <1>8, k \in 0 .. q - 1
    <3> QED BY ONLY <1>11, <3>1
  <2>3. Convolved(top, rev, D, B)[k] = Cauchy(SeriesOf(top, D), SeriesOf(rev, D))[k]
    BY ONLY <1>14, <2>1, <2>2, ConvolvedSeries
  <2>4. Cauchy(a, F) \in Series
    BY ONLY <1>17, CauchySeries
  <2>5. Cauchy(a, F)[k] \in Int
    BY ONLY <2>1, <2>4 DEF Series
  <2> QED BY ONLY <1>16, <2>3, <2>5 DEF c
<1>20. \A k \in 0 .. q - 1 : c[k] % m \in 0 .. m - 1 /\ Congruent(c[k] % m, c[k], m)
  BY ONLY <1>2, <1>19, CongruentRelation
<1>21. \A i \in 0 .. D - 1 : quo[i] \in 0 .. m - 1
  <2>1. \A i \in 0 .. D - 1 : i < q => i \in 0 .. q - 1
    BY ONLY <1>8
  <2>2. 0 \in 0 .. m - 1
    BY ONLY <1>2
  <2> QED BY ONLY <1>5, <1>20, <2>1, <2>2
<1>22. s \in Series /\ \A i \in Nat : i >= q => s[i] = 0
  <2>1. \A i \in 0 .. D - 1 : quo[i] \in Int
    BY ONLY <1>15, <1>21
  <2>2. s \in Series /\ \A i \in Nat : s[i] = IF i < D THEN quo[i] ELSE 0
    BY ONLY <1>1, <2>1, SeriesOfVector
  <2>3. \A i \in Nat : i >= q => ~(i < q) /\ (i < D => i \in 0 .. D - 1)
    BY ONLY <1>1, <1>8
  <2> HIDE DEF s
  <2> QED BY ONLY <1>5, <2>2, <2>3
<1>23. Agree(s, Cauchy(a, F), q, m)
  <2>1. ASSUME NEW k \in Nat, k < q PROVE Congruent(s[k], Cauchy(a, F)[k], m)
    <3>1. k \in 0 .. q - 1 /\ k < D /\ k \in 0 .. D - 1
      BY ONLY <1>1, <1>8, <2>1
    <3>2. s[k] = c[k] % m
      BY ONLY <1>5, <2>1, <3>1 DEF SeriesOf
    <3> HIDE DEF s, a, F
    <3> QED BY ONLY <1>19, <1>20, <3>1, <3>2
  <2> HIDE DEF s, a, F
  <2> QED BY ONLY <2>1 DEF Agree
<1>24. Convolvable(quo, pol, D, q, m, B)
  BY ONLY <1>1, <1>2, <1>5, <1>8, <1>12, <1>13, <1>21 DEF Convolvable
<1> DEFINE P == Cauchy(s, G)
<1>25. P \in Series
  BY ONLY <1>17, <1>22, CauchySeries
<1>26. ASSUME NEW i \in 0 .. n - 1
       PROVE  /\ h[i] \in 0 .. m - 1 /\ Congruent(h[i], e[i] - P[o - 1 - i], m)
  <2> DEFINE k == o - 1 - i
             x == P[k]
             y == e[i]
  <2>1. k \in 0 .. D - 1 /\ k \in Nat /\ i \in 0 .. o - 1 /\ \A j \in 0 .. q - 1 : ~(k < j)
    BY ONLY <1>1, <1>8, i \in 0 .. n - 1
  <2>2. p[k] = x
    <3> HIDE DEF k
    <3>1. Convolved(quo, pol, D, B)[k] = Cauchy(SeriesOf(quo, D), SeriesOf(pol, D))[k]
      BY ONLY <1>24, <2>1, ConvolvedSeries
    <3> QED BY ONLY <1>16, <3>1 DEF p
  <2>3. x \in Int
    <3> HIDE DEF k, P
    <3> QED BY ONLY <1>25, <2>1 DEF Series
  <2>4. h[i] = SubMod(y, x % m, m)
    BY ONLY <1>4, <2>2, i \in 0 .. n - 1
  <2>5. y \in 0 .. m - 1 /\ y \in Int
    BY ONLY <1>7, <1>15, <2>1
  <2> HIDE DEF x, y, k, P
  <2>6. x % m \in 0 .. m - 1 /\ x % m \in Int /\ Congruent(x % m, x, m) /\ Congruent(y, y, m) /\ y \in 0 .. m
    <3>1. x % m \in 0 .. m - 1 /\ Congruent(x % m, x, m)
      BY ONLY <1>2, <2>3, CongruentRelation
    <3>2. y \in 0 .. m
      BY ONLY <1>2, <2>5
    <3> QED BY ONLY <1>15, <3>1, <3>2 DEF Congruent
  <2> DEFINE z == x % m
  <2>7. z \in 0 .. m - 1 /\ z \in Int /\ Congruent(z, x, m) /\ h[i] = SubMod(y, z, m)
    BY ONLY <2>4, <2>6
  <2> HIDE DEF z
  <2>8. h[i] = (y - z) % m
    BY ONLY <1>2, <2>6, <2>7, ModularSums DEF SubMod
  <2>9. y - z \in Int
    BY ONLY <2>5, <2>7
  <2>10. (y - z) % m \in 0 .. m - 1 /\ Congruent((y - z) % m, y - z, m)
    BY ONLY <1>2, <2>9, CongruentRelation
  <2>11. Congruent(y - z, y - x, m)
    BY ONLY <1>2, <2>3, <2>5, <2>6, <2>7, CongruentDifference
  <2> QED BY ONLY <2>8, <2>10, <2>11 DEF Congruent, x, y, k
<1>27. Quotients(s, h, e, Cauchy(s, SeriesOf(g, n + 1)), m, n, q, o)
  <2>1. Cauchy(s, SeriesOf(g, n + 1)) = P
    BY DEF N
  <2> HIDE DEF P, s
  <2> QED BY ONLY <1>22, <1>26, <2>1 DEF Quotients
<1>28. h \in [0 .. n - 1 -> 0 .. m - 1]
  <2>1. h = [i \in 0 .. n - 1 |-> h[i]]
    BY ONLY <1>4
  <2> QED BY ONLY <1>26, <2>1
<1>29. ASSUME NEW k \in Totatives(o)
       PROVE  Congruent(ValueAt(h, Power(r.root, 2 * k, m), n, m), ValueAt(e, Power(r.root, 2 * k, m), o, m), m)
  <2> DEFINE w == Power(r.root, 2 * k, m)
  <2>1. w \in 0 .. m - 1 /\ Vanishes(g, w, n, m)
    BY ONLY <1>6, k \in Totatives(o)
  <2>2. Agree(Cauchy(F, SeriesOf(g, n + 1)), Unit, q, m)
    BY ONLY <1>10 DEF N
  <2> HIDE DEF w, a, F, s
  <2>3. Congruent(ValueAt(h, w, n, m), ValueAt(e, w, o, m), m)
    BY ONLY <1>1, <1>2, <1>7, <1>17, <1>18, <1>22, <1>23, <1>27, <2>1, <2>2, RemainderValue
  <2> QED BY ONLY <2>3 DEF w
<1> QED BY ONLY <1>28, <1>29 DEF o, m, n, h, D

\* Drop reduces to the ring's polynomials, with the values at the primitive roots.
LEMMA DropExact ==
  ASSUME NEW r \in Rings, QuotientsReach, NEW e \in [0 .. r.order - 1 -> 0 .. r.modulus - 1], NEW d, NEW dim,
         Divides(r.order) => d = DivisionOfRing(r) /\ dim = DivisionDim(r.order)
  PROVE  LET o == r.order
             m == r.modulus
             n == Totient(o)
             h == Drop(e, r, d, dim)
         IN  /\ h \in [0 .. n - 1 -> 0 .. m - 1]
             /\ \A k \in Totatives(o) :
                  Congruent(ValueAt(h, Power(r.root, 2 * k, m), n, m), ValueAt(e, Power(r.root, 2 * k, m), o, m), m)
<1> DEFINE o == r.order
           m == r.modulus
           z == r.root
           y == RootInverse(r)
           n == Totient(o)
           h == Drop(e, r, d, dim)
           Sound == /\ h \in [0 .. n - 1 -> 0 .. m - 1]
                    /\ \A k \in Totatives(o) :
                         Congruent(ValueAt(h, Power(z, 2 * k, m), n, m), ValueAt(e, Power(z, 2 * k, m), o, m), m)
<1> SUFFICES Sound
  OBVIOUS
<1>1. o \in Nat \ {0, 1} /\ o \in Nat \ {0} /\ BarrettModulus(m) /\ Field(m)
  BY RingOf DEF Field
<1>2. RootWithInverse(z, y, o, m)
  <2>1. r.root \in Roots(r)
    BY DEF Roots
  <2> QED BY <2>1, RootsOfRing
<1>3. e \in [0 .. o - 1 -> 0 .. m - 1]
  OBVIOUS
<1>4. n \in Nat /\ \A k \in Totatives(o) : k \in 1 .. o - 1 /\ k \in Nat
  <2> HIDE DEF o
  <2> QED BY ONLY <1>1, TotientBelow
<1>5. h = (IF n + 1 = o THEN DropPrime(e, n, m)
           ELSE IF (n + 1) * 2 = o THEN DropTwicePrime(e, n, m)
           ELSE DropDividing(e, n, r, d, dim))
  BY DEF Drop
<1>6. \A k \in Totatives(o) : /\ Power(z, 2 * k, m) \in 0 .. m - 1 /\ Power(z, 2 * k, m) # 1
                              /\ Power(Power(z, 2 * k, m), o, m) = 1
  <2> HIDE DEF o, m, z, y
  <2> QED BY ONLY <1>1, <1>2, <1>4, PrimitiveRoot
<1>7. CASE n + 1 = o
  <2>1. h = DropPrime(e, n, m) /\ o - 1 = n
    BY <1>1, <1>4, <1>5, <1>7
  <2> HIDE DEF o, m, z, y, n, h
  <2>2. e \in [0 .. n -> 0 .. m - 1]
    BY ONLY <1>3, <2>1
  <2>3. ASSUME NEW w \in 0 .. m - 1, w # 1, Power(w, o, m) = 1
        PROVE  h \in [0 .. n - 1 -> 0 .. m - 1] /\ Congruent(ValueAt(h, w, n, m), ValueAt(e, w, o, m), m)
    <3>1. Power(w, n + 1, m) = 1
      BY ONLY <1>7, <2>3
    <3>2. /\ DropPrime(e, n, m) \in [0 .. n - 1 -> 0 .. m - 1]
          /\ Congruent(ValueAt(DropPrime(e, n, m), w, n, m), ValueAt(e, w, n + 1, m), m)
      BY ONLY <1>1, <1>4, <2>2, <2>3, <3>1, PrimeDropped
    <3> QED BY ONLY <1>7, <2>1, <3>2
  <2>4. 1 \in Totatives(o)
    BY ONLY <1>1, OneIsTotative
  <2> QED BY ONLY <1>6, <2>3, <2>4
<1>8. CASE n + 1 # o /\ (n + 1) * 2 = o
  <2> DEFINE p == n + 1
  <2>1. h = DropTwicePrime(e, n, m)
    BY <1>5, <1>8
  <2> HIDE DEF m, z, y, h
  <2>2. 1 \in Totatives(o) /\ o = 2 * p /\ o = 2 * (n + 1)
    BY ONLY <1>1, <1>4, <1>8, OneIsTotative
  <2>3. n # 0
    <3>1. IsFiniteSet(Totatives(o))
      BY ONLY <1>1, TotativesFinite
    <3> DEFINE T == Totatives(o)
    <3>2. IsFiniteSet(T) /\ T # {}
      BY ONLY <2>2, <3>1
    <3> HIDE DEF T, o
    <3>3. Cardinality(T) # 0
      BY ONLY <3>2, FS_EmptySet
    <3> QED BY ONLY <3>3 DEF T, n, Totient
  <2>4. p \in Nat \ {0, 1} /\ p - 1 = n /\ 2 * n + 1 = o - 1
    BY ONLY <1>4, <2>2, <2>3
  <2> HIDE DEF o
  <2>5. (\A k \in Totatives(o) : k \in Nat /\ k % 2 = 1 /\ k # p) /\ n % 2 = 0
    <3> HIDE DEF p
    <3>1. (\A k \in Totatives(2 * p) : k \in Nat /\ k % 2 = 1 /\ k # p) /\ Totient(2 * p) % 2 = 0
      BY ONLY <2>4, EvenOrder
    <3> QED BY ONLY <2>2, <3>1 DEF n
  <2> HIDE DEF n
  <2>6. p % 2 = 1
    BY ONLY <1>4, <2>5
  <2>7. e \in [0 .. 2 * n + 1 -> 0 .. m - 1]
    BY ONLY <1>3, <2>4
  <2>8. ASSUME NEW k \in Totatives(o)
        PROVE  /\ h \in [0 .. n - 1 -> 0 .. m - 1]
               /\ Congruent(ValueAt(h, Power(z, 2 * k, m), n, m), ValueAt(e, Power(z, 2 * k, m), o, m), m)
    <3> DEFINE w == Power(z, 2 * k, m)
               v == Power(z, 2 * k + 2 * p, m)
    <3>1. Opposite(w, v, p, m)
      <4>1. RootWithInverse(z, y, 2 * p, m) /\ k \in 1 .. 2 * p - 1 /\ k % 2 = 1 /\ k # p
        BY ONLY <1>2, <1>4, <2>2, <2>5, k \in Totatives(o)
      <4> HIDE DEF p
      <4> QED BY ONLY <1>1, <2>4, <2>6, <4>1, PrimitiveOpposite
    <3> HIDE DEF w, v
    <3>2. Opposite(w, v, n + 1, m)
      BY ONLY <3>1 DEF p
    <3>3. /\ DropTwicePrime(e, n, m) \in [0 .. n - 1 -> 0 .. m - 1]
          /\ Congruent(ValueAt(DropTwicePrime(e, n, m), w, n, m), ValueAt(e, w, 2 * (n + 1), m), m)
      BY ONLY <1>1, <1>4, <2>5, <2>7, <3>2, TwicePrimeDropped
    <3>4. h \in [0 .. n - 1 -> 0 .. m - 1] /\ Congruent(ValueAt(h, w, n, m), ValueAt(e, w, o, m), m)
      BY ONLY <2>1, <2>2, <3>3
    <3> QED BY ONLY <3>4 DEF w
  <2> QED BY ONLY <2>2, <2>8
<1>9. CASE n + 1 # o /\ (n + 1) * 2 # o
  <2>1. Divides(r.order)
    BY <1>9 DEF Divides
  <2>2. r.order <= DivisionDim(r.order)
    BY <2>1 DEF QuotientsReach, DivisionDim
  <2>3. h = DropDividing(e, n, r, DivisionOfRing(r), DivisionDim(r.order))
    BY <1>5, <1>9, <2>1
  <2>4. LET g == DropDividing(e, n, r, DivisionOfRing(r), DivisionDim(o))
        IN  /\ g \in [0 .. n - 1 -> 0 .. m - 1]
            /\ \A k \in Totatives(o) :
                 Congruent(ValueAt(g, Power(z, 2 * k, m), n, m), ValueAt(e, Power(z, 2 * k, m), o, m), m)
    BY ONLY <1>3, <2>2, DividingDropped, r \in Rings
  <2> HIDE DEF n, m, z, h
  <2> QED BY ONLY <2>3, <2>4
<1> HIDE DEF Sound
<1> QED BY ONLY <1>7, <1>8, <1>9

-----------------------------------------------------------------------------
(* The transforms.                                                         *)

\* The values are spread over the places of the primitive roots.
LEMMA ValuesPadded ==
  ASSUME NEW r \in Rings, NEW x \in Elements(r)
  PROVE  LET P == Pad(x, r.order, FALSE)
         IN  /\ \A i \in 0 .. r.order - 1 : P[i] \in 0 .. r.modulus - 1
             /\ \A k \in Totatives(r.order) : P[k] = x[Place(k, r.order)]
<1> DEFINE o == r.order
           m == r.modulus
           n == Totient(o)
           P == Pad(x, o, FALSE)
<1>1. o \in Nat /\ m \in Nat \ {0, 1}
  BY RingOf
<1>2. x \in [0 .. n - 1 -> 0 .. m - 1]
  BY ElementEntries
<1>3. \A i \in 0 .. o - 1 : P[i] = (IF i \in Totatives(o) THEN x[Place(i, o)] ELSE 0)
  BY DEF Pad, Vector
<1> HIDE DEF o, m, P
<1>4. Totatives(o) \subseteq 0 .. o - 1 /\ \A k \in Totatives(o) : Place(k, o) \in 0 .. n - 1
  BY ONLY <1>1, TotativesFinite, ListOfTotatives
<1> HIDE DEF n
<1>5. 0 \in 0 .. m - 1
  BY ONLY <1>1
<1>6. \A k \in Totatives(o) : x[Place(k, o)] \in 0 .. m - 1
  BY ONLY <1>2, <1>4
<1>7. \A i \in 0 .. o - 1 : P[i] \in 0 .. m - 1
  BY ONLY <1>3, <1>5, <1>6
<1>8. \A k \in Totatives(o) : P[k] = x[Place(k, o)]
  BY ONLY <1>3, <1>4
<1> QED BY ONLY <1>7, <1>8 DEF o, m, P

\* The transform with the inverse root, scaled by the inverse of the order, has
\* the padded values as its transform.
LEMMA ScaledInverts ==
  ASSUME NEW r \in Rings, NEW P, \A i \in 0 .. r.order - 1 : P[i] \in 0 .. r.modulus - 1, NEW e,
         \A j \in 0 .. r.order - 1 : e[j] = Evaluated(P, RootInverse(r), r.order, j, r.order, r.modulus),
         NEW f,
         f = [i \in 0 .. r.order - 1 |-> (e[i] * InverseOf(r.order % r.modulus, r.modulus)) % r.modulus]
  PROVE  LET o == r.order
             m == r.modulus
         IN  /\ f \in [0 .. o - 1 -> 0 .. m - 1]
             /\ \A k \in 0 .. o - 1 : Evaluated(f, r.root, o, k, o, m) = P[k]
<1> DEFINE o == r.order
           m == r.modulus
           z == r.root
           y == RootInverse(r)
           c == InverseOf(o % m, m)
           T(j) == Total([i \in 0 .. o - 1 |-> P[i] * Power(y, (2 * i * j) % (2 * o), m)], o)
<1>1. o \in Nat \ {0} /\ o \in Nat /\ m \in Nat \ {0, 1} /\ m \in Nat \ {0} /\ Field(m) /\ HasInverse(o % m, m)
  BY RingOf DEF Field
<1>2. RootWithInverse(z, y, o, m)
  <2>1. r.root \in Roots(r)
    BY DEF Roots
  <2> QED BY <2>1, RootsOfRing
<1>3. f = [i \in 0 .. o - 1 |-> (e[i] * c) % m]
  OBVIOUS
<1>5. \A i \in 0 .. o - 1 : P[i] \in 0 .. m - 1
  OBVIOUS
<1>6. \A j \in 0 .. o - 1 : e[j] = Evaluated(P, y, o, j, o, m)
  OBVIOUS
<1> HIDE DEF o, m, z, y
<1>7. c \in 0 .. m - 1 /\ ((o % m) * c) % m = 1
  BY ONLY <1>1 DEF HasInverse, InverseOf
<1> HIDE DEF c
<1>8. c \in Int /\ Congruent(c * o, 1, m)
  <2>1. c \in Int
    BY ONLY <1>1, <1>7
  <2>2. Congruent(((o % m) * c) % m, c * o, m)
    BY ONLY <1>1, <2>1, ScaledResidue, o \in Int
  <2> QED BY ONLY <1>7, <2>1, <2>2, CongruentRelation, <1>1
<1>9. y \in Nat
  BY ONLY <1>1, <1>2, RootPowers
<1>10. ASSUME NEW j \in 0 .. o - 1
       PROVE  T(j) \in Int
  <2> DEFINE g(i) == Power(y, (2 * i * j) % (2 * o), m)
             t == [i \in 0 .. o - 1 |-> P[i] * g(i)]
  <2>1. \A i \in 0 .. o - 1 : i \in Nat /\ j \in Nat
    OBVIOUS
  <2>2. \A i \in 0 .. o - 1 : g(i) \in 0 .. m - 1
    BY ONLY <1>1, <1>9, <2>1, EvaluatedTerm
  <2>3. \A i \in 0 .. o - 1 : t[i] = P[i] * g(i)
    OBVIOUS
  <2>4. T(j) = Total(t, o)
    OBVIOUS
  <2> HIDE DEF g, t, T
  <2>5. \A i \in 0 .. o - 1 : t[i] \in Int
    <3>1. \A i \in 0 .. o - 1 : g(i) \in Int /\ P[i] \in Int
      BY ONLY <1>1, <1>5, <2>2
    <3> QED BY ONLY <2>3, <3>1, ProductInteger
  <2> QED BY ONLY <1>1, <2>4, <2>5, TotalInteger
<1>11. ASSUME NEW j \in 0 .. o - 1
       PROVE  f[j] \in 0 .. m - 1 /\ f[j] \in Int /\ Congruent(f[j], c * T(j), m)
  <2>1. f[j] = ((T(j) % m) * c) % m
    BY ONLY <1>3, <1>6, j \in 0 .. o - 1 DEF Evaluated
  <2>2. T(j) \in Int
    BY ONLY <1>10, j \in 0 .. o - 1
  <2> DEFINE s == T(j)
  <2>3. s \in Int /\ f[j] = ((s % m) * c) % m
    BY ONLY <2>1, <2>2
  <2> HIDE DEF T, s
  <2>4. f[j] \in 0 .. m - 1 /\ Congruent(f[j], c * s, m)
    BY ONLY <1>1, <1>8, <2>3, ScaledResidue
  <2>5. f[j] \in Int
    BY ONLY <1>1, <2>4
  <2> QED BY ONLY <2>4, <2>5 DEF s
<1>12. ScaledTransform(f, P, y, c, o, m)
  BY ONLY <1>11 DEF ScaledTransform
<1>13. f \in [0 .. o - 1 -> 0 .. m - 1]
  BY ONLY <1>3, <1>11
<1>14. \A k \in 0 .. o - 1 : Evaluated(f, z, o, k, o, m) = P[k]
  BY ONLY <1>1, <1>2, <1>5, <1>8, <1>12, TransformInverts
<1> QED BY ONLY <1>13, <1>14 DEF o, m, z

\* The inverse transform finds the polynomial with the given values.
LEMMA InverseFinds ==
  ASSUME QuotientsReach, NEW r \in Rings, NEW x \in Elements(r), NEW d, NEW dim,
         Divides(r.order) => d = DivisionOfRing(r) /\ dim = DivisionDim(r.order)
  PROVE  LET o == r.order
             m == r.modulus
             y == RootInverse(r)
             e == Bluestein(Pad(x, o, FALSE), PowersTable(o, m, y), RBTable(o, m, y), r)
             f == Vector(o, LAMBDA i : (e[i] * InverseOf(o % m, m)) % m)
         IN  Values(Drop(f, r, d, dim), r) = x
<1> DEFINE o == r.order
           m == r.modulus
           z == r.root
           y == RootInverse(r)
           n == Totient(o)
           list == TotientList(o)
           P == Pad(x, o, FALSE)
           e == Bluestein(P, PowersTable(o, m, y), RBTable(o, m, y), r)
           f == Vector(o, LAMBDA i : (e[i] * InverseOf(o % m, m)) % m)
           h == Drop(f, r, d, dim)
<1>1. o \in Nat \ {0} /\ o \in Nat \ {0, 1} /\ o \in Nat /\ m \in Nat \ {0, 1} /\ m \in Nat \ {0}
  BY RingOf
<1>2. RootWithInverse(z, y, o, m) /\ y \in Roots(r)
  <2>1. r.root \in Roots(r) /\ RootInverse(r) \in Roots(r)
    BY DEF Roots
  <2> QED BY <2>1, RootsOfRing
<1>3. x = [i \in 0 .. n - 1 |-> x[i]]
  <2>1. x \in [0 .. n - 1 -> 0 .. m - 1]
    BY ElementEntries
  <2> HIDE DEF n, m
  <2> QED BY ONLY <2>1
<1>4. (\A i \in 0 .. o - 1 : P[i] \in 0 .. m - 1) /\ \A k \in Totatives(o) : P[k] = x[Place(k, o)]
  BY ONLY ValuesPadded, r \in Rings, x \in Elements(r)
<1>5. \A k \in 0 .. o - 1 : e[k] = Evaluated(P, y, o, k, o, m)
  <2> HIDE DEF P, y
  <2>1. \A i \in 0 .. r.order - 1 : P[i] \in 0 .. r.modulus - 1
    BY ONLY <1>4
  <2>2. y \in Roots(r)
    BY ONLY <1>2
  <2>3. LET g == Bluestein(P, PowersTable(r.order, r.modulus, y), RBTable(r.order, r.modulus, y), r)
        IN  /\ DOMAIN g = 0 .. r.order - 1
            /\ \A k \in 0 .. r.order - 1 : g[k] = Evaluated(P, y, r.order, k, r.order, r.modulus)
    BY ONLY <2>1, <2>2, BluesteinEvaluates, r \in Rings
  <2> QED BY ONLY <2>3
<1>6. f \in [0 .. o - 1 -> 0 .. m - 1] /\ \A k \in 0 .. o - 1 : Evaluated(f, z, o, k, o, m) = P[k]
  <2>1. f = [i \in 0 .. r.order - 1 |-> (e[i] * InverseOf(r.order % r.modulus, r.modulus)) % r.modulus]
    BY Zenon DEF Vector
  <2> HIDE DEF P, e, f
  <2> QED BY ONLY <1>4, <1>5, <2>1, ScaledInverts, r \in Rings
<1>7. /\ h \in [0 .. n - 1 -> 0 .. m - 1]
      /\ \A k \in Totatives(o) :
           Congruent(ValueAt(h, Power(z, 2 * k, m), n, m), ValueAt(f, Power(z, 2 * k, m), o, m), m)
  <2> HIDE DEF f
  <2> QED BY ONLY <1>6, DropExact, r \in Rings, QuotientsReach,
                  Divides(r.order) => d = DivisionOfRing(r) /\ dim = DivisionDim(r.order)
<1> HIDE DEF h, f, e, P
<1>8. Values(h, r) = [i \in 0 .. n - 1 |-> Evaluated(h, z, n, list[i], o, m)]
  <2>1. DOMAIN h = 0 .. n - 1 /\ \A j \in 0 .. n - 1 : h[j] \in Int
    BY <1>1, <1>7
  <2> QED BY <2>1, ValuesEvaluated
<1> HIDE DEF o, m, z, y
<1>9. n \in Nat /\ list \in [0 .. n - 1 -> Totatives(o)] /\ \A i \in 0 .. n - 1 : Place(list[i], o) = i
  BY ONLY <1>1, TotientBelow, ListOfTotatives
<1>10. \A k \in Totatives(o) : k \in Nat /\ k \in 0 .. o - 1
  BY ONLY <1>1, TotientBelow, TotativesFinite
<1> HIDE DEF n, list
<1>11. ASSUME NEW i \in 0 .. n - 1 PROVE Evaluated(h, z, n, list[i], o, m) = x[i]
  <2> DEFINE k == list[i]
             w == Power(z, 2 * k, m)
  <2>1. k \in Totatives(o) /\ k \in Nat /\ k \in 0 .. o - 1 /\ Place(k, o) = i
    BY ONLY <1>9, <1>10, i \in 0 .. n - 1
  <2> HIDE DEF k
  <2>2. Evaluated(h, z, n, k, o, m) = ValueAt(h, w, n, m) % m /\ Evaluated(f, z, o, k, o, m) = ValueAt(f, w, o, m) % m
    BY ONLY <1>1, <1>2, <1>9, <2>1, EvaluatedAt
  <2>3. ValueAt(h, w, n, m) % m = ValueAt(f, w, o, m) % m
    BY ONLY <1>7, <2>1 DEF Congruent
  <2>4. Evaluated(f, z, o, k, o, m) = x[i]
    BY ONLY <1>4, <1>6, <2>1
  <2> QED BY ONLY <2>2, <2>3, <2>4 DEF k
<1>12. Values(h, r) = x
  BY ONLY <1>3, <1>8, <1>11
<1> QED BY ONLY <1>12 DEF h, f, e, P, o, m, y

\* A forward transform that returns has evaluated.
LEMMA ForwardExact ==
  ASSUME ArbInv, NEW r \in Rings, NEW x \in Elements(r), ForwardTransform(r, x)
  PROVE  ArbExact'
<1>1. FillTables(r, r.root) /\ TablesInv
  BY DEF ForwardTransform, ArbInv
<1>2. r.root \in Roots(r)
  BY DEF Roots
<1>3. /\ powers'[OwnKey(r, r.root)] = PowersTable(r.order, r.modulus, r.root)
      /\ RBTables'[<<OwnKey(r, r.root), NttKey(r)>>] = RBTable(r.order, r.modulus, r.root)
      /\ TablesFit(r, r.root)
  BY ONLY <1>1, <1>2, FilledTables, r \in Rings
<1> DEFINE e == Bluestein(Pad(x, r.order, TRUE), PowersTable(r.order, r.modulus, r.root),
                          RBTable(r.order, r.modulus, r.root), r)
<1>4. Transformed(Pad(x, r.order, TRUE), r, r.root) = e
  BY ONLY <1>3, Zenon DEF Transformed, OwnKey, NttKey
<1>5. DropForward(e, r) = Values(x, r)
  BY ForwardEvaluates
<1> HIDE DEF e
<1>6. Answer("forward", r, x, "returned", Values(x, r))
  BY ONLY <1>3, <1>4, <1>5, ForwardTransform(r, x) DEF ForwardTransform
<1>7. last'.way = "forward" /\ last'.input = x /\ last'.ring = r /\ last'.output = Values(x, r)
  BY ONLY <1>6 DEF Answer
<1> QED BY ONLY <1>7 DEF ArbExact, Returned

\* An inverse transform that returns has found the polynomial.
LEMMA InverseExact ==
  ASSUME OneDivisionPerModulus, QuotientsReach, ArbInv, NEW r \in Rings, NEW x \in Elements(r),
         InverseTransform(r, x)
  PROVE  ArbExact'
<1> DEFINE y == RootInverse(r)
           P == Pad(x, r.order, FALSE)
           e == Bluestein(P, PowersTable(r.order, r.modulus, y), RBTable(r.order, r.modulus, y), r)
           f == Vector(r.order, LAMBDA i : (e[i] * InverseOf(r.order % r.modulus, r.modulus)) % r.modulus)
           h == Drop(f, r, division'.of[r.modulus], divisionDim'[r.order])
<1>1. /\ FillTables(r, y) /\ TablesInv /\ FillDivision(r)
      /\ DivisionMissing(r) => cycloPoly[r.modulus] = r.poly
  BY DEF InverseTransform, ArbInv
<1>2. y \in Roots(r)
  BY DEF Roots
<1>3. /\ powers'[OwnKey(r, y)] = PowersTable(r.order, r.modulus, y)
      /\ RBTables'[<<OwnKey(r, y), NttKey(r)>>] = RBTable(r.order, r.modulus, y)
      /\ TablesFit(r, y)
  <2> HIDE DEF y
  <2> QED BY ONLY <1>1, <1>2, FilledTables, r \in Rings
<1>4. /\ DivisionReads(r)
      /\ Divides(r.order) => /\ division'.of[r.modulus] = DivisionOfRing(r)
                             /\ divisionDim'[r.order] = DivisionDim(r.order)
  BY ONLY <1>1, FilledDivision, r \in Rings, OneDivisionPerModulus, QuotientsReach
<1>5. Transformed(P, r, y) = e
  <2> HIDE DEF P, y
  <2> QED BY ONLY <1>3, Zenon DEF Transformed, OwnKey, NttKey
<1>6. Values(h, r) = x
  BY ONLY <1>4, InverseFinds, QuotientsReach, r \in Rings, x \in Elements(r)
<1>7. Answer("inverse", r, x, "returned", h)
  <2> DEFINE u == Transformed(P, r, y)
             s == InverseOf(r.order % r.modulus, r.modulus)
             v == Vector(r.order, LAMBDA i : (u[i] * s) % r.modulus)
  <2>1. Answer("inverse", r, x, "returned", Drop(v, r, division'.of[r.modulus], divisionDim'[r.order]))
    BY ONLY <1>3, <1>4, InverseTransform(r, x) DEF InverseTransform
  <2>2. v = f
    <3> HIDE DEF e, P, y
    <3> QED BY ONLY <1>5 DEF Vector
  <2> HIDE DEF v, f
  <2> QED BY ONLY <2>1, <2>2
<1> HIDE DEF h
<1>8. last'.way = "inverse" /\ last'.input = x /\ last'.ring = r /\ last'.output = h
  BY ONLY <1>7 DEF Answer
<1> QED BY ONLY <1>6, <1>8 DEF ArbExact, Returned

\* Whatever rings there are, if their quotients reach and one of them divides for
\* each modulus: the forward transform evaluates at the primitive roots and the
\* inverse transform finds the polynomial with the given values, whatever was
\* called before.
THEOREM ArbAlwaysExact ==
  OneDivisionPerModulus /\ QuotientsReach => (ArbSpec => []ArbExact)
<1> SUFFICES ASSUME OneDivisionPerModulus, QuotientsReach PROVE ArbSpec => []ArbExact
  OBVIOUS
<1>1. ArbInit => ArbExact
  BY DEF ArbInit, ArbExact, Returned
<1>2. ArbInv /\ ArbExact /\ [ArbNext]_arbVars => ArbExact'
  <2> SUFFICES ASSUME ArbInv, ArbExact, [ArbNext]_arbVars PROVE ArbExact'
    OBVIOUS
  <2>1. ASSUME NEW r \in Rings, NEW x \in Elements(r), ForwardTransform(r, x) PROVE ArbExact'
    BY ONLY <2>1, ForwardExact, ArbInv
  <2>2. ASSUME NEW r \in Rings, NEW x \in Elements(r), InverseTransform(r, x) PROVE ArbExact'
    BY ONLY <2>2, InverseExact, ArbInv, OneDivisionPerModulus, QuotientsReach
  <2>3. last' = NoCall => ArbExact'
    BY DEF ArbExact, Returned
  <2>4. ASSUME NEW r \in Rings,
               \/ SetCylotomicPolynomial(r) \/ SetPreComputedNTTModulus(r)
               \/ SetPreComputedNTTDivisionModulus(r)
        PROVE  ArbExact'
    BY ONLY <2>3, <2>4 DEF SetCylotomicPolynomial, SetPreComputedNTTModulus, SetPreComputedNTTDivisionModulus
  <2>5. Reset => ArbExact'
    BY ONLY <2>3 DEF Reset
  <2>6. CASE UNCHANGED arbVars
    BY ONLY <2>6, ArbExact DEF arbVars, ArbExact, Returned
  <2> QED BY ONLY <2>1, <2>2, <2>4, <2>5, <2>6, [ArbNext]_arbVars DEF ArbNext
<1>3. ArbInit => ArbInv
  BY ArbInvInit
<1>4. ArbInv /\ [ArbNext]_arbVars => ArbInv'
  BY ArbInvNext
<1> QED BY <1>1, <1>2, <1>3, <1>4, PTL DEF ArbSpec
=================================================================================
