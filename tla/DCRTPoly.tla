------------------------------ MODULE DCRTPoly ------------------------------
(***************************************************************************)
(* The representation of HexlDCRTPolyImpl (hexldcrtpoly.h and              *)
(* hexldcrtpoly-impl.h): a polynomial held by its residues, one HexlPoly   *)
(* tower per modulus.  The same fact is kept in several places that every  *)
(* operation has to keep in step by hand: the format in m_format, in each  *)
(* tower's own m_format, and in what the tower's vector really holds; the  *)
(* basis in m_params and in each tower.                                    *)
(*                                                                         *)
(* The state is a few polynomial objects; an action is one member          *)
(* function, and leaves its result in an object.  The numbers in a vector  *)
(* are abstracted to what they are: coefficients, evaluations, nothing at  *)
(* all, or numbers that are neither ("junk").                              *)
(*                                                                         *)
(* Operations that only multiply every number by constants, add an integer *)
(* or reorder the vector change none of this and are left out.  The        *)
(* parameters and tables passed in are those of the basis the object has.  *)
(***************************************************************************)
EXTENDS Integers, Sequences

CONSTANTS
  Q,        \* the moduli of the scheme's CRT basis
  P,        \* the moduli it is extended by
  Objects,  \* the polynomial objects of the program
  Careful   \* whether callers respect what the operations leave unchecked

Distinct(s) == \A i, j \in DOMAIN s : s[i] = s[j] => i = j

ASSUME BasesAssumption ==
  Q \in Seq(Nat) /\ P \in Seq(Nat) /\ Q # <<>> /\ P # <<>> /\ Distinct(Q \o P)
ASSUME CarefulAssumption == Careful \in BOOLEAN

VARIABLES
  poly,     \* the objects
  outcome   \* how the last call ended

vars == <<poly, outcome>>

Format == {"COEFFICIENT", "EVALUATION"}
Holds  == Format \cup {"nothing", "junk"}
Tower  == [modulus: Nat, format: Format, holds: Holds]
Poly   == [format: Format, params: Seq(Nat), vectors: Seq(Tower)]

Other(f) == IF f = "COEFFICIENT" THEN "EVALUATION" ELSE "COEFFICIENT"

-----------------------------------------------------------------------------
(* HexlPolyImpl: one tower.                                                *)
NewTowerNoFormat(m, f, zero) ==
  [modulus |-> m, format |-> IF zero THEN f ELSE "nothing", holds |-> IF zero THEN f ELSE "nothing"]

NewTower(m, f, zero) ==
  [modulus |-> m, format |-> f, holds |-> IF zero THEN f ELSE "nothing"]

(* The transform and the flag go together; transforming what the flag does *)
(* not tell gives numbers of no use.                                       *)
TowerSwitched(v) ==
  [v EXCEPT !.format = Other(v.format),
            !.holds  = IF v.holds = v.format THEN Other(v.format) ELSE "junk"]

TowerIn(v, f) == IF v.format = f THEN v ELSE TowerSwitched(v)

(* SwitchModulus lifts each number to its centred representative, which    *)
(* makes sense of coefficients only.                                       *)
Lifted(v, m) ==
  IF m = v.modulus THEN v
  ELSE [v EXCEPT !.modulus = m,
                 !.holds   = IF v.holds = "COEFFICIENT" THEN v.holds ELSE "junk"]

(* An elementwise sum or difference, with the flags of the first operand.  *)
Sum(v, w) ==
  [v EXCEPT !.holds = IF w.holds = v.holds /\ w.modulus = v.modulus THEN v.holds ELSE "junk"]

(* An elementwise product of two towers, reduced by m.                     *)
ProductHolds(v, w, m) ==
  IF v.holds = "EVALUATION" /\ w.holds = "EVALUATION" /\ v.modulus = m /\ w.modulus = m
  THEN "EVALUATION" ELSE "junk"

(* operator+= and -= of a tower without values start from zero.            *)
Filled(v) == [v EXCEPT !.holds = IF v.holds = "nothing" THEN v.format ELSE v.holds]

-----------------------------------------------------------------------------
(* Polynomials and their parts.                                            *)
Rep(f, ps, vs) == [format |-> f, params |-> ps, vectors |-> vs]
WithVectors(p, vs) == Rep(p.format, p.params, vs)

New(ps, f, zero) == Rep(f, ps, [i \in 1..Len(ps) |-> NewTower(ps[i], f, zero)])

Size(p) == Len(p.vectors)
Last(p) == p.vectors[Size(p)]
HasValues(p) == \A i \in 1..Size(p) : p.vectors[i].holds # "nothing"

(* The basis is told the same by m_params and by the towers.               *)
BasisAgrees(p) ==
  /\ Len(p.vectors) = Len(p.params)
  /\ \A i \in 1..Size(p) : p.vectors[i].modulus = p.params[i]

Switched(p) ==
  Rep(Other(p.format), p.params, [i \in 1..Size(p) |-> TowerSwitched(p.vectors[i])])
In(p, f) == IF p.format = f THEN p ELSE Switched(p)

SlicedKeepsParams(p, i, j) == Rep(p.format, p.params, SubSeq(p.vectors, i, j))
Sliced(p, i, j) == Rep(p.format, SubSeq(p.params, i, j), SubSeq(p.vectors, i, j))
Dropped(p, n)   == Sliced(p, 1, Size(p) - n)

(* A conversion of the basis, exact or approximate: coefficient by         *)
(* coefficient into a new polynomial that takes over the format flag.      *)
Converted(p, ps) ==
  LET h == IF \A i \in 1..Size(p) : p.vectors[i].holds = "COEFFICIENT"
           THEN "COEFFICIENT" ELSE "junk"
  IN  Rep(p.format, ps,
          [i \in 1..Len(ps) |-> [modulus |-> ps[i], format |-> p.format, holds |-> h]])

(* The last tower taken out of the basis, its centred coefficients folded  *)
(* into each of the others.                                                *)
Folded(p) ==
  LET last == TowerIn(Last(p), "COEFFICIENT")
      rest == Dropped(p, 1)
      Share(m) == IF p.format = "EVALUATION" THEN TowerSwitched(Lifted(last, m)) ELSE Lifted(last, m)
  IN  WithVectors(rest,
        [i \in 1..Size(rest) |-> Sum(rest.vectors[i], Share(rest.vectors[i].modulus))])

-----------------------------------------------------------------------------
(* How a call ends.  A call that breaks dereferences a tower without       *)
(* values, reads past the last tower, or throws inside a parallel loop,    *)
(* which ends the process.                                                 *)
Running == outcome # "broken"
Give(r, p) == Running /\ poly' = [poly EXCEPT ![r] = p] /\ outcome' = "returned"
Throw == Running /\ outcome' = "thrown" /\ UNCHANGED poly
Break == Running /\ outcome' = "broken" /\ UNCHANGED poly
Relies(c) == Careful => c

(* The bases an object can be in when it is handed to an operation on Q,   *)
(* on P, or on both, with tables that were computed for this basis.        *)
Levels  == {SubSeq(Q, 1, n) : n \in 1..Len(Q)}
OnQ(p)  == p.params \in Levels /\ BasisAgrees(p)
OnQP(p) == (\E q \in Levels : p.params = q \o P) /\ BasisAgrees(p)

Moduli == {Q[i] : i \in 1..Len(Q)} \cup {P[i] : i \in 1..Len(P)}

(* With values: those of a large polynomial, or zero.                      *)
Construct(r, ps, f, zero) == Give(r, New(ps, f, zero))

Copy(r, x) == Give(r, poly[x])

SwitchFormat(x) ==
  /\ Relies(HasValues(poly[x]))
  /\ IF HasValues(poly[x]) THEN Give(x, Switched(poly[x])) ELSE Break

OverrideFormat(x, f) ==
  /\ Relies(f = poly[x].format)
  /\ Give(x, Rep(f, poly[x].params, poly[x].vectors))

-----------------------------------------------------------------------------
(* Towers given and taken by hand.  A tower passed in is a copy of one     *)
(* that an object has.  The constructor and the assignment from one tower  *)
(* put it in the first place as it is, whatever its modulus, and lift it   *)
(* to the moduli of the others.  They are noexcept, so that the exception  *)
(* of lifting a tower without values ends the process.                     *)
FromTower(v, ps) == [k \in 1..Len(ps) |-> IF k = 1 THEN v ELSE Lifted(v, ps[k])]
Unliftable(v, ps) == Len(ps) > 1 /\ v.holds = "nothing"

ConstructFromTower(r, x, i, ps) ==
  LET v == poly[x].vectors[i] IN
  /\ Relies(v.modulus = ps[1] /\ (Len(ps) > 1 => v.holds = "COEFFICIENT"))
  /\ IF Unliftable(v, ps) THEN Break ELSE Give(r, Rep(v.format, ps, FromTower(v, ps)))

AssignTower(r, x, i) ==
  LET p == poly[r]  v == poly[x].vectors[i] IN
  /\ Relies(v.modulus = p.params[1] /\ v.format = p.format)
  /\ Relies(Len(p.params) > 1 => v.holds = "COEFFICIENT")
  /\ IF Unliftable(v, p.params) THEN Break ELSE Give(r, WithVectors(p, FromTower(v, p.params)))

(* An index past the last tower is not noticed.                            *)
SetElementAtIndex(r, k, x, i) ==
  LET p == poly[r]  v == poly[x].vectors[i] IN
  /\ Relies(k <= Size(p) /\ v.modulus = p.params[k] /\ v.format = p.format)
  /\ IF k > Size(p) THEN Break
     ELSE Give(r, WithVectors(p, [p.vectors EXCEPT ![k] = v]))

(* The tower gets the modulus, m_params keeps the one it had.              *)
SwitchModulusAtIndex(x, k, m) ==
  LET p == poly[x] IN
  /\ Relies(k <= Size(p) => m = p.params[k])
  /\ IF k > Size(p) \/ p.vectors[k].holds = "nothing" THEN Throw
     ELSE Give(x, WithVectors(p, [p.vectors EXCEPT ![k] = Lifted(p.vectors[k], m)]))

(* From the towers of x, with the moduli they have.                        *)
ConstructFromTowers(r, x) ==
  LET vs == poly[x].vectors IN
  Give(r, Rep(vs[1].format, [i \in 1..Len(vs) |-> vs[i].modulus], vs))

-----------------------------------------------------------------------------
(* Arithmetic of two polynomials.                                          *)
SameStart(p, q) == Size(p) = Size(q) /\ p.vectors[1].modulus = q.vectors[1].modulus

Plus(r, x, y) ==
  LET p == poly[x]  q == poly[y] IN
  /\ Relies(SameStart(p, q) => p.params = q.params)
  /\ Relies(HasValues(p) /\ HasValues(q))
  /\ IF p.format # q.format \/ ~SameStart(p, q) THEN Throw
     ELSE IF ~HasValues(p) \/ ~HasValues(q) THEN Break
     ELSE Give(r, WithVectors(p, [i \in 1..Size(p) |-> Sum(p.vectors[i], q.vectors[i])]))

Times(r, x, y) ==
  LET p == poly[x]  q == poly[y] IN
  /\ Relies(SameStart(p, q) => p.params = q.params)
  /\ Relies(HasValues(p) /\ HasValues(q))
  /\ IF p.format # "EVALUATION" \/ q.format # "EVALUATION" \/ ~SameStart(p, q) THEN Throw
     ELSE IF ~HasValues(p) \/ ~HasValues(q) THEN Break
     ELSE Give(r, WithVectors(p, [i \in 1..Size(p) |->
            [modulus |-> p.params[i], format |-> p.format,
             holds |-> ProductHolds(p.vectors[i], q.vectors[i], p.params[i])]]))

(* Minus looks at nothing but the sizes; the towers compare their moduli.  *)
SameModuli(p, q) == \A i \in 1..Size(p) : p.vectors[i].modulus = q.vectors[i].modulus

Minus(r, x, y) ==
  LET p == poly[x]  q == poly[y] IN
  /\ Relies(Size(p) = Size(q) => p.params = q.params /\ p.format = q.format)
  /\ Relies(HasValues(p) /\ HasValues(q))
  /\ IF Size(p) # Size(q) THEN Throw
     ELSE IF ~HasValues(p) \/ ~HasValues(q) \/ ~SameModuli(p, q) THEN Break
     ELSE Give(r, WithVectors(p, [i \in 1..Size(p) |-> Sum(p.vectors[i], q.vectors[i])]))

(* operator+= and operator-= with a polynomial look at nothing: a longer   *)
(* right-hand side is cut, a shorter one read past its end.                *)
Covers(q, p) == Len(p.params) <= Len(q.params) /\ p.params = SubSeq(q.params, 1, Len(p.params))

Accumulate(x, y) ==
  LET p == poly[x]  q == poly[y] IN
  /\ Relies(Covers(q, p) /\ p.format = q.format /\ HasValues(q))
  /\ IF Size(q) < Size(p) \/ ~HasValues(q) \/ ~SameModuli(p, q) THEN Break
     ELSE Give(x, WithVectors(p, [i \in 1..Size(p) |-> Sum(Filled(p.vectors[i]), q.vectors[i])]))

(* operator*= has its checks still to come.                                *)
TimesAssign(x, y) ==
  LET p == poly[x]  q == poly[y] IN
  /\ Relies(Covers(q, p) /\ p.format = "EVALUATION" /\ q.format = "EVALUATION")
  /\ Relies(HasValues(p) /\ HasValues(q))
  /\ IF Size(q) < Size(p) \/ ~HasValues(p) \/ ~HasValues(q) THEN Break
     ELSE Give(x, WithVectors(p, [i \in 1..Size(p) |->
            [p.vectors[i] EXCEPT !.holds = ProductHolds(p.vectors[i], q.vectors[i], p.params[i])]]))

(* The product with a list of n constants leaves the towers beyond the     *)
(* list without values.                                                    *)
TimesNoCheck(r, x, n) ==
  LET p == poly[x] IN
  /\ Relies(HasValues(p))
  /\ IF \E i \in 1..Size(p) : i <= n /\ p.vectors[i].holds = "nothing" THEN Break
     ELSE Give(r, WithVectors(p, [i \in 1..Size(p) |->
            IF i <= n THEN p.vectors[i] ELSE NewTower(p.params[i], p.format, FALSE)]))

-----------------------------------------------------------------------------
(* Assignments.  That of one integer gives the towers their evaluations    *)
(* but does not say so in m_format; that of a list of integers keeps every *)
(* tower's format; that of signed integers sets them all.                  *)
AssignedAs(v, f) == [modulus |-> v.modulus, format |-> f, holds |-> f]

AssignValue(x) ==
  LET p == poly[x] IN
  /\ Relies(p.format = "EVALUATION")
  /\ Give(x, WithVectors(p, [i \in 1..Size(p) |-> AssignedAs(p.vectors[i], "EVALUATION")]))

AssignList(x) ==
  LET p == poly[x]
      FormatOf(v) == IF v.holds = "nothing" THEN p.format ELSE v.format
  IN  Give(x, WithVectors(p, [i \in 1..Size(p) |->
                 AssignedAs(p.vectors[i], FormatOf(p.vectors[i]))]))

AssignVector(x) ==
  LET p == poly[x] IN
  Give(x, Rep("COEFFICIENT", p.params,
              [i \in 1..Size(p) |-> AssignedAs(p.vectors[i], "COEFFICIENT")]))

(* From a large polynomial in format f, which is not looked at.            *)
AssignLarge(x, f) ==
  LET p == poly[x] IN
  /\ Relies(f = p.format)
  /\ Give(x, WithVectors(p, [i \in 1..Len(p.params) |->
        [modulus |-> p.params[i], format |-> p.format, holds |-> IF f = p.format THEN f ELSE "junk"]]))

(* The towers from i to j, with their moduli.                              *)
CloneTowers(r, x, i, j) ==
  /\ i <= j /\ j <= Size(poly[x])
  /\ Give(r, Sliced(poly[x], i, j))

(* Rescales the one coefficient tower of y into that of x.                 *)
SetValuesModSwitch(x, y) ==
  LET p == poly[x]  q == poly[y] IN
  /\ Relies(p.format = "COEFFICIENT" /\ HasValues(q))
  /\ IF Size(p) # 1 \/ Size(q) # 1 THEN Throw
     ELSE IF ~HasValues(q) THEN Break
     ELSE Give(x, WithVectors(p, [i \in 1..1 |->
            [modulus |-> p.vectors[1].modulus, format |-> "COEFFICIENT",
             holds |-> TowerIn(q.vectors[1], "COEFFICIENT").holds]]))

-----------------------------------------------------------------------------
(* Leaving a modulus of the basis.                                         *)
DropLastElements(x, n) ==
  IF Size(poly[x]) <= n THEN Throw ELSE Give(x, Dropped(poly[x], n))

(* Dropping the last of one tower throws before anything has changed, and  *)
(* so does the switch of a last tower without values.                      *)
NothingToFold(p) ==
  Size(p) = 1 \/ (Last(p).holds = "nothing" /\ Last(p).format = "EVALUATION")

DropLastElementAndScaleKeepsFlag(x) ==
  LET p == poly[x]  q == Folded(p) IN
  /\ Relies(HasValues(p))
  /\ IF NothingToFold(p) THEN Throw
     ELSE IF ~HasValues(p) THEN Break
     ELSE Give(x, WithVectors(q, [i \in 1..Size(q) |->
            IF p.format = "COEFFICIENT" THEN TowerSwitched(q.vectors[i]) ELSE q.vectors[i]]))

DropLastElementAndScale(x) ==
  LET p == poly[x]  q == Folded(p) IN
  /\ Relies(HasValues(p))
  /\ IF NothingToFold(p) THEN Throw
     ELSE IF ~HasValues(p) THEN Break
     ELSE Give(x, Rep("EVALUATION", q.params, [i \in 1..Size(q) |->
            IF p.format = "COEFFICIENT" THEN TowerSwitched(q.vectors[i]) ELSE q.vectors[i]]))

ModReduce(x) ==
  LET p == poly[x] IN
  /\ Relies(HasValues(p))
  /\ IF NothingToFold(p) THEN Throw
     ELSE IF ~HasValues(p) THEN Break
     ELSE Give(x, Folded(p))

(* Here the last tower is lifted in the format it has.                     *)
ScaleAndRoundPOverQ(x) ==
  LET p == poly[x]  q == Dropped(p, 1) IN
  /\ BasisAgrees(p) /\ Size(p) > 1
  /\ Relies(p.format = "COEFFICIENT" /\ HasValues(p))
  /\ IF Last(p).holds = "nothing" THEN Break
     ELSE Give(x, WithVectors(q, [i \in 1..Size(q) |->
            Sum(Filled(q.vectors[i]), Lifted(Last(p), q.vectors[i].modulus))]))

-----------------------------------------------------------------------------
(* Extending the basis and coming back.                                    *)

(* The conversion needs coefficients.  Towers that were evaluations are    *)
(* put aside and, if evaluations are wanted, put back.                     *)
Expand(x, rf, reversed) ==
  LET p    == poly[x]
      coef == In(p, "COEFFICIENT")
      kept == IF p.format = "EVALUATION" /\ rf = "EVALUATION" THEN p.vectors ELSE coef.vectors
      part == Converted(coef, P).vectors
      all  == IF reversed THEN part \o kept ELSE kept \o part
  IN  /\ OnQ(p)
      /\ Relies(HasValues(p))
      /\ IF ~HasValues(p) THEN Break
         ELSE Give(x, Rep(rf, IF reversed THEN P \o p.params ELSE p.params \o P,
                          [i \in 1..Len(all) |-> TowerIn(all[i], rf)]))

ApproxModUp(x) == Expand(x, "EVALUATION", FALSE)
ExpandCRTBasis(x, rf) == Expand(x, rf, FALSE)
ExpandCRTBasisReverseOrder(x, rf) == Expand(x, rf, TRUE)

ApproxModDown(r, x) ==
  LET p     == poly[x]
      sizeQ == Size(p) - Len(P)
      partP == Rep("COEFFICIENT", P,
                   [j \in 1..Len(P) |-> TowerIn(p.vectors[sizeQ + j], "COEFFICIENT")])
      down  == Converted(partP, Q)
      ans   == Dropped(New(Q, "EVALUATION", TRUE), Len(Q) - sizeQ)
  IN  /\ OnQP(p)
      /\ Relies(p.format = "EVALUATION" /\ HasValues(p))
      /\ IF ~HasValues(p) THEN Break
         ELSE Give(r, WithVectors(ans, [i \in 1..sizeQ |->
                Sum(p.vectors[i], TowerIn(down.vectors[i], "EVALUATION"))]))

SwitchCRTBasis(r, x) ==
  LET p == poly[x] IN
  /\ OnQ(p)
  /\ Relies(p.format = "COEFFICIENT" /\ HasValues(p))
  /\ IF ~HasValues(p) THEN Break ELSE Give(r, Converted(p, P))

ScaleAndRound(r, x, ps) ==
  LET p == poly[x] IN
  /\ OnQP(p)
  /\ ps \in {P, SubSeq(p.params, 1, Size(p) - Len(P))}
  /\ Relies(p.format = "COEFFICIENT" /\ HasValues(p))
  /\ IF ~HasValues(p) THEN Break ELSE Give(r, Converted(p, ps))

FastExpandCRTBasisPloverQ(x) ==
  LET p      == poly[x]
      partPl == Converted(p, P)
      partQl == Converted(partPl, p.params)
  IN  /\ OnQ(p)
      /\ Relies(p.format = "COEFFICIENT" /\ HasValues(p))
      /\ IF ~HasValues(p) THEN Break
         ELSE Give(x, Rep(p.format, p.params \o P, partQl.vectors \o partPl.vectors))

ExpandCRTBasisQlHatUnfilled(x) ==
  LET p == poly[x] IN
  /\ OnQ(p)
  /\ HasValues(p)
  /\ Give(x, Rep(p.format, Q, [i \in 1..Len(Q) |->
            IF i <= Size(p) THEN p.vectors[i] ELSE NewTower(Q[i], p.format, FALSE)]))

ExpandCRTBasisQlHat(x) ==
  LET p == poly[x] IN
  /\ OnQ(p)
  /\ Relies(HasValues(p))
  /\ IF ~HasValues(p) THEN Break
     ELSE Give(x, Rep(p.format, Q, [i \in 1..Len(Q) |->
            IF i <= Size(p) THEN p.vectors[i] ELSE NewTower(Q[i], p.format, TRUE)]))

-----------------------------------------------------------------------------
(* Decompositions; the action leaves one digit, that of tower i.           *)

(* For baseBits = 0 the digit is a copy of the evaluations, all towers but *)
(* its own replaced by its own tower lifted to their moduli.               *)
CRTDecompose(r, x, i, baseBits) ==
  LET p    == poly[x]
      coef == IF p.format = "COEFFICIENT" THEN p ELSE Switched(p)
      eval == IF p.format = "COEFFICIENT" THEN Switched(p) ELSE p
      Spread(k) == Lifted(coef.vectors[i], coef.vectors[k].modulus)
  IN  /\ i \in 1..Size(p)
      /\ Relies(HasValues(p))
      /\ IF ~HasValues(p) THEN Break
         ELSE IF baseBits = 0
         THEN Give(r, WithVectors(eval, [k \in 1..Size(p) |->
                IF k = i THEN eval.vectors[k] ELSE TowerIn(Spread(k), "EVALUATION")]))
         ELSE Give(r, Switched(WithVectors(coef, [k \in 1..Size(p) |-> Spread(k)])))

BaseDecompose(r, x, evalModeAnswer) ==
  LET p     == poly[x]
      digit == New(p.params, "COEFFICIENT", TRUE)
  IN  /\ Relies(HasValues(p))
      /\ IF p.format # "COEFFICIENT" THEN Throw
         ELSE IF ~HasValues(p) THEN Break
         ELSE Give(r, IF evalModeAnswer THEN Switched(digit) ELSE digit)

(* PowersOfBase writes each power through the first element of a tower     *)
(* that was constructed without values.                                    *)
PowersOfBase(x) ==
  /\ Relies(FALSE)
  /\ Size(poly[x]) > 0
  /\ Break

-----------------------------------------------------------------------------
Arithmetic(r, x, y) ==
  \/ Plus(r, x, y) \/ Minus(r, x, y) \/ Times(r, x, y)

InPlace(x, y) ==
  \/ Accumulate(x, y) \/ TimesAssign(x, y) \/ SetValuesModSwitch(x, y)

ByHand(r, x) ==
  \/ \E i \in 1..Size(poly[x]) :
       \/ \E ps \in Levels \cup {P} : ConstructFromTower(r, x, i, ps)
       \/ AssignTower(r, x, i)
       \/ \E k \in 1..Len(Q \o P) : SetElementAtIndex(r, k, x, i)
  \/ ConstructFromTowers(r, x)

Derive(r, x) ==
  \/ Copy(r, x)
  \/ \E n \in 1..Len(Q) : TimesNoCheck(r, x, n)
  \/ \E i, j \in 1..Len(Q \o P) : CloneTowers(r, x, i, j)
  \/ ApproxModDown(r, x) \/ SwitchCRTBasis(r, x)
  \/ \E ps \in Levels \cup {P} : ScaleAndRound(r, x, ps)
  \/ \E i \in 1..Len(Q \o P), b \in {0, 1} : CRTDecompose(r, x, i, b)
  \/ \E e \in BOOLEAN : BaseDecompose(r, x, e)

Change(x) ==
  \/ SwitchFormat(x) \/ AssignValue(x) \/ AssignList(x) \/ AssignVector(x)
  \/ \E f \in Format :
       AssignLarge(x, f) \/ OverrideFormat(x, f) \/ ExpandCRTBasis(x, f) \/ ExpandCRTBasisReverseOrder(x, f)
  \/ \E n \in 1..Len(Q) : DropLastElements(x, n)
  \/ DropLastElementAndScale(x) \/ ModReduce(x) \/ ScaleAndRoundPOverQ(x)
  \/ ApproxModUp(x) \/ FastExpandCRTBasisPloverQ(x) \/ ExpandCRTBasisQlHat(x)
  \/ PowersOfBase(x)
  \/ \E k \in 1..Len(Q \o P), m \in Moduli : SwitchModulusAtIndex(x, k, m)

Init ==
  /\ poly    = [x \in Objects |-> New(Q, "EVALUATION", TRUE)]
  /\ outcome = "returned"

Next ==
  \/ \E x \in Objects, ps \in Levels \cup {P}, f \in Format, z \in BOOLEAN : Construct(x, ps, f, z)
  \/ \E x \in Objects : Change(x)
  \/ \E x, y \in Objects : InPlace(x, y) \/ ByHand(x, y) \/ Derive(x, y)
  \/ \E x, y, z \in Objects : Arithmetic(x, y, z)

Spec == Init /\ [][Next]_vars

-----------------------------------------------------------------------------
TypeOK ==
  /\ poly \in [Objects -> Poly]
  /\ outcome \in {"returned", "thrown", "broken"}

(* The format is told the same by m_format, by the towers' flags and by    *)
(* their numbers.                                                          *)
FormatAgrees(p) ==
  \A i \in 1..Size(p) :
    p.vectors[i].format = p.format /\ p.vectors[i].holds \in {p.format, "nothing"}

(* Callers that respect what is left unchecked never see the parts of a    *)
(* representation fall apart, whatever operations they chain, in whatever  *)
(* format they start them.                                                 *)
Coherent == \A x \in Objects : BasisAgrees(poly[x]) /\ FormatAgrees(poly[x])

(* However carelessly the operations are chained, the bases in m_params    *)
(* part from those of the towers only by a call that is handed a tower or  *)
(* a modulus which is not the one of its place; no operation that adds,    *)
(* drops, clones or combines towers, and rebuilds m_params by hand, parts  *)
(* them.                                                                   *)
BasesAgree == \A x \in Objects : BasisAgrees(poly[x])

HandedStranger ==
  \E r, x \in Objects : \E i \in 1..Size(poly[x]) :
    LET m == poly[x].vectors[i].modulus IN
    \/ \E ps \in Levels \cup {P} : m # ps[1] /\ ConstructFromTower(r, x, i, ps)
    \/ m # poly[r].params[1] /\ AssignTower(r, x, i)
    \/ \E k \in 1..Size(poly[r]) : m # poly[r].params[k] /\ SetElementAtIndex(r, k, x, i)
    \/ \E n \in Moduli : m # n /\ SwitchModulusAtIndex(x, i, n)

BasesPartByHand == [][BasesAgree => BasesAgree' \/ HandedStranger]_vars

(* Objects that all have their values keep them: only a construction       *)
(* without values and TimesNoCheck with too few constants leave a tower    *)
(* empty.                                                                  *)
LeavesEmpty ==
  \E x \in Objects :
    \/ \E ps \in Levels \cup {P}, f \in Format : Construct(x, ps, f, FALSE)
    \/ \E y \in Objects, n \in 1..Len(Q) : TimesNoCheck(x, y, n)

ValuesKept ==
  [][(\A x \in Objects : HasValues(poly[x])) =>
       (\A x \in Objects : HasValues(poly[x]))' \/ LeavesEmpty]_vars
=============================================================================
