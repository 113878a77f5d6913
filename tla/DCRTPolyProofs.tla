--------------------------- MODULE DCRTPolyProofs ---------------------------
(***************************************************************************)
(* Proofs about DCRTPoly.                                                  *)
(***************************************************************************)
EXTENDS DCRTPoly, SequenceTheorems, TLAPS

(* What is true of every object, and what is true of it besides while no   *)
(* caller has parted a basis; what an operation leaves is shown to be the  *)
(* second, so that no basis parts by it.                                   *)
Tidy == Careful \/ BasesAgree

Loose(p) ==
  /\ p \in Poly /\ Size(p) > 0 /\ Len(p.vectors) = Len(p.params)
  /\ Careful => BasisAgrees(p) /\ FormatAgrees(p)

Fit(p) == Loose(p) /\ (Tidy => BasisAgrees(p))

Fits(v, m, f) ==
  /\ v \in Tower /\ (Tidy => v.modulus = m)
  /\ Careful => v.format = f /\ v.holds \in {f, "nothing"}

LEMMA Made ==
  ASSUME NEW f \in Format, NEW ps \in Seq(Nat), Len(ps) > 0, NEW vs,
         vs = [i \in 1..Len(ps) |-> vs[i]],
         \A i \in 1..Len(ps) : Fits(vs[i], ps[i], f)
  PROVE  Fit(Rep(f, ps, vs))
<1>1. vs \in Seq(Tower) /\ Len(vs) = Len(ps)
  <2>1. Len(ps) \in Nat OBVIOUS
  <2>2. vs \in [1..Len(ps) -> Tower] BY DEF Fits
  <2> QED BY <2>1, <2>2
<1> QED BY <1>1 DEF Rep, Fit, Loose, Tidy, Fits, Poly, BasisAgrees, FormatAgrees, Size

LEMMA Parts ==
  ASSUME NEW p, Fit(p)
  PROVE  /\ p \in Poly /\ p.format \in Format /\ p.params \in Seq(Nat)
         /\ Size(p) = Len(p.params) /\ Size(p) \in Nat /\ Size(p) > 0
         /\ p.vectors = [i \in 1..Size(p) |-> p.vectors[i]]
         /\ \A i \in 1..Size(p) : p.params[i] \in Nat /\ Fits(p.vectors[i], p.params[i], p.format)
<1>1. p \in Poly BY DEF Fit, Loose
<1>2. /\ p.format \in Format /\ p.params \in Seq(Nat) /\ p.vectors \in Seq(Tower)
  BY <1>1 DEF Poly
<1>3. Size(p) = Len(p.params) /\ Size(p) \in Nat /\ Size(p) > 0
  BY <1>2 DEF Fit, Loose, Size
<1>4. ASSUME NEW i \in 1..Size(p) PROVE Fits(p.vectors[i], p.params[i], p.format)
  <2>1. p.vectors[i] \in Tower BY <1>2, <1>3 DEF Size
  <2>2. Tidy => p.vectors[i].modulus = p.params[i] BY DEF Fit, BasisAgrees
  <2>3. Careful => p.vectors[i].format = p.format /\ p.vectors[i].holds \in {p.format, "nothing"}
    BY DEF Fit, Loose, FormatAgrees
  <2> QED BY <2>1, <2>2, <2>3 DEF Fits
<1>5. p.vectors = [i \in 1..Size(p) |-> p.vectors[i]] BY <1>2 DEF Size
<1>6. \A i \in 1..Size(p) : p.params[i] \in Nat BY <1>2, <1>3
<1> QED BY <1>1, <1>2, <1>3, <1>4, <1>5, <1>6

(* Objects over one basis have the same moduli, tower by tower.            *)
LEMMA SameParams ==
  ASSUME Careful, NEW p, NEW q, Fit(p), Fit(q), NEW n \in Nat, n <= Size(p), n <= Size(q),
         \A i \in 1..n : p.params[i] = q.params[i]
  PROVE  \A i \in 1..n : p.vectors[i].modulus = q.vectors[i].modulus
<1> TAKE i \in 1..n
<1>0. Size(p) \in Nat /\ Size(q) \in Nat BY Parts
<1>1. i \in 1..Size(p) /\ i \in 1..Size(q) BY <1>0
<1>2. p.vectors[i].modulus = p.params[i] BY <1>1, Parts DEF Fits, Tidy
<1>3. q.vectors[i].modulus = q.params[i] BY <1>1, Parts DEF Fits, Tidy
<1> QED BY <1>2, <1>3

LEMMA NewFits ==
  ASSUME NEW ps \in Seq(Nat), Len(ps) > 0, NEW f \in Format, NEW z \in BOOLEAN
  PROVE  Fit(New(ps, f, z))
<1> DEFINE vs == [i \in 1..Len(ps) |-> NewTower(ps[i], f, z)]
<1>1. ASSUME NEW i \in 1..Len(ps) PROVE Fits(vs[i], ps[i], f)
  <2>1. ps[i] \in Nat OBVIOUS
  <2> QED BY <2>1 DEF Fits, NewTower, Tower, Holds, Format
<1>2. vs = [i \in 1..Len(ps) |-> vs[i]] OBVIOUS
<1> HIDE DEF vs
<1>3. Fit(Rep(f, ps, vs)) BY <1>1, <1>2, Made
<1> QED BY <1>3 DEF New, vs

-----------------------------------------------------------------------------
(* Towers and polynomials that have their values.                          *)
Full(v, m, f) ==
  /\ v \in Tower /\ (Tidy => v.modulus = m) /\ v.holds # "nothing"
  /\ Careful => v.format = f /\ v.holds = f

Whole(p) ==
  /\ p \in Poly /\ Size(p) > 0 /\ Len(p.vectors) = Len(p.params)
  /\ (Tidy => BasisAgrees(p)) /\ HasValues(p)
  /\ Careful => \A i \in 1..Size(p) : p.vectors[i].format = p.format /\ p.vectors[i].holds = p.format

LEMMA MadeWhole ==
  ASSUME NEW f \in Format, NEW ps \in Seq(Nat), Len(ps) > 0, NEW vs,
         vs = [i \in 1..Len(ps) |-> vs[i]],
         \A i \in 1..Len(ps) : Full(vs[i], ps[i], f)
  PROVE  Whole(Rep(f, ps, vs))
<1>1. vs \in Seq(Tower) /\ Len(vs) = Len(ps)
  <2>1. Len(ps) \in Nat OBVIOUS
  <2>2. vs \in [1..Len(ps) -> Tower] BY DEF Full
  <2> QED BY <2>1, <2>2
<1> QED BY <1>1 DEF Rep, Whole, Full, Poly, BasisAgrees, HasValues, Size

LEMMA WholeParts ==
  ASSUME NEW p, Whole(p)
  PROVE  /\ p \in Poly /\ p.format \in Format /\ p.params \in Seq(Nat) /\ p.vectors \in Seq(Tower)
         /\ Size(p) = Len(p.params) /\ Size(p) \in Nat /\ Size(p) > 0
         /\ \A i \in 1..Size(p) : p.params[i] \in Nat /\ Full(p.vectors[i], p.params[i], p.format)
         /\ Fit(p)
<1>1. p \in Poly BY DEF Whole
<1>2. /\ p.format \in Format /\ p.params \in Seq(Nat) /\ p.vectors \in Seq(Tower)
  BY <1>1 DEF Poly
<1>3. Size(p) = Len(p.params) /\ Size(p) \in Nat /\ Size(p) > 0
  BY <1>2 DEF Whole, Size
<1>4. ASSUME NEW i \in 1..Size(p) PROVE Full(p.vectors[i], p.params[i], p.format)
  BY <1>2, <1>3 DEF Whole, BasisAgrees, HasValues, Full, Size
<1>5. Fit(p) BY DEF Whole, Fit, Loose, Tidy, FormatAgrees
<1>6. \A i \in 1..Size(p) : p.params[i] \in Nat BY <1>2, <1>3
<1> QED BY <1>1, <1>2, <1>3, <1>4, <1>5, <1>6

LEMMA FitWhole ==
  ASSUME NEW p, Fit(p), HasValues(p)
  PROVE  Whole(p)
BY DEF Fit, Loose, Whole, HasValues, FormatAgrees

LEMMA TowerOps ==
  ASSUME NEW v, NEW m \in Nat, NEW f \in Format, Full(v, m, f), NEW g \in Format
  PROVE  /\ Full(TowerSwitched(v), m, Other(f))
         /\ Full(TowerIn(v, g), m, g)
         /\ Other(f) \in Format
BY DEF Full, TowerSwitched, TowerIn, Other, Tower, Holds, Format

LEMMA LiftFull ==
  ASSUME NEW v, NEW m \in Nat, NEW n \in Nat, Full(v, m, "COEFFICIENT")
  PROVE  Full(Lifted(v, n), n, "COEFFICIENT")
BY DEF Full, Lifted, Tower, Holds, Format

LEMMA SumFull ==
  ASSUME NEW v, NEW w, NEW m \in Nat, NEW f \in Format, Full(v, m, f),
         Careful => Full(w, m, f)
  PROVE  Full(Sum(v, w), m, f)
<1>1. Careful => Tidy BY DEF Tidy
<1> QED BY <1>1 DEF Full, Sum, Tower, Holds, Format

LEMMA NewWhole ==
  ASSUME NEW ps \in Seq(Nat), Len(ps) > 0, NEW f \in Format
  PROVE  Whole(New(ps, f, TRUE))
<1> DEFINE vs == [i \in 1..Len(ps) |-> NewTower(ps[i], f, TRUE)]
<1>1. ASSUME NEW i \in 1..Len(ps) PROVE Full(vs[i], ps[i], f)
  <2>1. ps[i] \in Nat OBVIOUS
  <2> QED BY <2>1 DEF Full, NewTower, Tower, Holds, Format
<1>2. vs = [i \in 1..Len(ps) |-> vs[i]] OBVIOUS
<1> HIDE DEF vs
<1>3. Whole(Rep(f, ps, vs)) BY <1>1, <1>2, MadeWhole
<1> QED BY <1>3 DEF New, vs

LEMMA SwitchedWhole ==
  ASSUME NEW p, Whole(p)
  PROVE  Whole(Switched(p)) /\ Switched(p).format = Other(p.format) /\ Switched(p).params = p.params
<1> DEFINE vs == [i \in 1..Size(p) |-> TowerSwitched(p.vectors[i])]
<1>1. ASSUME NEW i \in 1..Len(p.params) PROVE Full(vs[i], p.params[i], Other(p.format))
  <2>1. p.params[i] \in Nat /\ i \in 1..Size(p) BY WholeParts
  <2> QED BY <2>1, WholeParts, TowerOps
<1>2. vs = [i \in 1..Len(p.params) |-> vs[i]] BY WholeParts
<1>3. Switched(p) = Rep(Other(p.format), p.params, vs) BY DEF Switched
<1>4. Other(p.format) \in Format BY WholeParts DEF Other, Format
<1> HIDE DEF vs
<1>5. Whole(Rep(Other(p.format), p.params, vs)) BY <1>1, <1>2, <1>4, WholeParts, MadeWhole
<1> QED BY <1>3, <1>5 DEF Rep

LEMMA InWhole ==
  ASSUME NEW p, Whole(p), NEW f \in Format
  PROVE  Whole(In(p, f)) /\ In(p, f).format = f /\ In(p, f).params = p.params
<1>1. CASE p.format = f BY <1>1 DEF In
<1>2. CASE p.format # f
  <2>1. Other(p.format) = f BY <1>2, WholeParts DEF Other, Format
  <2> QED BY <1>2, <2>1, SwitchedWhole DEF In
<1> QED BY <1>1, <1>2

LEMMA ConvertedWhole ==
  ASSUME NEW p, Whole(p), Careful => p.format = "COEFFICIENT", NEW ps \in Seq(Nat), Len(ps) > 0
  PROVE  Whole(Converted(p, ps)) /\ Converted(p, ps).format = p.format /\ Converted(p, ps).params = ps
<1> DEFINE h == IF \A i \in 1..Size(p) : p.vectors[i].holds = "COEFFICIENT"
                THEN "COEFFICIENT" ELSE "junk"
           vs == [i \in 1..Len(ps) |-> [modulus |-> ps[i], format |-> p.format, holds |-> h]]
<1>1. h \in Holds /\ h # "nothing" /\ (Careful => h = p.format)
  BY WholeParts DEF Whole, Holds, Format
<1>2. ASSUME NEW i \in 1..Len(ps) PROVE Full(vs[i], ps[i], p.format)
  <2>1. ps[i] \in Nat /\ p.format \in Format BY WholeParts
  <2> HIDE DEF h
  <2> QED BY <1>1, <2>1 DEF Full, Tower
<1>3. vs = [i \in 1..Len(ps) |-> vs[i]] OBVIOUS
<1>4. Converted(p, ps) = Rep(p.format, ps, vs) BY DEF Converted
<1> HIDE DEF vs
<1>5. Whole(Rep(p.format, ps, vs)) BY <1>2, <1>3, WholeParts, MadeWhole
<1> QED BY <1>4, <1>5 DEF Rep

LEMMA SubSeqIs ==
  ASSUME NEW S, NEW s \in Seq(S), NEW i \in 1..(Len(s) + 1), NEW j \in (i - 1)..Len(s)
  PROVE  /\ SubSeq(s, i, j) \in Seq(S)
         /\ Len(SubSeq(s, i, j)) = j - i + 1
         /\ \A k \in 1..(j - i + 1) : SubSeq(s, i, j)[k] = s[i + k - 1]
<1>1. \A k \in i..j : s[k] \in S OBVIOUS
<1> QED BY <1>1, SubSeqProperties

LEMMA SubSeqNat ==
  ASSUME NEW s \in Seq(Nat), NEW i \in 1..(Len(s) + 1), NEW j \in (i - 1)..Len(s)
  PROVE  /\ SubSeq(s, i, j) \in Seq(Nat)
         /\ Len(SubSeq(s, i, j)) = j - i + 1
         /\ \A k \in 1..(j - i + 1) : SubSeq(s, i, j)[k] = s[i + k - 1]
<1> DEFINE N == Nat
<1>1. s \in Seq(N) OBVIOUS
<1> HIDE DEF N
<1>2. SubSeq(s, i, j) \in Seq(N) BY <1>1, SubSeqIs
<1>3. /\ Len(SubSeq(s, i, j)) = j - i + 1
      /\ \A k \in 1..(j - i + 1) : SubSeq(s, i, j)[k] = s[i + k - 1]
  BY <1>1, SubSeqIs
<1> QED BY <1>2, <1>3 DEF N

LEMMA SlicedFit ==
  ASSUME NEW p, Fit(p), NEW i \in 1..Size(p), NEW j \in i..Size(p)
  PROVE  /\ Fit(Sliced(p, i, j)) /\ (Whole(p) => Whole(Sliced(p, i, j)))
         /\ Sliced(p, i, j).format = p.format
         /\ Size(Sliced(p, i, j)) = j - i + 1
         /\ \A k \in 1..(j - i + 1) : Sliced(p, i, j).params[k] = p.params[i + k - 1]
<1> DEFINE ps == SubSeq(p.params, i, j)
           vs == SubSeq(p.vectors, i, j)
<1>1. /\ p.params \in Seq(Nat) /\ p.vectors \in Seq(Tower)
      /\ Len(p.params) = Size(p) /\ Len(p.vectors) = Size(p) /\ Size(p) \in Nat
  BY Parts DEF Poly, Size
<1>0. i \in 1..(Size(p) + 1) /\ j \in (i - 1)..Size(p) BY <1>1
<1>2. ps \in Seq(Nat) /\ Len(ps) = j - i + 1 /\ \A k \in 1..(j - i + 1) : ps[k] = p.params[i + k - 1]
  <2> DEFINE s == p.params
  <2>1. s \in Seq(Nat) /\ i \in 1..(Len(s) + 1) /\ j \in (i - 1)..Len(s) BY <1>0, <1>1
  <2> HIDE DEF s
  <2>2. /\ SubSeq(s, i, j) \in Seq(Nat) /\ Len(SubSeq(s, i, j)) = j - i + 1
        /\ \A k \in 1..(j - i + 1) : SubSeq(s, i, j)[k] = s[i + k - 1]
    BY <2>1, SubSeqNat
  <2> QED BY <2>2 DEF s
<1>3. vs \in Seq(Tower) /\ Len(vs) = j - i + 1 /\ \A k \in 1..(j - i + 1) : vs[k] = p.vectors[i + k - 1]
  <2> DEFINE s == p.vectors
  <2>1. s \in Seq(Tower) /\ i \in 1..(Len(s) + 1) /\ j \in (i - 1)..Len(s) BY <1>0, <1>1
  <2> HIDE DEF s
  <2>2. /\ SubSeq(s, i, j) \in Seq(Tower) /\ Len(SubSeq(s, i, j)) = j - i + 1
        /\ \A k \in 1..(j - i + 1) : SubSeq(s, i, j)[k] = s[i + k - 1]
    BY <2>1, SubSeqIs
  <2> QED BY <2>2 DEF s
<1>4. \A k \in 1..(j - i + 1) : i + k - 1 \in 1..Size(p) BY <1>1
<1>5. vs = [k \in 1..Len(ps) |-> vs[k]] BY <1>2, <1>3
<1>9. Len(ps) > 0 BY <1>1, <1>2
<1>6. Sliced(p, i, j) = Rep(p.format, ps, vs) BY DEF Sliced
<1> HIDE DEF ps, vs
<1>7. Fit(Rep(p.format, ps, vs))
  <2>1. ASSUME NEW k \in 1..Len(ps) PROVE Fits(vs[k], ps[k], p.format)
    <3>1. i + k - 1 \in 1..Size(p) /\ vs[k] = p.vectors[i + k - 1] /\ ps[k] = p.params[i + k - 1]
      BY <1>2, <1>3, <1>4
    <3> QED BY <3>1, Parts
  <2> QED BY <2>1, <1>2, <1>5, <1>9, Parts, Made
<1>8. ASSUME Whole(p) PROVE Whole(Rep(p.format, ps, vs))
  <2>1. ASSUME NEW k \in 1..Len(ps) PROVE Full(vs[k], ps[k], p.format)
    BY <1>2, <1>3, <1>4, <1>8, WholeParts
  <2> QED BY <2>1, <1>2, <1>5, <1>9, Parts, MadeWhole
<1> QED BY <1>2, <1>3, <1>6, <1>7, <1>8 DEF Rep, Size

-----------------------------------------------------------------------------
(* The invariant, and what the three ways a call ends do to it.            *)
IInv ==
  /\ TypeOK
  /\ \A x \in Objects : Loose(poly[x])
  /\ Careful => Running

\* No object loses its values, if none had lost them before.
AllHaveValues == \A x \in Objects : HasValues(poly[x])
Stays == IInv' /\ (BasesAgree => BasesAgree')
Keeps == Stays /\ (AllHaveValues => AllHaveValues')

LEMMA GiveLoose ==
  ASSUME IInv, NEW r \in Objects, NEW p, Loose(p), Give(r, p)
  PROVE  IInv'
<1>1. p \in Poly BY DEF Loose
<1> QED BY <1>1 DEF IInv, Give, TypeOK, Loose, BasisAgrees, FormatAgrees, Running

LEMMA GiveFits ==
  ASSUME IInv, NEW r \in Objects, NEW p, Fit(p), Give(r, p)
  PROVE  Stays
<1>1. IInv' BY GiveLoose DEF Fit
<1>2. BasesAgree => BasesAgree'
  BY DEF IInv, TypeOK, Give, Fit, Tidy, BasesAgree, BasisAgrees, Size
<1> QED BY <1>1, <1>2 DEF Stays

LEMMA GiveKeeps ==
  ASSUME IInv, NEW r \in Objects, NEW p, Fit(p), Give(r, p), AllHaveValues => HasValues(p)
  PROVE  Keeps
<1>1. Stays
  BY GiveFits
<1>2. AllHaveValues => AllHaveValues'
  BY DEF IInv, TypeOK, Give, AllHaveValues, HasValues, Size
<1> QED BY <1>1, <1>2 DEF Keeps

LEMMA GiveWhole ==
  ASSUME IInv, NEW r \in Objects, NEW p, Whole(p), Give(r, p)
  PROVE  Keeps
BY GiveKeeps, WholeParts DEF Whole

LEMMA ThrowKeeps ==
  ASSUME IInv, Throw
  PROVE  Keeps
BY DEF IInv, Throw, TypeOK, Loose, BasisAgrees, FormatAgrees, Running,
       Keeps, Stays, BasesAgree, AllHaveValues, HasValues, Size

LEMMA BreakKeeps ==
  ASSUME IInv, Break, ~Careful
  PROVE  Keeps
BY DEF IInv, Break, TypeOK, Loose, BasisAgrees, FormatAgrees, Running,
       Keeps, Stays, BasesAgree, AllHaveValues, HasValues, Size

LEMMA ObjectFits ==
  ASSUME IInv, NEW x \in Objects
  PROVE  Fit(poly[x]) /\ (HasValues(poly[x]) => Whole(poly[x]))
<1>1. Fit(poly[x]) BY DEF IInv, Fit, Loose, Tidy, BasesAgree
<1> QED BY <1>1, FitWhole

-----------------------------------------------------------------------------
(* One lemma for each action.                                              *)
LEMMA LevelsNat ==
  /\ Q \in Seq(Nat) /\ Len(Q) \in Nat /\ Len(Q) > 0
  /\ P \in Seq(Nat) /\ Len(P) \in Nat /\ Len(P) > 0
  /\ \A ps \in Levels \cup {P} : ps \in Seq(Nat) /\ Len(ps) > 0
  /\ \A ps \in Levels : Len(ps) \in 1..Len(Q) /\ \A k \in 1..Len(ps) : ps[k] = Q[k]
<1>1. /\ Q \in Seq(Nat) /\ Len(Q) \in Nat /\ Len(Q) > 0
      /\ P \in Seq(Nat) /\ Len(P) \in Nat /\ Len(P) > 0
  <2> DEFINE N == Nat
  <2>1. Q \in Seq(N) /\ P \in Seq(N) /\ Q # <<>> /\ P # <<>> BY BasesAssumption
  <2> HIDE DEF N
  <2>2. Len(Q) \in Nat \ {0} /\ Len(P) \in Nat \ {0} BY <2>1, EmptySeq
  <2> QED BY <2>1, <2>2 DEF N
<1>2. ASSUME NEW n \in 1..Len(Q)
      PROVE  /\ SubSeq(Q, 1, n) \in Seq(Nat) /\ Len(SubSeq(Q, 1, n)) = n
             /\ \A k \in 1..n : SubSeq(Q, 1, n)[k] = Q[k]
  <2>1. 1 \in 1..(Len(Q) + 1) /\ n \in (1 - 1)..Len(Q) /\ n - 1 + 1 = n BY <1>1
  <2>2. /\ SubSeq(Q, 1, n) \in Seq(Nat) /\ Len(SubSeq(Q, 1, n)) = n - 1 + 1
        /\ \A k \in 1..(n - 1 + 1) : SubSeq(Q, 1, n)[k] = Q[1 + k - 1]
    BY <1>1, <2>1, SubSeqNat
  <2>3. \A k \in 1..n : 1 + k - 1 = k BY <1>1
  <2> QED BY <2>1, <2>2, <2>3
<1>3. ASSUME NEW ps \in Levels
      PROVE  /\ ps \in Seq(Nat) /\ Len(ps) \in 1..Len(Q)
             /\ \A k \in 1..Len(ps) : ps[k] = Q[k]
  <2>1. PICK n \in 1..Len(Q) : ps = SubSeq(Q, 1, n) BY DEF Levels
  <2> QED BY <1>2, <2>1
<1>4. ASSUME NEW ps \in Levels PROVE Len(ps) > 0 BY <1>1, <1>3
<1> QED BY <1>1, <1>3, <1>4

LEMMA ConstructKeeps ==
  ASSUME IInv, NEW r \in Objects, NEW ps \in Levels \cup {P}, NEW f \in Format, NEW z \in BOOLEAN,
         Construct(r, ps, f, z)
  PROVE  Stays /\ (z => Keeps)
<1>1. ps \in Seq(Nat) /\ Len(ps) > 0 BY LevelsNat
<1>2. Stays BY <1>1, NewFits, GiveFits DEF Construct
<1>3. ASSUME z PROVE Keeps
  <2>1. z = TRUE BY <1>3
  <2> QED BY <1>1, <2>1, NewWhole, GiveWhole DEF Construct
<1> QED BY <1>2, <1>3

LEMMA SwitchFormatKeeps ==
  ASSUME IInv, NEW x \in Objects, SwitchFormat(x)
  PROVE  Keeps
<1>1. CASE ~HasValues(poly[x]) BY <1>1, BreakKeeps DEF SwitchFormat, Relies
<1>2. CASE HasValues(poly[x])
  <2>1. Whole(Switched(poly[x])) BY <1>2, ObjectFits, SwitchedWhole
  <2> QED BY <1>2, <2>1, GiveWhole DEF SwitchFormat
<1> QED BY <1>1, <1>2

LEMMA OverrideFormatKeeps ==
  ASSUME IInv, NEW x \in Objects, NEW f \in Format, OverrideFormat(x, f)
  PROVE  Keeps
<1> DEFINE p == poly[x]
<1>1. Fit(p) BY ObjectFits
<1>2. p.vectors = [i \in 1..Len(p.params) |-> p.vectors[i]]
  <2> HIDE DEF p
  <2> QED BY <1>1, Parts
<1>3. \A i \in 1..Len(p.params) : Fits(p.vectors[i], p.params[i], f)
  BY <1>1, Parts DEF OverrideFormat, Relies, Fits
<1>4. Fit(Rep(f, p.params, p.vectors))
  <2> p.params \in Seq(Nat) /\ Len(p.params) > 0 BY <1>1, Parts
  <2> HIDE DEF p
  <2> QED BY <1>2, <1>3, Made
<1>5. AllHaveValues => HasValues(Rep(f, p.params, p.vectors))
  BY DEF AllHaveValues, HasValues, Rep, Size
<1> QED BY <1>4, <1>5, GiveKeeps DEF OverrideFormat

(* What the operations give that replace the vectors and nothing else.     *)
LEMMA WithVectorsFit ==
  ASSUME NEW p, Fit(p), NEW vs, vs = [i \in 1..Size(p) |-> vs[i]],
         \A i \in 1..Size(p) : Fits(vs[i], p.params[i], p.format)
  PROVE  Fit(WithVectors(p, vs))
<1>1. p.format \in Format /\ p.params \in Seq(Nat) /\ Size(p) = Len(p.params) /\ Size(p) > 0
  BY Parts
<1>2. Fit(Rep(p.format, p.params, vs))
  BY <1>1, Made
<1> QED BY <1>2 DEF WithVectors

LEMMA WithVectorsWhole ==
  ASSUME NEW p, Fit(p), NEW vs, vs = [i \in 1..Size(p) |-> vs[i]],
         \A i \in 1..Size(p) : Full(vs[i], p.params[i], p.format)
  PROVE  Whole(WithVectors(p, vs))
<1>1. p.format \in Format /\ p.params \in Seq(Nat) /\ Size(p) = Len(p.params) /\ Size(p) > 0
  BY Parts
<1>2. Whole(Rep(p.format, p.params, vs))
  BY <1>1, MadeWhole
<1> QED BY <1>2 DEF WithVectors

LEMMA SumsWhole ==
  ASSUME NEW p, NEW q, Whole(p), Careful => Whole(q) /\ p.params = q.params /\ p.format = q.format
  PROVE  Whole(WithVectors(p, [i \in 1..Size(p) |-> Sum(p.vectors[i], q.vectors[i])]))
<1> DEFINE vs == [i \in 1..Size(p) |-> Sum(p.vectors[i], q.vectors[i])]
<1>1. ASSUME NEW i \in 1..Size(p) PROVE Full(vs[i], p.params[i], p.format)
  <2>1. Full(p.vectors[i], p.params[i], p.format) /\ p.params[i] \in Nat /\ p.format \in Format
    BY WholeParts
  <2>2. Careful => Full(q.vectors[i], p.params[i], p.format) BY WholeParts
  <2> QED BY <2>1, <2>2, SumFull
<1>2. vs = [i \in 1..Size(p) |-> vs[i]] OBVIOUS
<1>3. Fit(p) BY WholeParts
<1> HIDE DEF vs
<1>4. Whole(WithVectors(p, vs)) BY <1>1, <1>2, <1>3, WithVectorsWhole
<1> QED BY <1>4 DEF vs

LEMMA PlusKeeps ==
  ASSUME IInv, NEW r \in Objects, NEW x \in Objects, NEW y \in Objects, Plus(r, x, y)
  PROVE  Keeps
<1> DEFINE p == poly[x]
           q == poly[y]
<1>1. CASE p.format # q.format \/ ~SameStart(p, q)
  BY <1>1, ThrowKeeps DEF Plus
<1>2. CASE ~(p.format # q.format \/ ~SameStart(p, q)) /\ ~(HasValues(p) /\ HasValues(q))
  BY <1>2, BreakKeeps DEF Plus, Relies
<1>3. CASE ~(p.format # q.format \/ ~SameStart(p, q)) /\ HasValues(p) /\ HasValues(q)
  <2>1. Whole(p) /\ Whole(q) BY <1>3, ObjectFits
  <2>2. p.format = q.format /\ (Careful => p.params = q.params) BY <1>3 DEF Plus, Relies
  <2>3. Whole(WithVectors(p, [i \in 1..Size(p) |-> Sum(p.vectors[i], q.vectors[i])]))
    BY <2>1, <2>2, SumsWhole
  <2> QED BY <1>3, <2>3, GiveWhole DEF Plus
<1> QED BY <1>1, <1>2, <1>3

LEMMA MinusKeeps ==
  ASSUME IInv, NEW r \in Objects, NEW x \in Objects, NEW y \in Objects, Minus(r, x, y)
  PROVE  Keeps
<1> DEFINE p == poly[x]
           q == poly[y]
<1>1. CASE Size(p) # Size(q)
  BY <1>1, ThrowKeeps DEF Minus
<1>2. CASE Size(p) = Size(q) /\ ~(HasValues(p) /\ HasValues(q) /\ SameModuli(p, q))
  <2>1. ASSUME Careful PROVE FALSE
    <3>1. p.params = q.params /\ HasValues(p) /\ HasValues(q) BY <1>2, <2>1 DEF Minus, Relies
    <3>2. Fit(p) /\ Fit(q) BY ObjectFits
    <3>3. SameModuli(p, q)
      <4> HIDE DEF p, q
      <4>1. Size(p) \in Nat BY <3>2, Parts
      <4>2. \A i \in 1..Size(p) : p.vectors[i].modulus = q.vectors[i].modulus
        <5>1. Size(p) <= Size(p) /\ Size(p) <= Size(q) BY <1>2, <4>1
        <5>2. \A i \in 1..Size(p) : p.params[i] = q.params[i] BY <3>1
        <5> QED BY <2>1, <3>2, <4>1, <5>1, <5>2, SameParams
      <4> QED BY <4>2 DEF SameModuli
    <3> QED BY <1>2, <3>1, <3>3
  <2>2. Break BY <1>2 DEF Minus
  <2> QED BY <2>1, <2>2, BreakKeeps
<1>3. CASE Size(p) = Size(q) /\ HasValues(p) /\ HasValues(q) /\ SameModuli(p, q)
  <2>1. Whole(p) /\ Whole(q) BY <1>3, ObjectFits
  <2>2. Careful => p.params = q.params /\ p.format = q.format BY <1>3 DEF Minus, Relies
  <2>3. Whole(WithVectors(p, [i \in 1..Size(p) |-> Sum(p.vectors[i], q.vectors[i])]))
    BY <2>1, <2>2, SumsWhole
  <2> QED BY <1>3, <2>3, GiveWhole DEF Minus
<1> QED BY <1>1, <1>2, <1>3

LEMMA TimesKeeps ==
  ASSUME IInv, NEW r \in Objects, NEW x \in Objects, NEW y \in Objects, Times(r, x, y)
  PROVE  Keeps
<1> DEFINE p == poly[x]
           q == poly[y]
           refused == p.format # "EVALUATION" \/ q.format # "EVALUATION" \/ ~SameStart(p, q)
           vs == [i \in 1..Size(p) |->
                    [modulus |-> p.params[i], format |-> p.format,
                     holds |-> ProductHolds(p.vectors[i], q.vectors[i], p.params[i])]]
<1>1. CASE refused
  BY <1>1, ThrowKeeps DEF Times
<1>2. CASE ~refused /\ ~(HasValues(p) /\ HasValues(q))
  BY <1>2, BreakKeeps DEF Times, Relies
<1>3. CASE ~refused /\ HasValues(p) /\ HasValues(q)
  <2>1. Whole(p) /\ Whole(q) /\ Fit(p) BY <1>3, ObjectFits
  <2>2. /\ p.format = "EVALUATION" /\ q.format = "EVALUATION"
        /\ Careful => p.params = q.params
    BY <1>3 DEF Times, Relies
  <2>3. vs = [i \in 1..Size(p) |-> vs[i]] OBVIOUS
  <2>4. Give(r, WithVectors(p, vs)) BY <1>3 DEF Times
  <2>5. ASSUME NEW i \in 1..Size(p) PROVE Full(vs[i], p.params[i], p.format)
    <3>1. /\ p.params[i] \in Nat
          /\ Full(p.vectors[i], p.params[i], "EVALUATION")
          /\ Careful => Full(q.vectors[i], p.params[i], "EVALUATION")
      <4> HIDE DEF p, q, vs
      <4>1. p.params[i] \in Nat /\ Full(p.vectors[i], p.params[i], "EVALUATION")
        BY <2>1, <2>2, WholeParts
      <4>2. ASSUME Careful PROVE Full(q.vectors[i], p.params[i], "EVALUATION")
        <5>1. Size(p) = Size(q) BY <2>1, <2>2, <4>2, WholeParts
        <5> QED BY <2>1, <2>2, <4>2, <5>1, WholeParts
      <4> QED BY <4>1, <4>2
    <3>2. vs[i] = [modulus |-> p.params[i], format |-> "EVALUATION",
                   holds |-> ProductHolds(p.vectors[i], q.vectors[i], p.params[i])]
      BY <2>2
    <3> HIDE DEF p, q, vs
    <3>3. Careful => Tidy BY DEF Tidy
    <3> QED BY <2>2, <3>1, <3>2, <3>3 DEF Full, ProductHolds, Tower, Holds, Format
  <2> HIDE DEF p, vs
  <2>6. Whole(WithVectors(p, vs)) BY <2>1, <2>3, <2>5, WithVectorsWhole
  <2> QED BY <2>4, <2>6, GiveWhole
<1> QED BY <1>1, <1>2, <1>3

(* What operator+=, -= and *= may assume of the longer right-hand side.    *)
LEMMA CoverParts ==
  ASSUME Careful, NEW p, NEW q, Fit(p), Fit(q), Covers(q, p)
  PROVE  /\ Size(p) <= Size(q)
         /\ \A i \in 1..Size(p) : i \in 1..Size(q) /\ p.params[i] = q.params[i]
         /\ SameModuli(p, q)
<1>1. /\ Size(p) = Len(p.params) /\ Size(q) = Len(q.params)
      /\ Size(p) \in Nat /\ Size(q) \in Nat /\ p.params \in Seq(Nat) /\ q.params \in Seq(Nat)
  BY Parts
<1>2. Size(p) <= Size(q) BY <1>1 DEF Covers
<1>3. \A i \in 1..Size(p) : i \in 1..Size(q) BY <1>1, <1>2
<1>4. \A k \in 1..Size(p) : p.params[k] = q.params[k]
  <2>1. 1 \in 1..(Len(q.params) + 1) /\ Len(p.params) \in (1 - 1)..Len(q.params) BY <1>1, <1>2
  <2>2. \A k \in 1..Len(p.params) : SubSeq(q.params, 1, Len(p.params))[k] = q.params[k]
    <3> DEFINE n == Len(p.params)
    <3>1. \A k \in 1..(n - 1 + 1) : SubSeq(q.params, 1, n)[k] = q.params[1 + k - 1]
      BY <1>1, <2>1, SubSeqNat
    <3>2. n \in Nat /\ n - 1 + 1 = n /\ \A k \in 1..n : 1 + k - 1 = k BY <1>1
    <3> HIDE DEF n
    <3>3. \A k \in 1..n : SubSeq(q.params, 1, n)[k] = q.params[k] BY <3>1, <3>2
    <3> QED BY <3>3 DEF n
  <2> QED BY <1>1, <2>2 DEF Covers
<1>5. SameModuli(p, q)
  <2>1. \A i \in 1..Size(p) : p.vectors[i].modulus = q.vectors[i].modulus
    <3> DEFINE n == Size(p)
    <3>1. n \in Nat /\ n <= Size(p) /\ n <= Size(q) BY <1>1, <1>2
    <3>2. \A i \in 1..n : p.params[i] = q.params[i] BY <1>4
    <3> HIDE DEF n
    <3>3. \A i \in 1..n : p.vectors[i].modulus = q.vectors[i].modulus BY <3>1, <3>2, SameParams
    <3> QED BY <3>3 DEF n
  <2> QED BY <2>1 DEF SameModuli
<1> QED BY <1>2, <1>3, <1>4, <1>5

LEMMA AccumulateKeeps ==
  ASSUME IInv, NEW x \in Objects, NEW y \in Objects, Accumulate(x, y)
  PROVE  Keeps
<1> DEFINE p == poly[x]
           q == poly[y]
           vs == [i \in 1..Size(p) |-> Sum(Filled(p.vectors[i]), q.vectors[i])]
<1>0. Fit(p) /\ Fit(q) BY ObjectFits
<1>1. CASE Size(q) < Size(p) \/ ~HasValues(q) \/ ~SameModuli(p, q)
  <2>1. ASSUME Careful PROVE FALSE
    <3>1. Covers(q, p) /\ HasValues(q) BY <2>1 DEF Accumulate, Relies
    <3>2. Size(p) <= Size(q) /\ SameModuli(p, q) /\ Size(p) \in Nat /\ Size(q) \in Nat
      <4> HIDE DEF p, q
      <4> QED BY <1>0, <2>1, <3>1, CoverParts, Parts
    <3> QED BY <1>1, <3>1, <3>2
  <2>2. Break BY <1>1 DEF Accumulate
  <2> QED BY <2>1, <2>2, BreakKeeps
<1>2. CASE ~(Size(q) < Size(p) \/ ~HasValues(q) \/ ~SameModuli(p, q))
  <2>1. Give(x, WithVectors(p, vs)) BY <1>2 DEF Accumulate
  <2>2. vs = [i \in 1..Size(p) |-> vs[i]] OBVIOUS
  <2>3. Careful => Covers(q, p) /\ p.format = q.format /\ Whole(q)
    BY <1>2, ObjectFits DEF Accumulate, Relies
  <2>4. ASSUME NEW i \in 1..Size(p) PROVE Full(vs[i], p.params[i], p.format)
    <3>1. vs[i] = Sum(Filled(p.vectors[i]), q.vectors[i]) OBVIOUS
    <3> HIDE DEF p, q, vs
    <3>2. Fits(p.vectors[i], p.params[i], p.format) /\ p.params[i] \in Nat /\ p.format \in Format
      BY <1>0, Parts
    <3>3. Full(Filled(p.vectors[i]), p.params[i], p.format)
      BY <3>2 DEF Fits, Full, Filled, Tower, Holds, Format
    <3>4. ASSUME Careful PROVE Full(q.vectors[i], p.params[i], p.format)
      <4>1. i \in 1..Size(q) /\ p.params[i] = q.params[i] BY <1>0, <2>3, <3>4, CoverParts
      <4> QED BY <2>3, <3>4, <4>1, WholeParts
    <3>5. Full(vs[i], p.params[i], p.format) BY <3>1, <3>2, <3>3, <3>4, SumFull
    <3> QED BY <3>5 DEF Full, Fits
  <2> HIDE DEF p, q, vs
  <2>5. Whole(WithVectors(p, vs)) BY <1>0, <2>2, <2>4, WithVectorsWhole
  <2> QED BY <2>1, <2>5, GiveWhole
<1> QED BY <1>1, <1>2

LEMMA TimesAssignKeeps ==
  ASSUME IInv, NEW x \in Objects, NEW y \in Objects, TimesAssign(x, y)
  PROVE  Keeps
<1> DEFINE p == poly[x]
           q == poly[y]
           vs == [i \in 1..Size(p) |->
             [p.vectors[i] EXCEPT !.holds = ProductHolds(p.vectors[i], q.vectors[i], p.params[i])]]
<1>0. Fit(p) /\ Fit(q) BY ObjectFits
<1>1. CASE Size(q) < Size(p) \/ ~HasValues(p) \/ ~HasValues(q)
  <2>1. ASSUME Careful PROVE FALSE
    <3>1. Covers(q, p) /\ HasValues(p) /\ HasValues(q) BY <2>1 DEF TimesAssign, Relies
    <3>2. Size(p) <= Size(q) /\ Size(p) \in Nat /\ Size(q) \in Nat
      <4> HIDE DEF p, q
      <4> QED BY <1>0, <2>1, <3>1, CoverParts, Parts
    <3> QED BY <1>1, <3>1, <3>2
  <2>2. Break BY <1>1 DEF TimesAssign
  <2> QED BY <2>1, <2>2, BreakKeeps
<1>2. CASE ~(Size(q) < Size(p) \/ ~HasValues(p) \/ ~HasValues(q))
  <2>1. Give(x, WithVectors(p, vs)) BY <1>2 DEF TimesAssign
  <2>2. vs = [i \in 1..Size(p) |-> vs[i]] OBVIOUS
  <2>3. /\ Whole(p) /\ Whole(q)
        /\ Careful => Covers(q, p) /\ p.format = "EVALUATION" /\ q.format = "EVALUATION"
    BY <1>2, ObjectFits DEF TimesAssign, Relies
  <2>4. ASSUME NEW i \in 1..Size(p) PROVE Full(vs[i], p.params[i], p.format)
    <3>1. vs[i] = [p.vectors[i] EXCEPT !.holds = ProductHolds(p.vectors[i], q.vectors[i], p.params[i])]
      OBVIOUS
    <3> HIDE DEF p, q, vs
    <3>2. Full(p.vectors[i], p.params[i], p.format) /\ p.params[i] \in Nat /\ p.format \in Format
      BY <2>3, WholeParts
    <3>3. ASSUME Careful PROVE Full(q.vectors[i], p.params[i], "EVALUATION")
      <4>1. i \in 1..Size(q) /\ p.params[i] = q.params[i] BY <1>0, <2>3, <3>3, CoverParts
      <4> QED BY <2>3, <3>3, <4>1, WholeParts
    <3>4. Careful => Tidy BY DEF Tidy
    <3> QED BY <2>3, <3>1, <3>2, <3>3, <3>4 DEF Full, ProductHolds, Tower, Holds, Format
  <2> HIDE DEF p, q, vs
  <2>5. Whole(WithVectors(p, vs)) BY <1>0, <2>2, <2>4, WithVectorsWhole
  <2> QED BY <2>1, <2>5, GiveWhole
<1> QED BY <1>1, <1>2

LEMMA TimesNoCheckFits ==
  ASSUME IInv, NEW r \in Objects, NEW x \in Objects, NEW n, TimesNoCheck(r, x, n)
  PROVE  Stays
<1> DEFINE p == poly[x]
           vs == [i \in 1..Size(p) |->
                    IF i <= n THEN p.vectors[i] ELSE NewTower(p.params[i], p.format, FALSE)]
           empty == \E i \in 1..Size(p) : i <= n /\ p.vectors[i].holds = "nothing"
<1>1. CASE empty
  <2>1. ~HasValues(p) BY <1>1 DEF HasValues
  <2> QED BY <1>1, <2>1, BreakKeeps DEF Keeps, TimesNoCheck, Relies
<1>2. CASE ~empty
  <2>1. Give(r, WithVectors(p, vs)) BY <1>2 DEF TimesNoCheck
  <2>2. vs = [i \in 1..Size(p) |-> vs[i]] OBVIOUS
  <2>3. Fit(p) BY ObjectFits
  <2>4. ASSUME NEW i \in 1..Size(p) PROVE Fits(vs[i], p.params[i], p.format)
    <3>1. /\ i <= n => vs[i] = p.vectors[i]
          /\ ~(i <= n) => vs[i] = NewTower(p.params[i], p.format, FALSE)
      OBVIOUS
    <3> HIDE DEF p, vs
    <3>2. p.params[i] \in Nat /\ Fits(p.vectors[i], p.params[i], p.format) /\ p.format \in Format
      BY <2>3, Parts
    <3> QED BY <3>1, <3>2 DEF Fits, NewTower, Tower, Holds, Format
  <2> HIDE DEF p, vs
  <2>5. Fit(WithVectors(p, vs)) BY <2>2, <2>3, <2>4, WithVectorsFit
  <2> QED BY <2>1, <2>5, GiveFits
<1> QED BY <1>1, <1>2

(* The assignments leave every tower its modulus and give it values.       *)
LEMMA AssignedWhole ==
  ASSUME NEW p, Fit(p), NEW f \in Format, NEW g, \A i \in 1..Size(p) : g[i] \in Format,
         Careful => \A i \in 1..Size(p) : g[i] = f
  PROVE  Whole(Rep(f, p.params, [i \in 1..Size(p) |-> AssignedAs(p.vectors[i], g[i])]))
<1> DEFINE vs == [i \in 1..Size(p) |-> AssignedAs(p.vectors[i], g[i])]
<1>1. vs = [i \in 1..Len(p.params) |-> vs[i]] BY Parts
<1>2. ASSUME NEW i \in 1..Len(p.params) PROVE Full(vs[i], p.params[i], f)
  <2>1. i \in 1..Size(p) /\ vs[i] = AssignedAs(p.vectors[i], g[i]) BY Parts
  <2> HIDE DEF vs
  <2>2. p.params[i] \in Nat /\ Fits(p.vectors[i], p.params[i], p.format) BY <2>1, Parts
  <2> QED BY <2>1, <2>2 DEF Fits, Full, AssignedAs, Tower, Holds, Format
<1>3. p.params \in Seq(Nat) /\ Len(p.params) > 0 BY Parts
<1> HIDE DEF vs
<1>4. Whole(Rep(f, p.params, vs)) BY <1>1, <1>2, <1>3, MadeWhole
<1> QED BY <1>4 DEF vs

LEMMA AssignValueKeeps ==
  ASSUME IInv, NEW x \in Objects, AssignValue(x)
  PROVE  Keeps
<1> DEFINE p == poly[x]
           g == [i \in 1..Size(p) |-> "EVALUATION"]
           vs == [i \in 1..Size(p) |-> AssignedAs(p.vectors[i], "EVALUATION")]
<1>1. Fit(p) BY ObjectFits
<1>2. p.format \in Format BY <1>1, Parts
<1>3. Careful => p.format = "EVALUATION" BY DEF AssignValue, Relies
<1>4. \A i \in 1..Size(p) : g[i] \in Format /\ g[i] = "EVALUATION" BY DEF Format
<1>5. vs = [i \in 1..Size(p) |-> AssignedAs(p.vectors[i], g[i])] OBVIOUS
<1>6. Give(x, Rep(p.format, p.params, vs)) BY DEF AssignValue, WithVectors
<1> HIDE DEF p, g, vs
<1>7. Whole(Rep(p.format, p.params, [i \in 1..Size(p) |-> AssignedAs(p.vectors[i], g[i])]))
  BY <1>1, <1>2, <1>3, <1>4, AssignedWhole
<1>8. Whole(Rep(p.format, p.params, vs)) BY <1>5, <1>7
<1> QED BY <1>6, <1>8, GiveWhole

LEMMA AssignListKeeps ==
  ASSUME IInv, NEW x \in Objects, AssignList(x)
  PROVE  Keeps
<1> DEFINE p == poly[x]
           g == [i \in 1..Size(p) |->
                   IF p.vectors[i].holds = "nothing" THEN p.format ELSE p.vectors[i].format]
           vs == [i \in 1..Size(p) |-> AssignedAs(p.vectors[i],
                   IF p.vectors[i].holds = "nothing" THEN p.format ELSE p.vectors[i].format)]
<1>1. Fit(p) BY ObjectFits
<1>2. p.format \in Format BY <1>1, Parts
<1>3. ASSUME NEW i \in 1..Size(p) PROVE g[i] \in Format /\ (Careful => g[i] = p.format)
  <2>1. g[i] = IF p.vectors[i].holds = "nothing" THEN p.format ELSE p.vectors[i].format OBVIOUS
  <2> HIDE DEF p, g
  <2>2. Fits(p.vectors[i], p.params[i], p.format) BY <1>1, Parts
  <2> QED BY <1>2, <2>1, <2>2 DEF Fits, Tower
<1>5. vs = [i \in 1..Size(p) |-> AssignedAs(p.vectors[i], g[i])] OBVIOUS
<1>6. Give(x, Rep(p.format, p.params, vs)) BY DEF AssignList, WithVectors
<1> HIDE DEF p, g, vs
<1>7. Whole(Rep(p.format, p.params, [i \in 1..Size(p) |-> AssignedAs(p.vectors[i], g[i])]))
  BY <1>1, <1>2, <1>3, AssignedWhole
<1>8. Whole(Rep(p.format, p.params, vs)) BY <1>5, <1>7
<1> QED BY <1>6, <1>8, GiveWhole

LEMMA AssignVectorKeeps ==
  ASSUME IInv, NEW x \in Objects, AssignVector(x)
  PROVE  Keeps
<1> DEFINE p == poly[x]
           g == [i \in 1..Size(p) |-> "COEFFICIENT"]
           vs == [i \in 1..Size(p) |-> AssignedAs(p.vectors[i], "COEFFICIENT")]
<1>1. Fit(p) BY ObjectFits
<1>4. \A i \in 1..Size(p) : g[i] \in Format /\ g[i] = "COEFFICIENT" BY DEF Format
<1>5. vs = [i \in 1..Size(p) |-> AssignedAs(p.vectors[i], g[i])] OBVIOUS
<1>6. Give(x, Rep("COEFFICIENT", p.params, vs)) BY DEF AssignVector
<1>2. "COEFFICIENT" \in Format BY DEF Format
<1> HIDE DEF p, g, vs
<1>7. Whole(Rep("COEFFICIENT", p.params, [i \in 1..Size(p) |-> AssignedAs(p.vectors[i], g[i])]))
  BY <1>1, <1>2, <1>4, AssignedWhole
<1>8. Whole(Rep("COEFFICIENT", p.params, vs)) BY <1>5, <1>7
<1> QED BY <1>6, <1>8, GiveWhole

LEMMA CloneTowersKeeps ==
  ASSUME IInv, NEW r \in Objects, NEW x \in Objects, NEW i \in 1..Len(Q \o P), NEW j \in 1..Len(Q \o P),
         CloneTowers(r, x, i, j)
  PROVE  Keeps
<1> DEFINE p == poly[x]
<1>1. Fit(p) BY ObjectFits
<1>2. Size(p) \in Nat BY <1>1, Parts
<1>3. Len(Q \o P) \in Nat BY BasesAssumption
<1>4. i \in 1..Size(p) /\ j \in i..Size(p) BY <1>2, <1>3 DEF CloneTowers
<1>5. Give(r, Sliced(p, i, j)) BY DEF CloneTowers
<1> HIDE DEF p
<1>6. Fit(Sliced(p, i, j)) BY <1>1, <1>4, SlicedFit
<1>7. Whole(p) => HasValues(Sliced(p, i, j)) BY <1>1, <1>4, SlicedFit DEF Whole
<1>8. AllHaveValues => Whole(p) BY ObjectFits DEF AllHaveValues, p
<1> QED BY <1>5, <1>6, <1>7, <1>8, GiveKeeps

LEMMA SetValuesModSwitchKeeps ==
  ASSUME IInv, NEW x \in Objects, NEW y \in Objects, SetValuesModSwitch(x, y)
  PROVE  Keeps
<1> DEFINE p == poly[x]
           q == poly[y]
           vs == [i \in 1..1 |->
                    [modulus |-> p.vectors[1].modulus, format |-> "COEFFICIENT",
                     holds |-> TowerIn(q.vectors[1], "COEFFICIENT").holds]]
<1>1. CASE Size(p) # 1 \/ Size(q) # 1
  BY <1>1, ThrowKeeps DEF SetValuesModSwitch
<1>2. CASE Size(p) = 1 /\ Size(q) = 1 /\ ~HasValues(q)
  BY <1>2, BreakKeeps DEF SetValuesModSwitch, Relies
<1>3. CASE Size(p) = 1 /\ Size(q) = 1 /\ HasValues(q)
  <2>1. Give(x, WithVectors(p, vs)) BY <1>3 DEF SetValuesModSwitch
  <2>2. Fit(p) /\ Whole(q) BY <1>3, ObjectFits
  <2>3. Careful => p.format = "COEFFICIENT" BY DEF SetValuesModSwitch, Relies
  <2>4. vs = [i \in 1..Size(p) |-> vs[i]] BY <1>3
  <2>5. ASSUME NEW i \in 1..Size(p) PROVE Full(vs[i], p.params[i], p.format)
    <3>1. i = 1 BY <1>3
    <3>2. vs[i] = [modulus |-> p.vectors[1].modulus, format |-> "COEFFICIENT",
                   holds |-> TowerIn(q.vectors[1], "COEFFICIENT").holds]
      BY <3>1
    <3> HIDE DEF p, q, vs
    <3>3. p.params[1] \in Nat /\ Fits(p.vectors[1], p.params[1], p.format)
      BY <2>2, <3>1, Parts
    <3>4. q.params[1] \in Nat /\ Full(q.vectors[1], q.params[1], q.format) /\ q.format \in Format
      BY <1>3, <2>2, WholeParts
    <3>5. Full(TowerIn(q.vectors[1], "COEFFICIENT"), q.params[1], "COEFFICIENT")
      <4>1. "COEFFICIENT" \in Format BY DEF Format
      <4> QED BY <3>4, <4>1, TowerOps
    <3> QED BY <2>3, <3>1, <3>2, <3>3, <3>5 DEF Fits, Full, Tower, Format
  <2> HIDE DEF p, q, vs
  <2>6. Whole(WithVectors(p, vs)) BY <2>2, <2>4, <2>5, WithVectorsWhole
  <2> QED BY <2>1, <2>6, GiveWhole
<1> QED BY <1>1, <1>2, <1>3

(* Leaving the last moduli.                                                *)
LEMMA DroppedFit ==
  ASSUME NEW p, Fit(p), NEW n \in Nat, n < Size(p)
  PROVE  /\ Fit(Dropped(p, n)) /\ (Whole(p) => Whole(Dropped(p, n)))
         /\ Dropped(p, n).format = p.format
         /\ Size(Dropped(p, n)) = Size(p) - n
         /\ \A k \in 1..(Size(p) - n) : Dropped(p, n).params[k] = p.params[k]
<1>1. Size(p) \in Nat BY Parts
<1> DEFINE j == Size(p) - n
<1>2. 1 \in 1..Size(p) /\ j \in 1..Size(p) /\ j - 1 + 1 = j BY <1>1
<1>3. Dropped(p, n) = Sliced(p, 1, j) BY DEF Dropped
<1> HIDE DEF j
<1>4. /\ Fit(Sliced(p, 1, j)) /\ (Whole(p) => Whole(Sliced(p, 1, j)))
      /\ Sliced(p, 1, j).format = p.format
      /\ Size(Sliced(p, 1, j)) = j - 1 + 1
      /\ \A k \in 1..(j - 1 + 1) : Sliced(p, 1, j).params[k] = p.params[1 + k - 1]
  BY <1>2, SlicedFit
<1>5. j \in Nat /\ \A k \in 1..j : 1 + k - 1 = k BY <1>2
<1>6. \A k \in 1..j : Sliced(p, 1, j).params[k] = p.params[k] BY <1>2, <1>4, <1>5
<1> QED BY <1>2, <1>3, <1>4, <1>6 DEF j

LEMMA DropLastElementsKeeps ==
  ASSUME IInv, NEW x \in Objects, NEW n \in 1..Len(Q), DropLastElements(x, n)
  PROVE  Keeps
<1> DEFINE p == poly[x]
<1>1. Fit(p) /\ n \in Nat /\ Size(p) \in Nat
  <2>1. Fit(p) BY ObjectFits
  <2>2. Size(p) \in Nat BY <2>1, Parts
  <2>3. n \in Nat BY LevelsNat
  <2> QED BY <2>1, <2>2, <2>3
<1>2. CASE Size(p) <= n BY <1>2, ThrowKeeps DEF DropLastElements
<1>3. CASE ~(Size(p) <= n)
  <2>1. Give(x, Dropped(p, n)) BY <1>3 DEF DropLastElements
  <2>2. n < Size(p) BY <1>1, <1>3
  <2> HIDE DEF p
  <2>3. Fit(Dropped(p, n)) /\ (Whole(p) => HasValues(Dropped(p, n)))
    BY <1>1, <2>2, DroppedFit DEF Whole
  <2>4. AllHaveValues => Whole(p) BY ObjectFits DEF AllHaveValues, p
  <2> QED BY <2>1, <2>3, <2>4, GiveKeeps
<1> QED BY <1>2, <1>3

LEMMA FoldedWhole ==
  ASSUME NEW p, Whole(p), Size(p) > 1
  PROVE  Whole(Folded(p)) /\ Folded(p).format = p.format
<1> DEFINE last == TowerIn(Last(p), "COEFFICIENT")
           rest == Dropped(p, 1)
           Share(m) == IF p.format = "EVALUATION" THEN TowerSwitched(Lifted(last, m)) ELSE Lifted(last, m)
           vs == [i \in 1..Size(rest) |-> Sum(rest.vectors[i], Share(rest.vectors[i].modulus))]
<1>1. Folded(p) = Rep(rest.format, rest.params, vs) BY DEF Folded, WithVectors
<1>2. /\ p.format \in Format /\ Size(p) \in Nat /\ Fit(p)
      /\ \A i \in 1..Size(p) : p.params[i] \in Nat /\ Full(p.vectors[i], p.params[i], p.format)
  BY WholeParts
<1>3. Whole(rest) /\ rest.format = p.format
  <2>1. Fit(p) /\ 1 \in Nat /\ 1 < Size(p) BY <1>2
  <2> QED BY <2>1, DroppedFit
<1>4. /\ rest.params \in Seq(Nat) /\ Len(rest.params) = Size(rest) /\ Size(rest) > 0
      /\ \A i \in 1..Size(rest) :
           rest.params[i] \in Nat /\ Full(rest.vectors[i], rest.params[i], p.format)
  <2> HIDE DEF rest
  <2> QED BY <1>3, WholeParts
<1>5. Full(last, p.params[Size(p)], "COEFFICIENT") /\ p.params[Size(p)] \in Nat
  <2>1. Size(p) \in 1..Size(p) BY <1>2
  <2>2. "COEFFICIENT" \in Format BY DEF Format
  <2> QED BY <1>2, <2>1, <2>2, TowerOps DEF Last
<1>6. ASSUME NEW m \in Nat PROVE Full(Share(m), m, p.format)
  <2>1. Full(Lifted(last, m), m, "COEFFICIENT") BY <1>5, LiftFull
  <2>2. Full(TowerSwitched(Lifted(last, m)), m, Other("COEFFICIENT"))
    <3>1. "COEFFICIENT" \in Format BY DEF Format
    <3> QED BY <2>1, <3>1, TowerOps
  <2> HIDE DEF last
  <2> QED BY <1>2, <2>1, <2>2 DEF Other, Format
<1>7. vs = [i \in 1..Len(rest.params) |-> vs[i]] BY <1>4
<1>8. ASSUME NEW i \in 1..Len(rest.params) PROVE Full(vs[i], rest.params[i], rest.format)
  <2>0. i \in 1..Size(rest) BY <1>4
  <2>1. vs[i] = Sum(rest.vectors[i], Share(rest.vectors[i].modulus)) BY <2>0
  <2> HIDE DEF rest, vs, Share
  <2>2. /\ Full(rest.vectors[i], rest.params[i], p.format) /\ rest.params[i] \in Nat
        /\ Careful => rest.vectors[i].modulus = rest.params[i]
    BY <1>4, <2>0 DEF Full, Tidy
  <2>3. Full(Share(rest.params[i]), rest.params[i], p.format) BY <1>6, <2>2
  <2>4. Full(Sum(rest.vectors[i], Share(rest.vectors[i].modulus)), rest.params[i], p.format)
    BY <1>2, <2>2, <2>3, SumFull
  <2> QED BY <1>3, <2>1, <2>2, <2>4
<1> HIDE DEF rest, vs, last, Share
<1>9. Whole(Rep(rest.format, rest.params, vs)) BY <1>2, <1>3, <1>4, <1>7, <1>8, MadeWhole
<1> QED BY <1>1, <1>3, <1>9 DEF Rep

LEMMA ModReduceKeeps ==
  ASSUME IInv, NEW x \in Objects, ModReduce(x)
  PROVE  Keeps
<1> DEFINE p == poly[x]
<1>0. Fit(p) /\ Size(p) \in Nat /\ Size(p) > 0 BY ObjectFits, Parts
<1>1. CASE NothingToFold(p) BY <1>1, ThrowKeeps DEF ModReduce
<1>2. CASE ~NothingToFold(p) /\ ~HasValues(p) BY <1>2, BreakKeeps DEF ModReduce, Relies
<1>3. CASE ~NothingToFold(p) /\ HasValues(p)
  <2>1. Give(x, Folded(p)) BY <1>3 DEF ModReduce
  <2>2. Whole(p) /\ Size(p) > 1 BY <1>0, <1>3, ObjectFits DEF NothingToFold
  <2> HIDE DEF p
  <2>3. Whole(Folded(p)) BY <2>2, FoldedWhole
  <2> QED BY <2>1, <2>3, GiveWhole
<1> QED BY <1>1, <1>2, <1>3

LEMMA DropLastElementAndScaleKeeps ==
  ASSUME IInv, NEW x \in Objects, DropLastElementAndScale(x)
  PROVE  Keeps
<1> DEFINE p == poly[x]
           q == Folded(p)
           vs == [i \in 1..Size(q) |->
                    IF p.format = "COEFFICIENT" THEN TowerSwitched(q.vectors[i]) ELSE q.vectors[i]]
<1>0. Fit(p) /\ Size(p) \in Nat /\ Size(p) > 0 BY ObjectFits, Parts
<1>1. CASE NothingToFold(p) BY <1>1, ThrowKeeps DEF DropLastElementAndScale
<1>2. CASE ~NothingToFold(p) /\ ~HasValues(p)
  BY <1>2, BreakKeeps DEF DropLastElementAndScale, Relies
<1>3. CASE ~NothingToFold(p) /\ HasValues(p)
  <2>1. Give(x, Rep("EVALUATION", q.params, vs)) BY <1>3 DEF DropLastElementAndScale
  <2>2. Whole(p) /\ Size(p) > 1 BY <1>0, <1>3, ObjectFits DEF NothingToFold
  <2>3. Whole(q) /\ q.format = p.format
    <3> HIDE DEF p
    <3> QED BY <2>2, FoldedWhole
  <2>4. /\ q.params \in Seq(Nat) /\ Len(q.params) = Size(q) /\ Size(q) > 0 /\ q.format \in Format
        /\ \A i \in 1..Size(q) : q.params[i] \in Nat /\ Full(q.vectors[i], q.params[i], q.format)
    <3> HIDE DEF q
    <3> QED BY <2>3, WholeParts
  <2>5. vs = [i \in 1..Len(q.params) |-> vs[i]] BY <2>4
  <2>6. ASSUME NEW i \in 1..Len(q.params) PROVE Full(vs[i], q.params[i], "EVALUATION")
    <3>0. i \in 1..Size(q) BY <2>4
    <3>1. vs[i] = IF p.format = "COEFFICIENT" THEN TowerSwitched(q.vectors[i]) ELSE q.vectors[i]
      BY <3>0
    <3> HIDE DEF p, q, vs
    <3>2. q.params[i] \in Nat /\ Full(q.vectors[i], q.params[i], q.format) BY <2>4, <3>0
    <3>3. Full(TowerSwitched(q.vectors[i]), q.params[i], Other(q.format))
      BY <2>4, <3>2, TowerOps
    <3> QED BY <2>3, <2>4, <3>1, <3>2, <3>3 DEF Other, Format
  <2>7. "EVALUATION" \in Format BY DEF Format
  <2> HIDE DEF p, q, vs
  <2>8. Whole(Rep("EVALUATION", q.params, vs)) BY <2>4, <2>5, <2>6, <2>7, MadeWhole
  <2> QED BY <2>1, <2>8, GiveWhole
<1> QED BY <1>1, <1>2, <1>3

LEMMA ScaleAndRoundPOverQKeeps ==
  ASSUME IInv, NEW x \in Objects, ScaleAndRoundPOverQ(x)
  PROVE  Keeps
<1> DEFINE p == poly[x]
           q == Dropped(p, 1)
           vs == [i \in 1..Size(q) |->
                    Sum(Filled(q.vectors[i]), Lifted(Last(p), q.vectors[i].modulus))]
<1>0. Fit(p) /\ Size(p) \in Nat /\ Size(p) > 1
  BY ObjectFits, Parts DEF ScaleAndRoundPOverQ
<1>1. CASE Last(p).holds = "nothing"
  <2>1. ~HasValues(p) BY <1>0, <1>1 DEF HasValues, Last
  <2> QED BY <1>1, <2>1, BreakKeeps DEF ScaleAndRoundPOverQ, Relies
<1>2. CASE Last(p).holds # "nothing"
  <2>1. Give(x, WithVectors(q, vs)) BY <1>2 DEF ScaleAndRoundPOverQ
  <2>2. Careful => p.format = "COEFFICIENT" /\ Whole(p)
    BY ObjectFits DEF ScaleAndRoundPOverQ, Relies
  <2>3. Fit(q) /\ q.format = p.format
    <3>1. 1 \in Nat /\ 1 < Size(p) BY <1>0
    <3> HIDE DEF p
    <3> QED BY <1>0, <3>1, DroppedFit
  <2>4. vs = [i \in 1..Size(q) |-> vs[i]] OBVIOUS
  <2>5. ASSUME NEW i \in 1..Size(q) PROVE Full(vs[i], q.params[i], q.format)
    <3>1. vs[i] = Sum(Filled(q.vectors[i]), Lifted(Last(p), q.vectors[i].modulus)) OBVIOUS
    <3> HIDE DEF p, q, vs
    <3>2. /\ q.params[i] \in Nat /\ q.format \in Format
          /\ Fits(q.vectors[i], q.params[i], q.format)
      BY <2>3, Parts
    <3>3. Full(Filled(q.vectors[i]), q.params[i], q.format)
      BY <3>2 DEF Fits, Full, Filled, Tower, Holds, Format
    <3>4. Careful => q.vectors[i].modulus = q.params[i] BY <3>2 DEF Fits, Tidy
    <3>5. ASSUME Careful PROVE Full(Lifted(Last(p), q.vectors[i].modulus), q.params[i], q.format)
      <4>1. p.params[Size(p)] \in Nat /\ Full(Last(p), p.params[Size(p)], "COEFFICIENT")
        <5>1. Size(p) \in 1..Size(p) BY <1>0
        <5> QED BY <2>2, <3>5, <5>1, WholeParts DEF Last
      <4> QED BY <2>2, <2>3, <3>2, <3>4, <3>5, <4>1, LiftFull
    <3>6. Full(Sum(Filled(q.vectors[i]), Lifted(Last(p), q.vectors[i].modulus)), q.params[i], q.format)
      BY <3>2, <3>3, <3>5, SumFull
    <3> QED BY <3>1, <3>4, <3>6 DEF Full, Fits
  <2> HIDE DEF p, q, vs
  <2>6. Whole(WithVectors(q, vs)) BY <2>3, <2>4, <2>5, WithVectorsWhole
  <2> QED BY <2>1, <2>6, GiveWhole
<1> QED BY <1>1, <1>2

-----------------------------------------------------------------------------
(* Extending the basis and coming back.                                    *)
LEMMA ConcatIs ==
  ASSUME NEW S, NEW s \in Seq(S), NEW t \in Seq(S)
  PROVE  /\ s \o t \in Seq(S) /\ Len(s \o t) = Len(s) + Len(t)
         /\ \A i \in 1..Len(s) : (s \o t)[i] = s[i]
         /\ \A i \in 1..Len(s \o t) : i > Len(s) => i - Len(s) \in 1..Len(t) /\ (s \o t)[i] = t[i - Len(s)]
OBVIOUS

LEMMA ConcatTowers ==
  ASSUME NEW s \in Seq(Tower), NEW t \in Seq(Tower)
  PROVE  /\ s \o t \in Seq(Tower) /\ Len(s \o t) = Len(s) + Len(t)
         /\ \A i \in 1..Len(s) : (s \o t)[i] = s[i]
         /\ \A i \in 1..Len(s \o t) : i > Len(s) => i - Len(s) \in 1..Len(t) /\ (s \o t)[i] = t[i - Len(s)]
OBVIOUS

LEMMA ConcatNat ==
  ASSUME NEW s \in Seq(Nat), NEW t \in Seq(Nat)
  PROVE  /\ s \o t \in Seq(Nat) /\ Len(s \o t) = Len(s) + Len(t)
         /\ \A i \in 1..Len(s) : (s \o t)[i] = s[i]
         /\ \A i \in 1..Len(s \o t) : i > Len(s) => i - Len(s) \in 1..Len(t) /\ (s \o t)[i] = t[i - Len(s)]
<1> DEFINE N == Nat
<1>1. s \in Seq(N) /\ t \in Seq(N) OBVIOUS
<1> HIDE DEF N
<1>2. s \o t \in Seq(N) BY <1>1, ConcatIs
<1>3. /\ Len(s \o t) = Len(s) + Len(t)
      /\ \A i \in 1..Len(s) : (s \o t)[i] = s[i]
      /\ \A i \in 1..Len(s \o t) : i > Len(s) => i - Len(s) \in 1..Len(t) /\ (s \o t)[i] = t[i - Len(s)]
  BY <1>1, ConcatIs
<1> QED BY <1>2, <1>3 DEF N

LEMMA ConcatTail ==
  ASSUME NEW s \in Seq(Nat), NEW t \in Seq(Nat), NEW j \in 1..Len(t)
  PROVE  (s \o t)[Len(s) + j] = t[j]
OBVIOUS

(* Towers of the bases ps and qs put together, brought to one format.      *)
SomeFull(v, m) == \E f \in Format : Full(v, m, f)

LEMMA JoinedWhole ==
  ASSUME NEW ps \in Seq(Nat), NEW qs \in Seq(Nat), NEW vs \in Seq(Tower), NEW ws \in Seq(Tower),
         Len(vs) = Len(ps), Len(ws) = Len(qs), Len(ps) > 0, NEW rf \in Format,
         \A i \in 1..Len(ps) : SomeFull(vs[i], ps[i]),
         \A i \in 1..Len(qs) : SomeFull(ws[i], qs[i])
  PROVE  Whole(Rep(rf, ps \o qs, [i \in 1..Len(vs \o ws) |-> TowerIn((vs \o ws)[i], rf)]))
<1> DEFINE all == vs \o ws
           ms  == ps \o qs
           us  == [i \in 1..Len(all) |-> TowerIn(all[i], rf)]
<1>1. /\ ms \in Seq(Nat) /\ Len(ms) = Len(ps) + Len(qs)
      /\ \A i \in 1..Len(ps) : ms[i] = ps[i]
      /\ \A i \in 1..Len(ms) : i > Len(ps) => i - Len(ps) \in 1..Len(qs) /\ ms[i] = qs[i - Len(ps)]
  BY ConcatNat
<1>2. /\ Len(all) = Len(vs) + Len(ws)
      /\ \A i \in 1..Len(vs) : all[i] = vs[i]
      /\ \A i \in 1..Len(all) : i > Len(vs) => i - Len(vs) \in 1..Len(ws) /\ all[i] = ws[i - Len(vs)]
  BY ConcatTowers
<1>3. Len(ps) \in Nat /\ Len(qs) \in Nat OBVIOUS
<1>4. Len(all) = Len(ms) /\ Len(ms) > 0 BY <1>1, <1>2, <1>3
<1>5. us = [i \in 1..Len(ms) |-> us[i]] BY <1>4
<1>6. ASSUME NEW i \in 1..Len(ms) PROVE us[i] = TowerIn(all[i], rf) BY <1>4
<1> HIDE DEF all, ms, us
<1>7. ASSUME NEW i \in 1..Len(ms) PROVE Full(us[i], ms[i], rf)
  <2>1. SomeFull(all[i], ms[i])
    <3>1. CASE i \in 1..Len(ps) BY <1>1, <1>2, <3>1
    <3>2. CASE i > Len(ps)
      <4> DEFINE k == i - Len(ps)
      <4>1. k \in 1..Len(qs) /\ ms[i] = qs[k] BY <1>1, <3>2
      <4>2. all[i] = ws[k] BY <1>2, <1>4, <3>2
      <4> HIDE DEF k
      <4> QED BY <4>1, <4>2
    <3> QED BY <1>1, <1>3, <3>1, <3>2
  <2>2. PICK f \in Format : Full(all[i], ms[i], f) BY <2>1 DEF SomeFull
  <2>3. ms[i] \in Nat
    <3>1. ms \in Seq(Nat) BY <1>1
    <3> QED BY <3>1
  <2>4. Full(TowerIn(all[i], rf), ms[i], rf) BY <2>2, <2>3, TowerOps
  <2> QED BY <1>6, <2>4
<1>8. Whole(Rep(rf, ms, us)) BY <1>1, <1>4, <1>5, <1>7, MadeWhole
<1> QED BY <1>8 DEF all, ms, us

LEMMA ConcatWhole ==
  ASSUME NEW ps \in Seq(Nat), NEW qs \in Seq(Nat), NEW vs \in Seq(Tower), NEW ws \in Seq(Tower),
         Len(vs) = Len(ps), Len(ws) = Len(qs), Len(ps) > 0, NEW f \in Format,
         \A i \in 1..Len(ps) : Full(vs[i], ps[i], f),
         \A i \in 1..Len(qs) : Full(ws[i], qs[i], f)
  PROVE  Whole(Rep(f, ps \o qs, vs \o ws))
<1> DEFINE all == vs \o ws
           ms  == ps \o qs
<1>1. /\ ms \in Seq(Nat) /\ Len(ms) = Len(ps) + Len(qs)
      /\ \A i \in 1..Len(ps) : ms[i] = ps[i]
      /\ \A i \in 1..Len(ms) : i > Len(ps) => i - Len(ps) \in 1..Len(qs) /\ ms[i] = qs[i - Len(ps)]
  BY ConcatNat
<1>0. all \in Seq(Tower) BY ConcatTowers
<1>2. /\ Len(all) = Len(vs) + Len(ws)
      /\ \A i \in 1..Len(vs) : all[i] = vs[i]
      /\ \A i \in 1..Len(all) : i > Len(vs) => i - Len(vs) \in 1..Len(ws) /\ all[i] = ws[i - Len(vs)]
  BY ConcatTowers
<1>3. Len(ps) \in Nat /\ Len(qs) \in Nat OBVIOUS
<1>4. Len(all) = Len(ms) /\ Len(ms) > 0 BY <1>1, <1>2, <1>3
<1> HIDE DEF all, ms
<1>5. all = [i \in 1..Len(ms) |-> all[i]] BY <1>0, <1>4
<1>6. ASSUME NEW i \in 1..Len(ms) PROVE Full(all[i], ms[i], f)
  <2>1. CASE i \in 1..Len(ps) BY <1>1, <1>2, <2>1
  <2>2. CASE i > Len(ps)
    <3> DEFINE k == i - Len(ps)
    <3>1. k \in 1..Len(qs) /\ ms[i] = qs[k] BY <1>1, <2>2
    <3>2. all[i] = ws[k] BY <1>2, <1>4, <2>2
    <3> HIDE DEF k
    <3> QED BY <3>1, <3>2
  <2> QED BY <1>1, <1>3, <2>1, <2>2
<1>7. Whole(Rep(f, ms, all)) BY <1>1, <1>4, <1>5, <1>6, MadeWhole
<1> QED BY <1>7 DEF all, ms

LEMMA SomeParts ==
  ASSUME NEW p, Whole(p)
  PROVE  /\ p.vectors \in Seq(Tower) /\ p.params \in Seq(Nat) /\ Len(p.params) > 0
         /\ Len(p.vectors) = Len(p.params)
         /\ \A i \in 1..Len(p.params) : SomeFull(p.vectors[i], p.params[i])
<1>1. p.format \in Format BY WholeParts
<1> QED BY <1>1, WholeParts DEF SomeFull, Size

LEMMA ExpandKeeps ==
  ASSUME IInv, NEW x \in Objects, NEW rf \in Format, NEW reversed \in BOOLEAN, Expand(x, rf, reversed)
  PROVE  Keeps
<1> DEFINE p    == poly[x]
           coef == In(p, "COEFFICIENT")
           kept == IF p.format = "EVALUATION" /\ rf = "EVALUATION" THEN p.vectors ELSE coef.vectors
           part == Converted(coef, P).vectors
           all  == IF reversed THEN part \o kept ELSE kept \o part
           vs   == [i \in 1..Len(all) |-> TowerIn(all[i], rf)]
           ps   == IF reversed THEN P \o p.params ELSE p.params \o P
<1>1. CASE ~HasValues(p) BY <1>1, BreakKeeps DEF Expand, Relies
<1>2. CASE HasValues(p)
  <2>1. Give(x, Rep(rf, ps, vs)) BY <1>2 DEF Expand
  <2>2. Whole(p) BY <1>2, ObjectFits
  <2>3. Whole(coef) /\ coef.params = p.params /\ coef.format = "COEFFICIENT"
    <3>1. "COEFFICIENT" \in Format BY DEF Format
    <3> HIDE DEF p
    <3> QED BY <2>2, <3>1, InWhole
  <2>4. Whole(Converted(coef, P)) /\ Converted(coef, P).params = P
    <3> HIDE DEF coef
    <3> QED BY <2>3, LevelsNat, ConvertedWhole
  <2>5. /\ part \in Seq(Tower) /\ P \in Seq(Nat) /\ Len(P) > 0 /\ Len(part) = Len(P)
        /\ \A i \in 1..Len(P) : SomeFull(part[i], P[i])
    <3> DEFINE c == Converted(coef, P)
    <3>1. Whole(c) /\ c.params = P BY <2>4
    <3> HIDE DEF c
    <3>2. /\ c.vectors \in Seq(Tower) /\ P \in Seq(Nat) /\ Len(P) > 0 /\ Len(c.vectors) = Len(P)
          /\ \A i \in 1..Len(P) : SomeFull(c.vectors[i], P[i])
      BY <3>1, SomeParts
    <3> QED BY <3>2 DEF c
  <2>6. /\ kept \in Seq(Tower) /\ p.params \in Seq(Nat) /\ Len(p.params) > 0
        /\ Len(kept) = Len(p.params)
        /\ \A i \in 1..Len(p.params) : SomeFull(kept[i], p.params[i])
    <3> HIDE DEF p, coef
    <3>1. kept = p.vectors \/ kept = coef.vectors OBVIOUS
    <3> HIDE DEF kept
    <3> QED BY <2>2, <2>3, <3>1, SomeParts
  <2> HIDE DEF p, coef, kept, part
  <2>7. Whole(Rep(rf, ps, vs))
    <3>1. CASE reversed
      <4>1. Whole(Rep(rf, P \o p.params, [i \in 1..Len(part \o kept) |-> TowerIn((part \o kept)[i], rf)]))
        BY <2>5, <2>6, JoinedWhole
      <4> QED BY <3>1, <4>1
    <3>2. CASE ~reversed
      <4>1. Whole(Rep(rf, p.params \o P, [i \in 1..Len(kept \o part) |-> TowerIn((kept \o part)[i], rf)]))
        BY <2>5, <2>6, JoinedWhole
      <4> QED BY <3>2, <4>1
    <3> QED BY <3>1, <3>2
  <2> HIDE DEF all, ps, vs
  <2> DEFINE w == Rep(rf, ps, vs)
  <2>8. Give(x, w) /\ Whole(w)
    BY ONLY <2>1, <2>7
  <2> HIDE DEF w
  <2> QED BY ONLY <2>8, GiveWhole, IInv, x \in Objects
<1> QED BY <1>1, <1>2

LEMMA ApproxModDownKeeps ==
  ASSUME IInv, NEW r \in Objects, NEW x \in Objects, ApproxModDown(r, x)
  PROVE  Keeps
<1> DEFINE p     == poly[x]
           sizeQ == Size(p) - Len(P)
           ws    == [j \in 1..Len(P) |-> TowerIn(p.vectors[sizeQ + j], "COEFFICIENT")]
           partP == Rep("COEFFICIENT", P, ws)
           down  == Converted(partP, Q)
           ans   == Dropped(New(Q, "EVALUATION", TRUE), Len(Q) - sizeQ)
           vs    == [i \in 1..sizeQ |-> Sum(p.vectors[i], TowerIn(down.vectors[i], "EVALUATION"))]
<1>1. CASE ~HasValues(p) BY <1>1, BreakKeeps DEF ApproxModDown, Relies
<1>2. CASE HasValues(p)
  <2>1. Give(r, WithVectors(ans, vs)) BY <1>2 DEF ApproxModDown
  <2>2. Whole(p) /\ (Careful => p.format = "EVALUATION")
    BY <1>2, ObjectFits DEF ApproxModDown, Relies
  <2>3. PICK q \in Levels : p.params = q \o P BY DEF ApproxModDown, OnQP
  <2>4. /\ "COEFFICIENT" \in Format /\ "EVALUATION" \in Format
        /\ q \in Seq(Nat) /\ Len(q) \in 1..Len(Q) /\ \A k \in 1..Len(q) : q[k] = Q[k]
        /\ Len(Q) \in Nat /\ Len(P) \in Nat
    BY LevelsNat DEF Format
  <2>5. /\ Size(p) = Len(p.params) /\ p.format \in Format
        /\ \A i \in 1..Size(p) : p.params[i] \in Nat /\ Full(p.vectors[i], p.params[i], p.format)
    <3> HIDE DEF p
    <3> QED BY <2>2, WholeParts
  <2>6. /\ Size(p) = Len(q) + Len(P) /\ \A i \in 1..Len(q) : p.params[i] = q[i]
        /\ \A i \in 1..Size(p) : i > Len(q) => p.params[i] = P[i - Len(q)]
    <3> HIDE DEF p
    <3> QED BY <2>3, <2>4, <2>5, LevelsNat, ConcatNat
  <2>7. sizeQ = Len(q) /\ sizeQ \in 1..Len(Q) BY <2>4, <2>6
  <2>8. Whole(partP)
    <3>1. ASSUME NEW j \in 1..Len(P) PROVE Full(ws[j], P[j], "COEFFICIENT")
      <4>1. ws[j] = TowerIn(p.vectors[sizeQ + j], "COEFFICIENT") OBVIOUS
      <4> HIDE DEF p, ws, sizeQ
      <4>2. sizeQ + j \in 1..Size(p) BY <2>4, <2>6, <2>7
      <4>3. p.params[sizeQ + j] = P[j] BY <2>3, <2>4, <2>7, LevelsNat, ConcatTail
      <4>4. P[j] \in Nat /\ Full(p.vectors[sizeQ + j], P[j], p.format) BY <2>5, <4>2, <4>3
      <4> QED BY <2>4, <2>5, <4>1, <4>4, TowerOps
    <3>2. ws = [j \in 1..Len(P) |-> ws[j]] OBVIOUS
    <3> HIDE DEF ws
    <3> QED BY <2>4, <3>1, <3>2, LevelsNat, MadeWhole
  <2>9. Whole(down) /\ down.params = Q /\ down.format = "COEFFICIENT"
    <3>1. partP.format = "COEFFICIENT" BY DEF Rep
    <3> HIDE DEF partP
    <3> QED BY <2>8, <3>1, LevelsNat, ConvertedWhole
  <2>10. /\ Fit(ans) /\ ans.format = "EVALUATION" /\ Size(ans) = sizeQ
         /\ \A k \in 1..sizeQ : ans.params[k] = Q[k]
    <3> DEFINE new == New(Q, "EVALUATION", TRUE)
               n   == Len(Q) - sizeQ
    <3>1. Fit(new) BY <2>4, LevelsNat, NewFits
    <3>2. Size(new) = Len(Q) /\ new.params = Q /\ new.format = "EVALUATION"
      BY <2>4 DEF New, Rep, Size
    <3>3. n \in Nat /\ n < Len(Q) /\ Len(Q) - n = sizeQ BY <2>4, <2>7
    <3>4. ans = Dropped(new, n) OBVIOUS
    <3> HIDE DEF new, n, ans, sizeQ
    <3>5. /\ Fit(Dropped(new, n)) /\ Dropped(new, n).format = new.format
          /\ Size(Dropped(new, n)) = Size(new) - n
          /\ \A k \in 1..(Size(new) - n) : Dropped(new, n).params[k] = new.params[k]
      BY <3>1, <3>2, <3>3, DroppedFit
    <3> QED BY <3>2, <3>3, <3>4, <3>5
  <2>11. vs = [i \in 1..Size(ans) |-> vs[i]] BY <2>10
  <2>12. ASSUME NEW i \in 1..Size(ans) PROVE Full(vs[i], ans.params[i], ans.format)
    <3>1. i \in 1..sizeQ /\ vs[i] = Sum(p.vectors[i], TowerIn(down.vectors[i], "EVALUATION"))
      BY <2>10
    <3> HIDE DEF p, vs, ans, down, sizeQ
    <3>2. i \in 1..Size(p) /\ i \in 1..Len(Q) /\ i \in 1..Len(q) BY <2>4, <2>6, <2>7, <3>1
    <3>3. p.params[i] = Q[i] /\ ans.params[i] = Q[i] /\ Q[i] \in Nat
      BY <2>4, <2>6, <2>7, <2>10, <3>1, <3>2, LevelsNat
    <3>4. Full(p.vectors[i], Q[i], "EVALUATION")
      BY <2>2, <2>5, <3>2, <3>3 DEF Full
    <3>5. Full(down.vectors[i], Q[i], "COEFFICIENT") BY <2>9, <3>2, WholeParts
    <3>6. Full(TowerIn(down.vectors[i], "EVALUATION"), Q[i], "EVALUATION")
      BY <2>4, <3>3, <3>5, TowerOps
    <3>7. Full(vs[i], Q[i], "EVALUATION") BY <2>4, <3>1, <3>3, <3>4, <3>6, SumFull
    <3> QED BY <2>10, <3>3, <3>7 DEF Full, Fits
  <2> HIDE DEF vs, ans
  <2>13. Whole(WithVectors(ans, vs)) BY <2>10, <2>11, <2>12, WithVectorsWhole
  <2> QED BY <2>1, <2>13, GiveWhole
<1> QED BY <1>1, <1>2

LEMMA SwitchCRTBasisKeeps ==
  ASSUME IInv, NEW r \in Objects, NEW x \in Objects, SwitchCRTBasis(r, x)
  PROVE  Keeps
<1> DEFINE p == poly[x]
<1>1. CASE ~HasValues(p) BY <1>1, BreakKeeps DEF SwitchCRTBasis, Relies
<1>2. CASE HasValues(p)
  <2>1. Give(r, Converted(p, P)) BY <1>2 DEF SwitchCRTBasis
  <2>2. Whole(p) /\ (Careful => p.format = "COEFFICIENT")
    BY <1>2, ObjectFits DEF SwitchCRTBasis, Relies
  <2> HIDE DEF p
  <2>3. Whole(Converted(p, P)) BY <2>2, LevelsNat, ConvertedWhole
  <2> QED BY <2>1, <2>3, GiveWhole
<1> QED BY <1>1, <1>2

LEMMA ScaleAndRoundKeeps ==
  ASSUME IInv, NEW r \in Objects, NEW x \in Objects, NEW ps \in Levels \cup {P},
         ScaleAndRound(r, x, ps)
  PROVE  Keeps
<1> DEFINE p == poly[x]
<1>1. CASE ~HasValues(p) BY <1>1, BreakKeeps DEF ScaleAndRound, Relies
<1>2. CASE HasValues(p)
  <2>1. Give(r, Converted(p, ps)) BY <1>2 DEF ScaleAndRound
  <2>2. Whole(p) /\ (Careful => p.format = "COEFFICIENT")
    BY <1>2, ObjectFits DEF ScaleAndRound, Relies
  <2>3. ps \in Seq(Nat) /\ Len(ps) > 0 BY LevelsNat
  <2> HIDE DEF p
  <2>4. Whole(Converted(p, ps)) BY <2>2, <2>3, ConvertedWhole
  <2> QED BY <2>1, <2>4, GiveWhole
<1> QED BY <1>1, <1>2

LEMMA FastExpandCRTBasisPloverQKeeps ==
  ASSUME IInv, NEW x \in Objects, FastExpandCRTBasisPloverQ(x)
  PROVE  Keeps
<1> DEFINE p      == poly[x]
           partPl == Converted(p, P)
           partQl == Converted(partPl, p.params)
           all    == partQl.vectors \o partPl.vectors
<1>1. CASE ~HasValues(p) BY <1>1, BreakKeeps DEF FastExpandCRTBasisPloverQ, Relies
<1>2. CASE HasValues(p)
  <2>1. Give(x, Rep(p.format, p.params \o P, all)) BY <1>2 DEF FastExpandCRTBasisPloverQ
  <2>2. Whole(p) /\ (Careful => p.format = "COEFFICIENT")
    BY <1>2, ObjectFits DEF FastExpandCRTBasisPloverQ, Relies
  <2>3. p.params \in Seq(Nat) /\ Len(p.params) > 0 /\ p.format \in Format
    <3> HIDE DEF p
    <3> QED BY <2>2, WholeParts
  <2>4. Whole(partPl) /\ partPl.params = P /\ partPl.format = p.format
    <3> HIDE DEF p
    <3> QED BY <2>2, LevelsNat, ConvertedWhole
  <2>5. Whole(partQl) /\ partQl.params = p.params /\ partQl.format = p.format
    <3> HIDE DEF p, partPl
    <3> QED BY <2>2, <2>3, <2>4, ConvertedWhole
  <2> HIDE DEF p, partPl, partQl
  <2>6. Whole(Rep(p.format, p.params \o P, all))
    <3>1. /\ partQl.vectors \in Seq(Tower) /\ Len(partQl.vectors) = Len(p.params)
          /\ \A i \in 1..Len(p.params) : Full(partQl.vectors[i], p.params[i], p.format)
      <4>1. /\ partQl.vectors \in Seq(Tower) /\ Size(partQl) = Len(p.params)
            /\ \A i \in 1..Size(partQl) : Full(partQl.vectors[i], p.params[i], p.format)
        BY <2>5, WholeParts
      <4> QED BY <4>1 DEF Size
    <3>2. /\ partPl.vectors \in Seq(Tower) /\ Len(partPl.vectors) = Len(P)
          /\ \A i \in 1..Len(P) : Full(partPl.vectors[i], P[i], p.format)
      <4>1. /\ partPl.vectors \in Seq(Tower) /\ Size(partPl) = Len(P)
            /\ \A i \in 1..Size(partPl) : Full(partPl.vectors[i], P[i], p.format)
        BY <2>4, WholeParts
      <4> QED BY <4>1 DEF Size
    <3> QED BY <2>3, <3>1, <3>2, LevelsNat, ConcatWhole
  <2> HIDE DEF all
  <2> QED BY <2>1, <2>6, GiveWhole
<1> QED BY <1>1, <1>2

LEMMA ExpandCRTBasisQlHatKeeps ==
  ASSUME IInv, NEW x \in Objects, ExpandCRTBasisQlHat(x)
  PROVE  Keeps
<1> DEFINE p  == poly[x]
           vs == [i \in 1..Len(Q) |->
                    IF i <= Size(p) THEN p.vectors[i] ELSE NewTower(Q[i], p.format, TRUE)]
<1>1. CASE ~HasValues(p) BY <1>1, BreakKeeps DEF ExpandCRTBasisQlHat, Relies
<1>2. CASE HasValues(p)
  <2>1. Give(x, Rep(p.format, Q, vs)) BY <1>2 DEF ExpandCRTBasisQlHat
  <2>2. Whole(p) /\ p.params \in Levels BY <1>2, ObjectFits DEF ExpandCRTBasisQlHat, OnQ
  <2>3. /\ Size(p) = Len(p.params) /\ Size(p) \in Nat /\ p.format \in Format
        /\ \A i \in 1..Size(p) : p.params[i] \in Nat /\ Full(p.vectors[i], p.params[i], p.format)
    <3> HIDE DEF p
    <3> QED BY <2>2, WholeParts
  <2>4. \A i \in 1..Size(p) : p.params[i] = Q[i]
    <3>1. \A i \in 1..Len(p.params) : p.params[i] = Q[i] BY <2>2, LevelsNat
    <3> QED BY <2>3, <3>1
  <2>5. ASSUME NEW i \in 1..Len(Q) PROVE Full(vs[i], Q[i], p.format)
    <3>1. /\ i <= Size(p) => vs[i] = p.vectors[i]
          /\ ~(i <= Size(p)) => vs[i] = NewTower(Q[i], p.format, TRUE)
      OBVIOUS
    <3>2. Q[i] \in Nat /\ i \in Nat /\ i > 0 BY LevelsNat
    <3> HIDE DEF p, vs
    <3>3. CASE i <= Size(p)
      <4>1. i \in 1..Size(p) BY <2>3, <3>2, <3>3
      <4> QED BY <2>3, <2>4, <3>1, <3>3, <4>1
    <3>4. CASE ~(i <= Size(p))
      BY <2>3, <3>1, <3>2, <3>4 DEF Full, NewTower, Tower, Holds, Format
    <3> QED BY <3>3, <3>4
  <2>6. vs = [i \in 1..Len(Q) |-> vs[i]] OBVIOUS
  <2> HIDE DEF p, vs
  <2>7. Whole(Rep(p.format, Q, vs)) BY <2>3, <2>5, <2>6, LevelsNat, MadeWhole
  <2> QED BY <2>1, <2>7, GiveWhole
<1> QED BY <1>1, <1>2

LEMMA CRTDecomposeKeeps ==
  ASSUME IInv, NEW r \in Objects, NEW x \in Objects, NEW i, NEW baseBits,
         CRTDecompose(r, x, i, baseBits)
  PROVE  Keeps
<1> DEFINE p    == poly[x]
           coef == IF p.format = "COEFFICIENT" THEN p ELSE Switched(p)
           eval == IF p.format = "COEFFICIENT" THEN Switched(p) ELSE p
           Spread(k) == Lifted(coef.vectors[i], coef.vectors[k].modulus)
           us == [k \in 1..Size(p) |-> IF k = i THEN eval.vectors[k] ELSE TowerIn(Spread(k), "EVALUATION")]
           ws == [k \in 1..Size(p) |-> Spread(k)]
<1>1. CASE ~HasValues(p) BY <1>1, BreakKeeps DEF CRTDecompose, Relies
<1>2. CASE HasValues(p)
  <2>1. Whole(p) /\ i \in 1..Size(p) BY <1>2, ObjectFits DEF CRTDecompose
  <2>2. /\ Whole(coef) /\ coef.format = "COEFFICIENT" /\ coef.params = p.params
        /\ Whole(eval) /\ eval.format = "EVALUATION" /\ eval.params = p.params
    <3>1. Whole(Switched(p)) /\ Switched(p).format = Other(p.format) /\ Switched(p).params = p.params
      BY <2>1, SwitchedWhole
    <3>2. p.format \in Format
      <4> HIDE DEF p
      <4> QED BY <2>1, WholeParts
    <3> QED BY <2>1, <3>1, <3>2 DEF Other, Format
  <2>3. Size(coef) = Size(p) /\ Size(eval) = Size(p)
    <3> HIDE DEF p, coef, eval
    <3> QED BY <2>1, <2>2, WholeParts
  <2>4. /\ \A k \in 1..Size(p) : p.params[k] \in Nat
        /\ \A k \in 1..Size(p) : Full(coef.vectors[k], p.params[k], "COEFFICIENT")
        /\ \A k \in 1..Size(p) : Full(eval.vectors[k], p.params[k], "EVALUATION")
    <3> HIDE DEF p, coef, eval
    <3> QED BY <2>1, <2>2, <2>3, WholeParts
  <2>5. ASSUME NEW k \in 1..Size(p)
        PROVE  /\ Full(Spread(k), p.params[k], "COEFFICIENT")
               /\ Full(TowerIn(Spread(k), "EVALUATION"), p.params[k], "EVALUATION")
    <3> HIDE DEF p, coef, eval
    <3> DEFINE m == coef.vectors[k].modulus
    <3>1. m \in Nat /\ (Tidy => m = p.params[k]) /\ p.params[k] \in Nat
      BY <2>4 DEF Full, Tower
    <3>2. Full(Lifted(coef.vectors[i], m), m, "COEFFICIENT")
      <4> HIDE DEF m
      <4> QED BY <2>1, <2>4, <3>1, LiftFull
    <3>3. Full(Spread(k), p.params[k], "COEFFICIENT")
      <4>1. Spread(k) = Lifted(coef.vectors[i], m) OBVIOUS
      <4> HIDE DEF m, Spread
      <4> QED BY <3>1, <3>2, <4>1 DEF Full
    <3> HIDE DEF m
    <3>4. "COEFFICIENT" \in Format /\ "EVALUATION" \in Format BY DEF Format
    <3> HIDE DEF Spread
    <3> QED BY <3>1, <3>3, <3>4, TowerOps
  <2>6. CASE baseBits = 0
    <3>1. Give(r, WithVectors(eval, us)) BY <1>2, <2>6 DEF CRTDecompose
    <3>2. us = [k \in 1..Size(eval) |-> us[k]] BY <2>3
    <3>3. ASSUME NEW k \in 1..Size(eval) PROVE Full(us[k], eval.params[k], eval.format)
      <4>1. k \in 1..Size(p) BY <2>3
      <4>2. us[k] = IF k = i THEN eval.vectors[k] ELSE TowerIn(Spread(k), "EVALUATION") BY <4>1
      <4> HIDE DEF p, coef, eval, us, Spread
      <4> QED BY <2>2, <2>4, <2>5, <4>1, <4>2
    <3> HIDE DEF p, eval, us
    <3>4. Whole(WithVectors(eval, us)) BY <2>2, <3>2, <3>3, WithVectorsWhole, WholeParts
    <3> QED BY <3>1, <3>4, GiveWhole
  <2>7. CASE baseBits # 0
    <3>1. Give(r, Switched(WithVectors(coef, ws))) BY <1>2, <2>7 DEF CRTDecompose
    <3>2. ws = [k \in 1..Size(coef) |-> ws[k]] BY <2>3
    <3>3. ASSUME NEW k \in 1..Size(coef) PROVE Full(ws[k], coef.params[k], coef.format)
      <4>1. k \in 1..Size(p) BY <2>3
      <4>2. ws[k] = Spread(k) BY <4>1
      <4> HIDE DEF p, coef, eval, ws, Spread
      <4> QED BY <2>2, <2>5, <4>1, <4>2
    <3> HIDE DEF p, coef, ws
    <3>4. Whole(WithVectors(coef, ws)) BY <2>2, <3>2, <3>3, WithVectorsWhole, WholeParts
    <3>5. Whole(Switched(WithVectors(coef, ws))) BY <3>4, SwitchedWhole
    <3> QED BY <3>1, <3>5, GiveWhole
  <2> QED BY <2>6, <2>7
<1> QED BY <1>1, <1>2

LEMMA BaseDecomposeKeeps ==
  ASSUME IInv, NEW r \in Objects, NEW x \in Objects, NEW e \in BOOLEAN, BaseDecompose(r, x, e)
  PROVE  Keeps
<1> DEFINE p     == poly[x]
           digit == New(p.params, "COEFFICIENT", TRUE)
<1>1. CASE p.format # "COEFFICIENT" BY <1>1, ThrowKeeps DEF BaseDecompose
<1>2. CASE p.format = "COEFFICIENT" /\ ~HasValues(p) BY <1>2, BreakKeeps DEF BaseDecompose, Relies
<1>3. CASE p.format = "COEFFICIENT" /\ HasValues(p)
  <2>1. Give(r, IF e THEN Switched(digit) ELSE digit) BY <1>3 DEF BaseDecompose
  <2>2. p.params \in Seq(Nat) /\ Len(p.params) > 0
    <3>1. Fit(p) BY ObjectFits
    <3> HIDE DEF p
    <3> QED BY <3>1, Parts
  <2>3. Whole(digit) BY <2>2, NewWhole DEF Format
  <2> HIDE DEF digit
  <2>4. Whole(IF e THEN Switched(digit) ELSE digit) BY <2>3, SwitchedWhole
  <2> QED BY <2>1, <2>4, GiveWhole
<1> QED BY <1>1, <1>2, <1>3

LEMMA PowersOfBaseKeeps ==
  ASSUME IInv, NEW x \in Objects, PowersOfBase(x)
  PROVE  Keeps
BY BreakKeeps DEF PowersOfBase, Relies

LEMMA CopyKeeps ==
  ASSUME IInv, NEW r \in Objects, NEW x \in Objects, Copy(r, x)
  PROVE  Keeps
BY ObjectFits, GiveKeeps DEF Copy, AllHaveValues

-----------------------------------------------------------------------------
(* Towers given and taken by hand.                                         *)
HandKeeps ==
  /\ IInv' /\ (AllHaveValues => AllHaveValues')
  /\ BasesAgree => BasesAgree' \/ HandedStranger

LEMMA HandGiven ==
  ASSUME IInv, NEW r \in Objects, NEW p, Loose(p), Give(r, p), AllHaveValues => HasValues(p),
         BasesAgree => BasisAgrees(p) \/ HandedStranger
  PROVE  HandKeeps
<1>1. IInv' BY GiveLoose
<1>2. AllHaveValues => AllHaveValues'
  BY DEF IInv, TypeOK, Give, AllHaveValues, HasValues, Size
<1>3. ASSUME BasesAgree, BasisAgrees(p) PROVE BasesAgree'
  BY <1>3 DEF IInv, TypeOK, Give, BasesAgree, BasisAgrees, Size
<1> QED BY <1>1, <1>2, <1>3 DEF HandKeeps

LEMMA KeptByHand == ASSUME Keeps PROVE HandKeeps
BY DEF Keeps, Stays, HandKeeps

(* A tower and its copies lifted to the other moduli.                      *)
LEMMA FromTowerFits ==
  ASSUME NEW v \in Tower, NEW ps \in Seq(Nat), Len(ps) > 0, NEW f \in Format, ~Unliftable(v, ps),
         Careful => /\ v.modulus = ps[1] /\ v.format = f /\ v.holds \in {f, "nothing"}
                    /\ Len(ps) > 1 => v.holds = "COEFFICIENT"
  PROVE  /\ Loose(Rep(f, ps, FromTower(v, ps)))
         /\ v.holds # "nothing" => HasValues(Rep(f, ps, FromTower(v, ps)))
         /\ v.modulus = ps[1] => BasisAgrees(Rep(f, ps, FromTower(v, ps)))
<1> DEFINE vs == FromTower(v, ps)
           p  == Rep(f, ps, vs)
<1>1. Len(ps) \in Nat /\ 1 \in 1..Len(ps) OBVIOUS
<1>2. ASSUME NEW k \in 1..Len(ps)
      PROVE  /\ vs[k] \in Tower
             /\ vs[k].modulus = IF k = 1 THEN v.modulus ELSE ps[k]
             /\ v.holds # "nothing" => vs[k].holds # "nothing"
             /\ Careful => vs[k].format = f /\ vs[k].holds \in {f, "nothing"}
  <2>1. ps[k] \in Nat OBVIOUS
  <2>2. CASE k = 1 BY <2>2 DEF FromTower
  <2>3. CASE k # 1
    <3>1. Len(ps) > 1 BY <1>1, <2>3
    <3>2. vs[k] = Lifted(v, ps[k]) BY <2>3 DEF FromTower
    <3>3. v.holds # "nothing" BY <3>1 DEF Unliftable
    <3> HIDE DEF vs
    <3> QED BY <2>1, <2>3, <3>1, <3>2, <3>3 DEF Lifted, Tower, Holds, Format
  <2> QED BY <2>2, <2>3
<1>3. vs \in Seq(Tower) /\ Len(vs) = Len(ps)
  <2>1. vs = [k \in 1..Len(ps) |-> vs[k]] BY DEF FromTower
  <2> HIDE DEF vs
  <2>2. vs \in [1..Len(ps) -> Tower] BY <1>2, <2>1
  <2> QED BY <1>1, <2>2
<1> HIDE DEF vs
<1>4. p.format = f /\ p.params = ps /\ p.vectors = vs /\ Size(p) = Len(ps) /\ p \in Poly
  BY <1>3 DEF Rep, Size, Poly
<1>5. v.modulus = ps[1] => BasisAgrees(p)
  <2>1. ASSUME v.modulus = ps[1], NEW k \in 1..Len(ps) PROVE vs[k].modulus = ps[k]
    BY <1>2, <2>1
  <2> HIDE DEF p
  <2> QED BY <1>3, <1>4, <2>1 DEF BasisAgrees
<1>6. Careful => FormatAgrees(p)
  <2> HIDE DEF p
  <2> QED BY <1>2, <1>4 DEF FormatAgrees
<1>7. v.holds # "nothing" => HasValues(p)
  <2> HIDE DEF p
  <2> QED BY <1>2, <1>4 DEF HasValues
<1>8. Loose(p)
  <2> HIDE DEF p
  <2> QED BY <1>1, <1>3, <1>4, <1>5, <1>6 DEF Loose
<1> QED BY <1>5, <1>7, <1>8 DEF vs

LEMMA ConstructFromTowerKeeps ==
  ASSUME IInv, NEW r \in Objects, NEW x \in Objects, NEW i \in 1..Size(poly[x]),
         NEW ps \in Levels \cup {P}, ConstructFromTower(r, x, i, ps)
  PROVE  HandKeeps
<1> DEFINE v == poly[x].vectors[i]
           p == Rep(v.format, ps, FromTower(v, ps))
<1>1. Fits(v, poly[x].params[i], poly[x].format) /\ ps \in Seq(Nat) /\ Len(ps) > 0
  BY ObjectFits, Parts, LevelsNat
<1>2. Careful => v.modulus = ps[1] /\ (Len(ps) > 1 => v.holds = "COEFFICIENT")
  BY DEF ConstructFromTower, Relies
<1>3. CASE Unliftable(v, ps)
  <2>1. Break /\ ~Careful BY <1>2, <1>3 DEF ConstructFromTower, Unliftable
  <2> QED BY <2>1, BreakKeeps, KeptByHand
<1>4. CASE ~Unliftable(v, ps)
  <2>1. Give(r, p) BY <1>4 DEF ConstructFromTower
  <2>2. AllHaveValues => v.holds # "nothing" BY DEF AllHaveValues, HasValues
  <2>3. v.modulus # ps[1] => HandedStranger BY DEF HandedStranger
  <2> HIDE DEF v
  <2>4. /\ v \in Tower /\ v.format \in Format
        /\ Careful => v.holds \in {v.format, "nothing"}
    BY <1>1 DEF Fits, Tower
  <2>5. /\ Loose(p) /\ (v.holds # "nothing" => HasValues(p))
        /\ v.modulus = ps[1] => BasisAgrees(p)
    BY <1>1, <1>2, <1>4, <2>4, FromTowerFits
  <2> HIDE DEF p
  <2> QED BY <2>1, <2>2, <2>3, <2>5, HandGiven
<1> QED BY <1>3, <1>4

LEMMA AssignTowerKeeps ==
  ASSUME IInv, NEW r \in Objects, NEW x \in Objects, NEW i \in 1..Size(poly[x]),
         AssignTower(r, x, i)
  PROVE  HandKeeps
<1> DEFINE v  == poly[x].vectors[i]
           f  == poly[r].format
           ps == poly[r].params
           p  == Rep(f, ps, FromTower(v, ps))
<1>1. /\ Fits(v, poly[x].params[i], poly[x].format)
      /\ ps \in Seq(Nat) /\ Len(ps) > 0 /\ f \in Format
  BY ObjectFits, Parts
<1>2. Careful => v.modulus = ps[1] /\ v.format = f /\ (Len(ps) > 1 => v.holds = "COEFFICIENT")
  BY DEF AssignTower, Relies
<1>3. CASE Unliftable(v, ps)
  <2>1. Break /\ ~Careful BY <1>2, <1>3 DEF AssignTower, Unliftable
  <2> QED BY <2>1, BreakKeeps, KeptByHand
<1>4. CASE ~Unliftable(v, ps)
  <2>1. Give(r, p) BY <1>4 DEF AssignTower, WithVectors
  <2>2. AllHaveValues => v.holds # "nothing" BY DEF AllHaveValues, HasValues
  <2>3. v.modulus # ps[1] => HandedStranger BY DEF HandedStranger
  <2> HIDE DEF v, ps, f
  <2>4. v \in Tower /\ (Careful => v.holds \in {v.format, "nothing"})
    BY <1>1, <1>2 DEF Fits
  <2>5. /\ Loose(p) /\ (v.holds # "nothing" => HasValues(p))
        /\ v.modulus = ps[1] => BasisAgrees(p)
    BY <1>1, <1>2, <1>4, <2>4, FromTowerFits
  <2> HIDE DEF p
  <2> QED BY <2>1, <2>2, <2>3, <2>5, HandGiven
<1> QED BY <1>3, <1>4

(* One tower replaced by another.                                          *)
LEMMA ReplacedFits ==
  ASSUME NEW p, Fit(p), NEW k \in 1..Size(p), NEW v \in Tower,
         Careful => Fits(v, p.params[k], p.format)
  PROVE  LET q == WithVectors(p, [p.vectors EXCEPT ![k] = v]) IN
         /\ Loose(q)
         /\ HasValues(p) /\ v.holds # "nothing" => HasValues(q)
         /\ BasisAgrees(p) /\ v.modulus = p.params[k] => BasisAgrees(q)
<1> DEFINE vs == [p.vectors EXCEPT ![k] = v]
           q  == WithVectors(p, vs)
<1>1. /\ p \in Poly /\ p.vectors \in Seq(Tower) /\ Size(p) = Len(p.vectors)
      /\ Size(p) = Len(p.params) /\ Size(p) > 0
      /\ \A i \in 1..Size(p) : Fits(p.vectors[i], p.params[i], p.format)
  BY Parts DEF Poly, Size
<1>0. /\ p.vectors \in [1..Size(p) -> Tower] /\ Size(p) \in Nat
      /\ vs \in [1..Size(p) -> Tower]
      /\ \A i \in 1..Size(p) : vs[i] = IF i = k THEN v ELSE p.vectors[i]
  <2> DEFINE n == Size(p)
             w == p.vectors
  <2>1. w \in [1..n -> Tower] /\ n \in Nat
    <3>1. p.vectors \in [1..Len(p.vectors) -> Tower] /\ Len(p.vectors) \in Nat
      BY <1>1, LenProperties
    <3>2. n = Len(p.vectors) BY DEF Size
    <3> QED BY <3>1, <3>2
  <2> HIDE DEF n, w
  <2>2. k \in 1..n BY DEF n
  <2>3. [w EXCEPT ![k] = v] \in [1..n -> Tower] BY <2>1, <2>2
  <2>4. \A i \in 1..n : [w EXCEPT ![k] = v][i] = IF i = k THEN v ELSE w[i] BY <2>1
  <2> QED BY <2>1, <2>3, <2>4 DEF n, w
<1> HIDE DEF vs
<1>2. vs \in Seq(Tower) /\ Len(vs) = Len(p.vectors) BY <1>0, <1>1
<1>3. ASSUME NEW i \in 1..Size(p) PROVE vs[i] = IF i = k THEN v ELSE p.vectors[i]
  BY <1>0
<1> HIDE DEF vs
<1>4. q.format = p.format /\ q.params = p.params /\ q.vectors = vs /\ Size(q) = Size(p) /\ q \in Poly
  BY <1>1, <1>2 DEF WithVectors, Rep, Size, Poly
<1> HIDE DEF q
<1>5. ASSUME Careful, NEW i \in 1..Size(p) PROVE Fits(vs[i], p.params[i], p.format)
  BY <1>1, <1>3, <1>5
<1>6. Careful => BasisAgrees(q) /\ FormatAgrees(q)
  BY <1>1, <1>2, <1>4, <1>5 DEF Fits, Tidy, BasisAgrees, FormatAgrees
<1>7. HasValues(p) /\ v.holds # "nothing" => HasValues(q)
  BY <1>3, <1>4 DEF HasValues
<1>8. BasisAgrees(p) /\ v.modulus = p.params[k] => BasisAgrees(q)
  BY <1>2, <1>3, <1>4 DEF BasisAgrees
<1>9. Loose(q) BY <1>1, <1>2, <1>4, <1>6 DEF Loose
<1> QED BY <1>7, <1>8, <1>9 DEF q, vs

LEMMA SetElementAtIndexKeeps ==
  ASSUME IInv, NEW r \in Objects, NEW x \in Objects, NEW i \in 1..Size(poly[x]),
         NEW k \in 1..Len(Q \o P), SetElementAtIndex(r, k, x, i)
  PROVE  HandKeeps
<1> DEFINE v == poly[x].vectors[i]
           p == poly[r]
           q == WithVectors(p, [p.vectors EXCEPT ![k] = v])
<1>1. Fits(v, poly[x].params[i], poly[x].format) /\ Fit(p) /\ Size(p) \in Nat
  BY ObjectFits, Parts
<1>2. Careful => k <= Size(p) /\ v.modulus = p.params[k] /\ v.format = p.format
  BY DEF SetElementAtIndex, Relies
<1>3. CASE k > Size(p)
  <2>0. k \in Nat BY BasesAssumption
  <2>1. Break /\ ~Careful BY <1>1, <1>2, <1>3, <2>0 DEF SetElementAtIndex
  <2> QED BY <2>1, BreakKeeps, KeptByHand
<1>4. CASE ~(k > Size(p))
  <2>0. k \in 1..Size(p)
    <3>1. k \in Nat /\ k > 0 BY BasesAssumption
    <3> QED BY <1>1, <1>4, <3>1
  <2>1. Give(r, q) BY <1>4 DEF SetElementAtIndex
  <2>2. AllHaveValues => v.holds # "nothing" /\ HasValues(p) BY DEF AllHaveValues, HasValues
  <2>3. v.modulus # p.params[k] => HandedStranger BY <2>0 DEF HandedStranger
  <2>6. BasesAgree => BasisAgrees(p) BY DEF BasesAgree
  <2> HIDE DEF v, p
  <2>4. v \in Tower /\ (Careful => Fits(v, p.params[k], p.format))
    BY <1>1, <1>2 DEF Fits
  <2>5. /\ Loose(q) /\ (HasValues(p) /\ v.holds # "nothing" => HasValues(q))
        /\ BasisAgrees(p) /\ v.modulus = p.params[k] => BasisAgrees(q)
    BY <1>1, <2>0, <2>4, ReplacedFits
  <2> HIDE DEF q
  <2> QED BY <2>1, <2>2, <2>3, <2>5, <2>6, HandGiven
<1> QED BY <1>3, <1>4

LEMMA SwitchModulusAtIndexKeeps ==
  ASSUME IInv, NEW x \in Objects, NEW k \in 1..Len(Q \o P), NEW m \in Moduli,
         SwitchModulusAtIndex(x, k, m)
  PROVE  HandKeeps
<1> DEFINE p == poly[x]
           v == p.vectors[k]
           w == Lifted(v, m)
           q == WithVectors(p, [p.vectors EXCEPT ![k] = w])
<1>1. Fit(p) /\ Size(p) \in Nat BY ObjectFits, Parts
<1>2. m \in Nat
  <2>1. \A j \in 1..Len(Q) : Q[j] \in Nat BY LevelsNat
  <2>2. \A j \in 1..Len(P) : P[j] \in Nat BY LevelsNat
  <2> QED BY <2>1, <2>2 DEF Moduli
<1>3. CASE k > Size(p) \/ v.holds = "nothing"
  BY <1>3, ThrowKeeps, KeptByHand DEF SwitchModulusAtIndex
<1>4. CASE ~(k > Size(p) \/ v.holds = "nothing")
  <2>0. k \in 1..Size(p)
    <3>1. k \in Nat /\ k > 0 BY BasesAssumption
    <3> QED BY <1>1, <1>4, <3>1
  <2>1. Give(x, q) BY <1>4 DEF SwitchModulusAtIndex
  <2>2. AllHaveValues => HasValues(p) BY DEF AllHaveValues
  <2>3. v.modulus # m => HandedStranger BY <2>0 DEF HandedStranger
  <2>4. BasesAgree => BasisAgrees(p) /\ v.modulus = p.params[k]
    BY <2>0 DEF BasesAgree, BasisAgrees
  <2>5. Careful => m = p.params[k]
    <3>1. k <= Size(p) BY <1>1, <2>0
    <3> QED BY <3>1 DEF SwitchModulusAtIndex, Relies
  <2>6. Fits(v, p.params[k], p.format)
    <3> HIDE DEF p
    <3> QED BY <1>1, <2>0, Parts
  <2> HIDE DEF v, p
  <2>7. /\ w \in Tower /\ w.modulus = m /\ w.holds # "nothing"
        /\ Careful => Fits(w, p.params[k], p.format)
    BY <1>2, <1>4, <2>5, <2>6 DEF Fits, Tidy, Lifted, Tower, Holds, Format
  <2> HIDE DEF w
  <2>8. /\ Loose(q) /\ (HasValues(p) /\ w.holds # "nothing" => HasValues(q))
        /\ BasisAgrees(p) /\ w.modulus = p.params[k] => BasisAgrees(q)
    BY <1>1, <2>0, <2>7, ReplacedFits
  <2> HIDE DEF q
  <2> QED BY <2>1, <2>2, <2>3, <2>4, <2>7, <2>8, HandGiven
<1> QED BY <1>3, <1>4

LEMMA ConstructFromTowersKeeps ==
  ASSUME IInv, NEW r \in Objects, NEW x \in Objects, ConstructFromTowers(r, x)
  PROVE  Keeps
<1> DEFINE p  == poly[x]
           vs == p.vectors
           f  == vs[1].format
           ps == [i \in 1..Len(vs) |-> vs[i].modulus]
<1>1. Fit(p) BY ObjectFits
<1>2. Give(r, Rep(f, ps, vs)) BY DEF ConstructFromTowers
<1>3. AllHaveValues => HasValues(Rep(f, ps, vs)) BY DEF AllHaveValues, HasValues, Rep, Size
<1>4. /\ Size(p) = Len(vs) /\ Len(vs) \in Nat /\ Len(vs) > 0
      /\ \A i \in 1..Len(vs) : Fits(vs[i], p.params[i], p.format)
      /\ vs = [i \in 1..Len(vs) |-> vs[i]]
  <2>1. Size(p) = Len(vs) BY DEF Size
  <2> HIDE DEF p
  <2> QED BY <1>1, <2>1, Parts
<1> HIDE DEF p
<1>5. ASSUME NEW i \in 1..Len(vs) PROVE vs[i].modulus \in Nat /\ vs[i].format \in Format
  BY <1>4 DEF Fits, Tower
<1>6. ps \in Seq(Nat) /\ Len(ps) = Len(vs) /\ f \in Format
  <2>1. ps \in [1..Len(vs) -> Nat] BY <1>5
  <2>2. 1 \in 1..Len(vs) BY <1>4
  <2> HIDE DEF vs
  <2> QED BY <1>4, <1>5, <2>1, <2>2
<1>7. ASSUME NEW i \in 1..Len(ps) PROVE Fits(vs[i], ps[i], f)
  <2>1. i \in 1..Len(vs) /\ 1 \in 1..Len(vs) BY <1>4, <1>6
  <2>2. ps[i] = vs[i].modulus BY <2>1
  <2> HIDE DEF ps
  <2> QED BY <1>4, <2>1, <2>2 DEF Fits
<1>8. vs = [i \in 1..Len(ps) |-> vs[i]] BY <1>4, <1>6
<1> HIDE DEF vs, ps, f
<1>9. Fit(Rep(f, ps, vs)) BY <1>4, <1>6, <1>7, <1>8, Made
<1> QED BY <1>2, <1>3, <1>9, GiveKeeps

LEMMA AssignLargeKeeps ==
  ASSUME IInv, NEW x \in Objects, NEW f \in Format, AssignLarge(x, f)
  PROVE  Keeps
<1> DEFINE p  == poly[x]
           ps == p.params
           vs == [i \in 1..Len(ps) |-> [modulus |-> ps[i], format |-> p.format,
                                         holds |-> IF f = p.format THEN f ELSE "junk"]]
<1>1. Fit(p) BY ObjectFits
<1>2. Give(x, Rep(p.format, ps, vs)) BY DEF AssignLarge, WithVectors
<1>3. Careful => f = p.format BY DEF AssignLarge, Relies
<1> HIDE DEF p
<1>4. ps \in Seq(Nat) /\ Len(ps) > 0 /\ p.format \in Format BY <1>1, Parts
<1> HIDE DEF ps
<1>5. ASSUME NEW i \in 1..Len(ps) PROVE Full(vs[i], ps[i], p.format)
  <2>1. ps[i] \in Nat BY <1>4
  <2> QED BY <1>3, <1>4, <2>1 DEF Full, Tower, Holds, Format
<1>6. vs = [i \in 1..Len(ps) |-> vs[i]] OBVIOUS
<1> HIDE DEF vs
<1>7. Whole(Rep(p.format, ps, vs)) BY <1>4, <1>5, <1>6, MadeWhole
<1> QED BY <1>2, <1>7, GiveWhole

-----------------------------------------------------------------------------
LEMMA Start ==
  ASSUME Init
  PROVE  IInv
<1>1. Fit(New(Q, "EVALUATION", TRUE)) BY LevelsNat, NewFits DEF Format
<1>2. \A x \in Objects : poly[x] = New(Q, "EVALUATION", TRUE) BY DEF Init
<1>3. TypeOK
  <2>1. New(Q, "EVALUATION", TRUE) \in Poly BY <1>1 DEF Fit, Loose
  <2> QED BY <2>1 DEF Init, TypeOK
<1>4. Running BY DEF Init, Running
<1> QED BY <1>1, <1>2, <1>3, <1>4 DEF IInv, Fit

(* What every step does, for any callers.                                  *)
Walks ==
  /\ IInv'
  /\ AllHaveValues => AllHaveValues' \/ LeavesEmpty
  /\ BasesAgree => BasesAgree' \/ HandedStranger

LEMMA KeepsWalks == /\ Keeps => Walks
                    /\ HandKeeps => Walks
                    /\ Stays /\ LeavesEmpty => Walks
BY DEF Keeps, Stays, HandKeeps, Walks

LEMMA Step ==
  ASSUME IInv, [Next]_vars
  PROVE  Walks
<1>1. CASE UNCHANGED vars
  BY <1>1 DEF IInv, vars, TypeOK, Loose, BasisAgrees, FormatAgrees, Running,
              Walks, BasesAgree, AllHaveValues, HasValues, Size
<1>2. ASSUME NEW x \in Objects, NEW ps \in Levels \cup {P}, NEW f \in Format, NEW z \in BOOLEAN,
             Construct(x, ps, f, z)
      PROVE  Walks
  <2>1. Stays /\ (z => Keeps) BY <1>2, ConstructKeeps
  <2>2. ~z => LeavesEmpty
    <3>1. ASSUME ~z PROVE z = FALSE BY <3>1
    <3> QED BY <1>2, <3>1 DEF LeavesEmpty
  <2> QED BY <2>1, <2>2, KeepsWalks
<1>3. ASSUME NEW x \in Objects, Change(x) PROVE Walks
  <2>1. ASSUME NEW f \in Format,
               \/ AssignLarge(x, f) \/ OverrideFormat(x, f)
               \/ ExpandCRTBasis(x, f) \/ ExpandCRTBasisReverseOrder(x, f)
        PROVE  Keeps
    <3>0. CASE AssignLarge(x, f) BY <3>0, AssignLargeKeeps
    <3>1. CASE OverrideFormat(x, f) BY <3>1, OverrideFormatKeeps
    <3>2. CASE ExpandCRTBasis(x, f) BY <3>2, ExpandKeeps DEF ExpandCRTBasis
    <3>3. CASE ExpandCRTBasisReverseOrder(x, f) BY <3>3, ExpandKeeps DEF ExpandCRTBasisReverseOrder
    <3> QED BY <2>1, <3>0, <3>1, <3>2, <3>3
  <2>2. ASSUME ApproxModUp(x) PROVE Keeps BY <2>2, ExpandKeeps DEF ApproxModUp, Format
  <2>3. ASSUME NEW n \in 1..Len(Q), DropLastElements(x, n) PROVE Keeps
    BY <2>3, DropLastElementsKeeps
  <2>4. ASSUME NEW k \in 1..Len(Q \o P), NEW m \in Moduli, SwitchModulusAtIndex(x, k, m) PROVE HandKeeps
    BY <2>4, SwitchModulusAtIndexKeeps
  <2> QED BY <1>3, <2>1, <2>2, <2>3, <2>4, SwitchFormatKeeps, AssignValueKeeps, AssignListKeeps,
             AssignVectorKeeps, DropLastElementAndScaleKeeps, ModReduceKeeps, ScaleAndRoundPOverQKeeps,
             FastExpandCRTBasisPloverQKeeps, ExpandCRTBasisQlHatKeeps, PowersOfBaseKeeps, KeepsWalks
          DEF Change
<1>4. ASSUME NEW x \in Objects, NEW y \in Objects, InPlace(x, y) PROVE Walks
  BY <1>4, AccumulateKeeps, TimesAssignKeeps, SetValuesModSwitchKeeps, KeepsWalks DEF InPlace
<1>8. ASSUME NEW x \in Objects, NEW y \in Objects, ByHand(x, y) PROVE Walks
  BY <1>8, ConstructFromTowerKeeps, AssignTowerKeeps, SetElementAtIndexKeeps, ConstructFromTowersKeeps,
     KeepsWalks DEF ByHand
<1>5. ASSUME NEW x \in Objects, NEW y \in Objects, Derive(x, y) PROVE Walks
  <2>1. ASSUME NEW n \in 1..Len(Q), TimesNoCheck(x, y, n) PROVE Walks
    <3>1. Stays /\ LeavesEmpty BY <2>1, TimesNoCheckFits DEF LeavesEmpty
    <3> QED BY <3>1, KeepsWalks
  <2>2. CASE ~(\E n \in 1..Len(Q) : TimesNoCheck(x, y, n))
    BY <1>5, <2>2, CopyKeeps, CloneTowersKeeps, ApproxModDownKeeps, SwitchCRTBasisKeeps,
       ScaleAndRoundKeeps, CRTDecomposeKeeps, BaseDecomposeKeeps, KeepsWalks DEF Derive
  <2> QED BY <2>1, <2>2
<1>6. ASSUME NEW x \in Objects, NEW y \in Objects, NEW z \in Objects, Arithmetic(x, y, z) PROVE Walks
  BY <1>6, PlusKeeps, MinusKeeps, TimesKeeps, KeepsWalks DEF Arithmetic
<1> QED BY <1>1, <1>2, <1>3, <1>4, <1>5, <1>6, <1>8 DEF Next

LEMMA Invariant == Spec => []IInv
<1>1. Init => IInv BY Start
<1>2. IInv /\ [Next]_vars => IInv' BY Step DEF Walks
<1> QED BY <1>1, <1>2, PTL DEF Spec

(* Every object keeps its type, its towers theirs, and every call ends in  *)
(* one of the three ways, for any bases and any number of objects.         *)
THEOREM TypeCorrect == Spec => []TypeOK
<1>1. IInv => TypeOK BY DEF IInv
<1> QED BY <1>1, Invariant, PTL

(* However carelessly the operations are called, m_params and the towers   *)
(* part only by a tower or a modulus handed to the wrong place, for any    *)
(* bases and any number of objects: no operation that rebuilds m_params by *)
(* hand forgets a modulus or keeps one too many.                           *)
THEOREM BasesPartOnlyByHand == Spec => BasesPartByHand
<1>1. IInv /\ [Next]_vars => [BasesAgree => BasesAgree' \/ HandedStranger]_vars
  BY Step DEF Walks
<1> QED BY <1>1, Invariant, PTL DEF Spec, BasesPartByHand

(* Called with care, the operations keep the three places of the format    *)
(* and the two of the basis together.                                      *)
THEOREM CarefulCoherent == Careful => (Spec => []Coherent)
<1>1. Careful /\ IInv => Coherent BY DEF IInv, Loose, Coherent
<1>2. ASSUME Careful PROVE Spec => []Coherent
  <2>1. IInv => Coherent BY <1>1, <1>2
  <2> QED BY <2>1, Invariant, PTL
<1> QED BY <1>2

(* Only a construction without values and a product with too few constants *)
(* leave a tower empty, called with care or not, for any bases: objects    *)
(* that all have their values keep them through every other operation.     *)
THEOREM ValuesAlwaysKept == Spec => ValuesKept
<1>1. IInv /\ [Next]_vars =>
        [(\A x \in Objects : HasValues(poly[x])) =>
           (\A x \in Objects : HasValues(poly[x]))' \/ LeavesEmpty]_vars
  BY Step DEF Walks, AllHaveValues
<1> QED BY <1>1, Invariant, PTL DEF Spec, ValuesKept
=============================================================================
