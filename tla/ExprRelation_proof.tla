--------------------------- MODULE ExprRelation_proof ---------------------------
(***************************************************************************)
(* Proofs about ExprRelation and Postgres: the order the parser checks,    *)
(* the relation and the dates of two expressions agree, for every i64      *)
(* width and all expressions the parser accepts.                           *)
(***************************************************************************)
EXTENDS Postgres, Bounds_proof

(* A bound that has a place in the order. *)
Ordered(e) == \/ e = NegInf \/ e = PosInf
              \/ /\ e.at = "Day" /\ e = DayBound(e.day)
                 /\ e.day[1] \in Int /\ e.day[2] \in Int /\ e.day[3] \in Int

(* Below is a strict weak order on the ends of known bounds.               *)
LEMMA BelowOrders ==
  ASSUME NEW d, NEW e, NEW f, Ordered(d), Ordered(e), Ordered(f)
  PROVE  /\ ~Below(d, d)
         /\ Below(d, e) => ~Below(e, d)
         /\ Below(d, e) /\ Below(e, f) => Below(d, f)
         /\ Below(d, e) /\ ~Below(f, e) => Below(d, f)
         /\ ~Below(e, d) /\ Below(e, f) => Below(d, f)
BY DEF Ordered, Below, Before, NegInf, PosInf, DayBound

(* The relation's own copy of the order of days is this one.               *)
LEMMA SameLine ==
  /\ Regions!Unknown = Unknown /\ Regions!NegInf = NegInf /\ Regions!PosInf = PosInf
  /\ \A day : Regions!DayBound(day) = DayBound(day)
  /\ \A month, leap : Regions!last_day(month, leap) = last_day(month, leap)
  /\ \A year : Regions!is_leap(year) = is_leap(year)
  /\ \A d, e : /\ Regions!Below(d, e) <=> Below(d, e)
               /\ Regions!NotAbove(d, e) <=> NotAbove(d, e)
               /\ Regions!LaterOf(d, e) = LaterOf(d, e)
               /\ Regions!EarlierOf(d, e) = EarlierOf(d, e)
BY DEF Regions!Unknown, Unknown, Regions!NegInf, NegInf, Regions!PosInf, PosInf, Regions!DayBound, DayBound,
       Regions!last_day, last_day, Regions!is_leap, is_leap, Regions!Below, Below, Regions!NotAbove, NotAbove,
       Regions!Before, Before, Regions!LaterOf, LaterOf, Regions!EarlierOf, EarlierOf

(* A bound that is known is a day or its infinity.                         *)
LEMMA BoundIsOrdered ==
  ASSUME NEW e, NEW infinity \in {NegInf, PosInf}, IsBound(e, infinity, I64Years), e # Unknown
  PROVE  Ordered(e) /\ (e = infinity \/ e.at = "Day")
<1>1. CASE e = infinity
  BY <1>1 DEF Ordered
<1>2. CASE e.at = "Day" /\ e = DayBound(e.day) /\ e.day \in Position("Day", I64Years)
  <2>1. I64Years \subseteq Int
    BY I64Assumption DEF I64Years
  <2>2. Position("Day", I64Years) \subseteq Position("Day", Int)
    BY <2>1 DEF Position
  <2>3. e.day[1] \in Int /\ e.day[2] \in Int /\ e.day[3] \in Int
    BY <1>2, <2>2, PositionIsTriple
  <2> QED BY <1>2, <2>3 DEF Ordered
<1> QED BY <1>1, <1>2 DEF IsBound

(* Known bounds are in order, each end on its side.                        *)
LEMMA KnownIsOrdered ==
  ASSUME NEW r, WellFormed(r), Regions!Known(r)
  PROVE  /\ Ordered(r.earliest) /\ r.earliest # PosInf
         /\ Ordered(r.latest) /\ r.latest # NegInf
         /\ ~Below(r.latest, r.earliest)
<1>1. r.earliest # Unknown /\ r.latest # Unknown
  BY SameLine DEF Regions!Known
<1>2. Ordered(r.earliest) /\ (r.earliest = NegInf \/ r.earliest.at = "Day")
  BY <1>1, BoundIsOrdered DEF WellFormed, IsBounds
<1>3. Ordered(r.latest) /\ (r.latest = PosInf \/ r.latest.at = "Day")
  BY <1>1, BoundIsOrdered DEF WellFormed, IsBounds
<1>4. NegInf # PosInf /\ NegInf.at # "Day" /\ PosInf.at # "Day"
  BY DEF NegInf, PosInf
<1> QED BY <1>2, <1>3, <1>4 DEF WellFormed, IsBounds, NotAbove

(* A neighbouring day lies on its own side, also where the years end.      *)
LEMMA Neighbours ==
  ASSUME NEW e, Ordered(e)
  PROVE  /\ Ordered(Regions!succ(e)) /\ ~Below(Regions!succ(e), e)
         /\ Ordered(Regions!pred(e)) /\ ~Below(e, Regions!pred(e))
<1>1. ~Below(e, e)
  BY BelowOrders
<1>2. CASE e.at # "Day"
  BY <1>1, <1>2 DEF Regions!succ, Regions!pred
<1>3. CASE e.at = "Day"
  <2>1. /\ e.day[1] \in Int /\ e.day[2] \in Int /\ e.day[3] \in Int
    BY <1>3 DEF Ordered, NegInf, PosInf
  <2> DEFINE leap == is_leap(e.day[1])
             ending == last_day(e.day[2], leap)
             before == last_day(e.day[2] - 1, leap)
  <2>2. before \in Int
    BY DEF last_day
  <2> HIDE DEF leap, ending, before
  <2>3. Ordered(PosInf) /\ Ordered(NegInf) /\ ~Below(PosInf, e) /\ ~Below(e, NegInf)
    BY <1>3 DEF Ordered, Below, PosInf, NegInf
  <2>4. ASSUME NEW year \in Int, NEW month \in Int, NEW day \in Int
        PROVE  /\ Ordered(DayBound(<<year, month, day>>))
               /\ Below(DayBound(<<year, month, day>>), e) <=> Before(<<year, month, day>>, e.day)
               /\ Below(e, DayBound(<<year, month, day>>)) <=> Before(e.day, <<year, month, day>>)
    BY <1>3 DEF Ordered, Below, DayBound
  <2>5. Ordered(Regions!succ(e)) /\ ~Below(Regions!succ(e), e)
    <3> DEFINE yr == e.day[1]
               mo == e.day[2]
               dy == e.day[3]
    <3>1. CASE dy < ending
      <4>1. Regions!succ(e) = DayBound(<<yr, mo, dy + 1>>)
        BY <1>3, <3>1, SameLine DEF Regions!succ, ending, leap
      <4>2. ~Before(<<yr, mo, dy + 1>>, e.day)
        BY <2>1 DEF Before
      <4> QED BY <2>1, <2>4, <4>1, <4>2
    <3>2. CASE ~(dy < ending) /\ mo < 12
      <4>1. Regions!succ(e) = DayBound(<<yr, mo + 1, 1>>)
        BY <1>3, <3>2, SameLine DEF Regions!succ, ending, leap
      <4>2. ~Before(<<yr, mo + 1, 1>>, e.day)
        BY <2>1 DEF Before
      <4> QED BY <2>1, <2>4, <4>1, <4>2
    <3>3. CASE ~(dy < ending) /\ ~(mo < 12)
      <4>1. Regions!succ(e) \in {PosInf, DayBound(<<yr + 1, 1, 1>>)}
        BY <1>3, <3>3, SameLine DEF Regions!succ, ending, leap
      <4>2. ~Before(<<yr + 1, 1, 1>>, e.day)
        BY <2>1 DEF Before
      <4>3. Ordered(DayBound(<<yr + 1, 1, 1>>)) /\ ~Below(DayBound(<<yr + 1, 1, 1>>), e)
        BY <2>1, <2>4, <4>2
      <4> QED BY <2>3, <4>1, <4>3
    <3> QED BY <3>1, <3>2, <3>3
  <2>6. Ordered(Regions!pred(e)) /\ ~Below(e, Regions!pred(e))
    <3> DEFINE yr == e.day[1]
               mo == e.day[2]
               dy == e.day[3]
    <3>1. CASE dy > 1
      <4>1. Regions!pred(e) = DayBound(<<yr, mo, dy - 1>>)
        BY <1>3, <3>1, SameLine DEF Regions!pred
      <4>2. ~Before(e.day, <<yr, mo, dy - 1>>)
        BY <2>1 DEF Before
      <4> QED BY <2>1, <2>4, <4>1, <4>2
    <3>2. CASE ~(dy > 1) /\ mo > 1
      <4>1. Regions!pred(e) = DayBound(<<yr, mo - 1, before>>)
        BY <1>3, <3>2, SameLine DEF Regions!pred, before, leap
      <4>2. ~Before(e.day, <<yr, mo - 1, before>>)
        BY <2>1, <2>2 DEF Before
      <4> QED BY <2>1, <2>2, <2>4, <4>1, <4>2
    <3>3. CASE ~(dy > 1) /\ ~(mo > 1)
      <4>1. Regions!pred(e) \in {NegInf, DayBound(<<yr - 1, 12, 31>>)}
        BY <1>3, <3>3, SameLine DEF Regions!pred
      <4>2. ~Before(e.day, <<yr - 1, 12, 31>>)
        BY <2>1 DEF Before
      <4>3. Ordered(DayBound(<<yr - 1, 12, 31>>)) /\ ~Below(e, DayBound(<<yr - 1, 12, 31>>))
        BY <2>1, <2>4, <4>2
      <4> QED BY <2>3, <4>1, <4>3
    <3> QED BY <3>1, <3>2, <3>3
  <2> QED BY <2>5, <2>6
<1> QED BY <1>2, <1>3

(* Regions that touch nowhere do not half overlap in either direction.     *)
LEMMA ApartNoOverlap ==
  ASSUME NEW p, NEW q, WellFormed(p), WellFormed(q), Regions!Known(p), Regions!Known(q),
         Below(p.latest, q.earliest)
  PROVE  /\ ~Regions!half_overlap(p.earliest, p.latest, q.earliest, q.latest)
         /\ ~Regions!half_overlap(q.earliest, q.latest, p.earliest, p.latest)
<1> DEFINE pe == p.earliest
           pl == p.latest
           qe == q.earliest
           ql == q.latest
<1>1. Ordered(pe) /\ Ordered(pl) /\ Ordered(qe) /\ Ordered(ql)
  BY KnownIsOrdered
<1> HIDE DEF pe, pl, qe, ql
<1>2. Below(pl, qe)
  BY DEF pl, qe
<1>3. ~Regions!half_overlap(pe, pl, qe, ql)
  <2> DEFINE s == Regions!succ(pe)
             t == Regions!pred(ql)
  <2>1. Ordered(s) /\ Ordered(t)
    BY <1>1, Neighbours
  <2> HIDE DEF s, t
  <2>2. Ordered(LaterOf(s, qe)) /\ ~Below(LaterOf(s, qe), qe)
    BY <1>1, <2>1, BelowOrders DEF LaterOf
  <2>3. Ordered(EarlierOf(pl, t)) /\ ~Below(pl, EarlierOf(pl, t))
    BY <1>1, <2>1, BelowOrders DEF EarlierOf
  <2>4. Below(EarlierOf(pl, t), LaterOf(s, qe))
    BY <1>1, <1>2, <2>2, <2>3, BelowOrders
  <2> QED BY <2>4, SameLine DEF Regions!half_overlap, NotAbove, s, t
<1>4. ~Regions!half_overlap(qe, ql, pe, pl)
  <2> DEFINE s == Regions!succ(qe)
             t == Regions!pred(pl)
  <2>1. Ordered(s) /\ ~Below(s, qe) /\ Ordered(t) /\ ~Below(pl, t)
    BY <1>1, Neighbours
  <2> HIDE DEF s, t
  <2>2. Below(t, s)
    <3>1. Below(t, qe)
      BY <1>1, <1>2, <2>1, BelowOrders
    <3> QED BY <1>1, <2>1, <3>1, BelowOrders
  <2>3. Ordered(LaterOf(s, pe)) /\ ~Below(LaterOf(s, pe), s)
    BY <1>1, <2>1, BelowOrders DEF LaterOf
  <2>4. Ordered(EarlierOf(ql, t)) /\ ~Below(t, EarlierOf(ql, t))
    BY <1>1, <2>1, BelowOrders DEF EarlierOf
  <2>5. Below(EarlierOf(ql, t), LaterOf(s, pe))
    <3>1. Below(EarlierOf(ql, t), s)
      BY <2>1, <2>2, <2>4, BelowOrders
    <3> QED BY <2>1, <2>3, <2>4, <3>1, BelowOrders
  <2> QED BY <2>5, SameLine DEF Regions!half_overlap, NotAbove, s, t
<1> QED BY <1>3, <1>4 DEF pe, pl, qe, ql

-----------------------------------------------------------------------------
(* Before is the one relation left exactly where the regions do not meet   *)
(* and the first ends first.                                               *)
Possible(p, q) == {r \in Regions!RelationNames : Regions!feasible(r, p, q)}

(* Only Before is possible exactly where one expression ends before the    *)
(* other begins.                                                           *)
LEMMA OnlyBefore ==
  ASSUME NEW p, NEW q, WellFormed(p), WellFormed(q), Regions!Known(p), Regions!Known(q)
  PROVE  Possible(p, q) = {"Before"} <=> Below(p.latest, q.earliest)
<1> DEFINE meets == Regions!intersects(p, q)
<1>1. /\ Ordered(p.earliest) /\ Ordered(p.latest) /\ ~Below(p.latest, p.earliest)
      /\ Ordered(q.earliest) /\ Ordered(q.latest) /\ ~Below(q.latest, q.earliest)
  BY KnownIsOrdered
<1>2. meets <=> ~Below(q.latest, p.earliest) /\ ~Below(p.latest, q.earliest)
  BY SameLine DEF Regions!intersects, NotAbove
<1>3. ASSUME Below(p.latest, q.earliest)
      PROVE  Possible(p, q) = {"Before"}
  <2>1. Below(p.earliest, q.latest)
    <3>1. Below(p.earliest, q.earliest)
      BY <1>1, <1>3, BelowOrders
    <3> QED BY <1>1, <3>1, BelowOrders
  <2>2. ~Below(q.earliest, p.latest)
    BY <1>1, <1>3, BelowOrders
  <2>3. ~meets
    BY <1>2, <1>3
  <2>4. /\ ~Regions!half_overlap(p.earliest, p.latest, q.earliest, q.latest)
        /\ ~Regions!half_overlap(q.earliest, q.latest, p.earliest, p.latest)
    BY <1>3, ApartNoOverlap
  <2>5. "Before" \in Regions!RelationNames /\ Regions!feasible("Before", p, q)
    BY <2>1, SameLine DEF Regions!RelationNames, Regions!feasible
  <2>6. ASSUME NEW r \in Regions!RelationNames, r # "Before"
        PROVE  ~Regions!feasible(r, p, q)
    BY <2>2, <2>3, <2>4, <2>6, SameLine DEF Regions!RelationNames, Regions!feasible
  <2> QED BY <2>5, <2>6 DEF Possible
<1>4. ASSUME Possible(p, q) = {"Before"}
      PROVE  Below(p.latest, q.earliest)
  <2>1. ~Regions!feasible("Equal", p, q) /\ ~Regions!feasible("After", p, q)
    BY <1>4 DEF Possible, Regions!RelationNames
  <2>2. ~meets /\ ~Below(q.earliest, p.latest)
    BY <2>1, SameLine DEF Regions!feasible
  <2>3. SUFFICES ASSUME Below(q.latest, p.earliest) PROVE FALSE
    BY <1>2, <2>2
  <2>4. Below(q.earliest, p.earliest)
    BY <1>1, <2>3, BelowOrders
  <2>5. Below(q.earliest, p.latest)
    BY <1>1, <2>4, BelowOrders
  <2> QED BY <2>2, <2>5
<1> QED BY <1>3, <1>4

(* And after, exactly where the second ends first.                         *)
LEMMA OnlyAfter ==
  ASSUME NEW p, NEW q, WellFormed(p), WellFormed(q), Regions!Known(p), Regions!Known(q)
  PROVE  Possible(p, q) = {"After"} <=> Below(q.latest, p.earliest)
<1> DEFINE meets == Regions!intersects(p, q)
<1>1. /\ Ordered(p.earliest) /\ Ordered(p.latest) /\ ~Below(p.latest, p.earliest)
      /\ Ordered(q.earliest) /\ Ordered(q.latest) /\ ~Below(q.latest, q.earliest)
  BY KnownIsOrdered
<1>2. meets <=> ~Below(q.latest, p.earliest) /\ ~Below(p.latest, q.earliest)
  BY SameLine DEF Regions!intersects, NotAbove
<1>3. ASSUME Below(q.latest, p.earliest)
      PROVE  Possible(p, q) = {"After"}
  <2>1. Below(q.earliest, p.latest)
    <3>1. Below(q.earliest, p.earliest)
      BY <1>1, <1>3, BelowOrders
    <3> QED BY <1>1, <3>1, BelowOrders
  <2>2. ~Below(p.earliest, q.latest)
    BY <1>1, <1>3, BelowOrders
  <2>3. ~meets
    BY <1>2, <1>3
  <2>4. /\ ~Regions!half_overlap(p.earliest, p.latest, q.earliest, q.latest)
        /\ ~Regions!half_overlap(q.earliest, q.latest, p.earliest, p.latest)
    BY <1>3, ApartNoOverlap
  <2>5. "After" \in Regions!RelationNames /\ Regions!feasible("After", p, q)
    BY <2>1, SameLine DEF Regions!RelationNames, Regions!feasible
  <2>6. ASSUME NEW r \in Regions!RelationNames, r # "After"
        PROVE  ~Regions!feasible(r, p, q)
    BY <2>2, <2>3, <2>4, <2>6, SameLine DEF Regions!RelationNames, Regions!feasible
  <2> QED BY <2>5, <2>6 DEF Possible
<1>4. ASSUME Possible(p, q) = {"After"}
      PROVE  Below(q.latest, p.earliest)
  <2>1. ~Regions!feasible("Equal", p, q) /\ ~Regions!feasible("Before", p, q)
    BY <1>4 DEF Possible, Regions!RelationNames
  <2>2. ~meets /\ ~Below(p.earliest, q.latest)
    BY <2>1, SameLine DEF Regions!feasible
  <2>3. SUFFICES ASSUME Below(p.latest, q.earliest) PROVE FALSE
    BY <1>2, <2>2
  <2>4. Below(p.earliest, q.earliest)
    BY <1>1, <2>3, BelowOrders
  <2>5. Below(p.earliest, q.latest)
    BY <1>1, <2>4, BelowOrders
  <2> QED BY <2>2, <2>5
<1> QED BY <1>3, <1>4

-----------------------------------------------------------------------------
(* The parser's comparison of two dates says what their relation says.     *)
LEMMA OrderIsAfter ==
  ASSUME NEW c, NEW d, WellFormed(date_bounds(c)), WellFormed(date_bounds(d))
  PROVE  dates_out_of_order(c, d) <=>
           Regions!relation(date_bounds(c), date_bounds(d))["After"] = "Definite"
<1> DEFINE p == date_bounds(c)
           q == date_bounds(d)
<1>1. "After" \in Regions!RelationNames
  BY DEF Regions!RelationNames
<1>2. CASE p = UnknownBounds \/ q = UnknownBounds
  <2>1. ~(Regions!Known(p) /\ Regions!Known(q))
    BY <1>2, SameLine DEF UnknownBounds, MkBounds, Regions!Known
  <2>2. Regions!relation(p, q)["After"] = "Possible"
    BY <1>1, <2>1 DEF Regions!relation, Regions!AllPossible
  <2>3. ~dates_out_of_order(c, d)
    BY <1>2 DEF dates_out_of_order, UnknownBounds, MkBounds, Unknown
  <2> QED BY <2>2, <2>3
<1>3. CASE p # UnknownBounds /\ q # UnknownBounds
  <2>1. PICK f, l : p = MkBounds(DayBound(f), DayBound(l))
    BY <1>3, DaysOrUnknown
  <2>2. PICK g, m : q = MkBounds(DayBound(g), DayBound(m))
    BY <1>3, DaysOrUnknown
  <2> HIDE DEF p, q
  <2>3. Regions!Known(p) /\ Regions!Known(q)
    BY <2>1, <2>2, SameLine DEF MkBounds, DayBound, Unknown, Regions!Known
  <2>4. Possible(p, q) = {"After"} <=> Below(q.latest, p.earliest)
    BY <2>3, OnlyAfter DEF p, q
  <2>5. Regions!relation(p, q)["After"] = "Definite" <=> Possible(p, q) = {"After"}
    BY <1>1, <2>3 DEF Regions!relation, Regions!from_possible, Possible
  <2>6. Below(q.latest, p.earliest) <=> dates_out_of_order(c, d)
    BY <2>1, <2>2 DEF p, q, Below, MkBounds, DayBound, dates_out_of_order
  <2> QED BY <2>4, <2>5, <2>6 DEF p, q
<1> QED BY <1>2, <1>3

-----------------------------------------------------------------------------
(* The labels of an answer, in terms of what is feasible.                  *)
DefinitelyBefore == Label("definitely", "Before")

(* The label definitely_before is given exactly where only Before is       *)
(* possible.                                                               *)
LEMMA LabelsOfKnown ==
  ASSUME NEW p, NEW q, Regions!Known(p), Regions!Known(q)
  PROVE  LET labels == edtf_relation(Regions!relation(p, q))
         IN  /\ DefinitelyBefore \in labels <=> Possible(p, q) = {"Before"}
             /\ labels = {DefinitelyBefore} <=> Possible(p, q) = {"Before"}
<1> DEFINE names == Regions!RelationNames
           answers == Regions!relation(p, q)
           adverb(r) == IF answers[r] = "Definite" THEN "definitely" ELSE "possibly"
           labels == {Label(adverb(r), r) : r \in {r \in names : answers[r] # "Impossible"}}
<1>1. answers = [r \in names |-> IF r \notin Possible(p, q) THEN "Impossible"
                                 ELSE IF Possible(p, q) = {r} THEN "Definite" ELSE "Possible"]
  BY DEF Regions!relation, Regions!from_possible, Possible
<1>2. edtf_relation(answers) = labels
  BY <1>1 DEF edtf_relation
<1> HIDE DEF answers
<1>3. \A r, s, u, v : Label(u, r) = Label(v, s) <=> u = v /\ r = s
  BY DEF Label
<1>4. "Before" \in names
  BY DEF Regions!RelationNames
<1>5. ASSUME Possible(p, q) = {"Before"}
      PROVE  labels = {DefinitelyBefore}
  <2>1. {r \in names : answers[r] # "Impossible"} = {"Before"} /\ adverb("Before") = "definitely"
    BY <1>1, <1>4, <1>5
  <2> HIDE DEF adverb
  <2> QED BY <2>1 DEF DefinitelyBefore
<1>6. ASSUME DefinitelyBefore \in labels
      PROVE  Possible(p, q) = {"Before"}
  <2>1. PICK r \in names : DefinitelyBefore = Label(adverb(r), r)
    BY <1>6
  <2>2. r = "Before" /\ adverb(r) = "definitely"
    BY <1>3, <2>1 DEF DefinitelyBefore
  <2>3. answers["Before"] = "Definite"
    BY <2>2
  <2> QED BY <1>1, <1>4, <2>3
<1> HIDE DEF labels
<1> QED BY <1>2, <1>5, <1>6 DEF answers

(* It is never given where a bound is unknown.                             *)
LEMMA LabelsOfUnknown ==
  ASSUME NEW p, NEW q, ~(Regions!Known(p) /\ Regions!Known(q))
  PROVE  DefinitelyBefore \notin edtf_relation(Regions!relation(p, q))
<1>1. Regions!relation(p, q) = [r \in Regions!RelationNames |-> "Possible"]
  BY DEF Regions!relation, Regions!AllPossible
<1>2. \A r, s, u, v : Label(u, r) = Label(v, s) <=> u = v /\ r = s
  BY DEF Label
<1>3. \A l \in edtf_relation(Regions!relation(p, q)) :
        \E r \in Regions!RelationNames : l = Label("possibly", r)
  BY <1>1 DEF edtf_relation
<1> QED BY <1>2, <1>3 DEF DefinitelyBefore

(* A bound becomes the date of the same place in the order, or NULL.       *)
LEMMA DateOfBound ==
  ASSUME NEW e, NEW zero \in BOOLEAN, Ordered(e)
  PROVE  to_pg_date(e, zero) \in {Null, Some(e)}
<1>1. CASE e \in {NegInf, PosInf}
  BY <1>1 DEF to_pg_date
<1>2. CASE e \notin {NegInf, PosInf}
  <2>1. e = DayBound(e.day) /\ e # Unknown
    BY <1>2 DEF Ordered, DayBound, Unknown
  <2>2. NewDate(e.day, zero) \in {Null, Some(e)}
    BY <2>1 DEF NewDate
  <2>3. to_pg_date(e, zero) = IF e.day[1] \in FirstPgYear..LastPgYear THEN NewDate(e.day, zero) ELSE Null
    BY <1>2, <2>1, Zenon DEF to_pg_date
  <2> QED BY <2>2, <2>3
<1> QED BY <1>1, <1>2

(* An unknown bound is NULL as a date of the database.                     *)
LEMMA UnknownIsNull ==
  ASSUME NEW zero
  PROVE  to_pg_date(Unknown, zero) = Null
BY DEF to_pg_date, Unknown, NegInf, PosInf

(* Dates of the database are in the order of the bounds they stand for.    *)
LEMMA DatesInOrder ==
  ASSUME NEW d, NEW e, NEW zero \in BOOLEAN, Ordered(d), Ordered(e),
         to_pg_date(d, zero) # Null, to_pg_date(e, zero) # Null
  PROVE  Less(to_pg_date(d, zero), to_pg_date(e, zero)) <=> Below(d, e)
<1>1. to_pg_date(d, zero) = Some(d) /\ to_pg_date(e, zero) = Some(e)
  BY DateOfBound
<1>2. Get(Some(d)) = d /\ Get(Some(e)) = e
  BY DEF Get, Some
<1>3. Some(d) # Null /\ Some(e) # Null
  BY <1>1
<1> QED BY <1>1, <1>2, <1>3 DEF Less

(* The label and the comparison of database dates agree, unless one is     *)
(* NULL.                                                                   *)
LEMMA DatesAgree ==
  ASSUME NEW p, NEW q, NEW zero \in BOOLEAN, WellFormed(p), WellFormed(q)
  PROVE  LET date(e) == to_pg_date(e, zero)
             labels == edtf_relation(Regions!relation(p, q))
             apart == Less(date(p.latest), date(q.earliest))
         IN  /\ DefinitelyBefore \in labels => apart \/ date(p.latest) = Null \/ date(q.earliest) = Null
             /\ Null \notin {date(p.earliest), date(p.latest), date(q.earliest), date(q.latest)} =>
                  (apart <=> labels = {DefinitelyBefore})
<1>1. CASE ~(Regions!Known(p) /\ Regions!Known(q))
  <2>1. Unknown \in {p.earliest, p.latest, q.earliest, q.latest}
    BY <1>1, SameLine DEF Regions!Known
  <2>2. Null \in {to_pg_date(p.earliest, zero), to_pg_date(p.latest, zero),
                  to_pg_date(q.earliest, zero), to_pg_date(q.latest, zero)}
    BY <2>1, UnknownIsNull
  <2> QED BY <1>1, <2>2, LabelsOfUnknown
<1>2. CASE Regions!Known(p) /\ Regions!Known(q)
  <2>1. Ordered(p.latest) /\ Ordered(q.earliest)
    BY <1>2, KnownIsOrdered
  <2>2. Possible(p, q) = {"Before"} <=> Below(p.latest, q.earliest)
    BY <1>2, OnlyBefore
  <2>3. /\ DefinitelyBefore \in edtf_relation(Regions!relation(p, q)) <=> Possible(p, q) = {"Before"}
        /\ edtf_relation(Regions!relation(p, q)) = {DefinitelyBefore} <=> Possible(p, q) = {"Before"}
    BY <1>2, LabelsOfKnown
  <2>4. to_pg_date(p.latest, zero) # Null /\ to_pg_date(q.earliest, zero) # Null =>
          (Less(to_pg_date(p.latest, zero), to_pg_date(q.earliest, zero)) <=> Below(p.latest, q.earliest))
    BY <2>1, DatesInOrder
  <2> QED BY <2>2, <2>3, <2>4
<1> QED BY <1>1, <1>2

-----------------------------------------------------------------------------
(* A consumer holds accepted expressions; an answer is the one to the pair *)
(* it holds.                                                               *)
Inv == /\ x \in Exprs /\ y \in Exprs
       /\ answer \in {Regions!NoAnswer, Regions!relation(bounds(x), bounds(y))}

(* The invariant holds always.                                             *)
LEMMA InvAlways == Spec => []Inv
<1>1. Init => Inv
  BY DEF Init, Inv
<1>2. Inv /\ [Next]_vars => Inv'
  <2> SUFFICES ASSUME Inv, [Next]_vars PROVE Inv'
    OBVIOUS
  <2>1. CASE Relate
    BY <2>1 DEF Relate, Inv
  <2>2. CASE Exchange
    BY <2>2 DEF Exchange, Inv
  <2>3. CASE UNCHANGED vars
    BY <2>3 DEF vars, Inv
  <2> QED BY <2>1, <2>2, <2>3 DEF Next
<1> QED BY <1>1, <1>2, PTL DEF Spec

(* What is held has well-formed bounds.                                    *)
LEMMA HeldWellFormed ==
  ASSUME Inv
  PROVE  /\ WellFormed(bounds(x)) /\ WellFormed(bounds(y))
         /\ Accepted(x) /\ Accepted(y)
BY ExprsAssumption, AcceptedWellFormed DEF Inv

(* Every expression the parser accepts, of every i64 width, has bounds     *)
(* relation() can compare: days that exist and whose year an i64 holds,    *)
(* the earliest not after the latest, an infinity only on its own side     *)
(* (bounds.rs Edtf::bounds, relation.rs Ext).                              *)
THEOREM TypeCorrect == Spec => []TypeOK
<1>1. Inv => TypeOK
  <2> SUFFICES ASSUME Inv PROVE TypeOK
    OBVIOUS
  <2>1. IsBounds(bounds(x), I64Min..I64Max) /\ IsBounds(bounds(y), I64Min..I64Max)
    BY HeldWellFormed DEF WellFormed, I64Years
  <2>2. \A p, q : DOMAIN Regions!relation(p, q) = Regions!RelationNames
    BY DEF Regions!relation, Regions!from_possible, Regions!AllPossible
  <2>3. DOMAIN answer = Regions!RelationNames
    BY <2>2 DEF Inv, Regions!NoAnswer
  <2> QED BY <2>1, <2>3 DEF TypeOK
<1> QED BY <1>1, InvAlways, PTL

(* The parser's order check and the relation say the same of any two dates *)
(* that are accepted by themselves (D18 and D23): an interval is refused   *)
(* exactly when its start is definitely after its end.                     *)
THEOREM AlwaysSameOrder == Spec => []OrderAgreesWithRelation
<1>1. Inv => OrderAgreesWithRelation
  <2> SUFFICES ASSUME Inv, answer # Regions!NoAnswer, x.type = "Date", y.type = "Date"
               PROVE  parse_interval(At(x.date), At(y.date)) <=> answer["After"] # "Definite"
    BY DEF OrderAgreesWithRelation
  <2>1. bounds(x) = date_bounds(x.date) /\ bounds(y) = date_bounds(y.date)
    BY Zenon DEF bounds
  <2>2. /\ WellFormed(date_bounds(x.date)) /\ WellFormed(date_bounds(y.date))
        /\ ValidDate(x.date) /\ ValidDate(y.date)
        /\ answer = Regions!relation(date_bounds(x.date), date_bounds(y.date))
    <3>1. ValidDate(x.date) /\ ValidDate(y.date)
      BY HeldWellFormed, Zenon DEF Accepted
    <3> QED BY <2>1, <3>1, HeldWellFormed DEF Inv
  <2>3. dates_out_of_order(x.date, y.date) <=> answer["After"] = "Definite"
    BY <2>2, OrderIsAfter
  <2>4. parse_interval(At(x.date), At(y.date)) <=> ~dates_out_of_order(x.date, y.date)
    BY <2>2 DEF parse_interval, ends_agree, is_dated, At
  <2> QED BY <2>3, <2>4
<1> QED BY <1>1, InvAlways, PTL

(* Whatever expressions a consumer holds and in whatever order it asks: a  *)
(* query that compares edtf_max with edtf_min finds "before" exactly where *)
(* edtf_relation says definitely_before, unless one of the dates is NULL;  *)
(* nothing is compared where a bound has no date (edtf-postgres lib.rs     *)
(* to_pg_date()).                                                          *)
THEOREM AlwaysAgree == Spec => []DatesAgreeWithLabels
<1>1. Inv => DatesAgreeWithLabels
  <2> SUFFICES ASSUME Inv, answer # Regions!NoAnswer, NEW zero \in BOOLEAN
               PROVE  LET definite == Label("definitely", "Before") \in edtf_relation(answer)
                          dates == {edtf_min(x, zero), edtf_max(x, zero), edtf_min(y, zero), edtf_max(y, zero)}
                          apart == Less(edtf_max(x, zero), edtf_min(y, zero))
                      IN  /\ definite => apart \/ edtf_max(x, zero) = Null \/ edtf_min(y, zero) = Null
                          /\ Null \notin dates => (apart <=> edtf_relation(answer) = {Label("definitely", "Before")})
    BY Zenon DEF DatesAgreeWithLabels
  <2>1. WellFormed(bounds(x)) /\ WellFormed(bounds(y)) /\ answer = Regions!relation(bounds(x), bounds(y))
    BY HeldWellFormed DEF Inv
  <2> QED BY <2>1, DatesAgree, Zenon DEF edtf_min, edtf_max, DefinitelyBefore
<1> QED BY <1>1, InvAlways, PTL
=============================================================================
