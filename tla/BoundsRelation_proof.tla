------------------------- MODULE BoundsRelation_proof -------------------------
(***************************************************************************)
(* Proofs about BoundsRelation, for every i64 width and every pair of      *)
(* regions an expression may have, over the whole day line.                *)
(***************************************************************************)
EXTENDS BoundsRelation, Bounds_proof

CalendarDays == Position("Day", Int)
BoundDays == Position("Day", Years)

NextDay(t) == successor("Day", t)
PrevDay(t) == IF t[3] > 1 THEN <<t[1], t[2], t[3] - 1>>
              ELSE IF t[2] > 1 THEN <<t[1], t[2] - 1, last_day(t[2] - 1, is_leap(t[1]))>>
              ELSE <<t[1] - 1, 12, 31>>

-----------------------------------------------------------------------------
(* What is used of a calendar day. *)
LEMMA DayParts ==
  ASSUME NEW t \in CalendarDays
  PROVE  /\ t = <<t[1], t[2], t[3]>>
         /\ t[1] \in Int /\ t[2] \in 1..12
         /\ last_day(t[2], is_leap(t[1])) \in 28..31
         /\ t[3] \in 1..last_day(t[2], is_leap(t[1]))
BY PositionIsTriple, LastDayBounds DEF CalendarDays, Position, IsDay

(* Three integers that name a day of the calendar form one. *)
LEMMA MakeDay ==
  ASSUME NEW y \in Int, NEW m \in 1..12, NEW d \in 1..last_day(m, is_leap(y))
  PROVE  <<y, m, d>> \in CalendarDays
BY LastDayBounds DEF CalendarDays, Position, IsDay

(* The days are totally ordered. *)
LEMMA DayOrder ==
  /\ \A s \in CalendarDays : ~Before(s, s)
  /\ \A s, t \in CalendarDays : Before(s, t) \/ s = t \/ Before(t, s)
  /\ \A s, t, u \in CalendarDays : Before(s, t) /\ Before(t, u) => Before(s, u)
BY PositionIsTriple, OrderTotal, OrderTransitive DEF CalendarDays

(* The day after: nothing lies between. *)
LEMMA NextDayFacts ==
  ASSUME NEW t \in CalendarDays
  PROVE  /\ NextDay(t) \in CalendarDays /\ Before(t, NextDay(t))
         /\ \A u \in CalendarDays : Before(u, NextDay(t)) <=> AtMost(u, t)
<1>1. "Day" \in Precisions
  BY DEF Precisions
<1>2. NextDay(t) \in CalendarDays
  BY <1>1, SuccessorIsPosition DEF NextDay, CalendarDays
<1>3. \A u \in CalendarDays : Before(u, NextDay(t)) <=> AtMost(u, t)
  BY <1>1, SuccessorIsNext DEF NextDay, CalendarDays
<1> QED BY <1>2, <1>3 DEF AtMost

(* The day before: nothing lies between. *)
LEMMA PrevDayFacts ==
  ASSUME NEW t \in CalendarDays
  PROVE  /\ PrevDay(t) \in CalendarDays /\ Before(PrevDay(t), t)
         /\ \A u \in CalendarDays : Before(PrevDay(t), u) <=> AtMost(t, u)
<1>1. /\ t = <<t[1], t[2], t[3]>> /\ t[1] \in Int /\ t[2] \in 1..12
      /\ last_day(t[2], is_leap(t[1])) \in 28..31
      /\ t[3] \in 1..last_day(t[2], is_leap(t[1]))
  BY DayParts
<1>2. PrevDay(t) \in CalendarDays
  <2>1. CASE t[3] > 1
    BY <1>1, <2>1, MakeDay DEF PrevDay
  <2>2. CASE t[3] <= 1 /\ t[2] > 1
    <3>1. last_day(t[2] - 1, is_leap(t[1])) \in 28..31
      BY LastDayBounds
    <3>2. <<t[1], t[2] - 1, last_day(t[2] - 1, is_leap(t[1]))>> \in CalendarDays
      BY <1>1, <2>2, <3>1, MakeDay
    <3> QED BY <1>1, <2>2, <3>2 DEF PrevDay
  <2>3. CASE t[3] <= 1 /\ t[2] <= 1
    <3>1. <<t[1] - 1, 12, 31>> \in CalendarDays
      BY <1>1, LastDayBounds, MakeDay
    <3> QED BY <1>1, <2>3, <3>1 DEF PrevDay
  <2> QED BY <1>1, <2>1, <2>2, <2>3
<1>3. ASSUME NEW u \in CalendarDays
      PROVE  Before(PrevDay(t), u) <=> AtMost(t, u)
  <2>1. /\ u = <<u[1], u[2], u[3]>> /\ u[1] \in Int /\ u[2] \in 1..12
        /\ u[3] \in 1..last_day(u[2], is_leap(u[1]))
        /\ last_day(u[2], is_leap(u[1])) \in 28..31
    BY DayParts
  <2>2. t = u <=> (t[1] = u[1] /\ t[2] = u[2] /\ t[3] = u[3])
    BY <1>1, <2>1
  <2>3. CASE t[3] > 1
    BY <1>1, <2>1, <2>2, <2>3 DEF PrevDay, Before, AtMost
  <2>4. CASE t[3] <= 1 /\ t[2] > 1
    <3> DEFINE l == last_day(t[2] - 1, is_leap(t[1]))
    <3>1. l \in 28..31 /\ (u[1] = t[1] /\ u[2] = t[2] - 1 => u[3] <= l)
      BY <1>1, <2>1, LastDayBounds
    <3>2. PrevDay(t) = <<t[1], t[2] - 1, l>>
      BY <1>1, <2>4 DEF PrevDay
    <3> HIDE DEF l
    <3> QED BY <1>1, <2>1, <2>2, <2>4, <3>1, <3>2 DEF Before, AtMost
  <2>5. CASE t[3] <= 1 /\ t[2] <= 1
    BY <1>1, <2>1, <2>2, <2>5 DEF PrevDay, Before, AtMost
  <2> QED BY <1>1, <2>3, <2>4, <2>5
<1> QED BY <1>2, <1>3 DEF AtMost

-----------------------------------------------------------------------------
(* The bounds a known region may have, and where a day stands to them.     *)
Low(x)  == x = NegInf \/ (x.at = "Day" /\ x = DayBound(x.day) /\ x.day \in BoundDays)
High(x) == x = PosInf \/ (x.at = "Day" /\ x = DayBound(x.day) /\ x.day \in BoundDays)

NotBeforeLow(x, p) == x = NegInf \/ AtMost(x.day, p)
AfterLow(x, p)     == x = NegInf \/ Before(x.day, p)
NotAfterHigh(p, x) == x = PosInf \/ AtMost(p, x.day)
BeforeHigh(p, x)   == x = PosInf \/ Before(p, x.day)

(* A day that bounds a region is a day of the calendar. *)
LEMMA BoundDaysAreDays == BoundDays \subseteq CalendarDays
BY QuestionsAssumption, PositionIsTriple DEF BoundDays, CalendarDays, Years

(* The order of bounds, read off the days. *)
LEMMA DayAgainstBound ==
  ASSUME NEW p \in CalendarDays, NEW x
  PROVE  /\ Low(x) => /\ NotAbove(x, DayBound(p)) <=> NotBeforeLow(x, p)
                      /\ Below(x, DayBound(p)) <=> AfterLow(x, p)
         /\ High(x) => /\ NotAbove(DayBound(p), x) <=> NotAfterHigh(p, x)
                       /\ Below(DayBound(p), x) <=> BeforeHigh(p, x)
BY DayOrder, BoundDaysAreDays
   DEF Low, High, NotAbove, Below, NotBeforeLow, AfterLow, NotAfterHigh, BeforeHigh,
       DayBound, NegInf, PosInf, AtMost

(* The same for a lower bound against an upper one. *)
LEMMA LowAgainstHigh ==
  ASSUME NEW x, NEW y, Low(x), High(y)
  PROVE  /\ NotAbove(x, y) <=> x = NegInf \/ y = PosInf \/ AtMost(x.day, y.day)
         /\ Below(x, y) <=> x = NegInf \/ y = PosInf \/ Before(x.day, y.day)
BY DayOrder, BoundDaysAreDays
   DEF Low, High, NotAbove, Below, DayBound, NegInf, PosInf, AtMost

-----------------------------------------------------------------------------
(* succ is the day after or, past the last representable day, the infinity *)
(* that no region reaches; pred mirrors it.                                *)
LEMMA SuccOfDay ==
  ASSUME NEW t \in BoundDays
  PROVE  \/ /\ NextDay(t) \in BoundDays
            /\ succ(DayBound(t)) = DayBound(NextDay(t))
         \/ /\ succ(DayBound(t)) = PosInf
            /\ \A u \in BoundDays : AtMost(u, t)
<1>1. t \in CalendarDays /\ t[1] \in Years
  BY QuestionsAssumption, PositionIsTriple DEF BoundDays, CalendarDays, Years
<1>2. /\ t = <<t[1], t[2], t[3]>> /\ t[1] \in Int /\ t[2] \in 1..12
      /\ last_day(t[2], is_leap(t[1])) \in 28..31
      /\ t[3] \in 1..last_day(t[2], is_leap(t[1]))
      /\ t[2] = 12 => last_day(t[2], is_leap(t[1])) = 31
  BY <1>1, DayParts, LastDayBounds
<1>3. DayBound(t).at = "Day" /\ DayBound(t).day = t
  BY DEF DayBound
<1>4. CASE t[3] = last_day(t[2], is_leap(t[1])) /\ t[2] = 12 /\ t[1] = MaxYear
  <2>1. succ(DayBound(t)) = PosInf
    BY <1>2, <1>3, <1>4 DEF succ
  <2>2. ASSUME NEW u \in BoundDays PROVE AtMost(u, t)
    <3>1. u \in CalendarDays /\ u[1] \in Years
      BY QuestionsAssumption, PositionIsTriple DEF BoundDays, CalendarDays, Years
    <3>2. /\ u = <<u[1], u[2], u[3]>> /\ u[1] \in Int /\ u[2] \in 1..12
          /\ last_day(u[2], is_leap(u[1])) \in 28..31
          /\ u[3] \in 1..last_day(u[2], is_leap(u[1]))
      BY <3>1, DayParts
    <3>3. u[1] <= MaxYear
      BY <3>1, QuestionsAssumption DEF Years
    <3> QED BY <1>2, <1>4, <3>2, <3>3, QuestionsAssumption DEF AtMost, Before
  <2> QED BY <2>1, <2>2
<1>5. CASE ~(t[3] = last_day(t[2], is_leap(t[1])) /\ t[2] = 12 /\ t[1] = MaxYear)
  <2>1. succ(DayBound(t)) = DayBound(NextDay(t))
    BY <1>2, <1>3, <1>5 DEF succ, NextDay, successor, next_month
  <2>2. NextDay(t)[1] \in Years
    BY <1>1, <1>2, <1>5, QuestionsAssumption DEF NextDay, successor, next_month, Years
  <2>3. NextDay(t) \in BoundDays
    BY <1>1, <2>2, NextDayFacts DEF BoundDays, CalendarDays, Position
  <2> QED BY <2>1, <2>3
<1> QED BY <1>4, <1>5

(* The mirror of SuccOfDay. *)
LEMMA PredOfDay ==
  ASSUME NEW t \in BoundDays
  PROVE  \/ /\ PrevDay(t) \in BoundDays
            /\ pred(DayBound(t)) = DayBound(PrevDay(t))
         \/ /\ pred(DayBound(t)) = NegInf
            /\ \A u \in BoundDays : AtMost(t, u)
<1>1. t \in CalendarDays /\ t[1] \in Years
  BY QuestionsAssumption, PositionIsTriple DEF BoundDays, CalendarDays, Years
<1>2. /\ t = <<t[1], t[2], t[3]>> /\ t[1] \in Int /\ t[2] \in 1..12
      /\ last_day(t[2], is_leap(t[1])) \in 28..31
      /\ t[3] \in 1..last_day(t[2], is_leap(t[1]))
  BY <1>1, DayParts
<1>3. DayBound(t).at = "Day" /\ DayBound(t).day = t
  BY DEF DayBound
<1>4. CASE t[3] = 1 /\ t[2] = 1 /\ t[1] = MinYear
  <2>1. pred(DayBound(t)) = NegInf
    BY <1>2, <1>3, <1>4 DEF pred
  <2>2. ASSUME NEW u \in BoundDays PROVE AtMost(t, u)
    <3>1. u \in CalendarDays /\ u[1] \in Years
      BY QuestionsAssumption, PositionIsTriple DEF BoundDays, CalendarDays, Years
    <3>2. /\ u = <<u[1], u[2], u[3]>> /\ u[1] \in Int /\ u[2] \in 1..12
          /\ last_day(u[2], is_leap(u[1])) \in 28..31
          /\ u[3] \in 1..last_day(u[2], is_leap(u[1]))
      BY <3>1, DayParts
    <3>3. u[1] >= MinYear
      BY <3>1, QuestionsAssumption DEF Years
    <3> QED BY <1>2, <1>4, <3>2, <3>3, QuestionsAssumption DEF AtMost, Before
  <2> QED BY <2>1, <2>2
<1>5. CASE ~(t[3] = 1 /\ t[2] = 1 /\ t[1] = MinYear)
  <2>1. pred(DayBound(t)) = DayBound(PrevDay(t))
    BY <1>2, <1>3, <1>5 DEF pred, PrevDay
  <2>2. PrevDay(t)[1] \in Years
    BY <1>1, <1>2, <1>5, QuestionsAssumption DEF PrevDay, Years
  <2>3. PrevDay(t) \in BoundDays
    BY <1>1, <2>2, PrevDayFacts DEF BoundDays, CalendarDays, Position
  <2> QED BY <2>1, <2>3
<1> QED BY <1>4, <1>5

-----------------------------------------------------------------------------
(* A place on the day line. *)
Ext(x) == Low(x) \/ High(x)

(* The order of bounds is total. *)
LEMMA ExtOrder ==
  /\ \A x : Ext(x) => NotAbove(x, x)
  /\ \A x, y : Ext(x) /\ Ext(y) => NotAbove(x, y) \/ NotAbove(y, x)
  /\ \A x, y, z : Ext(x) /\ Ext(y) /\ Ext(z) /\ NotAbove(x, y) /\ NotAbove(y, z)
                  => NotAbove(x, z)
BY DayOrder, BoundDaysAreDays DEF Ext, Low, High, NotAbove, Below, DayBound, NegInf, PosInf

(* A maximum is at most a minimum when each of the two is at most each.    *)
LEMMA MaxAgainstMin ==
  ASSUME NEW w, NEW x, NEW y, NEW z, Ext(w), Ext(x), Ext(y), Ext(z)
  PROVE  NotAbove(LaterOf(w, x), EarlierOf(y, z)) <=>
           NotAbove(w, y) /\ NotAbove(w, z) /\ NotAbove(x, y) /\ NotAbove(x, z)
<1>1. LaterOf(w, x) = IF NotAbove(x, w) THEN w ELSE x
  BY DEF LaterOf, NotAbove
<1>2. EarlierOf(y, z) = IF NotAbove(y, z) THEN y ELSE z
  BY DEF EarlierOf, NotAbove
<1> QED BY <1>1, <1>2, ExtOrder

(* The four comparisons in half_overlap, read off the days. *)
LEMMA FourComparisons ==
  ASSUME NEW lo_a, NEW hi_a, NEW lo_b, NEW hi_b, Low(lo_a), High(hi_a), Low(lo_b), High(hi_b)
  PROVE  half_overlap(lo_a, hi_a, lo_b, hi_b) <=>
           /\ lo_a = NegInf \/ hi_a = PosInf \/ Before(lo_a.day, hi_a.day)
           /\ lo_a = NegInf \/ hi_b = PosInf \/ Before(NextDay(lo_a.day), hi_b.day)
           /\ lo_b = NegInf \/ hi_a = PosInf \/ AtMost(lo_b.day, hi_a.day)
           /\ lo_b = NegInf \/ hi_b = PosInf \/ Before(lo_b.day, hi_b.day)
<1>1. succ(NegInf) = NegInf /\ pred(PosInf) = PosInf
  BY DEF succ, pred, NegInf, PosInf
<1>2. Ext(succ(lo_a)) /\ Ext(pred(hi_b)) /\ Ext(lo_b) /\ Ext(hi_a)
  <2>1. \A t \in BoundDays : Low(DayBound(t))
    BY DEF Low, DayBound
  <2>2. Ext(succ(lo_a))
    <3>1. lo_a # NegInf => Ext(succ(DayBound(lo_a.day)))
      BY <2>1, SuccOfDay DEF Ext, Low, High
    <3> QED BY <1>1, <3>1 DEF Ext, Low
  <2>3. Ext(pred(hi_b))
    <3>1. hi_b # PosInf => Ext(pred(DayBound(hi_b.day)))
      BY <2>1, PredOfDay DEF Ext, High, Low
    <3> QED BY <1>1, <3>1 DEF Ext, High
  <2> QED BY <2>2, <2>3 DEF Ext
<1>3. half_overlap(lo_a, hi_a, lo_b, hi_b) <=>
        /\ NotAbove(succ(lo_a), hi_a) /\ NotAbove(succ(lo_a), pred(hi_b))
        /\ NotAbove(lo_b, hi_a) /\ NotAbove(lo_b, pred(hi_b))
  BY <1>2, MaxAgainstMin DEF half_overlap
<1>4. NotAbove(succ(lo_a), hi_a) <=> lo_a = NegInf \/ hi_a = PosInf \/ Before(lo_a.day, hi_a.day)
  <2>1. CASE lo_a = NegInf
    BY <1>1, <2>1 DEF NotAbove, Below, NegInf
  <2>2. CASE lo_a # NegInf
    <3>1. lo_a.day \in BoundDays /\ lo_a = DayBound(lo_a.day) /\ lo_a.day \in CalendarDays
      BY <2>2, BoundDaysAreDays DEF Low
    <3>2. CASE succ(lo_a) = PosInf /\ \A u \in BoundDays : AtMost(u, lo_a.day)
      BY <2>2, <3>1, <3>2, DayOrder, BoundDaysAreDays
         DEF High, NotAbove, Below, DayBound, PosInf, AtMost
    <3>3. CASE NextDay(lo_a.day) \in BoundDays /\ succ(lo_a) = DayBound(NextDay(lo_a.day))
      <4>1. CASE hi_a = PosInf
        BY <3>3, <4>1 DEF NotAbove, Below, DayBound, PosInf
      <4>2. CASE hi_a # PosInf
        <5>1. hi_a = DayBound(hi_a.day) /\ hi_a.day \in CalendarDays
          BY <4>2, BoundDaysAreDays DEF High
        <5>2. NotAbove(succ(lo_a), hi_a) <=> ~Before(hi_a.day, NextDay(lo_a.day))
          BY <3>3, <5>1 DEF NotAbove, Below, DayBound
        <5>3. Before(hi_a.day, NextDay(lo_a.day)) <=> AtMost(hi_a.day, lo_a.day)
          BY <3>1, <5>1, NextDayFacts
        <5> QED BY <2>2, <3>1, <4>2, <5>1, <5>2, <5>3, DayOrder DEF AtMost
      <4> QED BY <4>1, <4>2
    <3> QED BY <3>1, <3>2, <3>3, SuccOfDay
  <2> QED BY <2>1, <2>2
<1>5. NotAbove(lo_b, pred(hi_b)) <=> lo_b = NegInf \/ hi_b = PosInf \/ Before(lo_b.day, hi_b.day)
  <2>1. CASE hi_b = PosInf
    BY <1>1, <2>1 DEF NotAbove, Below, PosInf
  <2>2. CASE hi_b # PosInf
    <3>1. hi_b.day \in BoundDays /\ hi_b = DayBound(hi_b.day) /\ hi_b.day \in CalendarDays
      BY <2>2, BoundDaysAreDays DEF High
    <3>2. CASE pred(hi_b) = NegInf /\ \A u \in BoundDays : AtMost(hi_b.day, u)
      BY <2>2, <3>1, <3>2, DayOrder, BoundDaysAreDays
         DEF Low, NotAbove, Below, DayBound, NegInf, AtMost
    <3>3. CASE PrevDay(hi_b.day) \in BoundDays /\ pred(hi_b) = DayBound(PrevDay(hi_b.day))
      <4>1. CASE lo_b = NegInf
        BY <3>3, <4>1 DEF NotAbove, Below, DayBound, NegInf
      <4>2. CASE lo_b # NegInf
        <5>1. lo_b = DayBound(lo_b.day) /\ lo_b.day \in CalendarDays
          BY <4>2, BoundDaysAreDays DEF Low
        <5>2. NotAbove(lo_b, pred(hi_b)) <=> ~Before(PrevDay(hi_b.day), lo_b.day)
          BY <3>3, <5>1 DEF NotAbove, Below, DayBound
        <5>3. Before(PrevDay(hi_b.day), lo_b.day) <=> AtMost(hi_b.day, lo_b.day)
          BY <3>1, <5>1, PrevDayFacts
        <5> QED BY <2>2, <3>1, <4>2, <5>1, <5>2, <5>3, DayOrder DEF AtMost
      <4> QED BY <4>1, <4>2
    <3> QED BY <3>1, <3>2, <3>3, PredOfDay
  <2> QED BY <2>1, <2>2
<1>6. NotAbove(succ(lo_a), pred(hi_b)) <=>
        lo_a = NegInf \/ hi_b = PosInf \/ Before(NextDay(lo_a.day), hi_b.day)
  <2>1. CASE lo_a = NegInf
    BY <1>1, <2>1 DEF NotAbove, Below, NegInf
  <2>2. CASE hi_b = PosInf
    BY <1>1, <2>2 DEF NotAbove, Below, PosInf
  <2>3. CASE lo_a # NegInf /\ hi_b # PosInf
    <3> DEFINE s == lo_a.day
               h == hi_b.day
    <3>1. /\ s \in BoundDays /\ lo_a = DayBound(s) /\ s \in CalendarDays
          /\ h \in BoundDays /\ hi_b = DayBound(h) /\ h \in CalendarDays
      BY <2>3, BoundDaysAreDays DEF Low, High
    <3>2. /\ NextDay(s) \in CalendarDays /\ Before(s, NextDay(s))
          /\ PrevDay(h) \in CalendarDays
          /\ Before(PrevDay(h), NextDay(s)) <=> AtMost(h, NextDay(s))
      BY <3>1, NextDayFacts, PrevDayFacts
    <3>3. CASE succ(lo_a) = PosInf /\ \A u \in BoundDays : AtMost(u, s)
      <4>1. ~Before(NextDay(s), h)
        BY <3>1, <3>2, <3>3, DayOrder DEF AtMost
      <4>2. pred(hi_b).at # "PosInf"
        <5>1. pred(hi_b) = NegInf \/ \E t : pred(hi_b) = DayBound(t)
          BY <3>1, PredOfDay
        <5> QED BY <5>1 DEF DayBound, NegInf
      <4>3. ~NotAbove(succ(lo_a), pred(hi_b))
        BY <1>2, <3>3, <4>2 DEF NotAbove, Below, PosInf, Ext, Low, High, NegInf, DayBound
      <4> QED BY <2>3, <4>1, <4>3
    <3>4. CASE pred(hi_b) = NegInf /\ \A u \in BoundDays : AtMost(h, u)
      <4>1. ~Before(NextDay(s), h)
        BY <3>1, <3>2, <3>4, DayOrder DEF AtMost
      <4>2. succ(lo_a).at # "NegInf"
        <5>1. succ(lo_a) = PosInf \/ \E t : succ(lo_a) = DayBound(t)
          BY <3>1, SuccOfDay
        <5> QED BY <5>1 DEF DayBound, PosInf
      <4>3. ~NotAbove(succ(lo_a), pred(hi_b))
        BY <3>4, <4>2 DEF NotAbove, Below, NegInf
      <4> QED BY <2>3, <4>1, <4>3
    <3>5. CASE succ(lo_a) = DayBound(NextDay(s)) /\ pred(hi_b) = DayBound(PrevDay(h))
      <4>1. NotAbove(succ(lo_a), pred(hi_b)) <=> ~Before(PrevDay(h), NextDay(s))
        BY <3>5 DEF NotAbove, Below, DayBound
      <4> QED BY <2>3, <3>1, <3>2, <4>1, DayOrder DEF AtMost
    <3> QED BY <3>1, <3>3, <3>4, <3>5, SuccOfDay, PredOfDay
  <2> QED BY <2>1, <2>2, <2>3
<1>7. NotAbove(lo_b, hi_a) <=> lo_b = NegInf \/ hi_a = PosInf \/ AtMost(lo_b.day, hi_a.day)
  BY LowAgainstHigh
<1> QED BY <1>3, <1>4, <1>5, <1>6, <1>7

(* relation.rs:337-339: half_overlap is exactly the existence of a day p   *)
(* that ends A and starts B, lo_a < p <= hi_a and lo_b <= p < hi_b.  The   *)
(* saturation of succ and pred costs nothing.                              *)
LEMMA HalfOverlapExact ==
  ASSUME NEW lo_a, NEW hi_a, NEW lo_b, NEW hi_b, Low(lo_a), High(hi_a), Low(lo_b), High(hi_b)
  PROVE  half_overlap(lo_a, hi_a, lo_b, hi_b) <=>
           \E p \in CalendarDays : /\ AfterLow(lo_a, p) /\ NotAfterHigh(p, hi_a)
                                   /\ NotBeforeLow(lo_b, p) /\ BeforeHigh(p, hi_b)
<1>1. /\ lo_a # NegInf => lo_a.day \in CalendarDays
      /\ hi_a # PosInf => hi_a.day \in CalendarDays
      /\ lo_b # NegInf => lo_b.day \in CalendarDays
      /\ hi_b # PosInf => hi_b.day \in CalendarDays
  BY BoundDaysAreDays DEF Low, High
<1>2. ASSUME NEW p \in CalendarDays,
             AfterLow(lo_a, p), NotAfterHigh(p, hi_a), NotBeforeLow(lo_b, p), BeforeHigh(p, hi_b)
      PROVE  half_overlap(lo_a, hi_a, lo_b, hi_b)
  <2>1. lo_a = NegInf \/ AtMost(NextDay(lo_a.day), p)
    <3>1. lo_a # NegInf => ~Before(p, NextDay(lo_a.day)) /\ NextDay(lo_a.day) \in CalendarDays
      BY <1>1, <1>2, NextDayFacts, DayOrder DEF AfterLow, AtMost
    <3> QED BY <1>2, <3>1, DayOrder DEF AtMost
  <2>2. lo_a # NegInf => NextDay(lo_a.day) \in CalendarDays
    BY <1>1, NextDayFacts
  <2>3. lo_a = NegInf \/ hi_a = PosInf \/ Before(lo_a.day, hi_a.day)
    BY <1>1, <1>2, DayOrder DEF AfterLow, NotAfterHigh, AtMost
  <2>4. lo_a = NegInf \/ hi_b = PosInf \/ Before(NextDay(lo_a.day), hi_b.day)
    BY <1>1, <1>2, <2>1, <2>2, DayOrder DEF BeforeHigh, AtMost
  <2>5. lo_b = NegInf \/ hi_a = PosInf \/ AtMost(lo_b.day, hi_a.day)
    BY <1>1, <1>2, DayOrder DEF NotBeforeLow, NotAfterHigh, AtMost
  <2>6. lo_b = NegInf \/ hi_b = PosInf \/ Before(lo_b.day, hi_b.day)
    BY <1>1, <1>2, DayOrder DEF NotBeforeLow, BeforeHigh, AtMost
  <2> QED BY <2>3, <2>4, <2>5, <2>6, FourComparisons
<1>3. ASSUME half_overlap(lo_a, hi_a, lo_b, hi_b)
      PROVE  \E p \in CalendarDays : /\ AfterLow(lo_a, p) /\ NotAfterHigh(p, hi_a)
                                     /\ NotBeforeLow(lo_b, p) /\ BeforeHigh(p, hi_b)
  <2>1. /\ lo_a = NegInf \/ hi_a = PosInf \/ Before(lo_a.day, hi_a.day)
        /\ lo_a = NegInf \/ hi_b = PosInf \/ Before(NextDay(lo_a.day), hi_b.day)
        /\ lo_b = NegInf \/ hi_a = PosInf \/ AtMost(lo_b.day, hi_a.day)
        /\ lo_b = NegInf \/ hi_b = PosInf \/ Before(lo_b.day, hi_b.day)
    BY <1>3, FourComparisons
  <2>2. CASE lo_a # NegInf /\ (lo_b = NegInf \/ AtMost(lo_b.day, NextDay(lo_a.day)))
    <3> DEFINE p == NextDay(lo_a.day)
    <3>1. p \in CalendarDays /\ Before(lo_a.day, p)
      BY <1>1, <2>2, NextDayFacts
    <3>2. hi_a = PosInf \/ AtMost(p, hi_a.day)
      <4>1. hi_a # PosInf => ~Before(hi_a.day, p)
        BY <1>1, <2>1, <2>2, NextDayFacts, DayOrder DEF AtMost
      <4> QED BY <1>1, <3>1, <4>1, DayOrder DEF AtMost
    <3>3. AfterLow(lo_a, p) /\ NotAfterHigh(p, hi_a) /\ NotBeforeLow(lo_b, p) /\ BeforeHigh(p, hi_b)
      BY <2>1, <2>2, <3>1, <3>2 DEF AfterLow, NotAfterHigh, NotBeforeLow, BeforeHigh
    <3> QED BY <3>1, <3>3
  <2>3. CASE lo_b # NegInf /\ (lo_a = NegInf \/ Before(NextDay(lo_a.day), lo_b.day))
    <3>1. lo_a = NegInf \/ Before(lo_a.day, lo_b.day)
      BY <1>1, <2>3, NextDayFacts, DayOrder
    <3>2. /\ AfterLow(lo_a, lo_b.day) /\ NotAfterHigh(lo_b.day, hi_a)
          /\ NotBeforeLow(lo_b, lo_b.day) /\ BeforeHigh(lo_b.day, hi_b)
      BY <2>1, <2>3, <3>1 DEF AfterLow, NotAfterHigh, NotBeforeLow, BeforeHigh, AtMost
    <3> QED BY <1>1, <2>3, <3>2
  <2>4. CASE lo_a = NegInf /\ lo_b = NegInf
    <3>1. PICK q \in CalendarDays : BeforeHigh(q, hi_b)
      <4>1. <<0, 1, 1>> \in CalendarDays
        BY MakeDay, LastDayBounds
      <4>2. hi_b # PosInf => /\ PrevDay(hi_b.day) \in CalendarDays
                             /\ Before(PrevDay(hi_b.day), hi_b.day)
        BY <1>1, PrevDayFacts
      <4> QED BY <4>1, <4>2 DEF BeforeHigh
    <3>2. CASE hi_a = PosInf \/ AtMost(q, hi_a.day)
      BY <2>4, <3>1, <3>2 DEF AfterLow, NotAfterHigh, NotBeforeLow
    <3>3. CASE hi_a # PosInf /\ Before(hi_a.day, q)
      <4>1. BeforeHigh(hi_a.day, hi_b)
        BY <1>1, <3>1, <3>3, DayOrder DEF BeforeHigh
      <4> QED BY <1>1, <2>4, <3>3, <4>1 DEF AfterLow, NotAfterHigh, NotBeforeLow, AtMost
    <3> QED BY <1>1, <3>2, <3>3, DayOrder DEF AtMost
  <2>5. lo_a # NegInf /\ lo_b # NegInf =>
          AtMost(lo_b.day, NextDay(lo_a.day)) \/ Before(NextDay(lo_a.day), lo_b.day)
    BY <1>1, NextDayFacts, DayOrder DEF AtMost
  <2> QED BY <2>2, <2>3, <2>4, <2>5
<1> QED BY <1>2, <1>3

-----------------------------------------------------------------------------
(* A region with known bounds, and the days in it.                         *)
Region(r) == Low(r.earliest) /\ High(r.latest) /\ NotAbove(r.earliest, r.latest)
Within(p, r) == NotBeforeLow(r.earliest, p) /\ NotAfterHigh(p, r.latest)

(* What the type of a known region amounts to. *)
LEMMA KnownRegion ==
  ASSUME NEW r, IsBounds(r, Years), Known(r)
  PROVE  Region(r)
BY DEF IsBounds, IsBound, Known, Region, Low, High, BoundDays

(* The bounds of a region, read off the days. *)
LEMMA RegionDays ==
  ASSUME NEW r, Region(r)
  PROVE  /\ r.earliest # NegInf => r.earliest.day \in CalendarDays
         /\ r.latest # PosInf => r.latest.day \in CalendarDays
         /\ r.earliest = NegInf \/ r.latest = PosInf \/ AtMost(r.earliest.day, r.latest.day)
BY BoundDaysAreDays, LowAgainstHigh DEF Region, Low, High

(* No region is empty. *)
LEMMA RegionNotEmpty ==
  ASSUME NEW r, Region(r)
  PROVE  \E p \in CalendarDays : Within(p, r)
<1>1. <<0, 1, 1>> \in CalendarDays
  BY MakeDay, LastDayBounds
<1> QED BY <1>1, RegionDays, DayOrder DEF Within, NotBeforeLow, NotAfterHigh, AtMost

(* A completion is an interval of days inside the region. *)
LEMMA CompletionIs ==
  ASSUME Timeline = CalendarDays, NEW r, Region(r)
  PROVE  /\ \A c \in Completions(r) :
              /\ c = [from |-> c.from, to |-> c.to]
              /\ c.from \in CalendarDays /\ c.to \in CalendarDays /\ AtMost(c.from, c.to)
              /\ NotBeforeLow(r.earliest, c.from) /\ NotAfterHigh(c.to, r.latest)
              /\ Within(c.from, r) /\ Within(c.to, r)
         /\ \A s, t \in CalendarDays :
              AtMost(s, t) /\ NotBeforeLow(r.earliest, s) /\ NotAfterHigh(t, r.latest)
                => [from |-> s, to |-> t] \in Completions(r)
<1>1. \A p \in CalendarDays :
        /\ NotAbove(r.earliest, DayBound(p)) <=> NotBeforeLow(r.earliest, p)
        /\ NotAbove(DayBound(p), r.latest) <=> NotAfterHigh(p, r.latest)
  BY DayAgainstBound DEF Region
<1>2. ASSUME NEW c \in Completions(r)
      PROVE  /\ c = [from |-> c.from, to |-> c.to]
             /\ c.from \in CalendarDays /\ c.to \in CalendarDays /\ AtMost(c.from, c.to)
             /\ NotBeforeLow(r.earliest, c.from) /\ NotAfterHigh(c.to, r.latest)
             /\ Within(c.from, r) /\ Within(c.to, r)
  <2>1. /\ c = [from |-> c.from, to |-> c.to]
        /\ c.from \in CalendarDays /\ c.to \in CalendarDays /\ AtMost(c.from, c.to)
        /\ NotAbove(r.earliest, DayBound(c.from)) /\ NotAbove(DayBound(c.to), r.latest)
    BY DEF Completions
  <2>2. NotBeforeLow(r.earliest, c.from) /\ NotAfterHigh(c.to, r.latest)
    BY <1>1, <2>1
  <2> QED BY <2>1, <2>2, RegionDays, DayOrder DEF Within, NotBeforeLow, NotAfterHigh, AtMost
<1>3. ASSUME NEW s \in CalendarDays, NEW t \in CalendarDays,
             AtMost(s, t), NotBeforeLow(r.earliest, s), NotAfterHigh(t, r.latest)
      PROVE  [from |-> s, to |-> t] \in Completions(r)
  BY <1>1, <1>3 DEF Completions
<1> QED BY <1>2, <1>3

-----------------------------------------------------------------------------
(* Before is feasible exactly when some completion of x ends before one of *)
(* y starts.                                                               *)
LEMMA BeforeExact ==
  ASSUME Timeline = CalendarDays, NEW x, NEW y, Region(x), Region(y)
  PROVE  Below(x.earliest, y.latest) <=>
           \E c \in Completions(x), d \in Completions(y) : Before(c.to, d.from)
<1>1. Below(x.earliest, y.latest) <=>
        x.earliest = NegInf \/ y.latest = PosInf \/ Before(x.earliest.day, y.latest.day)
  BY LowAgainstHigh DEF Region
<1>2. ASSUME NEW c \in Completions(x), NEW d \in Completions(y), Before(c.to, d.from)
      PROVE  Below(x.earliest, y.latest)
  BY <1>1, <1>2, CompletionIs, RegionDays, DayOrder DEF NotBeforeLow, NotAfterHigh, AtMost
<1>3. ASSUME Below(x.earliest, y.latest)
      PROVE  \E p, q \in CalendarDays : Within(p, x) /\ Within(q, y) /\ Before(p, q)
  <2>1. PICK p \in CalendarDays : Within(p, x)
    BY RegionNotEmpty
  <2>2. PICK q \in CalendarDays : Within(q, y)
    BY RegionNotEmpty
  <2>3. CASE Before(p, q)
    BY <2>1, <2>2, <2>3
  <2>4. CASE AtMost(q, p) /\ y.latest = PosInf
    <3>1. NextDay(p) \in CalendarDays /\ Before(p, NextDay(p))
      BY NextDayFacts
    <3>2. Within(NextDay(p), y)
      BY <2>2, <2>4, <3>1, RegionDays, DayOrder DEF Within, NotBeforeLow, NotAfterHigh, AtMost
    <3> QED BY <2>1, <3>1, <3>2
  <2>5. CASE AtMost(q, p) /\ x.earliest = NegInf
    <3>1. PrevDay(q) \in CalendarDays /\ Before(PrevDay(q), q)
      BY PrevDayFacts
    <3>2. Within(PrevDay(q), x)
      BY <2>1, <2>5, <3>1, RegionDays, DayOrder DEF Within, NotBeforeLow, NotAfterHigh, AtMost
    <3> QED BY <2>2, <3>1, <3>2
  <2>6. CASE y.latest # PosInf /\ x.earliest # NegInf
    <3>1. Before(x.earliest.day, y.latest.day)
      BY <1>1, <1>3, <2>6
    <3>2. Within(x.earliest.day, x) /\ Within(y.latest.day, y)
      BY <2>6, RegionDays, DayOrder DEF Within, NotBeforeLow, NotAfterHigh, AtMost
    <3> QED BY <2>6, <3>1, <3>2, RegionDays
  <2> QED BY <2>3, <2>4, <2>5, <2>6, DayOrder DEF AtMost
<1>4. ASSUME Below(x.earliest, y.latest)
      PROVE  \E c \in Completions(x), d \in Completions(y) : Before(c.to, d.from)
  <2>1. PICK p \in CalendarDays, q \in CalendarDays : Within(p, x) /\ Within(q, y) /\ Before(p, q)
    BY <1>3, <1>4
  <2>2. [from |-> p, to |-> p] \in Completions(x) /\ [from |-> q, to |-> q] \in Completions(y)
    BY <2>1, CompletionIs DEF Within, AtMost
  <2> QED BY <2>1, <2>2
<1> QED BY <1>2, <1>4

(* Two regions intersect when a day lies in both. *)
LEMMA IntersectsExact ==
  ASSUME NEW x, NEW y, Region(x), Region(y)
  PROVE  intersects(x, y) <=> \E p \in CalendarDays : Within(p, x) /\ Within(p, y)
<1>1. intersects(x, y) <=>
        /\ x.earliest = NegInf \/ y.latest = PosInf \/ AtMost(x.earliest.day, y.latest.day)
        /\ y.earliest = NegInf \/ x.latest = PosInf \/ AtMost(y.earliest.day, x.latest.day)
  BY LowAgainstHigh DEF Region, intersects
<1>2. ASSUME NEW p \in CalendarDays, Within(p, x), Within(p, y)
      PROVE  intersects(x, y)
  BY <1>1, <1>2, RegionDays, DayOrder DEF Within, NotBeforeLow, NotAfterHigh, AtMost
<1>3. ASSUME intersects(x, y)
      PROVE  \E p \in CalendarDays : Within(p, x) /\ Within(p, y)
  <2> USE DEF Within, NotBeforeLow, NotAfterHigh
  <2>1. PICK p \in CalendarDays : Within(p, x)
    BY RegionNotEmpty
  <2>2. PICK q \in CalendarDays : Within(q, y)
    BY RegionNotEmpty
  <2>3. CASE y.earliest # NegInf /\ Before(p, y.earliest.day)
    <3>1. Within(y.earliest.day, x) /\ Within(y.earliest.day, y)
      BY <1>1, <1>3, <2>1, <2>3, RegionDays, DayOrder DEF AtMost
    <3> QED BY <2>3, <3>1, RegionDays
  <2>4. CASE y.latest # PosInf /\ Before(y.latest.day, p)
    <3>1. Within(y.latest.day, x) /\ Within(y.latest.day, y)
      BY <1>1, <1>3, <2>1, <2>4, RegionDays, DayOrder DEF AtMost
    <3> QED BY <2>4, <3>1, RegionDays
  <2>5. CASE ~(y.earliest # NegInf /\ Before(p, y.earliest.day)) /\ ~(y.latest # PosInf /\ Before(y.latest.day, p))
    <3>1. Within(p, y)
      BY <2>5, RegionDays, DayOrder DEF AtMost
    <3> QED BY <2>1, <3>1
  <2> QED BY <2>3, <2>4, <2>5
<1> QED BY <1>2, <1>3

(* Equal is feasible exactly when some completion is shared.               *)
LEMMA EqualExact ==
  ASSUME Timeline = CalendarDays, NEW x, NEW y, Region(x), Region(y)
  PROVE  intersects(x, y) <=> \E c \in Completions(x), d \in Completions(y) : c = d
<1>1. ASSUME NEW c \in Completions(x), c \in Completions(y)
      PROVE  intersects(x, y)
  BY <1>1, CompletionIs, IntersectsExact
<1>2. ASSUME NEW p \in CalendarDays, Within(p, x), Within(p, y)
      PROVE  \E c \in Completions(x), d \in Completions(y) : c = d
  <2>1. [from |-> p, to |-> p] \in Completions(x) /\ [from |-> p, to |-> p] \in Completions(y)
    BY <1>2, CompletionIs DEF Within, AtMost
  <2> QED BY <2>1
<1> QED BY <1>1, <1>2, IntersectsExact

(* Contains is feasible exactly when some completion of x properly covers  *)
(* one of y.                                                               *)
LEMMA ContainsExact ==
  ASSUME Timeline = CalendarDays, NEW x, NEW y, Region(x), Region(y)
  PROVE  intersects(x, y) /\ Below(x.earliest, x.latest) <=>
           \E c \in Completions(x), d \in Completions(y) :
             c # d /\ AtMost(c.from, d.from) /\ AtMost(d.to, c.to)
<1>1. Below(x.earliest, x.latest) <=>
        x.earliest = NegInf \/ x.latest = PosInf \/ Before(x.earliest.day, x.latest.day)
  BY LowAgainstHigh DEF Region
<1>2. ASSUME NEW c \in Completions(x), NEW d \in Completions(y),
             c # d, AtMost(c.from, d.from), AtMost(d.to, c.to)
      PROVE  intersects(x, y) /\ Below(x.earliest, x.latest)
  <2>1. /\ c = [from |-> c.from, to |-> c.to] /\ c.from \in CalendarDays /\ c.to \in CalendarDays
        /\ d = [from |-> d.from, to |-> d.to] /\ d.from \in CalendarDays /\ d.to \in CalendarDays
        /\ AtMost(d.from, d.to) /\ Within(d.from, y)
        /\ NotBeforeLow(x.earliest, c.from) /\ NotAfterHigh(c.to, x.latest)
    BY CompletionIs
  <2>2. Within(d.from, x)
    BY <1>2, <2>1, RegionDays, DayOrder DEF Within, NotBeforeLow, NotAfterHigh, AtMost
  <2>3. c.from # d.from \/ c.to # d.to
    BY <1>2, <2>1
  <2>4. Before(c.from, c.to)
    BY <1>2, <2>1, <2>3, DayOrder DEF AtMost
  <2>5. Below(x.earliest, x.latest)
    BY <1>1, <2>1, <2>4, RegionDays, DayOrder DEF NotBeforeLow, NotAfterHigh, AtMost
  <2> QED BY <2>1, <2>2, <2>5, IntersectsExact
<1>3. ASSUME intersects(x, y), Below(x.earliest, x.latest)
      PROVE  \E c \in Completions(x), d \in Completions(y) :
               c # d /\ AtMost(c.from, d.from) /\ AtMost(d.to, c.to)
  <2>1. PICK p \in CalendarDays : Within(p, x) /\ Within(p, y)
    BY <1>3, IntersectsExact
  <2>2. [from |-> p, to |-> p] \in Completions(y)
    BY <2>1, CompletionIs DEF Within, AtMost
  <2>3. CASE x.latest = PosInf \/ Before(p, x.latest.day)
    <3> DEFINE n == NextDay(p)
    <3>1. n \in CalendarDays /\ Before(p, n) /\ p # n
      BY NextDayFacts, DayOrder
    <3>2. NotAfterHigh(n, x.latest)
      <4>1. x.latest # PosInf => ~Before(x.latest.day, n)
        BY <2>3, RegionDays, NextDayFacts, DayOrder DEF AtMost
      <4> QED BY <3>1, <4>1, RegionDays, DayOrder DEF NotAfterHigh, AtMost
    <3> HIDE DEF n
    <3>3. [from |-> p, to |-> n] \in Completions(x)
      BY <2>1, <3>1, <3>2, CompletionIs DEF Within, AtMost
    <3>4. [from |-> p, to |-> n] # [from |-> p, to |-> p]
      BY <3>1
    <3> QED BY <2>2, <3>1, <3>3, <3>4 DEF AtMost
  <2>4. CASE x.earliest = NegInf \/ Before(x.earliest.day, p)
    <3> DEFINE n == PrevDay(p)
    <3>1. n \in CalendarDays /\ Before(n, p) /\ p # n
      BY PrevDayFacts, DayOrder
    <3>2. NotBeforeLow(x.earliest, n)
      <4>1. x.earliest # NegInf => ~Before(n, x.earliest.day)
        BY <2>4, RegionDays, PrevDayFacts, DayOrder DEF AtMost
      <4> QED BY <3>1, <4>1, RegionDays, DayOrder DEF NotBeforeLow, AtMost
    <3> HIDE DEF n
    <3>3. [from |-> n, to |-> p] \in Completions(x)
      BY <2>1, <3>1, <3>2, CompletionIs DEF Within, AtMost
    <3>4. [from |-> n, to |-> p] # [from |-> p, to |-> p]
      BY <3>1
    <3> QED BY <2>2, <3>1, <3>3, <3>4 DEF AtMost
  <2> QED
    BY <1>1, <1>3, <2>1, <2>3, <2>4, RegionDays, DayOrder DEF Within, NotBeforeLow, NotAfterHigh, AtMost
<1> QED BY <1>2, <1>3

(* A half overlap is feasible exactly when some completion of x starts     *)
(* before one of y and ends inside it.                                     *)
LEMMA OverlapExact ==
  ASSUME Timeline = CalendarDays, NEW x, NEW y, Region(x), Region(y)
  PROVE  half_overlap(x.earliest, x.latest, y.earliest, y.latest) <=>
           \E c \in Completions(x), d \in Completions(y) :
             Before(c.from, d.from) /\ AtMost(d.from, c.to) /\ Before(c.to, d.to)
<1>1. half_overlap(x.earliest, x.latest, y.earliest, y.latest) <=>
        \E p \in CalendarDays :
          /\ AfterLow(x.earliest, p) /\ NotAfterHigh(p, x.latest)
          /\ NotBeforeLow(y.earliest, p) /\ BeforeHigh(p, y.latest)
  BY HalfOverlapExact DEF Region
<1>2. ASSUME NEW c \in Completions(x), NEW d \in Completions(y),
             Before(c.from, d.from), AtMost(d.from, c.to), Before(c.to, d.to)
      PROVE  half_overlap(x.earliest, x.latest, y.earliest, y.latest)
  <2>1. /\ c.from \in CalendarDays /\ c.to \in CalendarDays
        /\ d.from \in CalendarDays /\ d.to \in CalendarDays
        /\ NotBeforeLow(x.earliest, c.from) /\ NotAfterHigh(c.to, x.latest)
        /\ NotBeforeLow(y.earliest, d.from) /\ NotAfterHigh(d.to, y.latest)
    BY CompletionIs
  <2>2. /\ AfterLow(x.earliest, d.from) /\ NotAfterHigh(d.from, x.latest)
        /\ BeforeHigh(d.from, y.latest)
    BY <1>2, <2>1, RegionDays, DayOrder
       DEF AfterLow, NotBeforeLow, NotAfterHigh, BeforeHigh, AtMost
  <2> QED BY <1>1, <2>1, <2>2
<1>3. ASSUME NEW p \in CalendarDays,
             AfterLow(x.earliest, p), NotAfterHigh(p, x.latest),
             NotBeforeLow(y.earliest, p), BeforeHigh(p, y.latest)
      PROVE  \E c \in Completions(x), d \in Completions(y) :
               Before(c.from, d.from) /\ AtMost(d.from, c.to) /\ Before(c.to, d.to)
  <2> DEFINE s == PrevDay(p)
             t == NextDay(p)
  <2>1. s \in CalendarDays /\ t \in CalendarDays /\ Before(s, p) /\ Before(p, t)
    BY PrevDayFacts, NextDayFacts
  <2>2. NotBeforeLow(x.earliest, s)
    <3>1. x.earliest # NegInf => ~Before(s, x.earliest.day)
      BY <1>3, RegionDays, PrevDayFacts, DayOrder DEF AfterLow, AtMost
    <3> QED BY <2>1, <3>1, RegionDays, DayOrder DEF NotBeforeLow, AtMost
  <2>3. NotAfterHigh(t, y.latest)
    <3>1. y.latest # PosInf => ~Before(y.latest.day, t)
      BY <1>3, RegionDays, NextDayFacts, DayOrder DEF BeforeHigh, AtMost
    <3> QED BY <2>1, <3>1, RegionDays, DayOrder DEF NotAfterHigh, AtMost
  <2> HIDE DEF s, t
  <2>4. [from |-> s, to |-> p] \in Completions(x) /\ [from |-> p, to |-> t] \in Completions(y)
    BY <1>3, <2>1, <2>2, <2>3, CompletionIs DEF AtMost
  <2> QED BY <2>1, <2>4 DEF AtMost
<1> QED BY <1>1, <1>2, <1>3

-----------------------------------------------------------------------------
(* The six relations are exhaustive and mutually exclusive over intervals  *)
(* of days (relation.rs:74-76).                                            *)
LEMMA SixRelations ==
  ASSUME Timeline = CalendarDays, NEW x, NEW y, Region(x), Region(y),
         NEW c \in Completions(x), NEW d \in Completions(y)
  PROVE  \E r \in RelationNames : /\ Holds(r, c, d)
                                  /\ \A q \in RelationNames : Holds(q, c, d) => q = r
<1>1. /\ c = [from |-> c.from, to |-> c.to] /\ c.from \in CalendarDays /\ c.to \in CalendarDays
      /\ d = [from |-> d.from, to |-> d.to] /\ d.from \in CalendarDays /\ d.to \in CalendarDays
      /\ AtMost(c.from, c.to) /\ AtMost(d.from, d.to)
  BY CompletionIs
<1>2. c = d <=> c.from = d.from /\ c.to = d.to
  BY <1>1
<1> DEFINE Only(r) == Holds(r, c, d) /\ \A q \in RelationNames : Holds(q, c, d) => q = r
<1>3. CASE Before(c.to, d.from)
  <2>1. Only("Before")
    BY <1>1, <1>2, <1>3, DayOrder DEF Holds, RelationNames, AtMost
  <2> QED BY <2>1 DEF RelationNames
<1>4. CASE Before(d.to, c.from)
  <2>1. Only("After")
    BY <1>1, <1>2, <1>4, DayOrder DEF Holds, RelationNames, AtMost
  <2> QED BY <2>1 DEF RelationNames
<1>5. CASE c = d
  <2>1. Only("Equal")
    BY <1>1, <1>2, <1>5, DayOrder DEF Holds, RelationNames, AtMost
  <2> QED BY <2>1 DEF RelationNames
<1>6. CASE c # d /\ AtMost(c.from, d.from) /\ AtMost(d.to, c.to)
  <2>1. Only("Contains")
    BY <1>1, <1>2, <1>6, DayOrder DEF Holds, RelationNames, AtMost
  <2> QED BY <2>1 DEF RelationNames
<1>7. CASE c # d /\ AtMost(d.from, c.from) /\ AtMost(c.to, d.to)
  <2>1. Only("Within")
    BY <1>1, <1>2, <1>7, DayOrder DEF Holds, RelationNames, AtMost
  <2> QED BY <2>1 DEF RelationNames
<1>8. CASE \/ Before(c.from, d.from) /\ AtMost(d.from, c.to) /\ Before(c.to, d.to)
           \/ Before(d.from, c.from) /\ AtMost(c.from, d.to) /\ Before(d.to, c.to)
  <2>1. Only("Overlaps")
    BY <1>1, <1>2, <1>8, DayOrder DEF Holds, RelationNames, AtMost
  <2> QED BY <2>1 DEF RelationNames
<1>9. \/ Before(c.to, d.from) \/ Before(d.to, c.from) \/ c = d
      \/ c # d /\ AtMost(c.from, d.from) /\ AtMost(d.to, c.to)
      \/ c # d /\ AtMost(d.from, c.from) /\ AtMost(c.to, d.to)
      \/ Before(c.from, d.from) /\ AtMost(d.from, c.to) /\ Before(c.to, d.to)
      \/ Before(d.from, c.from) /\ AtMost(c.from, d.to) /\ Before(d.to, c.to)
  BY <1>1, DayOrder DEF AtMost
<1> QED BY <1>3, <1>4, <1>5, <1>6, <1>7, <1>8, <1>9

(* Each of the six tests in relation() decides whether some pair of        *)
(* completions has the relation.                                           *)
LEMMA FeasibleExact ==
  ASSUME Timeline = CalendarDays, NEW x, NEW y, Region(x), Region(y), NEW r \in RelationNames
  PROVE  feasible(r, x, y) <=> \E c \in Completions(x), d \in Completions(y) : Holds(r, c, d)
<1>1. intersects(x, y) <=> intersects(y, x)
  BY DEF intersects
<1>2. CASE r = "Before"
  BY <1>2, BeforeExact DEF feasible, Holds
<1>3. CASE r = "After"
  BY <1>3, BeforeExact DEF feasible, Holds
<1>4. CASE r = "Overlaps"
  BY <1>4, OverlapExact DEF feasible, Holds
<1>5. CASE r = "Contains"
  BY <1>5, ContainsExact DEF feasible, Holds
<1>6. CASE r = "Within"
  <2>1. feasible(r, x, y) <=> intersects(y, x) /\ Below(y.earliest, y.latest)
    BY <1>1, <1>6 DEF feasible
  <2>2. \A c, d : Holds(r, c, d) <=> d # c /\ AtMost(d.from, c.from) /\ AtMost(c.to, d.to)
    BY <1>6 DEF Holds
  <2> QED BY <2>1, <2>2, ContainsExact
<1>7. CASE r = "Equal"
  BY <1>7, EqualExact DEF feasible, Holds
<1> QED BY <1>2, <1>3, <1>4, <1>5, <1>6, <1>7 DEF RelationNames

(* Every region has a completion. *)
LEMMA CompletionExists ==
  ASSUME Timeline = CalendarDays, NEW x, Region(x)
  PROVE  \E c \in Completions(x) : TRUE
<1>1. PICK p \in CalendarDays : Within(p, x)
  BY RegionNotEmpty
<1>2. [from |-> p, to |-> p] \in Completions(x)
  BY <1>1, CompletionIs DEF Within, AtMost
<1> QED BY <1>2

(* relation() reports a relation impossible when no pair of completions    *)
(* has it and definite when every pair has.                                *)
LEMMA RelationHonest ==
  ASSUME Timeline = CalendarDays, NEW x, NEW y, Region(x), Region(y), Known(x), Known(y),
         NEW r \in RelationNames
  PROVE  /\ relation(x, y)[r] # "Impossible" <=>
               \E c \in Completions(x), d \in Completions(y) : Holds(r, c, d)
         /\ relation(x, y)[r] = "Definite" <=>
               \A c \in Completions(x), d \in Completions(y) : Holds(r, c, d)
<1> DEFINE P == {q \in RelationNames : feasible(q, x, y)}
<1>1. relation(x, y)[r] = IF r \notin P THEN "Impossible"
                          ELSE IF P = {r} THEN "Definite" ELSE "Possible"
  BY DEF relation, from_possible
<1>2. \A q \in RelationNames :
        q \in P <=> \E c \in Completions(x), d \in Completions(y) : Holds(q, c, d)
  BY FeasibleExact
<1>3. P \subseteq RelationNames
  OBVIOUS
<1> HIDE DEF P
<1>4. P = {r} <=> \A c \in Completions(x), d \in Completions(y) : Holds(r, c, d)
  <2>1. ASSUME P = {r}, NEW c \in Completions(x), NEW d \in Completions(y)
        PROVE  Holds(r, c, d)
    <3>1. PICK q \in RelationNames : Holds(q, c, d)
      BY SixRelations
    <3>2. q = r
      BY <1>2, <2>1, <3>1
    <3> QED BY <3>1, <3>2
  <2>2. ASSUME \A c \in Completions(x), d \in Completions(y) : Holds(r, c, d)
        PROVE  P = {r}
    <3>1. r \in P
      BY <1>2, <2>2, CompletionExists
    <3>2. ASSUME NEW q \in P PROVE q = r
      <4>1. PICK c \in Completions(x), d \in Completions(y) : Holds(q, c, d)
        BY <1>2, <1>3, <3>2
      <4>2. Holds(r, c, d)
        BY <2>2
      <4> QED BY <1>3, <3>2, <4>1, <4>2, SixRelations
    <3> QED BY <3>1, <3>2
  <2> QED BY <2>1, <2>2
<1> QED BY <1>1, <1>2, <1>4

(* Overlaps, Contains and Within are never alone: wherever they are        *)
(* possible, Equal or another relation is possible too.                    *)
LEMMA NotAlone ==
  ASSUME NEW x, NEW y, Region(x), Region(y), NEW r \in {"Overlaps", "Contains", "Within"}
  PROVE  relation(x, y)[r] # "Definite"
<1>1. CASE ~(Known(x) /\ Known(y))
  BY <1>1 DEF relation, AllPossible, RelationNames
<1>2. CASE Known(x) /\ Known(y)
  <2>1. feasible(r, x, y) => feasible("Equal", x, y)
    <3>1. CASE r = "Overlaps"
      <4>1. feasible(r, x, y) => \E p \in CalendarDays : Within(p, x) /\ Within(p, y)
        BY <3>1, HalfOverlapExact, RegionDays, DayOrder
           DEF feasible, Region, Within, AfterLow, NotBeforeLow, NotAfterHigh, BeforeHigh, AtMost
      <4> QED BY <4>1, IntersectsExact DEF feasible
    <3>2. CASE r # "Overlaps"
      BY <3>2 DEF feasible
    <3> QED BY <3>1, <3>2
  <2>2. relation(x, y) = from_possible({q \in RelationNames : feasible(q, x, y)})
    BY <1>2 DEF relation
  <2>3. "Equal" \in RelationNames /\ r \in RelationNames /\ r # "Equal"
    BY DEF RelationNames
  <2> QED BY <2>1, <2>2, <2>3 DEF from_possible
<1> QED BY <1>1, <1>2

(* Exchanging the regions turns every relation into its converse.          *)
LEMMA ConverseFacts ==
  ASSUME NEW r \in RelationNames
  PROVE  /\ converse(r) \in RelationNames /\ converse(converse(r)) = r
         /\ \A x, y : feasible(r, x, y) <=> feasible(converse(r), y, x)
<1>1. \A x, y : intersects(x, y) <=> intersects(y, x)
  BY DEF intersects
<1>2. CASE r \in {"Before", "After", "Contains", "Within"}
  BY <1>1, <1>2 DEF converse, feasible, RelationNames
<1>3. CASE r = "Overlaps"
  BY <1>3 DEF converse, feasible, RelationNames
<1>4. CASE r = "Equal"
  BY <1>1, <1>4 DEF converse, feasible, RelationNames
<1> QED BY <1>2, <1>3, <1>4 DEF RelationNames

(* So relation(y, x) is relation(x, y) read through converse.              *)
LEMMA RelationMirrored ==
  ASSUME NEW x, NEW y, NEW r \in RelationNames
  PROVE  relation(x, y)[r] = relation(y, x)[converse(r)]
<1> DEFINE P == {q \in RelationNames : feasible(q, x, y)}
           Q == {q \in RelationNames : feasible(q, y, x)}
<1>1. \A q \in RelationNames : q \in P <=> converse(q) \in Q
  BY ConverseFacts
<1>2. \A q \in RelationNames : converse(q) \in RelationNames /\ converse(converse(q)) = q
  BY ConverseFacts
<1>3. P \subseteq RelationNames /\ Q \subseteq RelationNames
  OBVIOUS
<1>4. Known(x) /\ Known(y) => /\ relation(x, y) = from_possible(P)
                             /\ relation(y, x) = from_possible(Q)
  BY DEF relation
<1>5. ~(Known(x) /\ Known(y)) => relation(x, y) = AllPossible /\ relation(y, x) = AllPossible
  BY DEF relation
<1> HIDE DEF P, Q
<1>6. P = {r} <=> Q = {converse(r)}
  <2>1. ASSUME P = {r} PROVE Q = {converse(r)}
    <3>1. converse(r) \in Q
      BY <1>1, <2>1
    <3>2. ASSUME NEW q \in Q PROVE q = converse(r)
      <4>1. converse(q) \in P
        BY <1>1, <1>2, <1>3, <3>2
      <4> QED BY <1>2, <1>3, <2>1, <3>2, <4>1
    <3> QED BY <3>1, <3>2
  <2>2. ASSUME Q = {converse(r)} PROVE P = {r}
    <3>1. r \in P
      BY <1>1, <2>2
    <3>2. ASSUME NEW q \in P PROVE q = r
      <4>1. converse(q) = converse(r)
        BY <1>1, <1>3, <2>2, <3>2
      <4> QED BY <1>2, <1>3, <3>2, <4>1
    <3> QED BY <3>1, <3>2
  <2> QED BY <2>1, <2>2
<1>7. from_possible(P)[r] = from_possible(Q)[converse(r)]
  BY <1>1, <1>2, <1>6 DEF from_possible
<1>8. AllPossible[r] = AllPossible[converse(r)]
  BY <1>2 DEF AllPossible
<1> QED BY <1>4, <1>5, <1>7, <1>8

-----------------------------------------------------------------------------
(* The inductive invariant: the regions keep their shape whichever way     *)
(* round they stand, and a given answer is the one for them.               *)
IInv == /\ IsBounds(a, Years) /\ IsBounds(b, Years)
        /\ answer = NoAnswer \/ answer = relation(a, b)

(* The invariant holds throughout. *)
THEOREM IInvAlways == Spec => []IInv
<1>1. Init => IInv
  BY QuestionsAssumption DEF Init, IInv
<1>2. IInv /\ [Next]_vars => IInv'
  <2> SUFFICES ASSUME IInv, [Next]_vars PROVE IInv'
    OBVIOUS
  <2> USE DEF IInv
  <2>1. CASE Relate
    BY <2>1 DEF Relate, NoAnswer, Years
  <2>2. CASE Exchange
    BY <2>2 DEF Exchange, NoAnswer, RelationNames, Years
  <2>3. CASE UNCHANGED vars
    BY <2>3 DEF vars, NoAnswer, RelationNames, Years
  <2> QED BY <2>1, <2>2, <2>3 DEF Next
<1> QED BY <1>1, <1>2, PTL DEF Spec

(* The answer is always one modality for each of the six relations.        *)
THEOREM TypeCorrect == Spec => []TypeOK
<1>1. \A x, y : relation(x, y) \in [RelationNames -> {"Impossible", "Possible", "Definite"}]
  BY DEF relation, from_possible, AllPossible
<1>2. IInv => TypeOK
  BY <1>1 DEF IInv, TypeOK, NoAnswer
<1> QED BY <1>2, IInvAlways, PTL

(* D23 over the whole day line: the answer never asserts what some         *)
(* completions refute, and never denies what some completions have.        *)
THEOREM AnswersHonestly ==
  ASSUME Timeline = CalendarDays
  PROVE  Spec => []Honest
<1>1. IInv => Honest
  <2> SUFFICES ASSUME IInv, Answered, Known(a), Known(b), NEW r \in RelationNames
               PROVE  /\ answer[r] # "Impossible" <=>
                           \E c \in Completions(a), d \in Completions(b) : Holds(r, c, d)
                      /\ answer[r] = "Definite" <=>
                           \A c \in Completions(a), d \in Completions(b) : Holds(r, c, d)
    BY DEF Honest
  <2>1. Region(a) /\ Region(b) /\ answer = relation(a, b)
    BY KnownRegion DEF IInv, Answered
  <2> QED BY <2>1, RelationHonest
<1> QED BY <1>1, IInvAlways, PTL

(* Only before, after and equal are ever definite.                         *)
THEOREM ForcesNothing == Spec => []NeverForced
<1>1. IInv => NeverForced
  <2> SUFFICES ASSUME IInv, Answered, NEW r \in {"Overlaps", "Contains", "Within"}
               PROVE  answer[r] # "Definite"
    BY DEF NeverForced
  <2>1. answer = relation(a, b)
    BY DEF IInv, Answered
  <2>2. CASE Known(a) /\ Known(b)
    BY <2>1, <2>2, KnownRegion, NotAlone DEF IInv
  <2>3. CASE ~(Known(a) /\ Known(b))
    BY <2>1, <2>3 DEF relation, AllPossible, RelationNames
  <2> QED BY <2>2, <2>3
<1> QED BY <1>1, IInvAlways, PTL

(* relation(b, a) answers with the converses of relation(a, b).            *)
THEOREM AnswersMirrored == Spec => []Mirrored
<1>1. IInv => Mirrored
  BY RelationMirrored DEF IInv, Mirrored, Answered
<1> QED BY <1>1, IInvAlways, PTL
=============================================================================
