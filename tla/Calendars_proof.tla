---------------------------- MODULE Calendars_proof ----------------------------
(***************************************************************************)
(* The Julian Day Number arithmetic of edtf-calendars is exact for every   *)
(* year: the numbers count the days of both calendars, and the inversions  *)
(* undo them.                                                              *)
(***************************************************************************)
EXTENDS Calendars, TLAPS

(* Where a day falls in its era: the year and month counted from March,    *)
(* and the days since the first of March. *)
LEMMA EraOf ==
  ASSUME NEW y \in Int, NEW m \in 1..12
  PROVE  /\ m \in 1..2 => Era(y, m) = [year |-> y + 4799, month |-> m + 9]
         /\ m \in 3..12 => Era(y, m) = [year |-> y + 4800, month |-> m - 3]
<1>1. m \in 1..2 => (14 - m) \div 12 = 1
  OBVIOUS
<1>2. m \in 3..12 => (14 - m) \div 12 = 0
  OBVIOUS
<1> QED BY <1>1, <1>2 DEF Era

(* The months of an era begin where their lengths say, and the division by *)
(* 153 finds the month a day falls in. *)
LEMMA MonthStarts ==
  /\ before_month(0) = 0 /\ before_month(1) = 31 /\ before_month(2) = 61
  /\ before_month(3) = 92 /\ before_month(4) = 122 /\ before_month(5) = 153
  /\ before_month(6) = 184 /\ before_month(7) = 214 /\ before_month(8) = 245
  /\ before_month(9) = 275 /\ before_month(10) = 306 /\ before_month(11) = 337
BY DEF before_month

(* Days counted from the first of March of the year 0 of the era, and the  *)
(* place of a day when the March years around it begin at Y0 and Y1.       *)
julian_years(Y) == 365 * Y + Y \div 4
gregorian_years(Y) == 365 * Y + Y \div 4 - Y \div 100 + Y \div 400

julian_place(Y, e) == julian_years(Y) + e
gregorian_place(Y, e) == gregorian_years(Y) + e
century_place(q, c, f) == 146097 * q + 36524 * c + f

Place(m, d, Y0, Y1) == IF m \in 1..2 THEN d + before_month(m + 9) + Y0
                       ELSE d + before_month(m - 3) + Y1

JulianForm(y, m, d) ==
  julian_jdn(y, m, d) =
    Place(m, d, julian_years(y + 4799), julian_years(y + 4800)) - 32083
GregorianForm(y, m, d) ==
  gregorian_jdn(y, m, d) =
    Place(m, d, gregorian_years(y + 4799), gregorian_years(y + 4800)) - 32045

(* The day numbers of both calendars in closed form.                       *)
LEMMA JdnForms ==
  ASSUME NEW y \in Int, NEW m \in 1..12, NEW d \in Int
  PROVE  JulianForm(y, m, d) /\ GregorianForm(y, m, d)
<1> DEFINE Y == Era(y, m).year
           b == before_month(Era(y, m).month)
<1>1. /\ julian_jdn(y, m, d) = d + b + 365 * Y + Y \div 4 - 32083
      /\ gregorian_jdn(y, m, d) = d + b + 365 * Y + Y \div 4 - Y \div 100 + Y \div 400 - 32045
  BY DEF julian_jdn, gregorian_jdn
<1>2. CASE m \in 1..2
  <2>1. Era(y, m) = [year |-> y + 4799, month |-> m + 9]
    BY <1>2, EraOf
  <2>2. Y = y + 4799 /\ b = before_month(m + 9)
    BY <2>1
  <2>3. b \in Int
    BY <1>2, <2>2 DEF before_month
  <2> HIDE DEF Y, b
  <2> QED BY <1>1, <1>2, <2>2, <2>3 DEF Place, julian_years, gregorian_years, JulianForm, GregorianForm
<1>3. CASE m \in 3..12
  <2>1. Era(y, m) = [year |-> y + 4800, month |-> m - 3]
    BY <1>3, EraOf
  <2>2. Y = y + 4800 /\ b = before_month(m - 3)
    BY <2>1
  <2>3. b \in Int
    BY <1>3, <2>2 DEF before_month
  <2> HIDE DEF Y, b
  <2> QED BY <1>1, <1>3, <2>2, <2>3 DEF Place, julian_years, gregorian_years, JulianForm, GregorianForm
<1> QED BY <1>2, <1>3

(* The year beginning next March is as long as the February that ends it.  *)
LEMMA YearLengths ==
  ASSUME NEW y \in Int
  PROVE  /\ julian_years(y + 4800) =
              julian_years(y + 4799) + (IF is_julian_leap(y) THEN 366 ELSE 365)
         /\ gregorian_years(y + 4800) =
              gregorian_years(y + 4799) + (IF is_gregorian_leap(y) THEN 366 ELSE 365)
         /\ julian_years(y + 4799) \in Int /\ julian_years(y + 4800) \in Int
         /\ gregorian_years(y + 4799) \in Int /\ gregorian_years(y + 4800) \in Int
<1>1. (y + 4800) \div 4 = (y + 4799) \div 4 + (IF y % 4 = 0 THEN 1 ELSE 0)
  OBVIOUS
<1>2. (y + 4800) \div 100 = (y + 4799) \div 100 + (IF y % 100 = 0 THEN 1 ELSE 0)
  OBVIOUS
<1>3. (y + 4800) \div 400 = (y + 4799) \div 400 + (IF y % 400 = 0 THEN 1 ELSE 0)
  OBVIOUS
<1>4. (y % 100 = 0 => y % 4 = 0) /\ (y % 400 = 0 => y % 100 = 0)
  OBVIOUS
<1> QED BY <1>1, <1>2, <1>3, <1>4
        DEF julian_years, gregorian_years, is_julian_leap, is_gregorian_leap

(* Tomorrow is one place on, in any calendar whose March years are as long *)
(* as the February that ends them.                                         *)
YearSpans(Y0, Y1, leap) ==
  Y0 \in Int /\ Y1 \in Int /\ Y1 = Y0 + (IF leap THEN 366 ELSE 365)
NextPlace(y, m, d, Y0, Y1, t) ==
  \/ t[1] = y /\ Place(t[2], t[3], Y0, Y1) = Place(m, d, Y0, Y1) + 1
  \/ t = <<y + 1, 1, 1>> /\ 1 + before_month(10) + Y1 = Place(m, d, Y0, Y1) + 1

(* Where the day after a day stands: in its month, its year, or the next   *)
(* year.                                                                   *)
LEMMA DayAfterPlace ==
  ASSUME NEW y \in Int, NEW m \in 1..12, NEW leap \in BOOLEAN,
         NEW d \in 1..last_day(m, leap), NEW Y0, NEW Y1, YearSpans(Y0, Y1, leap)
  PROVE  NextPlace(y, m, d, Y0, Y1, day_after(<<y, m, d>>, leap))
<1> DEFINE t == day_after(<<y, m, d>>, leap)
<1> SUFFICES NextPlace(y, m, d, Y0, Y1, t)
  OBVIOUS
<1>0. t = day_after(<<y, m, d>>, leap)
  OBVIOUS
<1> HIDE DEF t
<1>y. Y0 \in Int /\ Y1 \in Int /\ Y1 = Y0 + (IF leap THEN 366 ELSE 365)
  BY DEF YearSpans
<1>1. CASE d < last_day(m, leap)
  <2>1. t[1] = y /\ t[2] = m /\ t[3] = d + 1
    BY <1>0, <1>1 DEF day_after
  <2>2. (m \in 1..2 => before_month(m + 9) \in Int) /\ (m \in 3..12 => before_month(m - 3) \in Int)
    BY MonthStarts
  <2> QED BY <1>y, <2>1, <2>2 DEF Place, NextPlace
<1>2. CASE d = last_day(m, leap) /\ m < 12
  <2>1. t[1] = y /\ t[2] = m + 1 /\ t[3] = 1
    BY <1>0, <1>2 DEF day_after
  <2>2. CASE m = 1
    BY <1>y, <1>2, <2>1, <2>2, MonthStarts DEF Place, last_day, NextPlace
  <2>3. CASE m = 2
    BY <1>y, <1>2, <2>1, <2>3, MonthStarts DEF Place, last_day, NextPlace
  <2>4. CASE m \in 3..11
    BY <1>y, <1>2, <2>1, <2>4, MonthStarts DEF Place, last_day, NextPlace
  <2> QED BY <1>2, <2>2, <2>3, <2>4
<1>3. CASE d = last_day(m, leap) /\ m = 12
  BY <1>0, <1>y, <1>3, MonthStarts DEF day_after, Place, last_day, NextPlace
<1> QED BY <1>1, <1>2, <1>3 DEF last_day

(* The inversions.  Day e of the March year Y exists: day 365 only in a    *)
(* year that ends in a leap February.  The division by 1461 gives Y back   *)
(* and leaves e; the one by 153 gives the month. *)
InCycle(Y, e) == Y \in Int /\ e \in Int /\ 0 <= e /\ e <= 365 /\ (e = 365 => Y % 4 = 3)
Splits(c, Y, e) == (4 * c + 3) \div 1461 = Y /\ c - (1461 * Y) \div 4 = e
MonthIs(e, k) == k \in 0..11 /\ (5 * e + 2) \div 153 = k

(* A day of the era, cut into its March year and the day within it. *)
LEMMA FourYears ==
  ASSUME NEW Y, NEW e, InCycle(Y, e)
  PROVE  Splits(julian_place(Y, e), Y, e)
<1>0. Y \in Int /\ e \in Int /\ 0 <= e /\ e <= 365 /\ (e = 365 => Y % 4 = 3)
  BY DEF InCycle
<1>1. PICK q \in Int, r \in 0..3 : Y = 4 * q + r
  <2>1. Y = 4 * (Y \div 4) + (Y % 4) /\ Y \div 4 \in Int /\ Y % 4 \in 0..3
    BY <1>0
  <2> QED BY <2>1
<1>2. Y \div 4 = q /\ Y % 4 = r
  BY <1>0, <1>1
<1> DEFINE c == julian_years(Y) + e
<1>3. c = 1461 * q + 365 * r + e
  BY <1>0, <1>1, <1>2 DEF julian_years
<1>4. 4 * c + 3 = 1461 * Y + (4 * e + 3 - r) /\ 4 * e + 3 - r \in 0..1460
  BY <1>0, <1>1, <1>2, <1>3
<1>5. (4 * c + 3) \div 1461 = Y
  BY <1>0, <1>3, <1>4
<1>6. (1461 * Y) \div 4 = 1461 * q + 365 * r
  BY <1>0, <1>1
<1> QED BY <1>0, <1>1, <1>3, <1>5, <1>6 DEF julian_place, Splits

(* The month of a day of the March year. *)
LEMMA MonthOf ==
  ASSUME NEW k \in 0..11, NEW i \in Int, 0 <= i,
         k < 11 => before_month(k) + i < before_month(k + 1),
         k = 11 => i <= 28
  PROVE  (5 * (before_month(k) + i) + 2) \div 153 = k
BY MonthStarts

(* The place of a day in its March year, k months after March, and that    *)
(* such a day exists in a year that ends in a leap February, or does not.  *)
DayOfYear(k, d) == before_month(k) + d - 1
ExistsIn(k, d, leap) == d >= 1 /\ d <= last_day(IF k >= 10 THEN k - 9 ELSE k + 3, leap)

(* A day that exists has a place in the year, and the place has its month. *)
LEMMA DayOfYearBounds ==
  ASSUME NEW Y \in Int, NEW k \in 0..11, NEW d \in Int, NEW leap \in BOOLEAN,
         ExistsIn(k, d, leap), leap => Y % 4 = 3
  PROVE  /\ InCycle(Y, DayOfYear(k, d))
         /\ MonthIs(DayOfYear(k, d), k)
         /\ DayOfYear(k, d) - before_month(k) + 1 = d
         /\ DayOfYear(k, d) = 365 => leap
<1>1. /\ k < 11 => before_month(k) + (d - 1) < before_month(k + 1)
      /\ k = 11 => d <= 29 /\ (d = 29 => leap)
  BY MonthStarts DEF ExistsIn, last_day
<1>2. before_month(k) \in Int /\ d - 1 \in Int /\ 0 <= d - 1
  BY MonthStarts DEF ExistsIn
<1>3. (5 * (before_month(k) + (d - 1)) + 2) \div 153 = k
  BY <1>1, <1>2, MonthOf
<1>4. DayOfYear(k, d) = before_month(k) + (d - 1)
  BY <1>2 DEF DayOfYear
<1>5. DayOfYear(k, d) \in 0..365 /\ (DayOfYear(k, d) = 365 => leap)
  BY <1>1, <1>2, <1>4, MonthStarts
<1>6. DayOfYear(k, d) - before_month(k) + 1 = d
  BY <1>2, <1>4
<1> QED BY <1>3, <1>4, <1>5, <1>6 DEF InCycle, MonthIs

(* split undoes the count of days of a cycle of four years. *)
LEMMA SplitInverts ==
  ASSUME NEW Y, NEW e, NEW k, NEW d, InCycle(Y, e), MonthIs(e, k),
         e - before_month(k) + 1 = d
  PROVE  split(julian_place(Y, e)) =
           <<Y + k \div 10, k + 3 - 12 * (k \div 10), d>>
<1> DEFINE c == julian_place(Y, e)
<1>1. Splits(c, Y, e)
  BY FourYears
<1> HIDE DEF c
<1>2. (4 * c + 3) \div 1461 = Y /\ c - (1461 * Y) \div 4 = e /\ (5 * e + 2) \div 153 = k
  BY <1>1 DEF Splits, MonthIs
<1>3. split(c) = <<Y + k \div 10, k + 3 - 12 * (k \div 10), e - before_month(k) + 1>>
  BY <1>2 DEF split
<1> QED BY <1>3 DEF c

(* Day f of century s of a Gregorian cycle: only the last has a day 36524. *)
InCentury(q, s, f) ==
  q \in Int /\ s \in 0..3 /\ f \in Int /\ 0 <= f /\ f <= 36524 /\ (f = 36524 => s = 3)
Centesimal(a, n, f) == (4 * a + 3) \div 146097 = n /\ a - (146097 * n) \div 4 = f

(* A remainder below 146097 is lost in the division by it. *)
LEMMA WholeCenturies ==
  ASSUME NEW n \in Int, NEW w \in Int, 0 <= w, w <= 146096
  PROVE  (146097 * n + w) \div 146097 = n
OBVIOUS

(* A day of the era, cut into its century and the day within it. *)
LEMMA CenturyOf ==
  ASSUME NEW q, NEW s, NEW f, InCentury(q, s, f)
  PROVE  Centesimal(century_place(q, s, f), 4 * q + s, f)
<1>0. q \in Int /\ s \in 0..3 /\ f \in Int /\ 0 <= f /\ f <= 36524 /\ (f = 36524 => s = 3)
  BY DEF InCentury
<1>1. 4 * (146097 * q + 36524 * s + f) + 3 = 146097 * (4 * q + s) + (4 * f + (3 - s))
  BY <1>0
<1>2. 0 <= 4 * f + (3 - s) /\ 4 * f + (3 - s) <= 146096
  <2>1. 4 * f + 3 <= 146096 + s
    BY <1>0
  <2>2. 4 * f + (3 - s) >= 0
    BY <1>0
  <2> QED BY <1>0, <2>1, <2>2
<1>3. (4 * (146097 * q + 36524 * s + f) + 3) \div 146097 = 4 * q + s
  <2> DEFINE n == 4 * q + s
             w == 4 * f + (3 - s)
  <2>1. n \in Int /\ w \in Int
    BY <1>0
  <2> HIDE DEF n, w
  <2>2. (146097 * n + w) \div 146097 = n
    BY <1>2, <2>1, WholeCenturies DEF w
  <2> QED BY <1>1, <2>2 DEF n, w
<1>4. (146097 * (4 * q + s)) \div 4 = 146097 * q + 36524 * s
  BY <1>0
<1> QED BY <1>0, <1>3, <1>4 DEF century_place, Centesimal

(* A day of a Gregorian cycle: the division by 146097 gives the century,   *)
(* and what is left of the day is a day of the Julian cycle. *)
LEMMA Centuries ==
  ASSUME NEW Y \in Int, NEW e \in Int, InCycle(Y, e),
         e = 365 => (Y % 100 = 99 => Y % 400 = 399)
  PROVE  \E b \in Int : /\ Centesimal(gregorian_place(Y, e), b, julian_place(Y % 100, e))
                        /\ 100 * b + (Y % 100) = Y
<1>1. PICK q \in Int, s \in 0..3, r \in 0..99 : Y = 400 * q + 100 * s + r
  <2>1. PICK q \in Int, n \in 0..399 : Y = 400 * q + n
    <3>1. Y = 400 * (Y \div 400) + (Y % 400) /\ Y \div 400 \in Int /\ Y % 400 \in 0..399
      OBVIOUS
    <3> QED BY <3>1
  <2>2. PICK s \in 0..3, r \in 0..99 : n = 100 * s + r
    <3>1. n = 100 * (n \div 100) + (n % 100) /\ n \div 100 \in 0..3 /\ n % 100 \in 0..99
      OBVIOUS
    <3> QED BY <3>1
  <2>3. Y = 400 * q + 100 * s + r
    BY <2>1, <2>2
  <2> QED BY <2>1, <2>2, <2>3
<1>2. Y \div 400 = q /\ Y \div 100 = 4 * q + s /\ Y % 100 = r /\ Y % 400 = 100 * s + r
  BY <1>1
<1>3. Y \div 4 = 100 * q + 25 * s + r \div 4 /\ Y % 4 = r % 4
  BY <1>1
<1> DEFINE a == gregorian_place(Y, e)
           f == julian_place(r, e)
<1>4. f = 365 * r + r \div 4 + e
  BY DEF julian_place, julian_years
<1>5. a = century_place(q, s, f)
  <2>1. a = 365 * Y + Y \div 4 - Y \div 100 + Y \div 400 + e
    BY DEF gregorian_place, gregorian_years
  <2> HIDE DEF a, f
  <2> QED BY <1>1, <1>2, <1>3, <1>4, <2>1 DEF century_place
<1>6. f \in Int /\ 0 <= f /\ f <= 36524 /\ (f = 36524 => s = 3)
  <2> HIDE DEF f
  <2>0. 0 <= e /\ e <= 365 /\ (e = 365 => Y % 4 = 3)
    BY DEF InCycle
  <2>1. CASE r = 99
    <3>1. r \div 4 = 24 /\ r % 4 = 3 /\ (e = 365 => s = 3)
      BY <1>1, <1>2, <2>1
    <3> QED BY <1>4, <2>0, <2>1, <3>1
  <2>2. CASE r \in 96..98
    <3>1. r \div 4 = 24 /\ r % 4 # 3
      BY <2>2
    <3> QED BY <1>3, <1>4, <2>0, <2>2, <3>1
  <2>3. CASE r \in 0..95
    <3>1. r \div 4 \in 0..23
      BY <2>3
    <3> QED BY <1>4, <2>0, <2>3, <3>1
  <2> QED BY <2>1, <2>2, <2>3
<1> HIDE DEF a, f
<1>7. Centesimal(a, 4 * q + s, f)
  <2>1. InCentury(q, s, f)
    BY <1>1, <1>6 DEF InCentury
  <2> QED BY <1>5, <2>1, CenturyOf
<1>8. 100 * (4 * q + s) + r = Y
  BY <1>1
<1>9. 4 * q + s \in Int
  BY <1>1
<1> QED BY <1>2, <1>7, <1>8, <1>9 DEF a, f

-----------------------------------------------------------------------------
(* The March year and month of a date, and that its place exists there: a  *)
(* leap day matters only to the February that ends the March year.         *)
MarchYear(y, m) == IF m \in 1..2 THEN y + 4799 ELSE y + 4800
MarchMonth(m) == IF m \in 1..2 THEN m + 9 ELSE m - 3

LeapMatters(m, leap) == IF leap /\ MarchMonth(m) >= 10 THEN TRUE ELSE FALSE

OnMarch(y, m, d, Y, k, L) ==
  /\ Y \in Int /\ k \in 0..11 /\ L \in BOOLEAN
  /\ ExistsIn(k, d, L)
  /\ k >= 10 => Y = y + 4799
  /\ Y + k \div 10 - 4800 = y
  /\ k + 3 - 12 * (k \div 10) = m
  /\ \A Y0, Y1 : Place(m, d, Y0, Y1) =
       d + before_month(k) + (IF Y = y + 4799 THEN Y0 ELSE Y1)

(* Where a day stands in the year that begins in March.                    *)
LEMMA MarchPlace ==
  ASSUME NEW y \in Int, NEW m \in 1..12, NEW d \in Int, NEW leap \in BOOLEAN,
         d >= 1, d <= last_day(m, leap)
  PROVE  OnMarch(y, m, d, MarchYear(y, m), MarchMonth(m), LeapMatters(m, leap))
<1> DEFINE Y == MarchYear(y, m)
           k == MarchMonth(m)
           L == LeapMatters(m, leap)
<1>0. L \in BOOLEAN /\ (L <=> (leap /\ k >= 10))
  BY DEF LeapMatters
<1> SUFFICES OnMarch(y, m, d, Y, k, L)
  OBVIOUS
<1> HIDE DEF L
<1>1. CASE m \in 1..2
  <2>1. Y = y + 4799 /\ k = m + 9 /\ (m + 9) \div 10 = 1 /\ L = leap
    <3>1. Y = y + 4799 /\ k = m + 9 /\ (m + 9) \div 10 = 1 /\ k >= 10
      BY <1>1 DEF MarchYear, MarchMonth
    <3>2. L <=> leap
      BY <1>0, <3>1
    <3> QED BY <1>0, <3>1, <3>2
  <2>2. ExistsIn(k, d, L)
    BY <1>1, <2>1 DEF ExistsIn
  <2>3. \A Y0, Y1 : Place(m, d, Y0, Y1) = d + before_month(k) + Y0
    BY <1>1, <2>1 DEF Place
  <2>4. k + 3 - 12 * (k \div 10) = m /\ Y + k \div 10 - 4800 = y
    BY <1>1, <2>1
  <2>5. Y \in Int /\ k \in 0..11 /\ (k >= 10 => Y = y + 4799)
    BY <1>1, <2>1
  <2> HIDE DEF Y, k
  <2>6. \A Y0, Y1 : Place(m, d, Y0, Y1) =
          d + before_month(k) + (IF Y = y + 4799 THEN Y0 ELSE Y1)
    BY <2>1, <2>3
  <2> QED BY <1>0, <2>2, <2>4, <2>5, <2>6 DEF OnMarch
<1>2. CASE m \in 3..12
  <2>1. Y = y + 4800 /\ k = m - 3 /\ (m - 3) \div 10 = 0 /\ L = FALSE
    <3>1. Y = y + 4800 /\ k = m - 3 /\ (m - 3) \div 10 = 0 /\ ~(k >= 10)
      BY <1>2 DEF MarchYear, MarchMonth
    <3>2. ~L
      BY <1>0, <3>1
    <3> QED BY <1>0, <3>1, <3>2
  <2>2. ExistsIn(k, d, L)
    <3>1. (IF k >= 10 THEN k - 9 ELSE k + 3) = m
      BY <1>2, <2>1
    <3>2. last_day(m, leap) = last_day(m, L)
      BY <1>2 DEF last_day
    <3> QED BY <3>1, <3>2 DEF ExistsIn
  <2>3. \A Y0, Y1 : Place(m, d, Y0, Y1) = d + before_month(k) + Y1
    BY <1>2, <2>1 DEF Place
  <2>4. k + 3 - 12 * (k \div 10) = m /\ Y + k \div 10 - 4800 = y
    BY <1>2, <2>1
  <2>5. Y \in Int /\ k \in 0..11 /\ (k >= 10 => Y = y + 4799)
    BY <1>2, <2>1
  <2> HIDE DEF Y, k
  <2>6. \A Y0, Y1 : Place(m, d, Y0, Y1) =
          d + before_month(k) + (IF Y = y + 4799 THEN Y0 ELSE Y1)
    <3>1. Y # y + 4799
      BY <2>1
    <3> QED BY <2>3, <3>1
  <2> QED BY <1>0, <2>2, <2>4, <2>5, <2>6 DEF OnMarch
<1> QED BY <1>1, <1>2

(* jdn_to_julian undoes julian_jdn for every day of every year. *)
LEMMA JulianInverts ==
  ASSUME NEW y \in Int, NEW m \in 1..12, NEW d \in Int,
         d >= 1, d <= last_day(m, is_julian_leap(y))
  PROVE  jdn_to_julian(julian_jdn(y, m, d)) = <<y, m, d>> /\ julian_jdn(y, m, d) \in Int
<1> DEFINE leap == is_julian_leap(y)
<1>1. leap \in BOOLEAN
  BY DEF is_julian_leap
<1> DEFINE Y == MarchYear(y, m)
           k == MarchMonth(m)
           L == LeapMatters(m, leap)
           e == DayOfYear(k, d)
<1>2. /\ Y \in Int /\ k \in 0..11 /\ L \in BOOLEAN
      /\ ExistsIn(k, d, L)
      /\ k >= 10 => Y = y + 4799
      /\ Y + k \div 10 - 4800 = y
      /\ k + 3 - 12 * (k \div 10) = m
      /\ \A Y0, Y1 : Place(m, d, Y0, Y1) =
           d + before_month(k) + (IF Y = y + 4799 THEN Y0 ELSE Y1)
  <2> HIDE DEF leap
  <2>1. d <= last_day(m, leap)
    BY DEF leap
  <2>2. OnMarch(y, m, d, Y, k, L)
    BY <1>1, <2>1, MarchPlace
  <2> HIDE DEF Y, k, L
  <2> QED BY <2>2 DEF OnMarch
<1>y. Y = y + 4799 \/ Y = y + 4800
  BY DEF MarchYear
<1>z. L => leap /\ k >= 10
  BY DEF LeapMatters
<1> HIDE DEF Y, k, L
<1>3. L \in BOOLEAN /\ (L => Y % 4 = 3)
  BY <1>1, <1>2, <1>z DEF is_julian_leap
<1>4. /\ InCycle(Y, e) /\ MonthIs(e, k) /\ e - before_month(k) + 1 = d
  BY <1>2, <1>3, DayOfYearBounds
<1>5. before_month(k) \in Int /\ julian_years(Y) \in Int
  BY <1>2, MonthStarts DEF julian_years
<1>6. julian_jdn(y, m, d) = d + before_month(k) + julian_years(Y) - 32083
  <2>1. Place(m, d, julian_years(y + 4799), julian_years(y + 4800))
          = d + before_month(k) + julian_years(Y)
    BY <1>2, <1>y
  <2>2. julian_jdn(y, m, d) =
          Place(m, d, julian_years(y + 4799), julian_years(y + 4800)) - 32083
    <3>1. JulianForm(y, m, d)
      BY JdnForms
    <3> QED BY <3>1 DEF JulianForm
  <2> QED BY <1>5, <2>1, <2>2
<1>7. julian_jdn(y, m, d) + 32082 = julian_place(Y, e)
  BY <1>5, <1>6 DEF julian_place, DayOfYear
<1>8. split(julian_place(Y, e)) = <<Y + k \div 10, k + 3 - 12 * (k \div 10), d>>
  BY <1>4, SplitInverts
<1>9. split(julian_jdn(y, m, d) + 32082) = <<Y + k \div 10, m, d>>
  BY <1>2, <1>7, <1>8
<1> QED BY <1>2, <1>5, <1>6, <1>9 DEF jdn_to_julian

(* jdn_to_gregorian undoes gregorian_jdn for every day of every year. *)
LEMMA GregorianInverts ==
  ASSUME NEW y \in Int, NEW m \in 1..12, NEW d \in Int,
         d >= 1, d <= last_day(m, is_gregorian_leap(y))
  PROVE  /\ jdn_to_gregorian(gregorian_jdn(y, m, d)) = <<y, m, d>>
         /\ gregorian_jdn(y, m, d) \in Int
<1> DEFINE leap == is_gregorian_leap(y)
<1>1. leap \in BOOLEAN
  BY DEF is_gregorian_leap
<1> DEFINE Y == MarchYear(y, m)
           k == MarchMonth(m)
           L == LeapMatters(m, leap)
           e == DayOfYear(k, d)
<1>2. /\ Y \in Int /\ k \in 0..11 /\ L \in BOOLEAN
      /\ ExistsIn(k, d, L)
      /\ k >= 10 => Y = y + 4799
      /\ Y + k \div 10 - 4800 = y
      /\ k + 3 - 12 * (k \div 10) = m
      /\ \A Y0, Y1 : Place(m, d, Y0, Y1) =
           d + before_month(k) + (IF Y = y + 4799 THEN Y0 ELSE Y1)
  <2> HIDE DEF leap
  <2>1. d <= last_day(m, leap)
    BY DEF leap
  <2>2. OnMarch(y, m, d, Y, k, L)
    BY <1>1, <2>1, MarchPlace
  <2> HIDE DEF Y, k, L
  <2> QED BY <2>2 DEF OnMarch
<1>y. Y = y + 4799 \/ Y = y + 4800
  BY DEF MarchYear
<1>z. L => leap /\ k >= 10
  BY DEF LeapMatters
<1> HIDE DEF Y, k, L
<1>3. L \in BOOLEAN /\ (L => Y % 4 = 3 /\ (Y % 100 = 99 => Y % 400 = 399))
  <2>1. CASE L
    <3>1. Y = y + 4799 /\ y % 4 = 0 /\ (y % 100 # 0 \/ y % 400 = 0)
      BY <1>2, <1>z, <2>1 DEF is_gregorian_leap
    <3>2. Y % 4 = 3
      BY <3>1
    <3>3. Y % 100 = 99 => y % 100 = 0
      BY <3>1
    <3>4. y % 400 = 0 => Y % 400 = 399
      BY <3>1
    <3> QED BY <2>1, <3>1, <3>2, <3>3, <3>4
  <2> QED BY <1>2, <2>1
<1>4. /\ InCycle(Y, e) /\ MonthIs(e, k) /\ e - before_month(k) + 1 = d /\ (e = 365 => L)
  BY <1>2, <1>3, DayOfYearBounds
<1>5. before_month(k) \in Int /\ gregorian_years(Y) \in Int
  BY <1>2, MonthStarts DEF gregorian_years
<1>6. gregorian_jdn(y, m, d) = d + before_month(k) + gregorian_years(Y) - 32045
  <2>1. Place(m, d, gregorian_years(y + 4799), gregorian_years(y + 4800))
          = d + before_month(k) + gregorian_years(Y)
    BY <1>2, <1>y
  <2>2. gregorian_jdn(y, m, d) =
          Place(m, d, gregorian_years(y + 4799), gregorian_years(y + 4800)) - 32045
    <3>1. GregorianForm(y, m, d)
      BY JdnForms
    <3> QED BY <3>1 DEF GregorianForm
  <2> QED BY <1>5, <2>1, <2>2
<1>7. gregorian_jdn(y, m, d) + 32044 = gregorian_place(Y, e)
  BY <1>5, <1>6 DEF gregorian_place, DayOfYear
<1>8. e \in Int /\ (e = 365 => (Y % 100 = 99 => Y % 400 = 399))
  BY <1>3, <1>4 DEF InCycle
<1>9. PICK b \in Int : /\ Centesimal(gregorian_place(Y, e), b, julian_place(Y % 100, e))
                       /\ 100 * b + (Y % 100) = Y
  <2> HIDE DEF e
  <2> QED BY <1>2, <1>4, <1>8, Centuries
<1>10. InCycle(Y % 100, e)
  <2>1. (Y % 100) % 4 = Y % 4 /\ Y % 100 \in Int
    BY <1>2
  <2> QED BY <1>4, <2>1 DEF InCycle
<1>11. split(julian_place(Y % 100, e)) = <<(Y % 100) + k \div 10, m, d>>
  BY <1>2, <1>4, <1>10, SplitInverts
<1>12. jdn_to_gregorian(gregorian_jdn(y, m, d))
         = <<100 * b + ((Y % 100) + k \div 10) - 4800, m, d>>
  <2> DEFINE a == gregorian_jdn(y, m, d) + 32044
  <2>1. (4 * a + 3) \div 146097 = b /\ a - (146097 * b) \div 4 = julian_place(Y % 100, e)
    BY <1>7, <1>9 DEF Centesimal
  <2> HIDE DEF a, e
  <2> QED BY <1>11, <2>1 DEF jdn_to_gregorian, a
<1>13. 100 * b + ((Y % 100) + k \div 10) - 4800 = y
  BY <1>2, <1>9
<1> QED BY <1>5, <1>6, <1>12, <1>13

-----------------------------------------------------------------------------
(* Every number is some day's.  Day e of the March year Y is a day of the  *)
(* month k, counted from March: the day y, m, d.                           *)
DayNamed(Y, k, e, y, m, d) ==
  /\ y = IF k >= 10 THEN Y - 4799 ELSE Y - 4800
  /\ m = IF k >= 10 THEN k - 9 ELSE k + 3
  /\ d = e - before_month(k) + 1

EndsLeap(e, leap) == e = 365 => leap

Counted(Y, e, leap, y, m, d) ==
  /\ d >= 1 /\ d <= last_day(m, leap)
  /\ julian_jdn(y, m, d) = julian_years(Y) + e - 32082
  /\ gregorian_jdn(y, m, d) = gregorian_years(Y) + e - 32044

InJulianYear(c, Y, e) == c = julian_years(Y) + e /\ EndsLeap(e, Y % 4 = 3)

InGregorianYear(a, Y, e) ==
  a = gregorian_years(Y) + e /\ EndsLeap(e, is_gregorian_leap(Y - 4799))

MonthHolds(k, e) ==
  k \in 0..11 /\ before_month(k) <= e /\ (k < 11 => e < before_month(k + 1))

(* A day of the year falls in one of its months.                           *)
LEMMA SomeMonth ==
  ASSUME NEW e \in 0..365
  PROVE  \E k \in 0..11 : MonthHolds(k, e)
<1>1. ASSUME NEW k \in 0..10, before_month(k) <= e, e < before_month(k + 1)
      PROVE  MonthHolds(k, e)
  BY <1>1 DEF MonthHolds
<1>2. ASSUME before_month(11) <= e PROVE MonthHolds(11, e)
  BY <1>2 DEF MonthHolds
<1>3. \/ before_month(11) <= e
      \/ \E k \in 0..10 : before_month(k) <= e /\ e < before_month(k + 1)
  <2> DEFINE within(k) == before_month(k) <= e /\ e < before_month(k + 1)
  <2>1. e \in 0..30 => within(0)
    BY MonthStarts
  <2>2. e \in 31..60 => within(1)
    BY MonthStarts
  <2>3. e \in 61..91 => within(2)
    BY MonthStarts
  <2>4. e \in 92..121 => within(3)
    BY MonthStarts
  <2>5. e \in 122..152 => within(4)
    BY MonthStarts
  <2>6. e \in 153..183 => within(5)
    BY MonthStarts
  <2>7. e \in 184..213 => within(6)
    BY MonthStarts
  <2>8. e \in 214..244 => within(7)
    BY MonthStarts
  <2>9. e \in 245..274 => within(8)
    BY MonthStarts
  <2>10. e \in 275..305 => within(9)
    BY MonthStarts
  <2>11. e \in 306..336 => within(10)
    BY MonthStarts
  <2>12. e \in 337..365 => before_month(11) <= e
    BY MonthStarts
  <2> HIDE DEF within
  <2>13. \E k \in 0..10 : within(k) \/ before_month(11) <= e
    BY <2>1, <2>2, <2>3, <2>4, <2>5, <2>6, <2>7, <2>8, <2>9, <2>10, <2>11, <2>12
  <2> QED BY <2>13 DEF within
<1> QED BY <1>1, <1>2, <1>3

(* The day y, m, d is that one, and exists when day 365 is only asked of a *)
(* leap year; both counts have it where the March year begins, e days on.  *)
LEMMA NamedDay ==
  ASSUME NEW Y \in Int, NEW k \in 0..11, NEW e \in 0..365, NEW leap \in BOOLEAN,
         NEW y \in Int, NEW m \in 1..12, NEW d \in Int,
         MonthHolds(k, e), EndsLeap(e, leap), DayNamed(Y, k, e, y, m, d)
  PROVE  Counted(Y, e, leap, y, m, d)
<1>0. e <= 365 /\ before_month(k) <= e /\ (k < 11 => e < before_month(k + 1))
  BY DEF MonthHolds
<1>b. before_month(k) \in Int
  BY <1>0 DEF before_month
<1>1. d >= 1 /\ d + before_month(k) = e + 1
  BY <1>0, <1>b DEF DayNamed
<1>2. d <= last_day(m, leap)
  BY <1>0, MonthStarts DEF last_day, EndsLeap, DayNamed
<1>3. /\ Place(m, d, julian_years(y + 4799), julian_years(y + 4800))
           = d + before_month(k) + julian_years(Y)
      /\ Place(m, d, gregorian_years(y + 4799), gregorian_years(y + 4800))
           = d + before_month(k) + gregorian_years(Y)
  <2>1. CASE k >= 10
    <3>1. m <= 2 /\ y + 4799 = Y /\ m + 9 = k
      BY <2>1 DEF DayNamed
    <3> QED BY <3>1 DEF Place
  <2>2. CASE ~(k >= 10)
    <3>1. ~(m <= 2) /\ y + 4800 = Y /\ m - 3 = k
      BY <2>2 DEF DayNamed
    <3> QED BY <3>1 DEF Place
  <2> QED BY <2>1, <2>2
<1>4. JulianForm(y, m, d) /\ GregorianForm(y, m, d)
  BY JdnForms
<1>5. /\ julian_jdn(y, m, d) = julian_years(Y) + e - 32082
      /\ gregorian_jdn(y, m, d) = gregorian_years(Y) + e - 32044
  BY <1>1, <1>3, <1>4, <1>b, SMT DEF julian_years, gregorian_years, JulianForm, GregorianForm
<1> QED BY <1>1, <1>2, <1>5 DEF Counted

(* A number cut into cycles of four centuries, and a cycle into centuries, *)
(* of which only the last has a day 36524.                                 *)
LEMMA CycleOf ==
  ASSUME NEW a \in Int
  PROVE  \E q \in Int, v \in Int : a = 146097 * q + v /\ 0 <= v /\ v <= 146096
<1> DEFINE q == a \div 146097
           v == a % 146097
<1>1. a = 146097 * q + v
  BY SMT
<1>2. q \in Int /\ v \in Int
  BY SMT
<1>3. 0 <= v /\ v <= 146096
  BY SMT
<1> HIDE DEF q, v
<1> QED BY <1>1, <1>2, <1>3, SMT

(* The centuries of a cycle.                                               *)
LEMMA CenturyIn ==
  ASSUME NEW v \in Int, 0 <= v, v <= 146096
  PROVE  \E s \in 0..3, f \in Int : v = 36524 * s + f /\ 0 <= f /\ f <= 36524 /\ (f = 36524 => s = 3)
<1> DEFINE cut(s, f) == v = 36524 * s + f /\ 0 <= f /\ f <= 36524 /\ (f = 36524 => s = 3)
<1>1. CASE v <= 36523
  <2>1. cut(0, v)
    BY <1>1, SMT
  <2> QED BY <2>1, SMT
<1>2. CASE 36524 <= v /\ v <= 73047
  <2>1. cut(1, v - 36524) /\ v - 36524 \in Int
    BY <1>2, SMT
  <2> QED BY <2>1, SMT
<1>3. CASE 73048 <= v /\ v <= 109571
  <2>1. cut(2, v - 73048) /\ v - 73048 \in Int
    BY <1>3, SMT
  <2> QED BY <2>1, SMT
<1>4. CASE 109572 <= v
  <2>1. cut(3, v - 109572) /\ v - 109572 \in Int
    BY <1>4, SMT
  <2> QED BY <2>1, SMT
<1> QED BY <1>1, <1>2, <1>3, <1>4, SMT

(* A century cut into cycles of four years, and one of these into years,   *)
(* of which only the last has a day 365.                                   *)
LEMMA FourYearsIn ==
  ASSUME NEW f \in Int, 0 <= f, f <= 36524
  PROVE  \E t \in 0..24, w \in Int : f = 1461 * t + w /\ 0 <= w /\ w <= 1460
<1> DEFINE t == f \div 1461
           w == f % 1461
<1>1. f = 1461 * t + w
  BY SMT
<1>2. t \in Int /\ 0 <= t /\ t <= 24 /\ w \in Int
  BY SMT
<1>3. 0 <= w /\ w <= 1460
  BY SMT
<1> HIDE DEF t, w
<1> QED BY <1>1, <1>2, <1>3, SMT

(* The years of such a cycle.                                              *)
LEMMA YearIn ==
  ASSUME NEW w \in Int, 0 <= w, w <= 1460
  PROVE  \E r \in 0..3, e \in 0..365 : w = 365 * r + e /\ (e = 365 => r = 3)
<1> DEFINE cut(r, e) == w = 365 * r + e /\ e \in 0..365 /\ (e = 365 => r = 3)
<1>1. CASE w <= 364
  <2>1. cut(0, w)
    BY <1>1, SMT
  <2> QED BY <2>1, SMT
<1>2. CASE 365 <= w /\ w <= 729
  <2>1. cut(1, w - 365)
    BY <1>2, SMT
  <2> QED BY <2>1, SMT
<1>3. CASE 730 <= w /\ w <= 1094
  <2>1. cut(2, w - 730)
    BY <1>3, SMT
  <2> QED BY <2>1, SMT
<1>4. CASE 1095 <= w
  <2>1. cut(3, w - 1095)
    BY <1>4, SMT
  <2> QED BY <2>1, SMT
<1> QED BY <1>1, <1>2, <1>3, <1>4, SMT

(* Each number is in a March year of the Julian calendar.                  *)
LEMMA JulianYearOf ==
  ASSUME NEW c \in Int
  PROVE  \E Y \in Int, e \in 0..365 : InJulianYear(c, Y, e)
<1>1. PICK q \in Int, w \in Int : c = 1461 * q + w /\ 0 <= w /\ w <= 1460
  <2> DEFINE q == c \div 1461
             w == c % 1461
  <2>1. c = 1461 * q + w /\ q \in Int /\ w \in Int
    BY SMT
  <2>2. 0 <= w /\ w <= 1460
    BY SMT
  <2> HIDE DEF q, w
  <2> QED BY <2>1, <2>2
<1>2. PICK r \in 0..3, e \in 0..365 : w = 365 * r + e /\ (e = 365 => r = 3)
  BY <1>1, YearIn
<1> DEFINE Y == 4 * q + r
<1>3. Y \in Int /\ Y \div 4 = q /\ Y % 4 = r
  BY <1>1
<1>4. c = 365 * Y + q + e
  BY <1>1, <1>2
<1> HIDE DEF Y
<1>5. c = julian_years(Y) + e
  BY <1>1, <1>3, <1>4 DEF julian_years
<1>6. EndsLeap(e, Y % 4 = 3)
  BY <1>2, <1>3 DEF EndsLeap
<1>7. InJulianYear(c, Y, e)
  BY <1>5, <1>6 DEF InJulianYear
<1> QED BY <1>3, <1>7

(* And in one of the Gregorian calendar, whose day 365 is only in a year   *)
(* that ends in a leap February.                                           *)
LEMMA GregorianYearOf ==
  ASSUME NEW a \in Int
  PROVE  \E Y \in Int, e \in 0..365 : InGregorianYear(a, Y, e)
<1>1. PICK q \in Int, v \in Int : a = 146097 * q + v /\ 0 <= v /\ v <= 146096
  BY CycleOf
<1>2. PICK s \in 0..3, f \in Int : v = 36524 * s + f /\ 0 <= f /\ f <= 36524 /\ (f = 36524 => s = 3)
  BY <1>1, CenturyIn
<1>3. PICK t \in 0..24, w \in Int : f = 1461 * t + w /\ 0 <= w /\ w <= 1460
  BY <1>2, FourYearsIn
<1>4. PICK r \in 0..3, e \in 0..365 : w = 365 * r + e /\ (e = 365 => r = 3)
  BY <1>3, YearIn
<1> DEFINE Y == 400 * q + 100 * s + 4 * t + r
<1>5. /\ Y \in Int /\ Y \div 4 = 100 * q + 25 * s + t /\ Y \div 100 = 4 * q + s /\ Y \div 400 = q
  <2>1. Y = 4 * (100 * q + 25 * s + t) + r /\ 100 * q + 25 * s + t \in Int
    BY <1>1
  <2>2. Y = 100 * (4 * q + s) + (4 * t + r) /\ 4 * q + s \in Int /\ 4 * t + r \in 0..99
    BY <1>1
  <2>3. Y = 400 * q + (100 * s + 4 * t + r) /\ 100 * s + 4 * t + r \in 0..399
    BY <1>1
  <2>4. \A b \in Int, z \in 0..3 : (4 * b + z) \div 4 = b
    OBVIOUS
  <2>5. \A b \in Int, z \in 0..99 : (100 * b + z) \div 100 = b
    OBVIOUS
  <2>6. \A b \in Int, z \in 0..399 : (400 * b + z) \div 400 = b
    OBVIOUS
  <2> HIDE DEF Y
  <2>7. Y \div 4 = 100 * q + 25 * s + t
    BY <2>1, <2>4
  <2>8. Y \div 100 = 4 * q + s
    BY <2>2, <2>5
  <2>9. Y \div 400 = q
    BY <1>1, <2>3, <2>6
  <2> QED BY <2>1, <2>7, <2>8, <2>9
<1>6. a = 365 * Y + (100 * q + 25 * s + t) - (4 * q + s) + q + e
  BY <1>1, <1>2, <1>3, <1>4
<1>7. e = 365 => is_gregorian_leap(Y - 4799)
  <2>1. SUFFICES ASSUME e = 365 PROVE is_gregorian_leap(Y - 4799)
    OBVIOUS
  <2>2. r = 3 /\ w = 1460
    BY <1>4, <2>1
  <2>3. t = 24 => f = 36524 /\ s = 3
    BY <1>2, <1>3, <2>2
  <2>4. (Y - 4799) % 4 = 0
    BY <1>1, <2>2
  <2>5. CASE t = 24
    <3>1. Y - 4799 = 400 * (q + 1 - 12)
      BY <1>1, <2>2, <2>3, <2>5
    <3>2. (Y - 4799) % 400 = 0
      BY <1>1, <3>1
    <3> QED BY <2>4, <3>2 DEF is_gregorian_leap
  <2>6. CASE t # 24
    <3>1. Y - 4799 = 100 * (4 * q + s - 48) + (4 * t + 4) /\ 4 * t + 4 \in 1..99 /\ 4 * q + s - 48 \in Int
      BY <1>1, <2>2, <2>6
    <3>2. \A b \in Int, z \in 1..99 : (100 * b + z) % 100 # 0
      OBVIOUS
    <3> HIDE DEF Y
    <3>3. (Y - 4799) % 100 # 0
      BY <3>1, <3>2
    <3> QED BY <2>4, <3>3 DEF is_gregorian_leap
  <2> QED BY <2>5, <2>6
<1> HIDE DEF Y
<1>8. a = gregorian_years(Y) + e
  BY <1>1, <1>5, <1>6 DEF gregorian_years
<1>9. InGregorianYear(a, Y, e)
  BY <1>7, <1>8 DEF InGregorianYear, EndsLeap
<1> QED BY <1>5, <1>9

(* Every day number, of any year whatever, is the number of one day of     *)
(* each calendar, and the inversions find it (lib.rs jdn_to_gregorian,     *)
(* jdn_to_julian): a day that exists by that calendar's leap rule and      *)
(* month lengths, and that counts back to the number.                      *)
THEOREM NumbersNameDays ==
  \A n \in Int :
    LET g == jdn_to_gregorian(n)
        j == jdn_to_julian(n)
    IN  /\ g \in Days /\ check(g[2], g[3], is_gregorian_leap(g[1]))
        /\ gregorian_jdn(g[1], g[2], g[3]) = n
        /\ j \in Days /\ check(j[2], j[3], is_julian_leap(j[1]))
        /\ julian_jdn(j[1], j[2], j[3]) = n
<1> SUFFICES ASSUME NEW n \in Int
             PROVE  LET g == jdn_to_gregorian(n)
                        j == jdn_to_julian(n)
                    IN  /\ g \in Days /\ check(g[2], g[3], is_gregorian_leap(g[1]))
                        /\ gregorian_jdn(g[1], g[2], g[3]) = n
                        /\ j \in Days /\ check(j[2], j[3], is_julian_leap(j[1]))
                        /\ julian_jdn(j[1], j[2], j[3]) = n
  OBVIOUS
<1>0. \A m, leap : last_day(m, leap) \in 28..31
  BY DEF last_day
<1>1. LET g == jdn_to_gregorian(n)
      IN  /\ g \in Days /\ check(g[2], g[3], is_gregorian_leap(g[1]))
          /\ gregorian_jdn(g[1], g[2], g[3]) = n
  <2>1. PICK c \in Int : c = n + 32044
    OBVIOUS
  <2>2. PICK Y \in Int, e \in 0..365 : InGregorianYear(c, Y, e)
    BY GregorianYearOf
  <2>3. PICK k \in 0..11 : MonthHolds(k, e)
    BY SomeMonth
  <2>b. before_month(k) \in Int /\ e \in Int /\ e <= 365
    BY DEF before_month
  <2>4. PICK y \in Int, m \in 1..12, d \in Int : DayNamed(Y, k, e, y, m, d)
    <3> DEFINE z == IF k >= 10 THEN Y - 4799 ELSE Y - 4800
               i == IF k >= 10 THEN k - 9 ELSE k + 3
               o == e - before_month(k) + 1
    <3>1. z \in Int /\ i \in 1..12 /\ o \in Int
      BY <2>b
    <3>2. DayNamed(Y, k, e, z, i, o)
      BY DEF DayNamed
    <3> HIDE DEF z, i, o
    <3> QED BY <3>1, <3>2, Zenon
  <2>5. PICK leap \in BOOLEAN : leap = is_gregorian_leap(y)
    BY DEF is_gregorian_leap
  <2>6. EndsLeap(e, leap)
    <3>1. e = 365 => k >= 10
      BY <2>3, MonthStarts DEF MonthHolds
    <3>2. e = 365 => y = Y - 4799
      BY <2>4, <3>1 DEF DayNamed
    <3>3. is_gregorian_leap(Y - 4799) \in BOOLEAN
      BY DEF is_gregorian_leap
    <3>4. SUFFICES ASSUME e = 365 PROVE leap
      BY DEF EndsLeap
    <3>5. is_gregorian_leap(Y - 4799)
      BY <2>2, <3>4 DEF InGregorianYear, EndsLeap
    <3> QED BY <2>5, <3>2, <3>4, <3>5
  <2>7. /\ d >= 1 /\ d <= last_day(m, leap)
        /\ gregorian_jdn(y, m, d) = gregorian_years(Y) + e - 32044
    <3>1. Counted(Y, e, leap, y, m, d)
      BY <2>3, <2>4, <2>6, NamedDay, Zenon
    <3> QED BY <3>1 DEF Counted
  <2>8. gregorian_years(Y) \in Int
    BY DEF gregorian_years
  <2>9. gregorian_jdn(y, m, d) = n
    BY <2>1, <2>2, <2>7, <2>8, <2>b DEF InGregorianYear
  <2>10. jdn_to_gregorian(gregorian_jdn(y, m, d)) = <<y, m, d>>
    BY <2>5, <2>7, GregorianInverts
  <2>11. d \in 1..31 /\ d \in 1..last_day(m, leap)
    BY <1>0, <2>7
  <2>12. <<y, m, d>> \in Days
    BY <2>11 DEF Days
  <2>13. check(m, d, leap)
    BY <2>11 DEF check
  <2> QED BY <2>5, <2>9, <2>10, <2>12, <2>13
<1>2. LET j == jdn_to_julian(n)
      IN  /\ j \in Days /\ check(j[2], j[3], is_julian_leap(j[1]))
          /\ julian_jdn(j[1], j[2], j[3]) = n
  <2>1. PICK c \in Int : c = n + 32082
    OBVIOUS
  <2>2. PICK Y \in Int, e \in 0..365 : InJulianYear(c, Y, e)
    BY JulianYearOf
  <2>3. PICK k \in 0..11 : MonthHolds(k, e)
    BY SomeMonth
  <2>b. before_month(k) \in Int /\ e \in Int /\ e <= 365
    BY DEF before_month
  <2>4. PICK y \in Int, m \in 1..12, d \in Int : DayNamed(Y, k, e, y, m, d)
    <3> DEFINE z == IF k >= 10 THEN Y - 4799 ELSE Y - 4800
               i == IF k >= 10 THEN k - 9 ELSE k + 3
               o == e - before_month(k) + 1
    <3>1. z \in Int /\ i \in 1..12 /\ o \in Int
      BY <2>b
    <3>2. DayNamed(Y, k, e, z, i, o)
      BY DEF DayNamed
    <3> HIDE DEF z, i, o
    <3> QED BY <3>1, <3>2, Zenon
  <2>5. PICK leap \in BOOLEAN : leap = is_julian_leap(y)
    BY DEF is_julian_leap
  <2>6. EndsLeap(e, leap)
    <3>1. e = 365 => k >= 10
      BY <2>3, MonthStarts DEF MonthHolds
    <3>2. e = 365 => y = Y - 4799
      BY <2>4, <3>1 DEF DayNamed
    <3>3. Y % 4 = 3 => (Y - 4799) % 4 = 0
      OBVIOUS
    <3>4. SUFFICES ASSUME e = 365 PROVE leap
      BY DEF EndsLeap
    <3>5. Y % 4 = 3
      BY <2>2, <3>4, Zenon DEF InJulianYear, EndsLeap
    <3>6. y % 4 = 0
      BY <3>2, <3>3, <3>4, <3>5
    <3>7. is_julian_leap(y)
      BY <3>6 DEF is_julian_leap
    <3> QED BY <2>5, <3>7, Zenon
  <2>7. /\ d >= 1 /\ d <= last_day(m, leap)
        /\ julian_jdn(y, m, d) = julian_years(Y) + e - 32082
    <3>1. Counted(Y, e, leap, y, m, d)
      BY <2>3, <2>4, <2>6, NamedDay, Zenon
    <3> QED BY <3>1 DEF Counted
  <2>8. julian_years(Y) \in Int
    BY DEF julian_years
  <2>9. julian_jdn(y, m, d) = n
    BY <2>1, <2>2, <2>7, <2>8, <2>b DEF InJulianYear
  <2>10. jdn_to_julian(julian_jdn(y, m, d)) = <<y, m, d>>
    BY <2>5, <2>7, JulianInverts
  <2>11. d \in 1..31 /\ d \in 1..last_day(m, leap)
    BY <1>0, <2>7
  <2>12. <<y, m, d>> \in Days
    BY <2>11 DEF Days
  <2>13. check(m, d, leap)
    BY <2>11 DEF check
  <2> QED BY <2>5, <2>9, <2>10, <2>12, <2>13
<1> QED BY <1>1, <1>2

-----------------------------------------------------------------------------
(* The walk.  A day of a calendar with the leap rule leap. *)
DayIn(t, leap) == t \in Days /\ check(t[2], t[3], leap)

(* A day is three integers. *)
LEMMA DayParts ==
  ASSUME NEW u \in Days
  PROVE  u = <<u[1], u[2], u[3]>> /\ u[1] \in Int /\ u[2] \in Int /\ u[3] \in Int
BY DEF Days

(* Tomorrow's name is a day, it comes after today's, and it differs from   *)
(* today's in the year only on a first of January. *)
LEMMA DayAfterIsDay ==
  ASSUME NEW t \in Days, NEW leap \in BOOLEAN, check(t[2], t[3], leap), NEW next \in BOOLEAN,
         NEW s, s = day_after(t, leap)
  PROVE  /\ s \in Days
         /\ s[1] = t[1] => check(s[2], s[3], leap)
         /\ s[1] # t[1] => check(s[2], s[3], next) /\ s = <<t[1] + 1, 1, 1>>
         /\ Before(t, s)
         /\ s[3] # 1 => s[1] = t[1] /\ s[2] = t[2]
         /\ s[2] # 1 \/ s[3] # 1 => s[1] = t[1]
<1>1. t = <<t[1], t[2], t[3]>> /\ t[1] \in Int /\ t[2] \in 1..12 /\ t[3] \in 1..31
  BY DEF Days
<1>2. t[3] \in 1..last_day(t[2], leap)
  BY DEF check
<1>3. CASE t[3] < last_day(t[2], leap)
  <2>1. s = <<t[1], t[2], t[3] + 1>>
    BY <1>3 DEF day_after
  <2>2. t[3] + 1 \in 1..31
    BY <1>1, <1>3 DEF last_day
  <2>3. last_day(t[2], leap) \in Int
    BY DEF last_day
  <2> QED BY <1>1, <1>2, <1>3, <2>1, <2>2, <2>3 DEF Days, Before, check
<1>4. CASE ~(t[3] < last_day(t[2], leap)) /\ t[2] < 12
  <2>1. s = <<t[1], t[2] + 1, 1>>
    BY <1>4 DEF day_after
  <2> QED BY <1>1, <1>4, <2>1 DEF Days, Before, check, last_day
<1>5. CASE ~(t[3] < last_day(t[2], leap)) /\ ~(t[2] < 12)
  <2>1. s = <<t[1] + 1, 1, 1>>
    BY <1>5 DEF day_after
  <2> QED BY <1>1, <1>5, <2>1 DEF Days, Before, check, last_day
<1> QED BY <1>3, <1>4, <1>5

(* A year of either calendar is 365 days or, by its leap rule, 366, so the *)
(* number of tomorrow is one more than the number of today. *)
LEMMA JulianCounts ==
  ASSUME NEW t \in Days, check(t[2], t[3], is_julian_leap(t[1])),
         NEW s, s = day_after(t, is_julian_leap(t[1]))
  PROVE  julian_jdn(s[1], s[2], s[3]) = julian_jdn(t[1], t[2], t[3]) + 1
<1> DEFINE y == t[1]
           leap == is_julian_leap(y)
           Y0 == julian_years(y + 4799)
           Y1 == julian_years(y + 4800)
<1>1. t = <<t[1], t[2], t[3]>> /\ y \in Int /\ t[2] \in 1..12 /\ t[3] \in 1..last_day(t[2], leap)
  BY DEF Days, check
<1>2. leap \in BOOLEAN
  BY DEF is_julian_leap
<1>3. YearSpans(Y0, Y1, leap) /\ Y0 \in Int /\ Y1 \in Int
  BY <1>1, YearLengths DEF YearSpans
<1>4. s \in Days
  BY <1>2, DayAfterIsDay
<1>5. julian_jdn(y, t[2], t[3]) = Place(t[2], t[3], Y0, Y1) - 32083
  <2>1. JulianForm(y, t[2], t[3])
    <3> HIDE DEF y
    <3>1. t[2] \in 1..12 /\ t[3] \in Int
      BY <1>1
    <3> QED BY <1>1, <3>1, JdnForms
  <2> QED BY <2>1 DEF JulianForm
<1>6. Place(t[2], t[3], Y0, Y1) \in Int
  <2> HIDE DEF Y0, Y1
  <2> QED BY <1>1, <1>3, MonthStarts DEF Place
<1> HIDE DEF leap, Y0, Y1
<1>7. \/ s[1] = y /\ Place(s[2], s[3], Y0, Y1) = Place(t[2], t[3], Y0, Y1) + 1
      \/ s = <<y + 1, 1, 1>> /\ 1 + before_month(10) + Y1 = Place(t[2], t[3], Y0, Y1) + 1
  <2>1. s = day_after(<<y, t[2], t[3]>>, leap)
    BY <1>1 DEF leap
  <2> HIDE DEF y
  <2>2. NextPlace(y, t[2], t[3], Y0, Y1, s)
    BY <1>1, <1>2, <1>3, <2>1, DayAfterPlace
  <2> QED BY <2>2 DEF NextPlace
<1>8. CASE s[1] = y /\ Place(s[2], s[3], Y0, Y1) = Place(t[2], t[3], Y0, Y1) + 1
  <2>1. s[2] \in 1..12 /\ s[3] \in Int
    BY <1>4 DEF Days
  <2>2. julian_jdn(y, s[2], s[3]) = Place(s[2], s[3], Y0, Y1) - 32083
    <3>1. JulianForm(y, s[2], s[3])
      <4> HIDE DEF y
      <4> QED BY <1>1, <2>1, JdnForms
    <3> QED BY <3>1 DEF JulianForm, Y0, Y1
  <2> QED BY <1>5, <1>6, <1>8, <2>2
<1>9. CASE s = <<y + 1, 1, 1>> /\ 1 + before_month(10) + Y1 = Place(t[2], t[3], Y0, Y1) + 1
  <2>1. y + 1 + 4799 = y + 4800
    BY <1>1
  <2>2. julian_jdn(y + 1, 1, 1) =
          Place(1, 1, julian_years(y + 1 + 4799), julian_years(y + 1 + 4800)) - 32083
    <3>1. JulianForm(y + 1, 1, 1)
      <4>1. y + 1 \in Int
        BY <1>1
      <4> QED BY <4>1, JdnForms
    <3> QED BY <3>1 DEF JulianForm
  <2>3. Place(1, 1, julian_years(y + 1 + 4799), julian_years(y + 1 + 4800)) =
          1 + before_month(10) + Y1
    BY <2>1 DEF Place, Y1
  <2> QED BY <1>5, <1>6, <1>9, <2>2, <2>3
<1> QED BY <1>7, <1>8, <1>9

(* The same of the Gregorian count. *)
LEMMA GregorianCounts ==
  ASSUME NEW t \in Days, check(t[2], t[3], is_gregorian_leap(t[1])),
         NEW s, s = day_after(t, is_gregorian_leap(t[1]))
  PROVE  gregorian_jdn(s[1], s[2], s[3]) = gregorian_jdn(t[1], t[2], t[3]) + 1
<1> DEFINE y == t[1]
           leap == is_gregorian_leap(y)
           Y0 == gregorian_years(y + 4799)
           Y1 == gregorian_years(y + 4800)
<1>1. t = <<t[1], t[2], t[3]>> /\ y \in Int /\ t[2] \in 1..12 /\ t[3] \in 1..last_day(t[2], leap)
  BY DEF Days, check
<1>2. leap \in BOOLEAN
  BY DEF is_gregorian_leap
<1>3. YearSpans(Y0, Y1, leap) /\ Y0 \in Int /\ Y1 \in Int
  BY <1>1, YearLengths DEF YearSpans
<1>4. s \in Days
  BY <1>2, DayAfterIsDay
<1>5. gregorian_jdn(y, t[2], t[3]) = Place(t[2], t[3], Y0, Y1) - 32045
  <2>1. GregorianForm(y, t[2], t[3])
    <3> HIDE DEF y
    <3>1. t[2] \in 1..12 /\ t[3] \in Int
      BY <1>1
    <3> QED BY <1>1, <3>1, JdnForms
  <2> QED BY <2>1 DEF GregorianForm
<1>6. Place(t[2], t[3], Y0, Y1) \in Int
  <2> HIDE DEF Y0, Y1
  <2> QED BY <1>1, <1>3, MonthStarts DEF Place
<1> HIDE DEF leap, Y0, Y1
<1>7. \/ s[1] = y /\ Place(s[2], s[3], Y0, Y1) = Place(t[2], t[3], Y0, Y1) + 1
      \/ s = <<y + 1, 1, 1>> /\ 1 + before_month(10) + Y1 = Place(t[2], t[3], Y0, Y1) + 1
  <2>1. s = day_after(<<y, t[2], t[3]>>, leap)
    BY <1>1 DEF leap
  <2> HIDE DEF y
  <2>2. NextPlace(y, t[2], t[3], Y0, Y1, s)
    BY <1>1, <1>2, <1>3, <2>1, DayAfterPlace
  <2> QED BY <2>2 DEF NextPlace
<1>8. CASE s[1] = y /\ Place(s[2], s[3], Y0, Y1) = Place(t[2], t[3], Y0, Y1) + 1
  <2>1. s[2] \in 1..12 /\ s[3] \in Int
    BY <1>4 DEF Days
  <2>2. gregorian_jdn(y, s[2], s[3]) = Place(s[2], s[3], Y0, Y1) - 32045
    <3>1. GregorianForm(y, s[2], s[3])
      <4> HIDE DEF y
      <4> QED BY <1>1, <2>1, JdnForms
    <3> QED BY <3>1 DEF GregorianForm, Y0, Y1
  <2> QED BY <1>5, <1>6, <1>8, <2>2
<1>9. CASE s = <<y + 1, 1, 1>> /\ 1 + before_month(10) + Y1 = Place(t[2], t[3], Y0, Y1) + 1
  <2>1. y + 1 + 4799 = y + 4800
    BY <1>1
  <2>2. gregorian_jdn(y + 1, 1, 1) =
          Place(1, 1, gregorian_years(y + 1 + 4799), gregorian_years(y + 1 + 4800)) - 32045
    <3>1. GregorianForm(y + 1, 1, 1)
      <4>1. y + 1 \in Int
        BY <1>1
      <4> QED BY <4>1, JdnForms
    <3> QED BY <3>1 DEF GregorianForm
  <2>3. Place(1, 1, gregorian_years(y + 1 + 4799), gregorian_years(y + 1 + 4800)) =
          1 + before_month(10) + Y1
    BY <2>1 DEF Place, Y1
  <2> QED BY <1>5, <1>6, <1>9, <2>2, <2>3
<1> QED BY <1>7, <1>8, <1>9

-----------------------------------------------------------------------------
(* What the walk remembers is the name of a day of the current Julian      *)
(* month and year: the strengthening that SpansWhole needs, and only that. *)
Remembers ==
  /\ month_began # <<>> => month_began = jdn_to_gregorian(julian_jdn(julian[1], julian[2], 1))
  /\ year_began # <<>> => year_began = jdn_to_gregorian(julian_jdn(julian[1], 1, 1))

Inv == TypeOK /\ CountsDays /\ Remembers

(* The inversions give back today's names. *)
LEMMA Named == TypeOK /\ CountsDays => NamesDays
<1> SUFFICES ASSUME TypeOK, CountsDays PROVE NamesDays
  OBVIOUS
<1>1. /\ gregorian = <<gregorian[1], gregorian[2], gregorian[3]>> /\ gregorian[1] \in Int
      /\ julian = <<julian[1], julian[2], julian[3]>> /\ julian[1] \in Int
  BY DEF TypeOK, Days
<1>2. /\ gregorian[2] \in 1..12 /\ gregorian[3] \in Int /\ gregorian[3] >= 1
      /\ gregorian[3] <= last_day(gregorian[2], is_gregorian_leap(gregorian[1]))
  BY DEF TypeOK, Days, check, last_day
<1>3. /\ julian[2] \in 1..12 /\ julian[3] \in Int /\ julian[3] >= 1
      /\ julian[3] <= last_day(julian[2], is_julian_leap(julian[1]))
  BY DEF TypeOK, Days, check, last_day
<1>4. jdn_to_gregorian(jdn) = gregorian
  <2>1. jdn_to_gregorian(gregorian_jdn(gregorian[1], gregorian[2], gregorian[3]))
          = <<gregorian[1], gregorian[2], gregorian[3]>>
    BY <1>1, <1>2, GregorianInverts
  <2> QED BY <1>1, <2>1 DEF CountsDays
<1>5. jdn_to_julian(jdn) = julian
  <2>1. jdn_to_julian(julian_jdn(julian[1], julian[2], julian[3]))
          = <<julian[1], julian[2], julian[3]>>
    BY <1>1, <1>3, JulianInverts
  <2> QED BY <1>1, <2>1 DEF CountsDays
<1> QED BY <1>4, <1>5 DEF NamesDays

(* The walk starts on the anchor, with nothing to remember. *)
LEMMA InvInit == Init => Inv
BY AnchorAssumption DEF Init, Inv, TypeOK, CountsDays, Remembers

(* Tomorrow keeps it: each name goes to a day one number on, so the day    *)
(* after both names is again one day. *)
LEMMA InvNext == Inv /\ [Next]_vars => Inv'
<1> SUFFICES ASSUME Inv, [Next]_vars PROVE Inv'
  OBVIOUS
<1> USE DEF Inv
<1>1. CASE UNCHANGED vars
  BY <1>1 DEF vars, TypeOK, CountsDays, Remembers
<1>2. CASE Tomorrow
  <2> DEFINE gl == is_gregorian_leap(gregorian[1])
             jl == is_julian_leap(julian[1])
  <2>1. /\ jdn \in Int /\ LastJdn \in Int /\ jdn < LastJdn /\ jdn' = jdn + 1
        /\ gregorian \in Days /\ check(gregorian[2], gregorian[3], gl)
        /\ julian \in Days /\ check(julian[2], julian[3], jl)
        /\ gregorian' = day_after(gregorian, gl) /\ julian' = day_after(julian, jl)
        /\ month_began' = IF julian'[3] = 1 THEN gregorian' ELSE month_began
        /\ year_began' = IF julian'[2] = 1 /\ julian'[3] = 1 THEN gregorian' ELSE year_began
    BY <1>2, AnchorAssumption DEF TypeOK, Tomorrow
  <2>2. /\ gl \in BOOLEAN /\ jl \in BOOLEAN
        /\ is_gregorian_leap(gregorian'[1]) \in BOOLEAN /\ is_julian_leap(julian'[1]) \in BOOLEAN
    BY DEF is_gregorian_leap, is_julian_leap
  <2>3. /\ gregorian' \in Days
        /\ gregorian'[1] = gregorian[1] => check(gregorian'[2], gregorian'[3], gl)
        /\ gregorian'[1] # gregorian[1] =>
             check(gregorian'[2], gregorian'[3], is_gregorian_leap(gregorian'[1]))
        /\ Before(gregorian, gregorian')
    <3> HIDE DEF gl
    <3> QED BY <2>1, <2>2, DayAfterIsDay
  <2>4. /\ julian' \in Days
        /\ julian'[1] = julian[1] => check(julian'[2], julian'[3], jl)
        /\ julian'[1] # julian[1] =>
             check(julian'[2], julian'[3], is_julian_leap(julian'[1]))
        /\ julian'[3] # 1 => julian'[1] = julian[1] /\ julian'[2] = julian[2]
        /\ julian'[2] # 1 \/ julian'[3] # 1 => julian'[1] = julian[1]
    <3> HIDE DEF jl
    <3> QED BY <2>1, <2>2, DayAfterIsDay
  <2>5. CountsDays'
    <3>1. gregorian_jdn(gregorian'[1], gregorian'[2], gregorian'[3]) = jdn + 1
      <4>1. gregorian_jdn(gregorian'[1], gregorian'[2], gregorian'[3])
              = gregorian_jdn(gregorian[1], gregorian[2], gregorian[3]) + 1
        BY <2>1, GregorianCounts
      <4> QED BY <4>1 DEF CountsDays
    <3>2. julian_jdn(julian'[1], julian'[2], julian'[3]) = jdn + 1
      <4>1. julian_jdn(julian'[1], julian'[2], julian'[3])
              = julian_jdn(julian[1], julian[2], julian[3]) + 1
        BY <2>1, JulianCounts
      <4> QED BY <4>1 DEF CountsDays
    <3> QED BY <2>1, <3>1, <3>2 DEF CountsDays
  <2>6. /\ check(gregorian'[2], gregorian'[3], is_gregorian_leap(gregorian'[1]))
        /\ check(julian'[2], julian'[3], is_julian_leap(julian'[1]))
    BY <2>3, <2>4
  <2>7. TypeOK'
    <3>1. jdn' \in Int /\ jdn' <= LastJdn
      BY <2>1
    <3>2. ASSUME NEW t \in {month_began', year_began'} \ {<<>>}
          PROVE  IsDay(t) /\ AtMost(t, gregorian')
      <4>1. CASE t = gregorian'
        BY <2>3, <2>6, <4>1 DEF IsDay, AtMost, Days, check, is_leap, is_gregorian_leap
      <4>2. CASE t \in {month_began, year_began}
        <5>1. IsDay(t) /\ AtMost(t, gregorian)
          BY <3>2, <4>2 DEF TypeOK
        <5>2. Before(t, gregorian) => Before(t, gregorian')
          <6>1. t[1] \in Int /\ t[2] \in Int /\ t[3] \in Int
            BY <5>1 DEF IsDay, last_day
          <6> DEFINE g == gregorian
                     h == gregorian'
          <6>2. /\ g[1] \in Int /\ g[2] \in Int /\ g[3] \in Int
                /\ h[1] \in Int /\ h[2] \in Int /\ h[3] \in Int
                /\ Before(g, h)
            BY <2>1, <2>3, DayParts
          <6> HIDE DEF g, h
          <6>3. Before(t, g) => Before(t, h)
            BY <6>1, <6>2 DEF Before
          <6> QED BY <6>3 DEF g, h
        <5> QED BY <2>3, <5>1, <5>2 DEF AtMost
      <4> QED BY <2>1, <4>1, <4>2
    <3> QED BY <2>3, <2>4, <2>6, <3>1, <3>2 DEF TypeOK
  <2>8. jdn_to_gregorian(julian_jdn(julian'[1], julian'[2], julian'[3])) = gregorian'
    <3>1. NamesDays'
      BY <2>5, <2>7, Named, PTL
    <3> QED BY <2>5, <3>1 DEF NamesDays, CountsDays
  <2>9. Remembers'
    BY <2>1, <2>4, <2>8 DEF Remembers
  <2> QED BY <2>5, <2>7, <2>9
<1> QED BY <1>1, <1>2 DEF Next

(* The invariant holds of every run. *)
LEMMA Invariance == Spec => []Inv
<1>1. Init => Inv
  BY InvInit
<1>2. Inv /\ [Next]_vars => Inv'
  BY InvNext
<1> QED BY <1>1, <1>2, PTL DEF Spec

(* Wherever the walk starts and however long it runs, each name it reaches *)
(* is a day of its own calendar: the leap rules and month lengths of the   *)
(* two calendars never disagree with check (lib.rs:223). *)
THEOREM TypeCorrect == Spec => []TypeOK
<1>1. Inv => TypeOK
  BY DEF Inv
<1> QED BY <1>1, Invariance, PTL

(* gregorian_jdn and julian_jdn count days, one by one, in every year,     *)
(* negative years and the seam of the March-based era included.            *)
THEOREM DaysCounted == Spec => []CountsDays
<1>1. Inv => CountsDays
  BY DEF Inv
<1> QED BY <1>1, Invariance, PTL

(* jdn_to_gregorian and jdn_to_julian undo them on every day, so that a    *)
(* conversion and its round-trip partner (lib.rs:319-320) agree forever.   *)
THEOREM DaysNamed == Spec => []NamesDays
<1>1. Inv => NamesDays
  BY Named DEF Inv
<1> QED BY <1>1, Invariance, PTL

(* A date that exists converts to what its day number says; used for the   *)
(* two ends of a span too. *)
LEMMA JulianConverts ==
  ASSUME NEW y \in Int, NEW m \in 1..12, NEW d \in 1..last_day(m, is_julian_leap(y))
  PROVE  julian_to_gregorian(<<y, m, d>>) = narrow(jdn_to_gregorian(julian_jdn(y, m, d)))
BY DEF julian_to_gregorian, check

(* Today's two names convert to each other. *)
LEMMA ConvertsToday == TypeOK /\ CountsDays /\ NamesDays => ConvertsDays
<1> SUFFICES ASSUME TypeOK, CountsDays, NamesDays PROVE ConvertsDays
  OBVIOUS
<1>1. /\ gregorian = <<gregorian[1], gregorian[2], gregorian[3]>>
      /\ julian = <<julian[1], julian[2], julian[3]>> /\ julian[1] \in Int
  BY DEF TypeOK, Days
<1>2. /\ check(gregorian[2], gregorian[3], is_gregorian_leap(gregorian[1]))
      /\ check(julian[2], julian[3], is_julian_leap(julian[1]))
  BY DEF TypeOK
<1>3. /\ jdn_to_gregorian(julian_jdn(julian[1], julian[2], julian[3])) = gregorian
      /\ jdn_to_julian(gregorian_jdn(gregorian[1], gregorian[2], gregorian[3])) = julian
  BY DEF CountsDays, NamesDays
<1>4. gregorian_to_julian(gregorian) = narrow(julian)
  BY <1>2, <1>3 DEF gregorian_to_julian
<1>5. julian_to_gregorian(julian) = narrow(gregorian)
  BY <1>2, <1>3 DEF julian_to_gregorian
<1>6. convert(julian[1], <<julian[2]>>, <<julian[3]>>) =
        julian_to_gregorian(<<julian[1], julian[2], julian[3]>>)
  BY DEF convert
<1> QED BY <1>1, <1>4, <1>5, <1>6 DEF ConvertsDays

(* Each conversion answers with the other calendar's name of the same day, *)
(* or OutOfRange exactly when that name's year does not fit, whatever the  *)
(* width of a year. *)
THEOREM DaysConverted == Spec => []ConvertsDays
<1>1. Inv => ConvertsDays
  BY Named, ConvertsToday DEF Inv
<1> QED BY <1>1, Invariance, PTL

(* The day that ends a Julian month or year converts to today's Gregorian  *)
(* name, the first of the month or year to the name remembered. *)
LEMMA SpanEnds ==
  ASSUME TypeOK, CountsDays, NamesDays, Remembers
  PROVE  /\ julian_to_gregorian(<<julian[1], julian[2], julian[3]>>) = narrow(gregorian)
         /\ month_began # <<>> =>
              julian_to_gregorian(<<julian[1], julian[2], 1>>) = narrow(month_began)
         /\ year_began # <<>> =>
              julian_to_gregorian(<<julian[1], 1, 1>>) = narrow(year_began)
<1>1. julian[1] \in Int /\ julian[2] \in 1..12
  BY DEF TypeOK, Days
<1>2. julian[3] \in 1..last_day(julian[2], is_julian_leap(julian[1]))
  BY DEF TypeOK, check
<1>3. \A m \in 1..12 : 1 \in 1..last_day(m, is_julian_leap(julian[1]))
  BY DEF last_day
<1>4. julian_to_gregorian(<<julian[1], julian[2], julian[3]>>)
        = narrow(jdn_to_gregorian(julian_jdn(julian[1], julian[2], julian[3])))
  BY <1>1, <1>2, JulianConverts
<1>5. \A m \in 1..12 : julian_to_gregorian(<<julian[1], m, 1>>)
        = narrow(jdn_to_gregorian(julian_jdn(julian[1], m, 1)))
  BY <1>1, <1>3, JulianConverts
<1> QED BY <1>1, <1>4, <1>5 DEF CountsDays, NamesDays, Remembers

(* Two narrowed ends make a span when both fit, and OutOfRange otherwise.  *)
LEMMA SpanOfNarrow ==
  ASSUME NEW first, NEW last, NEW s, NEW t,
         julian_to_gregorian(first) = narrow(s), julian_to_gregorian(last) = narrow(t)
  PROVE  SpanOf(first, last) =
           IF {s[1], t[1]} \subseteq Years THEN Span(s, t) ELSE OutOfRange
<1>1. Ok(DayOf(s)) /\ Ok(DayOf(t)) /\ ~Ok(OutOfRange) /\ DayOf(s).day = s /\ DayOf(t).day = t
  BY DEF Ok, DayOf, OutOfRange
<1>2. {s[1], t[1]} \subseteq Years <=> s[1] \in Years /\ t[1] \in Years
  OBVIOUS
<1>3. CASE s[1] \in Years /\ t[1] \in Years
  BY <1>1, <1>2, <1>3 DEF SpanOf, narrow
<1>4. CASE s[1] \notin Years
  BY <1>1, <1>2, <1>4 DEF SpanOf, narrow
<1>5. CASE s[1] \in Years /\ t[1] \notin Years
  BY <1>1, <1>2, <1>5 DEF SpanOf, narrow
<1> QED BY <1>3, <1>4, <1>5

(* At the end of a Julian month or year its span is what has passed.       *)
LEMMA SpansToday == TypeOK /\ CountsDays /\ NamesDays /\ Remembers => SpansWhole
<1> SUFFICES ASSUME TypeOK, CountsDays, NamesDays, Remembers, MonthEnds PROVE
      /\ Passed(month_began, convert(julian[1], <<julian[2]>>, <<>>))
      /\ julian[2] = 12 => Passed(year_began, convert(julian[1], <<>>, <<>>))
  BY DEF SpansWhole
<1>1. julian[2] \in 1..12
  BY DEF TypeOK, Days
<1>2. convert(julian[1], <<julian[2]>>, <<>>) =
        SpanOf(<<julian[1], julian[2], 1>>, <<julian[1], julian[2], julian[3]>>)
  BY <1>1 DEF convert, MonthEnds, month_end
<1>3. julian[2] = 12 =>
        convert(julian[1], <<>>, <<>>) =
          SpanOf(<<julian[1], 1, 1>>, <<julian[1], julian[2], julian[3]>>)
  BY DEF convert, MonthEnds, last_day
<1>4. month_began # <<>> =>
        SpanOf(<<julian[1], julian[2], 1>>, <<julian[1], julian[2], julian[3]>>) =
          IF {month_began[1], gregorian[1]} \subseteq Years
          THEN Span(month_began, gregorian) ELSE OutOfRange
  BY SpanEnds, SpanOfNarrow
<1>5. year_began # <<>> =>
        SpanOf(<<julian[1], 1, 1>>, <<julian[1], julian[2], julian[3]>>) =
          IF {year_began[1], gregorian[1]} \subseteq Years
          THEN Span(year_began, gregorian) ELSE OutOfRange
  BY SpanEnds, SpanOfNarrow
<1>6. Passed(month_began, convert(julian[1], <<julian[2]>>, <<>>))
  BY <1>2, <1>4 DEF Passed
<1>7. julian[2] = 12 => Passed(year_began, convert(julian[1], <<>>, <<>>))
  BY <1>3, <1>5 DEF Passed
<1> QED BY <1>6, <1>7

(* Precision honesty (lib.rs:33-37) for every year: a Julian month or year *)
(* is converted to the days that passed in it, never more and never fewer, *)
(* and to no span when an end does not fit. *)
THEOREM SpansAreWhole == Spec => []SpansWhole
<1>1. Inv => SpansWhole
  BY Named, SpansToday DEF Inv
<1> QED BY <1>1, Invariance, PTL

-----------------------------------------------------------------------------
(* A conversion of whatever precision.  What is converted: the first of    *)
(* its days, the last, and the day that begins the next.                   *)
Begins(y, month, day) ==
  <<y, IF month = <<>> THEN 1 ELSE month[1], IF day = <<>> THEN 1 ELSE day[1]>>

Ends(y, month, day) ==
  IF month = <<>> THEN <<y, 12, 31>>
  ELSE IF day = <<>> THEN <<y, month[1], month_end(y, month[1])>>
  ELSE <<y, month[1], day[1]>>

Part == {<<>>} \cup {<<v>> : v \in Int}

FirstDay(r) == IF r.out = "Day" THEN r.day ELSE r.earliest
LastDay(r)  == IF r.out = "Day" THEN r.day ELSE r.latest

(* The day s is answered for the Julian day t.                             *)
Answers(s, t) ==
  /\ s = jdn_to_gregorian(julian_jdn(t[1], t[2], t[3]))
  /\ t \in Days /\ check(t[2], t[3], is_julian_leap(t[1]))
  /\ s[1] \in Years

(* What a converted day is answered by.                                    *)
LEMMA DayAnswered ==
  ASSUME NEW y \in Int, NEW m \in Int, NEW d \in Int, NEW t, t = <<y, m, d>>,
         Ok(julian_to_gregorian(t))
  PROVE  /\ julian_to_gregorian(t).out = "Day"
         /\ Answers(julian_to_gregorian(t).day, t)
<1>0. \A i, leap : last_day(i, leap) \in 28..31
  BY DEF last_day
<1>1. check(m, d, is_julian_leap(y))
  BY DEF julian_to_gregorian, Ok, InvalidDate
<1>2. t \in Days
  <2>1. m \in 1..12 /\ d \in 1..31
    BY <1>0, <1>1 DEF check
  <2> QED BY <2>1 DEF Days
<1> DEFINE s == jdn_to_gregorian(julian_jdn(y, m, d))
<1>3. julian_to_gregorian(t) = narrow(s)
  BY <1>1 DEF julian_to_gregorian
<1> HIDE DEF s
<1>4. s[1] \in Years /\ narrow(s) = DayOf(s)
  BY <1>3 DEF narrow, Ok, OutOfRange
<1> QED BY <1>1, <1>2, <1>3, <1>4 DEF Answers, DayOf, s

(* The answer converts back to the day it was asked for, and the day after *)
(* the answer to the day after that one.                                   *)
LEMMA ThereAndBack ==
  ASSUME NEW s, NEW t, Answers(s, t), t[1] \in Years
  PROVE  /\ gregorian_to_julian(s) = DayOf(t)
         /\ gregorian_to_julian(successor("Day", s)) = narrow(day_after(t, is_julian_leap(t[1])))
<1>1. /\ s = jdn_to_gregorian(julian_jdn(t[1], t[2], t[3]))
      /\ t \in Days /\ check(t[2], t[3], is_julian_leap(t[1]))
  BY DEF Answers
<1>2. t = <<t[1], t[2], t[3]>> /\ t[1] \in Int /\ t[2] \in 1..12 /\ t[3] \in Int
  BY <1>1 DEF Days
<1> DEFINE n == julian_jdn(t[1], t[2], t[3])
           a == day_after(s, is_gregorian_leap(s[1]))
           b == day_after(t, is_julian_leap(t[1]))
<1>3. jdn_to_julian(n) = t /\ n \in Int
  <2>1. t[3] >= 1 /\ t[3] <= last_day(t[2], is_julian_leap(t[1]))
    BY <1>1, <1>2 DEF check, last_day
  <2> QED BY <1>2, <2>1, JulianInverts
<1>4. s \in Days /\ check(s[2], s[3], is_gregorian_leap(s[1])) /\ gregorian_jdn(s[1], s[2], s[3]) = n
  BY <1>1, <1>3, NumbersNameDays
<1>5. gregorian_to_julian(s) = DayOf(t)
  BY <1>3, <1>4 DEF gregorian_to_julian, narrow
<1>6. a \in Days /\ check(a[2], a[3], is_gregorian_leap(a[1])) /\ gregorian_jdn(a[1], a[2], a[3]) = n + 1
  <2>1. gregorian_jdn(a[1], a[2], a[3]) = n + 1
    BY <1>4, GregorianCounts
  <2>2. is_gregorian_leap(s[1]) \in BOOLEAN /\ is_gregorian_leap(a[1]) \in BOOLEAN
    BY DEF is_gregorian_leap
  <2> HIDE DEF a
  <2>3. /\ a \in Days
        /\ a[1] = s[1] => check(a[2], a[3], is_gregorian_leap(s[1]))
        /\ a[1] # s[1] => check(a[2], a[3], is_gregorian_leap(a[1]))
    BY <1>4, <2>2, DayAfterIsDay DEF a
  <2> QED BY <2>1, <2>3
<1>7. b \in Days /\ check(b[2], b[3], is_julian_leap(b[1])) /\ julian_jdn(b[1], b[2], b[3]) = n + 1
  <2>1. julian_jdn(b[1], b[2], b[3]) = n + 1
    BY <1>1, JulianCounts
  <2>2. is_julian_leap(t[1]) \in BOOLEAN /\ is_julian_leap(b[1]) \in BOOLEAN
    BY DEF is_julian_leap
  <2> HIDE DEF b
  <2>3. /\ b \in Days
        /\ b[1] = t[1] => check(b[2], b[3], is_julian_leap(t[1]))
        /\ b[1] # t[1] => check(b[2], b[3], is_julian_leap(b[1]))
    BY <1>1, <2>2, DayAfterIsDay DEF b
  <2> QED BY <2>1, <2>3
<1>8. jdn_to_julian(n + 1) = b
  <2> HIDE DEF n, b
  <2>1. b = <<b[1], b[2], b[3]>> /\ b[1] \in Int /\ b[2] \in 1..12 /\ b[3] \in Int
    BY <1>7 DEF Days
  <2>2. b[3] >= 1 /\ b[3] <= last_day(b[2], is_julian_leap(b[1]))
    BY <1>7, <2>1 DEF check, last_day
  <2> QED BY <1>7, <2>1, <2>2, JulianInverts
<1>9. successor("Day", s) = a
  <2>1. s[2] \in 1..12
    BY <1>4 DEF Days
  <2> QED BY <2>1 DEF successor, next_month, day_after, is_leap, is_gregorian_leap
<1>10. gregorian_to_julian(a) = narrow(b)
  <2> HIDE DEF a, b, n
  <2> QED BY <1>6, <1>8 DEF gregorian_to_julian
<1> QED BY <1>5, <1>9, <1>10

(* Both ends of a span are answers.                                        *)
LEMMA SpanAnswered ==
  ASSUME NEW s \in Int \X Int \X Int, NEW t \in Int \X Int \X Int, Ok(SpanOf(s, t))
  PROVE  /\ SpanOf(s, t).out = "Span"
         /\ Answers(SpanOf(s, t).earliest, s)
         /\ Answers(SpanOf(s, t).latest, t)
<1>1. Ok(julian_to_gregorian(s)) /\ Ok(julian_to_gregorian(t))
  BY DEF SpanOf, Ok
<1>2. SpanOf(s, t) = Span(julian_to_gregorian(s).day, julian_to_gregorian(t).day)
  BY <1>1 DEF SpanOf
<1>3. s = <<s[1], s[2], s[3]>> /\ s[1] \in Int /\ s[2] \in Int /\ s[3] \in Int
  OBVIOUS
<1>4. t = <<t[1], t[2], t[3]>> /\ t[1] \in Int /\ t[2] \in Int /\ t[3] \in Int
  OBVIOUS
<1>5. Answers(julian_to_gregorian(s).day, s)
  BY <1>1, <1>3, DayAnswered
<1>6. Answers(julian_to_gregorian(t).day, t)
  BY <1>1, <1>4, DayAnswered
<1> QED BY <1>2, <1>5, <1>6 DEF Span

(* A conversion is answered by exactly its own days: its first day answers *)
(* for the first, its last for the last (lib.rs convert).                  *)
LEMMA EndsAnswered ==
  ASSUME NEW y \in Int, NEW month \in Part, NEW day \in Part, NEW r,
         r = convert(y, month, day), Ok(r)
  PROVE  /\ Answers(FirstDay(r), Begins(y, month, day))
         /\ Answers(LastDay(r), Ends(y, month, day))
<1>1. CASE month # <<>> /\ day # <<>>
  <2>1. PICK m \in Int, d \in Int : month = <<m>> /\ day = <<d>>
    BY <1>1 DEF Part
  <2>2. r = julian_to_gregorian(<<y, m, d>>)
    BY <1>1, <2>1 DEF convert
  <2>3. r.out = "Day" /\ Answers(r.day, <<y, m, d>>)
    BY <2>2, DayAnswered
  <2> QED BY <1>1, <2>1, <2>3 DEF FirstDay, LastDay, Begins, Ends
<1>2. CASE month # <<>> /\ day = <<>>
  <2>1. PICK m \in Int : month = <<m>>
    BY <1>2 DEF Part
  <2>2. r = SpanOf(<<y, m, 1>>, <<y, m, month_end(y, m)>>)
    BY <1>2, <2>1 DEF convert, Ok, InvalidDate
  <2>3. month_end(y, m) \in Int
    BY DEF month_end, last_day
  <2>4. <<y, m, 1>> \in Int \X Int \X Int /\ <<y, m, month_end(y, m)>> \in Int \X Int \X Int
    BY <2>3
  <2>5. r.out = "Span" /\ Answers(r.earliest, <<y, m, 1>>) /\ Answers(r.latest, <<y, m, month_end(y, m)>>)
    BY <2>2, <2>4, SpanAnswered
  <2> QED BY <1>2, <2>1, <2>5 DEF FirstDay, LastDay, Begins, Ends
<1>3. CASE month = <<>> /\ day = <<>>
  <2>2. r = SpanOf(<<y, 1, 1>>, <<y, 12, 31>>)
    BY <1>3 DEF convert
  <2>4. <<y, 1, 1>> \in Int \X Int \X Int /\ <<y, 12, 31>> \in Int \X Int \X Int
    OBVIOUS
  <2>5. r.out = "Span" /\ Answers(r.earliest, <<y, 1, 1>>) /\ Answers(r.latest, <<y, 12, 31>>)
    BY <2>2, <2>4, SpanAnswered
  <2> QED BY <1>3, <2>5 DEF FirstDay, LastDay, Begins, Ends
<1>4. CASE month = <<>> /\ day # <<>>
  BY <1>4 DEF convert, Ok, InvalidDate
<1> QED BY <1>1, <1>2, <1>3, <1>4

(* A Julian year, month or day of whatever i64 year is answered by exactly *)
(* its own days (lib.rs:33-37): its first day is the day the first one     *)
(* answered converts back to, and the day after the last one answered      *)
(* converts to the day after its last.                                     *)
THEOREM ConversionsCover ==
  ASSUME NEW y \in Int, y \in Years, NEW month \in Part, NEW day \in Part, NEW r,
         r = convert(y, month, day), Ok(r)
  PROVE  /\ gregorian_to_julian(FirstDay(r)) = DayOf(Begins(y, month, day))
         /\ gregorian_to_julian(successor("Day", LastDay(r)))
              = narrow(day_after(Ends(y, month, day), is_julian_leap(y)))
         /\ Ends(y, month, day) \in Days
         /\ check(Ends(y, month, day)[2], Ends(y, month, day)[3], is_julian_leap(y))
<1>1. Answers(FirstDay(r), Begins(y, month, day)) /\ Answers(LastDay(r), Ends(y, month, day))
  BY EndsAnswered
<1>2. Begins(y, month, day)[1] = y /\ Ends(y, month, day)[1] = y
  BY DEF Begins, Ends
<1> QED BY <1>1, <1>2, ThereAndBack DEF Answers

-----------------------------------------------------------------------------
(* Later days have larger numbers.  Within a year, in any calendar: what   *)
(* is before the first of a month, counted from the first of January.      *)
BeforeMonth(m, leap) ==
  IF m = 1 THEN 0 ELSE IF m = 2 THEN 31
  ELSE before_month(m - 3) + (IF leap THEN 60 ELSE 59)

MonthFollows(m, n, leap) ==
  /\ BeforeMonth(m, leap) \in 0..335 /\ BeforeMonth(n, leap) \in 0..335
  /\ BeforeMonth(m, leap) + last_day(m, leap) <= BeforeMonth(n, leap)

(* A month begins after all earlier ones.                                  *)
LEMMA MonthsFollow ==
  ASSUME NEW leap \in BOOLEAN, NEW m \in 1..12, NEW n \in 1..12, m < n
  PROVE  MonthFollows(m, n, leap)
<1> DEFINE b == IF leap THEN 60 ELSE 59
<1>1. /\ BeforeMonth(1, leap) = 0 /\ BeforeMonth(2, leap) = 31
      /\ BeforeMonth(3, leap) = b /\ BeforeMonth(4, leap) = b + 31
      /\ BeforeMonth(5, leap) = b + 61 /\ BeforeMonth(6, leap) = b + 92
      /\ BeforeMonth(7, leap) = b + 122 /\ BeforeMonth(8, leap) = b + 153
      /\ BeforeMonth(9, leap) = b + 184 /\ BeforeMonth(10, leap) = b + 214
      /\ BeforeMonth(11, leap) = b + 245 /\ BeforeMonth(12, leap) = b + 275
  BY MonthStarts DEF BeforeMonth
<1>2. \/ m = 1 \/ m = 2 \/ m = 3 \/ m = 4 \/ m = 5 \/ m = 6
      \/ m = 7 \/ m = 8 \/ m = 9 \/ m = 10 \/ m = 11
  OBVIOUS
<1>3. \/ n = 2 \/ n = 3 \/ n = 4 \/ n = 5 \/ n = 6 \/ n = 7
      \/ n = 8 \/ n = 9 \/ n = 10 \/ n = 11 \/ n = 12
  OBVIOUS
<1>4. last_day(m, leap) = IF m \in {4, 6, 9, 11} THEN 30
                          ELSE IF m = 2 THEN (IF leap THEN 29 ELSE 28) ELSE 31
  BY DEF last_day
<1>5. b = 59 \/ b = 60
  OBVIOUS
<1>6. leap => b = 60
  OBVIOUS
<1> HIDE DEF b
<1>7. BeforeMonth(m, leap) \in 0..335
  BY <1>1, <1>2, <1>5
<1>8. BeforeMonth(n, leap) \in 0..335
  BY <1>1, <1>3, <1>5
<1>9. BeforeMonth(m, leap) + last_day(m, leap) <= BeforeMonth(n, leap)
  BY <1>1, <1>2, <1>3, <1>4, <1>5, <1>6
<1> QED BY <1>7, <1>8, <1>9 DEF MonthFollows

(* The days of a year, and the first of the next, by where they stand.     *)
LEMMA DaysFollow ==
  ASSUME NEW Y0, NEW Y1, NEW leap \in BOOLEAN, YearSpans(Y0, Y1, leap),
         NEW m \in 1..12, NEW d \in 1..last_day(m, leap),
         NEW n \in 1..12, NEW f \in 1..last_day(n, leap)
  PROVE  /\ m < n \/ (m = n /\ d <= f) => Place(m, d, Y0, Y1) <= Place(n, f, Y0, Y1)
         /\ m < n \/ (m = n /\ d < f) => Place(m, d, Y0, Y1) < Place(n, f, Y0, Y1)
         /\ Y0 + 306 < Place(m, d, Y0, Y1) /\ Place(m, d, Y0, Y1) <= Y1 + 306
<1>1. \A i : last_day(i, leap) \in 28..31
  BY DEF last_day
<1>2. Y0 \in Int /\ Y1 = Y0 + (IF leap THEN 366 ELSE 365)
  BY DEF YearSpans
<1>3. ASSUME NEW i \in 1..12, NEW j \in Int
      PROVE  /\ BeforeMonth(i, leap) \in 0..335 /\ (i < 12 => BeforeMonth(i, leap) + last_day(i, leap) <= 335)
             /\ Place(i, j, Y0, Y1) = Y0 + 306 + BeforeMonth(i, leap) + j
             /\ BeforeMonth(12, leap) = IF leap THEN 335 ELSE 334
  <2>1. BeforeMonth(12, leap) = IF leap THEN 335 ELSE 334
    BY MonthStarts DEF BeforeMonth
  <2>2. BeforeMonth(i, leap) \in 0..335 /\ (i < 12 => BeforeMonth(i, leap) + last_day(i, leap) <= 335)
    <3>1. CASE i < 12
      <4>1. MonthFollows(i, 12, leap)
        BY <3>1, MonthsFollow
      <4> QED BY <1>1, <2>1, <3>1, <4>1 DEF MonthFollows
    <3>2. CASE i = 12
      BY <2>1, <3>2
    <3> QED BY <3>1, <3>2
  <2>3. Place(i, j, Y0, Y1) = Y0 + 306 + BeforeMonth(i, leap) + j
    <3>1. CASE i = 1 \/ i = 2
      BY <1>2, <3>1, MonthStarts DEF Place, BeforeMonth
    <3>2. CASE i \in 3..12
      <4>1. before_month(i - 3) \in Int
        BY <3>2 DEF before_month
      <4> QED BY <1>2, <3>2, <4>1 DEF Place, BeforeMonth
    <3> QED BY <3>1, <3>2
  <2> QED BY <2>1, <2>2, <2>3
<1>4. d \in Int /\ f \in Int /\ 1 <= d /\ d <= last_day(m, leap) /\ 1 <= f /\ f <= last_day(n, leap)
  BY <1>1
<1>5. /\ Place(m, d, Y0, Y1) = Y0 + 306 + BeforeMonth(m, leap) + d
      /\ Place(n, f, Y0, Y1) = Y0 + 306 + BeforeMonth(n, leap) + f
      /\ BeforeMonth(m, leap) \in 0..335 /\ BeforeMonth(n, leap) \in 0..335
  BY <1>3, <1>4
<1>6. m < n => Place(m, d, Y0, Y1) < Place(n, f, Y0, Y1)
  <2>1. m < n => MonthFollows(m, n, leap)
    BY MonthsFollow
  <2>2. last_day(m, leap) \in Int
    BY <1>1
  <2>3. PICK l \in Int : l = last_day(m, leap)
    BY <2>2
  <2>4. PICK b \in Int : b = BeforeMonth(m, leap)
    BY <1>5
  <2>5. PICK c \in Int : c = BeforeMonth(n, leap)
    BY <1>5
  <2>6. m < n => b + l <= c
    BY <2>1, <2>3, <2>4, <2>5 DEF MonthFollows
  <2>7. d <= l /\ 1 <= f
    BY <1>4, <2>3
  <2>8. Place(m, d, Y0, Y1) = Y0 + 306 + b + d /\ Place(n, f, Y0, Y1) = Y0 + 306 + c + f
    BY <1>5, <2>4, <2>5
  <2> QED BY <1>2, <1>4, <2>6, <2>7, <2>8
<1>7. m = n => /\ d <= f => Place(m, d, Y0, Y1) <= Place(n, f, Y0, Y1)
               /\ d < f => Place(m, d, Y0, Y1) < Place(n, f, Y0, Y1)
  BY <1>2, <1>4, <1>5
<1>8. Y0 + 306 < Place(m, d, Y0, Y1)
  BY <1>2, <1>4, <1>5
<1>9. Place(m, d, Y0, Y1) <= Y1 + 306
  <2>1. BeforeMonth(m, leap) + d <= (IF leap THEN 366 ELSE 365)
    <3>1. CASE m < 12
      <4>1. BeforeMonth(m, leap) + last_day(m, leap) <= (IF leap THEN 335 ELSE 334)
        <5>1. MonthFollows(m, 12, leap)
          BY <3>1, MonthsFollow
        <5> QED BY <1>3, <1>4, <5>1 DEF MonthFollows
      <4> QED BY <1>1, <1>4, <1>5, <4>1
    <3>2. CASE m = 12
      <4>1. last_day(12, leap) = 31 /\ BeforeMonth(12, leap) = IF leap THEN 335 ELSE 334
        BY <1>3, <1>4 DEF last_day
      <4> QED BY <1>4, <3>2, <4>1
    <3> QED BY <3>1, <3>2
  <2> QED BY <1>2, <1>4, <1>5, <2>1
<1> QED
  <2>1. Place(m, d, Y0, Y1) \in Int /\ Place(n, f, Y0, Y1) \in Int
    BY <1>2, <1>4, <1>5
  <2> QED BY <1>6, <1>7, <1>8, <1>9, <2>1

(* March years follow each other.                                          *)
LEMMA YearsFollow ==
  ASSUME NEW Y \in Int, NEW Z \in Int, Y <= Z
  PROVE  gregorian_years(Y) <= gregorian_years(Z)
<1>1. /\ Y \div 4 \in Int /\ Z \div 4 \in Int /\ Y \div 4 <= Z \div 4
  OBVIOUS
<1>2. /\ Y \div 100 \in Int /\ Z \div 100 \in Int /\ Z \div 100 - Y \div 100 <= Z - Y
  OBVIOUS
<1>3. Y \div 400 \in Int /\ Z \div 400 \in Int /\ Y \div 400 <= Z \div 400
  OBVIOUS
<1> QED BY <1>1, <1>2, <1>3 DEF gregorian_years

(* A day of the Gregorian calendar stands between two such years.          *)
MarchBefore(y) == gregorian_years(y + 4799)
MarchAfter(y) == gregorian_years(y + 4800)

GregorianDay(y, m, d, leap) ==
  /\ leap \in BOOLEAN /\ d \in 1..last_day(m, leap)
  /\ YearSpans(MarchBefore(y), MarchAfter(y), leap)
  /\ Place(m, d, MarchBefore(y), MarchAfter(y)) \in Int
  /\ gregorian_jdn(y, m, d) = Place(m, d, MarchBefore(y), MarchAfter(y)) - 32045

(* Every day does.                                                        *)
LEMMA GregorianStands ==
  ASSUME NEW y \in Int, NEW m \in 1..12, NEW d \in Int, check(m, d, is_gregorian_leap(y))
  PROVE  GregorianDay(y, m, d, is_gregorian_leap(y))
<1>1. is_gregorian_leap(y) \in BOOLEAN /\ d \in 1..last_day(m, is_gregorian_leap(y))
  BY DEF check, is_gregorian_leap
<1>2. YearSpans(MarchBefore(y), MarchAfter(y), is_gregorian_leap(y))
  BY YearLengths DEF YearSpans, MarchBefore, MarchAfter
<1>3. gregorian_jdn(y, m, d) = Place(m, d, MarchBefore(y), MarchAfter(y)) - 32045
  BY JdnForms DEF GregorianForm, MarchBefore, MarchAfter
<1>4. Place(m, d, MarchBefore(y), MarchAfter(y)) \in Int
  BY <1>2 DEF Place, before_month, YearSpans
<1> QED BY <1>1, <1>2, <1>3, <1>4 DEF GregorianDay

(* Of two days of the Gregorian calendar the later has the larger number.  *)
LEMMA GregorianAscends ==
  ASSUME NEW s \in Days, NEW t \in Days, Before(s, t),
         check(s[2], s[3], is_gregorian_leap(s[1])), check(t[2], t[3], is_gregorian_leap(t[1]))
  PROVE  gregorian_jdn(s[1], s[2], s[3]) < gregorian_jdn(t[1], t[2], t[3])
<1>1. \A u \in Days : u[1] \in Int /\ u[2] \in 1..12 /\ u[3] \in Int
  BY DEF Days
<1>2. PICK y \in Int, m \in 1..12, d \in Int : y = s[1] /\ m = s[2] /\ d = s[3]
  BY <1>1
<1>3. PICK z \in Int, n \in 1..12, f \in Int : z = t[1] /\ n = t[2] /\ f = t[3]
  BY <1>1
<1>4. GregorianDay(y, m, d, is_gregorian_leap(y))
  BY <1>2, GregorianStands
<1>5. GregorianDay(z, n, f, is_gregorian_leap(z))
  BY <1>3, GregorianStands
<1> DEFINE p == Place(m, d, MarchBefore(y), MarchAfter(y))
           q == Place(n, f, MarchBefore(z), MarchAfter(z))
<1>6. p < q
  <2>1. CASE y = z
    <3>1. m < n \/ (m = n /\ d < f)
      BY <1>2, <1>3, <2>1 DEF Before
    <3> QED BY <1>4, <1>5, <2>1, <3>1, DaysFollow DEF GregorianDay
  <2>2. CASE y < z
    <3>1. p <= MarchAfter(y) + 306 /\ MarchAfter(y) \in Int
      BY <1>4, DaysFollow DEF GregorianDay, YearSpans
    <3>2. MarchBefore(z) + 306 < q /\ MarchBefore(z) \in Int
      BY <1>5, DaysFollow DEF GregorianDay, YearSpans
    <3>3. MarchAfter(y) <= MarchBefore(z)
      <4>1. PICK Y \in Int, Z \in Int : Y = y + 4800 /\ Z = z + 4799 /\ Y <= Z
        BY <2>2
      <4> QED BY <4>1, YearsFollow DEF MarchAfter, MarchBefore
    <3>4. p \in Int /\ q \in Int
      BY <1>4, <1>5 DEF GregorianDay
    <3> HIDE DEF p, q
    <3> QED BY <3>1, <3>2, <3>3, <3>4
  <2>3. ~(y > z)
    BY <1>2, <1>3 DEF Before
  <2> QED BY <2>1, <2>2, <2>3
<1>7. /\ p \in Int /\ gregorian_jdn(y, m, d) = p - 32045
      /\ q \in Int /\ gregorian_jdn(z, n, f) = q - 32045
  BY <1>4, <1>5 DEF GregorianDay
<1> HIDE DEF p, q
<1> QED BY <1>2, <1>3, <1>6, <1>7

(* So does a day of the Julian calendar.                                   *)
JulianDay(y, m, d, leap) ==
  /\ leap \in BOOLEAN /\ d \in 1..last_day(m, leap)
  /\ YearSpans(julian_years(y + 4799), julian_years(y + 4800), leap)
  /\ Place(m, d, julian_years(y + 4799), julian_years(y + 4800)) \in Int
  /\ julian_jdn(y, m, d) = Place(m, d, julian_years(y + 4799), julian_years(y + 4800)) - 32083

(* Every day does.                                                        *)
LEMMA JulianStands ==
  ASSUME NEW y \in Int, NEW m \in 1..12, NEW d \in Int, check(m, d, is_julian_leap(y))
  PROVE  JulianDay(y, m, d, is_julian_leap(y))
<1>1. is_julian_leap(y) \in BOOLEAN /\ d \in 1..last_day(m, is_julian_leap(y))
  BY DEF check, is_julian_leap
<1>2. YearSpans(julian_years(y + 4799), julian_years(y + 4800), is_julian_leap(y))
  BY YearLengths DEF YearSpans
<1>3. julian_jdn(y, m, d) = Place(m, d, julian_years(y + 4799), julian_years(y + 4800)) - 32083
  BY JdnForms DEF JulianForm
<1>4. Place(m, d, julian_years(y + 4799), julian_years(y + 4800)) \in Int
  BY <1>2 DEF Place, before_month, YearSpans
<1> QED BY <1>1, <1>2, <1>3, <1>4 DEF JulianDay

(* What convert answers with is a day, or two, of the Gregorian calendar,  *)
(* in order.                                                               *)
THEOREM AnswersInOrder ==
  ASSUME NEW y \in Int, NEW month \in Part, NEW day \in Part, NEW r,
         r = convert(y, month, day), Ok(r)
  PROVE  /\ FirstDay(r) \in Days /\ check(FirstDay(r)[2], FirstDay(r)[3], is_gregorian_leap(FirstDay(r)[1]))
         /\ LastDay(r) \in Days /\ check(LastDay(r)[2], LastDay(r)[3], is_gregorian_leap(LastDay(r)[1]))
         /\ ~Before(LastDay(r), FirstDay(r))
<1> DEFINE s == FirstDay(r)
           t == LastDay(r)
           b == Begins(y, month, day)
           e == Ends(y, month, day)
<1>1. Answers(s, b) /\ Answers(t, e)
  BY EndsAnswered
<1>2. b[1] = y /\ e[1] = y
  BY DEF Begins, Ends
<1>3. /\ b \in Days /\ check(b[2], b[3], is_julian_leap(y))
      /\ e \in Days /\ check(e[2], e[3], is_julian_leap(y))
  BY <1>1, <1>2 DEF Answers
<1>4. b[2] < e[2] \/ (b[2] = e[2] /\ b[3] <= e[3])
  <2>1. b[2] \in 1..12 /\ b[3] \in 1..31 /\ e[2] \in 1..12 /\ e[3] \in 1..31
    BY <1>3 DEF Days
  <2>2. CASE month = <<>>
    <3>1. b[2] = 1 /\ e[2] = 12
      BY <2>2 DEF Begins, Ends
    <3> QED BY <3>1
  <2>3. CASE month # <<>> /\ day = <<>>
    <3>1. b[2] = e[2] /\ b[3] = 1
      BY <2>3 DEF Begins, Ends
    <3> QED BY <2>1, <3>1
  <2>4. CASE month # <<>> /\ day # <<>>
    <3>1. b[2] = e[2] /\ b[3] = e[3]
      BY <2>4 DEF Begins, Ends
    <3> QED BY <2>1, <3>1
  <2> QED BY <2>2, <2>3, <2>4
<1> HIDE DEF s, t, b, e
<1>5. julian_jdn(b[1], b[2], b[3]) <= julian_jdn(e[1], e[2], e[3])
  <2>1. PICK m \in 1..12, d \in Int : m = b[2] /\ d = b[3]
    BY <1>3 DEF Days
  <2>2. PICK n \in 1..12, f \in Int : n = e[2] /\ f = e[3]
    BY <1>3 DEF Days
  <2>3. JulianDay(y, m, d, is_julian_leap(y))
    BY <1>3, <2>1, JulianStands
  <2>4. JulianDay(y, n, f, is_julian_leap(y))
    BY <1>3, <2>2, JulianStands
  <2>5. julian_jdn(y, m, d) <= julian_jdn(y, n, f)
    <3> DEFINE p == Place(m, d, julian_years(y + 4799), julian_years(y + 4800))
               q == Place(n, f, julian_years(y + 4799), julian_years(y + 4800))
    <3>1. p <= q
      BY <1>4, <2>1, <2>2, <2>3, <2>4, DaysFollow DEF JulianDay
    <3>2. /\ p \in Int /\ julian_jdn(y, m, d) = p - 32083
          /\ q \in Int /\ julian_jdn(y, n, f) = q - 32083
      BY <2>3, <2>4 DEF JulianDay
    <3> HIDE DEF p, q
    <3> QED BY <3>1, <3>2
  <2> QED BY <1>2, <2>1, <2>2, <2>5
<1>6. ASSUME NEW u, NEW w, Answers(u, w)
      PROVE  /\ u \in Days /\ check(u[2], u[3], is_gregorian_leap(u[1]))
             /\ gregorian_jdn(u[1], u[2], u[3]) = julian_jdn(w[1], w[2], w[3])
             /\ julian_jdn(w[1], w[2], w[3]) \in Int
  <2>1. /\ u = jdn_to_gregorian(julian_jdn(w[1], w[2], w[3]))
        /\ w \in Days /\ check(w[2], w[3], is_julian_leap(w[1]))
    BY <1>6 DEF Answers
  <2>2. PICK v \in Int, m \in 1..12, d \in Int : v = w[1] /\ m = w[2] /\ d = w[3]
    BY <2>1 DEF Days
  <2>3. d >= 1 /\ d <= last_day(m, is_julian_leap(v))
    BY <2>1, <2>2 DEF check, last_day
  <2>4. julian_jdn(v, m, d) \in Int
    BY <2>3, JulianInverts
  <2> QED BY <2>1, <2>2, <2>4, NumbersNameDays
<1>7. /\ s \in Days /\ check(s[2], s[3], is_gregorian_leap(s[1]))
      /\ t \in Days /\ check(t[2], t[3], is_gregorian_leap(t[1]))
  BY <1>1, <1>6
<1>8. ~Before(t, s)
  <2> SUFFICES ASSUME Before(t, s) PROVE FALSE
    OBVIOUS
  <2>1. PICK n \in Int, k \in Int :
          /\ n = gregorian_jdn(s[1], s[2], s[3]) /\ n = julian_jdn(b[1], b[2], b[3])
          /\ k = gregorian_jdn(t[1], t[2], t[3]) /\ k = julian_jdn(e[1], e[2], e[3])
    BY <1>1, <1>6
  <2>2. k < n
    BY <1>7, <2>1, GregorianAscends
  <2> QED BY <1>5, <2>1, <2>2
<1> QED BY <1>7, <1>8 DEF s, t
=============================================================================
