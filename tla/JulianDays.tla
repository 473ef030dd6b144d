------------------------------ MODULE JulianDays ------------------------------
(***************************************************************************)
(* edtf-calendars: proleptic Julian (Old Style) dates to proleptic         *)
(* Gregorian days and back, by Julian Day Number arithmetic.               *)
(*                                                                         *)
(* The code computes in i128, wide enough for any i64 year, so integers    *)
(* are unbounded here; a result is narrowed to MinYear..MaxYear (i64).     *)
(***************************************************************************)
EXTENDS EdtfCalendar

CONSTANTS MinYear, MaxYear      \* i64::MIN and i64::MAX

Years == MinYear..MaxYear

(* The days of the year, month by month, whatever its leap rule. *)
Days == Int \X (1..12) \X (1..31)

is_julian_leap(year) == year % 4 = 0
is_gregorian_leap(year) == year % 4 = 0 /\ (year % 100 # 0 \/ year % 400 = 0)

-----------------------------------------------------------------------------
(* Day numbers.  March counts as month 0, so that February ends the year;  *)
(* \div is floor division, the code's div_euclid by a positive number.     *)
Era(y, m) == LET a == (14 - m) \div 12
             IN  [year |-> y + 4800 - a, month |-> m + 12 * a - 3]

(* The days of the era before its month-th month, March first; the mutant  *)
(* rounds at the wrong months. *)
before_month_rounded(month) == (153 * month + 1) \div 5
before_month(month) == (153 * month + 2) \div 5

julian_jdn(y, m, d) ==
  LET e == Era(y, m)
  IN  d + before_month(e.month) + 365 * e.year + e.year \div 4 - 32083

gregorian_jdn(y, m, d) ==
  LET e == Era(y, m)
  IN  d + before_month(e.month) + 365 * e.year + e.year \div 4 - e.year \div 100
        + e.year \div 400 - 32045

(* Mutant of split: January and February stay in the era's year.           *)
split_no_carry(c) ==
  LET d == (4 * c + 3) \div 1461
      e == c - (1461 * d) \div 4
      m == (5 * e + 2) \div 153
  IN  <<d, m + 3 - 12 * (m \div 10), e - before_month(m) + 1>>

(* The shared tail of both inversions: the year, month and day of day c of *)
(* an era of four-year cycles. *)
split(c) ==
  LET d == (4 * c + 3) \div 1461
      e == c - (1461 * d) \div 4
      m == (5 * e + 2) \div 153
  IN  <<d + m \div 10, m + 3 - 12 * (m \div 10), e - before_month(m) + 1>>

jdn_to_gregorian(jdn) ==
  LET a == jdn + 32044
      b == (4 * a + 3) \div 146097
      t == split(a - (146097 * b) \div 4)
  IN  <<100 * b + t[1] - 4800, t[2], t[3]>>

jdn_to_julian(jdn) ==
  LET t == split(jdn + 32082)
  IN  <<t[1] - 4800, t[2], t[3]>>

-----------------------------------------------------------------------------
(* The public conversions: a date that does not exist is refused first, a  *)
(* year that does not fit an i64 last.  A result is a day, a span or an    *)
(* error, and the first error met is the answer.                           *)
InvalidDate == [out |-> "InvalidDate"]
OutOfRange  == [out |-> "OutOfRange"]
DayOf(t) == [out |-> "Day", day |-> t]
Span(s, t) == [out |-> "Span", earliest |-> s, latest |-> t]
Ok(r) == r.out \in {"Day", "Span"}

(* Mutant of check: the last day of a month is refused.                    *)
check_exclusive(month, day, leap) == month \in 1..12 /\ day \in 1..(last_day(month, leap) - 1)

check(month, day, leap) == month \in 1..12 /\ day \in 1..last_day(month, leap)

narrow(t) == IF t[1] \in Years THEN DayOf(t) ELSE OutOfRange

(* Mutant of julian_to_gregorian: the leap rule of the other calendar.     *)
julian_to_gregorian_leap(t) ==
  IF ~check(t[2], t[3], is_gregorian_leap(t[1])) THEN InvalidDate
  ELSE narrow(jdn_to_gregorian(julian_jdn(t[1], t[2], t[3])))

julian_to_gregorian(t) ==
  IF ~check(t[2], t[3], is_julian_leap(t[1])) THEN InvalidDate
  ELSE narrow(jdn_to_gregorian(julian_jdn(t[1], t[2], t[3])))

gregorian_to_julian(t) ==
  IF ~check(t[2], t[3], is_gregorian_leap(t[1])) THEN InvalidDate
  ELSE narrow(jdn_to_julian(gregorian_jdn(t[1], t[2], t[3])))

SpanOf(first, last) ==
  LET s == julian_to_gregorian(first)
      t == julian_to_gregorian(last)
  IN  IF ~Ok(s) THEN s ELSE IF ~Ok(t) THEN t ELSE Span(s.day, t.day)

(* Mutant of month_end: the leap rule of the other calendar.               *)
month_end_gregorian(year, month) == last_day(month, is_gregorian_leap(year))

month_end(year, month) == last_day(month, is_julian_leap(year))

(* A Julian date of any precision; a missing part is the empty sequence. *)
convert(year, month, day) ==
  CASE month # <<>> /\ day # <<>> -> julian_to_gregorian(<<year, month[1], day[1]>>)
    [] month # <<>> /\ day = <<>> ->
         IF month[1] \notin 1..12 THEN InvalidDate
         ELSE SpanOf(<<year, month[1], 1>>, <<year, month[1], month_end(year, month[1])>>)
    [] month = <<>> /\ day = <<>> -> SpanOf(<<year, 1, 1>>, <<year, 12, 31>>)
    [] month = <<>> /\ day # <<>> -> InvalidDate
=============================================================================
