---------------------------- MODULE EdtfCalendar ----------------------------
(***************************************************************************)
(* The proleptic Gregorian calendar of edtf-core, shared by every module.  *)
(*                                                                         *)
(* A calendar day (bounds.rs BoundDate) is the triple <<year, month, day>> *)
(* with the astronomical year number (0 exists and is a leap year), under  *)
(* the lexicographic order that BoundDate derives.  A masked digit is the  *)
(* extra digit X.  Nothing here is recursive, so the module can be used    *)
(* from modules that carry proofs.                                         *)
(***************************************************************************)
EXTENDS Integers, Sequences

(* An unspecified digit: None in the code's Option<u8> digit arrays. *)
X == 10
Digit == 0..9
MaskDigit == Digit \cup {X}

-----------------------------------------------------------------------------
(* The leap rule on the astronomical year; % is the Euclidean remainder.   *)
is_leap(y) == y % 4 = 0 /\ (y % 100 # 0 \/ y % 400 = 0)

last_day(month, leap) ==
  IF month \in {4, 6, 9, 11} THEN 30
  ELSE IF month = 2 THEN (IF leap THEN 29 ELSE 28)
  ELSE 31

(* A day that exists in the calendar. *)
IsDay(t) == /\ t[1] \in Int
            /\ t[2] \in 1..12
            /\ t[3] \in 1..last_day(t[2], is_leap(t[1]))

-----------------------------------------------------------------------------
(* The order BoundDate derives: by year, then month, then day. *)
Before(s, t) == \/ s[1] < t[1]
                \/ s[1] = t[1] /\ s[2] < t[2]
                \/ s[1] = t[1] /\ s[2] = t[2] /\ s[3] < t[3]

AtMost(s, t) == s = t \/ Before(s, t)

Earlier(s, t) == IF Before(t, s) THEN t ELSE s
Later(s, t)   == IF Before(s, t) THEN t ELSE s

-----------------------------------------------------------------------------
(* The position after cur in a walk at the given precision; the slots a    *)
(* precision does not use stay 0.                                          *)

(* Mutant of next_month: December has a thirteenth month for its successor.*)
next_month_no_carry(y, m, d) == <<y, m + 1, d>>

next_month(y, m, d) == IF m = 12 THEN <<y + 1, 1, d>> ELSE <<y, m + 1, d>>

(* Mutant of successor: every year is walked as a common year.             *)
successor_common(precision, cur) ==
  IF precision = "Year" THEN <<cur[1] + 1, 0, 0>>
  ELSE IF precision = "Month" THEN next_month(cur[1], cur[2], 0)
  ELSE IF cur[3] < last_day(cur[2], FALSE) THEN <<cur[1], cur[2], cur[3] + 1>>
  ELSE next_month(cur[1], cur[2], 1)

successor(precision, cur) ==
  LET y == cur[1]
      m == cur[2]
      d == cur[3]
  IN  IF precision = "Year" THEN <<y + 1, 0, 0>>
      ELSE IF precision = "Month" THEN next_month(y, m, 0)
      ELSE IF d < last_day(m, is_leap(y)) THEN <<y, m, d + 1>>
      ELSE next_month(y, m, 1)

(* The positions such a walk may stand on, given the years it may visit.   *)
Position(precision, years) ==
  {t \in years \X (0..12) \X (0..31) :
     /\ precision = "Year"  => t[2] = 0 /\ t[3] = 0
     /\ precision = "Month" => t[2] # 0 /\ t[3] = 0
     /\ precision = "Day"   => IsDay(t)}

-----------------------------------------------------------------------------
(* Masks: a two-digit field or a four-digit year against a concrete value. *)
matches(digits, actual) ==
  \A i \in DOMAIN digits : digits[i] \in {X, actual[i]}

field_matches(digits, v) == matches(digits, <<v \div 10, v % 10>>)

year_matches(digits, y) ==
  matches(digits, <<(y \div 1000) % 10, (y \div 100) % 10, (y \div 10) % 10, y % 10>>)

(* The year written by four digits, every masked one replaced by fill. *)
year_value(digits, fill) ==
  LET d(i) == IF digits[i] = X THEN fill ELSE digits[i]
  IN  1000 * d(1) + 100 * d(2) + 10 * d(3) + d(4)

has_x(digits) == \E i \in DOMAIN digits : digits[i] = X
=============================================================================
