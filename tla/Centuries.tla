------------------------------- MODULE Centuries -------------------------------
(***************************************************************************)
(* The year arithmetic of the prose normalizer (engine.rs): which          *)
(* astronomical years a century, a part of one, a year before Christ and   *)
(* an elided end year stand for.  Year 0 exists.                           *)
(***************************************************************************)
EXTENDS Integers

(* The n-th century, counted from 1, as its first and its last year. *)
century_span(n, bc) ==
  IF bc THEN <<-(100 * n - 1), -(100 * (n - 1))>> ELSE <<100 * (n - 1) + 1, 100 * n>>

Span == {"Early", "Mid", "Late", "FirstHalf", "SecondHalf"}

(* Mutant of century_part: the middle ends a decade early. *)
century_part_short_mid(part, n, bc) ==
  LET s == century_span(n, bc)[1]
      e == century_span(n, bc)[2]
  IN  CASE part = "Early" -> <<s, s + 29>>
        [] part = "Mid" -> <<s + 30, s + 59>>
        [] part = "Late" -> <<s + 70, e>>
        [] part = "FirstHalf" -> <<s, s + 49>>
        [] part = "SecondHalf" -> <<s + 50, e>>

century_part(part, n, bc) ==
  LET s == century_span(n, bc)[1]
      e == century_span(n, bc)[2]
  IN  CASE part = "Early" -> <<s, s + 29>>
        [] part = "Mid" -> <<s + 30, s + 69>>
        [] part = "Late" -> <<s + 70, e>>
        [] part = "FirstHalf" -> <<s, s + 49>>
        [] part = "SecondHalf" -> <<s + 50, e>>

(* Mutant of era_year: there is no year zero to count. *)
era_year_no_zero(b, bc) == IF bc THEN -b ELSE b

(* The astronomical number of year b of an era. *)
era_year(b, bc) == IF bc THEN 1 - b ELSE b

(* The end year of y-v when v is written with two digits. *)
elided(y, v) == (y \div 100) * 100 + v

SubYearCode == 21..41

(* Where y and v may be read as a range: written without spaces, 01-12 has *)
(* been read as a month already; written apart, a start with no century to *)
(* inherit is refused.                                                     *)
elides(y, v) == elided(y, v) > y
elides_apart(y, v) == y >= 100 /\ elided(y, v) > y /\ v > 12

(* NNNN-NN is also a sub-year grouping of the year. *)
collides(y, v) == v \in SubYearCode /\ elides(y, v)
=============================================================================
