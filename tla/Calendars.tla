------------------------------- MODULE Calendars -------------------------------
(***************************************************************************)
(* The day number arithmetic of JulianDays against the two calendars       *)
(* themselves.  The days pass one by one while each calendar names them by *)
(* its own leap rule, and the properties ask at every day what the         *)
(* arithmetic says of it.                                                  *)
(***************************************************************************)
EXTENDS JulianDays

CONSTANTS Anchor,               \* a day known by number and by both names
          LastJdn               \* bound: where a run stops walking

-----------------------------------------------------------------------------
(* The two names of the anchor are days, and its number counts them both.  *)
ASSUME AnchorAssumption ==
  LET g == Anchor.gregorian
      j == Anchor.julian
  IN  /\ Anchor.jdn \in Int /\ LastJdn \in Int /\ Anchor.jdn <= LastJdn
      /\ g \in Days /\ check(g[2], g[3], is_gregorian_leap(g[1]))
      /\ j \in Days /\ check(j[2], j[3], is_julian_leap(j[1]))
      /\ gregorian_jdn(g[1], g[2], g[3]) = Anchor.jdn
      /\ julian_jdn(j[1], j[2], j[3]) = Anchor.jdn

VARIABLES jdn, gregorian, julian,   \* today: its number and its two names
          month_began,              \* Gregorian name of day 1 of this Julian
          year_began                \* month and year; <<>> if not yet seen

vars == <<jdn, gregorian, julian, month_began, year_began>>

(* The name of tomorrow, under either leap rule. *)
day_after(t, leap) ==
  IF t[3] < last_day(t[2], leap) THEN <<t[1], t[2], t[3] + 1>>
  ELSE IF t[2] < 12 THEN <<t[1], t[2] + 1, 1>> ELSE <<t[1] + 1, 1, 1>>

Init == /\ jdn = Anchor.jdn
        /\ gregorian = Anchor.gregorian /\ julian = Anchor.julian
        /\ month_began = <<>> /\ year_began = <<>>

Tomorrow ==
  /\ jdn < LastJdn
  /\ jdn' = jdn + 1
  /\ gregorian' = day_after(gregorian, is_gregorian_leap(gregorian[1]))
  /\ julian' = day_after(julian, is_julian_leap(julian[1]))
  /\ month_began' = IF julian'[3] = 1 THEN gregorian' ELSE month_began
  /\ year_began' = IF julian'[2] = 1 /\ julian'[3] = 1 THEN gregorian' ELSE year_began

Next == Tomorrow

Spec == Init /\ [][Next]_vars

-----------------------------------------------------------------------------
(* Each name is a day of its own calendar, and so is the first day of the  *)
(* Julian month and year. *)
TypeOK == /\ jdn \in Int /\ jdn <= LastJdn
          /\ gregorian \in Days /\ check(gregorian[2], gregorian[3], is_gregorian_leap(gregorian[1]))
          /\ julian \in Days /\ check(julian[2], julian[3], is_julian_leap(julian[1]))
          /\ \A t \in {month_began, year_began} \ {<<>>} :
               IsDay(t) /\ AtMost(t, gregorian)

(* The day number of either name is the count of days that have passed: a  *)
(* leap day is counted in the calendar that has it and in no other.        *)
CountsDays == /\ gregorian_jdn(gregorian[1], gregorian[2], gregorian[3]) = jdn
              /\ julian_jdn(julian[1], julian[2], julian[3]) = jdn

(* The inversions give back the names, so a conversion there and back is   *)
(* the identity (lib.rs:319-320, the round-trip partner).                  *)
NamesDays == jdn_to_gregorian(jdn) = gregorian /\ jdn_to_julian(jdn) = julian

(* A conversion answers with the other calendar's name of the same day, or *)
(* says OutOfRange exactly when that name's year does not fit.             *)
ConvertsDays ==
  /\ julian[1] \in Years =>
       convert(julian[1], <<julian[2]>>, <<julian[3]>>) = narrow(gregorian)
  /\ gregorian[1] \in Years => gregorian_to_julian(gregorian) = narrow(julian)

(* Precision honesty (lib.rs:33-37): a Julian month or year converts to    *)
(* exactly the Gregorian days that passed between its first and its last   *)
(* day, and to no span at all when either end does not fit.                *)
Passed(began, answer) ==
  began # <<>> => answer = IF {began[1], gregorian[1]} \subseteq Years
                           THEN Span(began, gregorian) ELSE OutOfRange

MonthEnds == julian[3] = last_day(julian[2], is_julian_leap(julian[1]))

SpansWhole ==
  julian[1] \in Years /\ MonthEnds =>
    /\ Passed(month_began, convert(julian[1], <<julian[2]>>, <<>>))
    /\ julian[2] = 12 => Passed(year_began, convert(julian[1], <<>>, <<>>))
=============================================================================
