------------------------------ MODULE FromJulian ------------------------------
(***************************************************************************)
(* A Julian date through three crates: the command line reads it           *)
(* (main.rs parse_julian_parts), edtf-calendars converts it, the command   *)
(* line prints the days (main.rs from_julian, bounds.rs BoundDate), and    *)
(* the printed text is given to the parser.                                *)
(***************************************************************************)
EXTENDS Parser

CONSTANT JulianInputs       \* the dates a user may give, as texts

ASSUME JulianInputsAssumption == JulianInputs \subseteq TokenText

VARIABLE input              \* the date the user gave

J == INSTANCE JulianDays WITH MinYear <- I64Min, MaxYear <- I64Max

-----------------------------------------------------------------------------
(* Y, Y-MM or Y-MM-DD: the sign, then what each call of next() still has   *)
(* before it, if anything, and the slice it cuts off.                      *)
year_ahead_of(t) == Some(eat(t, "-"))
beyond(left) == IF left = None THEN None ELSE after(Get(left), "-")
month_ahead_of(t) == beyond(year_ahead_of(t))
day_ahead_of(t) == beyond(month_ahead_of(t))
slice(left) == before(Get(left), "-")

is_number(p) == Len(p) = 1 /\ IsGroup(p[1]) /\ ~has_x(p[1].digits)

is_two_digit(left) ==
  left # None => is_number(slice(left)) /\ Len(slice(left)[1].digits) = 2

readable(t) ==
  /\ is_number(slice(year_ahead_of(t))) /\ take_number(slice(year_ahead_of(t))) # None
  /\ is_two_digit(month_ahead_of(t)) /\ is_two_digit(day_ahead_of(t))
  /\ beyond(day_ahead_of(t)) = None

julian_year(t) ==
  (IF starts(t, "-") THEN -1 ELSE 1) * Get(take_number(slice(year_ahead_of(t))))

(* A month or a day, if it is given. *)
two_digit(left) == IF left = None THEN <<>> ELSE <<two(slice(left)[1])>>
julian_month(t) == two_digit(month_ahead_of(t))
julian_day(t) == two_digit(day_ahead_of(t))

converted(t) == J!convert(julian_year(t), julian_month(t), julian_day(t))

-----------------------------------------------------------------------------
(* A day is printed with two digits for month and day, four or more for    *)
(* the year, and its sign.                                                 *)


YearText(n) ==
  IF n < 0 \/ n > 9999 THEN SignedText(n)
  ELSE <<Group(<<n \div 1000, (n \div 100) % 10, (n \div 10) % 10, n % 10>>)>>

(* The first of the years has no negative: in a build that does not check  *)
(* the arithmetic it is its own, and prints a second sign.                 *)
magnitude(n) == IF n < 0 /\ n # I64Min THEN -n ELSE n

(* Mutant of DayText: the year is not padded.                              *)
DayTextUnpadded(t) ==
  SignedText(t[1]) \o <<Sym("-")>> \o TwoDigits(t[2]) \o <<Sym("-")>> \o TwoDigits(t[3])

DayText(t) ==
  (IF t[1] < 0 THEN <<Sym("-")>> ELSE <<>>) \o YearText(magnitude(t[1]))
    \o <<Sym("-")>> \o TwoDigits(t[2]) \o <<Sym("-")>> \o TwoDigits(t[3])

earliest_of(r) == IF r.out = "Day" THEN r.day ELSE r.earliest
latest_of(r) == IF r.out = "Day" THEN r.day ELSE r.latest

printed(r) == IF r.out = "Day" THEN DayText(r.day)
              ELSE DayText(r.earliest) \o <<Sym("/")>> \o DayText(r.latest)

-----------------------------------------------------------------------------
Typed == /\ input \in JulianInputs /\ pc = "typed" /\ text = <<>>
         /\ NothingRead /\ value = None /\ first = None

(* The answer is printed, and read as an EDTF expression. *)
Convert == /\ pc = "typed" /\ readable(input)
           /\ \E r \in {converted(input)} : J!Ok(r) /\ text' = printed(r)
           /\ pc' = "start"
           /\ UNCHANGED <<input, later, part, slices, dates, rest, date, width, ends, value, first>>

(* A build that checks the arithmetic panics on a year without a negative. *)
Panic == /\ pc = "typed" /\ readable(input)
         /\ \E r \in {converted(input)} : J!Ok(r) /\ I64Min \in {earliest_of(r)[1], latest_of(r)[1]}
         /\ pc' = "panicked"
         /\ UNCHANGED <<input, text, later, part, slices, dates, rest, date, width, ends, value, first>>

(* The input is complained about. *)
Refuse == /\ pc = "typed" /\ (readable(input) => ~J!Ok(converted(input)))
          /\ pc' = "refused"
          /\ UNCHANGED <<input, text, later, part, slices, dates, rest, date, width, ends, value, first>>

Answered == pc \notin {"typed", "refused", "panicked"}

ReadPrinted == Answered /\ (Read \/ Reject) /\ UNCHANGED input

Finished == pc \in {"refused", "panicked", "parsed", "rejected"} /\ UNCHANGED <<input, vars>>

FromJulianNext == Convert \/ Panic \/ Refuse \/ ReadPrinted \/ Finished

FromJulianSpec == Typed /\ [][FromJulianNext]_<<input, vars>>

-----------------------------------------------------------------------------
(* The years four digits write, with a sign. *)
ShortYears == -9999..9999

(* While both days have four-digit years, the printed text is EDTF and     *)
(* denotes exactly the converted days: bounds() of what the parser reads   *)
(* are the first and the last of them (main.rs:12).                        *)
ReadsBack ==
  Answered =>
    \A r \in {converted(input)} :
      {earliest_of(r)[1], latest_of(r)[1]} \subseteq ShortYears =>
        /\ pc # "rejected"
        /\ pc = "parsed" =>
             bounds(Get(value)) = MkBounds(DayBound(earliest_of(r)), DayBound(latest_of(r)))

(* A Julian year, month or day is answered by exactly its own days, never *)
(* by a Gregorian year or month (main.rs:86-88): the first day answered is *)
(* its first, and the day after the last begins the next one.              *)
BeginsAt(t) ==
  <<julian_year(t),
    IF julian_month(t) = <<>> THEN 1 ELSE julian_month(t)[1],
    IF julian_day(t) = <<>> THEN 1 ELSE julian_day(t)[1]>>

NextBeginsAt(t) ==
  LET b == BeginsAt(t)
  IN  IF julian_month(t) = <<>> THEN <<b[1] + 1, 1, 1>>
      ELSE IF julian_day(t) = <<>> \/ ~J!check(b[2], b[3] + 1, J!is_julian_leap(b[1]))
           THEN next_month(b[1], b[2], 1)
      ELSE <<b[1], b[2], b[3] + 1>>

CoversPrecision ==
  Answered =>
    \A r \in {converted(input)} :
      /\ J!gregorian_to_julian(earliest_of(r)) = J!DayOf(BeginsAt(input))
      /\ J!gregorian_to_julian(successor("Day", latest_of(r))) = J!narrow(NextBeginsAt(input))

=============================================================================
