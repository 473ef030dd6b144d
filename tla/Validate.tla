------------------------------- MODULE Validate -------------------------------
(***************************************************************************)
(* What the parser accepts once the syntax is read (parser.rs): the checks *)
(* that decide whether the parsed parts are an expression at all.  Every   *)
(* other module takes its expressions from the accepted ones.  The checks  *)
(* are written as predicates; which message reports a failure, and at      *)
(* which offset, is not modelled.                                          *)
(***************************************************************************)
EXTENDS Bounds

MaxExponent == 100000

-----------------------------------------------------------------------------
(* Month and day slots: the parser's own copies of the candidate lists.    *)
accepted_months(m) ==
  IF field_value(m) # None
  THEN {v \in 1..12 : v = Get(field_value(m))}
  ELSE {v \in 1..12 : field_matches(m.digits, v)}

accepted_days(f) ==
  IF field_value(f) # None
  THEN {v \in 1..31 : v = Get(field_value(f))}
  ELSE {v \in 1..31 : field_matches(f.digits, v)}

year_leap_possible(kind) ==
  IF year_of(kind) # None THEN is_leap(Get(year_of(kind)))
  ELSE \E y \in 0..9999 : year_matches(kind.digits, y) /\ is_leap(y)

month_admits_day(mm, dd, kind) ==
  dd <= last_day(mm, mm = 2 /\ dd > 28 /\ year_leap_possible(kind))

day_has_valid_completion(kind, m, f) ==
  \E mm \in accepted_months(m), dd \in accepted_days(f) : month_admits_day(mm, dd, kind)

validate_month_day(kind, month, day) ==
  month # None =>
    /\ LET v == field_value(Get(month))
       IN  IF v = None THEN accepted_months(Get(month)) # {}
           ELSE /\ Get(v) \in (1..12) \cup SeasonCode
                /\ Get(v) \in SeasonCode => day = None
    /\ day # None => day_has_valid_completion(kind, Get(month), Get(day))

-----------------------------------------------------------------------------
(* A four-digit year: no mask and no zero under a minus sign, significant  *)
(* digits only on a fully written year without a month.                    *)
ValidStandardDate(d) ==
  LET kind == d.year.kind
      sig  == d.year.significant_digits
  IN  /\ kind.negative => ~has_x(kind.digits) /\ kind.digits # <<0, 0, 0, 0>>
      /\ sig # None => ~has_x(kind.digits) /\ Get(sig) \in 1..4 /\ d.month = None
      /\ d.day # None => d.month # None
      /\ validate_month_day(kind, d.month, d.day)

(* The digits a prefixed year has, those an exponent stands for included.  *)
digit_count(kind) ==
  IF kind.form = "Big" THEN decimal_digits(Abs(kind.value))
  ELSE decimal_digits(Abs(kind.significand)) + kind.exponent

(* A Y-prefixed year: beyond four digits, its number and its sign read one *)
(* by one, year precision, and no more significant digits than the digits  *)
(* it counts.                                                              *)
ValidPrefixedYear(d) ==
  LET kind == d.year.kind
      sig  == d.year.significant_digits
  IN  /\ d.month = None /\ d.day = None
      /\ kind.form = "Big" => Abs(kind.value) \in 10000..I64Max
      /\ kind.form = "Exponential" =>
           /\ Abs(kind.significand) \in 1..I64Max
           /\ kind.exponent \in 0..MaxExponent
           /\ year_of(kind) # None => Abs(Get(year_of(kind))) > 9999
      /\ sig # None => Get(sig) \in 1..digit_count(kind)

ValidDate(d) == IF d.year.kind.form = "Standard" THEN ValidStandardDate(d)
                ELSE ValidPrefixedYear(d)

(* A date-time's date is plain and complete. *)
parse_plain_complete_date(d) ==
  /\ d.year.kind.form = "Standard" /\ ~d.year.kind.negative
  /\ d.year.significant_digits = None
  /\ d.month # None /\ d.day # None
  /\ ~has_unspecified(d) /\ qualifiers(d) = {{}}
  /\ Get(slot_value(d.month)) \in 1..12
  /\ day_has_valid_completion(d.year.kind, Get(d.month), Get(d.day))

-----------------------------------------------------------------------------
(* Order: rejected only when both bounds are concrete days and the start's *)
(* earliest day is after the end's latest.                                 *)
(* Mutant of dates_out_of_order: the two earliest days are compared.       *)
dates_out_of_order_earliest(a, b) ==
  LET lo == date_bounds(a).earliest
      hi == date_bounds(b).earliest
  IN  lo.at = "Day" /\ hi.at = "Day" /\ Before(hi.day, lo.day)

dates_out_of_order(a, b) ==
  LET lo == date_bounds(a).earliest
      hi == date_bounds(b).latest
  IN  lo.at = "Day" /\ hi.at = "Day" /\ Before(hi.day, lo.day)

(* ..date only starts an interval, date.. only ends one; one end is dated, *)
(* and two dates are in order.                                             *)
ends_agree(start, end) ==
  /\ start.kind \in {"Open", "Unknown", "Date", "OnOrBefore"}
  /\ end.kind \in {"Open", "Unknown", "Date", "OnOrAfter"}
  /\ is_dated(start) \/ is_dated(end)
  /\ start.kind = "Date" /\ end.kind = "Date" => ~dates_out_of_order(start.date, end.date)

parse_interval(start, end) ==
  /\ \A endpoint \in {start, end} : is_dated(endpoint) => ValidDate(endpoint.date)
  /\ ends_agree(start, end)

check_range_endpoint(d) ==
  /\ ~has_unspecified(d)
  /\ ~is_uncertain(d) /\ ~is_approximate(d)
  /\ precision(d) # "Season"
  /\ d.year.significant_digits = None

range_agrees(e) ==
  e.kind = "Range" =>
    /\ check_range_endpoint(e.date) /\ check_range_endpoint(e.to)
    /\ precision(e.date) = precision(e.to)
    /\ ~dates_out_of_order(e.date, e.to)

(* A set's elements are dated, and it has at least one. *)
elements_agree(elements) ==
  /\ elements # <<>>
  /\ \A i \in DOMAIN elements : is_dated(elements[i]) /\ range_agrees(elements[i])

parse_set_element(e) ==
  /\ ValidDate(e.date)
  /\ e.kind = "Range" => ValidDate(e.to)

parse_set(elements) ==
  /\ elements_agree(elements)
  /\ \A i \in DOMAIN elements : parse_set_element(elements[i])

Accepted(x) ==
  CASE x.type = "Date" -> ValidDate(x.date)
    [] x.type = "DateTime" -> parse_plain_complete_date(x.date)
    [] x.type = "Interval" -> parse_interval(x.start, x.end)
    [] x.type = "Set" -> parse_set(x.elements)
=============================================================================
