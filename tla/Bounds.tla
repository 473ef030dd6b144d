-------------------------------- MODULE Bounds --------------------------------
(***************************************************************************)
(* Edtf::bounds (bounds.rs): the earliest and the latest calendar day an   *)
(* expression touches.                                                     *)
(***************************************************************************)
EXTENDS EdtfTypes, DayLine, FiniteSets

-----------------------------------------------------------------------------
(* Significant digits: keep the leading precision digits, sweep the rest.  *)
decimal_digits(n) == CHOOSE k \in 1..(MaxPow10 + 1) :
                       n < 10^k /\ (k = 1 \/ n >= 10^(k - 1))

big_width(kind) ==
  CASE kind.form = "Standard" -> 4
    [] kind.form = "Big" -> decimal_digits(Abs(kind.value))
    [] kind.form = "Exponential" -> decimal_digits(Abs(kind.significand)) + kind.exponent

signed_range(negative, lo, hi) ==
  IF hi = None THEN None
  ELSE Some(IF negative THEN <<-Get(hi), -lo>> ELSE <<lo, Get(hi)>>)

swept_range(value, modulus) ==
  LET lo == Abs(value) - (Abs(value) % modulus)
  IN  IF Abs(value) > I64Max THEN None
      ELSE signed_range(value < 0, lo, checked_add(lo, modulus - 1))

sweep_width(prec, width) == IF width > Get(prec) THEN width - Get(prec) ELSE 0

significant_range(value, prec, width) ==
  IF prec = None \/ checked_pow10(sweep_width(prec, width)) = None
  THEN Some(<<value, value>>)
  ELSE swept_range(value, 10^sweep_width(prec, width))

WholeYears(lo, hi) == MkBounds(DayBound(<<lo, 1, 1>>), DayBound(<<hi, 12, 31>>))

-----------------------------------------------------------------------------
(* Sub-year groupings: <<first month, last month, ends in the next year>>. *)
season_months(code) ==
  CASE code \in {21, 25, 31} -> <<3, 5, FALSE>>
    [] code \in {22, 26, 32} -> <<6, 8, FALSE>>
    [] code \in {23, 27, 29} -> <<9, 11, FALSE>>
    [] code \in {24, 28, 30} -> <<12, 2, TRUE>>
    [] code \in 33..36 -> <<3 * (code - 33) + 1, 3 * (code - 33) + 3, FALSE>>
    [] code \in 37..39 -> <<4 * (code - 37) + 1, 4 * (code - 37) + 4, FALSE>>
    [] code \in 40..41 -> <<6 * (code - 40) + 1, 6 * (code - 40) + 6, FALSE>>

ends_or_mask(value, digits) ==
  IF value = None THEN <<year_value(digits, 0), year_value(digits, 9)>>
  ELSE <<Get(value), Get(value)>>

year_range(d) == ends_or_mask(year_of(d.year.kind), d.year.kind.digits)

(* The first day of the span's first month, the last of its last. *)
span_bounds(span, first, last) ==
  MkBounds(DayBound(<<first, span[1], 1>>),
           DayBound(<<last, span[2], last_day(span[2], is_leap(last))>>))

(* Mutant of season_bounds: a winter ends in the year it began.            *)
season_bounds_one_year(d, code) ==
  span_bounds(season_months(code), year_range(d)[1], year_range(d)[2])

season_bounds(d, code) ==
  span_bounds(season_months(code), year_range(d)[1],
              year_range(d)[2] + (IF season_months(code)[3] THEN 1 ELSE 0))

-----------------------------------------------------------------------------
(* Masks.  The masked positions of a year are an odometer, the rightmost   *)
(* turning fastest; completion(digits, i) is the year at counter i.        *)
MaskedPositions(digits) == {p \in DOMAIN digits : digits[p] = X}
completion_count(digits) == 10^Cardinality(MaskedPositions(digits))

completion(digits, counter) ==
  LET turns(p) == 10^Cardinality({q \in MaskedPositions(digits) : q > p})
  IN  year_value([p \in DOMAIN digits |->
                    IF digits[p] = X THEN (counter \div turns(p)) % 10 ELSE digits[p]], 0)

(* The numbers up to last that a masked field admits, collected in order.  *)
candidates_of(f, last) ==
  LET collected[v \in 0..last] ==
        IF v = 0 THEN <<>>
        ELSE IF field_matches(f.digits, v) THEN Append(collected[v - 1], v)
        ELSE collected[v - 1]
  IN  collected[last]

month_candidates_of(f) == IF has_x(f.digits) THEN candidates_of(f, 12) ELSE field_value(f)
day_candidates_of(f) == IF has_x(f.digits) THEN candidates_of(f, 31) ELSE field_value(f)

Directed(s, ascending) == IF ascending THEN s ELSE [i \in DOMAIN s |-> s[Len(s) + 1 - i]]

(* The first of numbered tries that found something. *)
find_map(tries) ==
  IF \E i \in DOMAIN tries : tries[i] # None
  THEN tries[CHOOSE i \in DOMAIN tries :
               tries[i] # None /\ \A j \in DOMAIN tries : j < i => tries[j] = None]
  ELSE None

(* The outermost day of a month, and the first of the days that month m of *)
(* year y has. *)
month_edge(y, m, ascending) ==
  Some(<<y, m, IF ascending THEN 1 ELSE last_day(m, is_leap(y))>>)

fitting_day(y, m, day) == IF day <= last_day(m, is_leap(y)) THEN Some(<<y, m, day>>) ELSE None

first_fitting(y, m, days) == find_map([j \in DOMAIN days |-> fitting_day(y, m, days[j])])

(* The first (ascending) or last day of year y that fits the month and day. *)
extremum_in_year(d, y, ascending) ==
  LET months == Directed(month_candidates_of(Get(d.month)), ascending)
      days == Directed(day_candidates_of(Get(d.day)), ascending)
      in_month(m) == IF d.day = None THEN month_edge(y, m, ascending)
                     ELSE first_fitting(y, m, days)
  IN  IF d.month = None THEN Some(IF ascending THEN <<y, 1, 1>> ELSE <<y, 12, 31>>)
      ELSE find_map([i \in DOMAIN months |-> in_month(months[i])])

(* The completions of a year in the direction of travel, from 0. *)
years_travelled(kind, ascending) ==
  IF has_x(kind.digits)
  THEN LET count == completion_count(kind.digits)
       IN  [i \in 0..(count - 1) |->
              completion(kind.digits, IF ascending THEN i ELSE count - 1 - i)]
  ELSE [i \in {0} |-> Get(year_of(kind))]

(* Mutant of extremum: only the very first completion is tried.            *)
extremum_first_try(d, ascending) ==
  extremum_in_year(d, years_travelled(d.year.kind, ascending)[0], ascending)

(* A masked year takes the first completion, in the direction of travel,   *)
(* that admits a day at all: February 29 skips the common years.           *)
extremum(d, ascending) ==
  LET years == years_travelled(d.year.kind, ascending)
  IN  find_map([i \in DOMAIN years |-> extremum_in_year(d, years[i], ascending)])

-----------------------------------------------------------------------------
(* The sweep of a fully written year, if it fits. *)
date_range(year) ==
  LET sweep(value) == IF value = None THEN None
                      ELSE significant_range(Get(value), year.significant_digits,
                                             big_width(year.kind))
  IN  sweep(year_of(year.kind))

year_bounds(range) ==
  IF range = None THEN UnknownBounds ELSE WholeYears(Get(range)[1], Get(range)[2])

day_bounds(lo, hi) ==
  IF lo = None \/ hi = None THEN UnknownBounds ELSE MkBounds(DayBound(Get(lo)), DayBound(Get(hi)))

date_bounds(d) ==
  IF d.year.kind.form # "Standard" \/ d.year.significant_digits # None
  THEN year_bounds(date_range(d.year))
  ELSE IF IsSeason(d) THEN season_bounds(d, Get(slot_value(d.month)))
  ELSE day_bounds(extremum(d, TRUE), extremum(d, FALSE))

(* An interval: its start's earliest, its end's latest. *)
start_bound(e, b) == CASE e.kind \in {"Open", "OnOrBefore"} -> NegInf
                       [] e.kind = "Unknown" -> Unknown
                       [] e.kind \in {"Date", "OnOrAfter"} -> b.earliest

end_bound(e, b) == CASE e.kind \in {"Open", "OnOrAfter"} -> PosInf
                     [] e.kind = "Unknown" -> Unknown
                     [] e.kind \in {"Date", "OnOrBefore"} -> b.latest

interval_bounds(start, end) ==
  MkBounds(start_bound(start, date_bounds(start.date)), end_bound(end, date_bounds(end.date)))

(* Joining two bounds: the infinity of the side wins, then Unknown. *)
JoinBounds(a, b, infinity, other, pick(_, _)) ==
  CASE a = infinity \/ b = infinity -> infinity
    [] a # infinity /\ b # infinity /\ (a = Unknown \/ b = Unknown) -> Unknown
    [] OTHER -> IF a = other THEN b
                ELSE IF b = other THEN a ELSE DayBound(pick(a.day, b.day))

min_bound(a, b) == JoinBounds(a, b, NegInf, PosInf, Earlier)
max_bound(a, b) == JoinBounds(a, b, PosInf, NegInf, Later)

(* Mutant of element_bounds: a range ends where its first date ends.       *)
element_bounds_first_date(e) ==
  LET b == date_bounds(e.date)
  IN  MkBounds(IF e.kind = "OnOrBefore" THEN NegInf ELSE b.earliest,
               IF e.kind = "OnOrAfter" THEN PosInf ELSE b.latest)

element_bounds(e) ==
  LET b == date_bounds(e.date)
  IN  MkBounds(IF e.kind = "OnOrBefore" THEN NegInf ELSE b.earliest,
               CASE e.kind = "OnOrAfter" -> PosInf
                 [] e.kind = "Range" -> date_bounds(e.to).latest
                 [] e.kind \in {"Date", "OnOrBefore"} -> b.latest)

(* A set: the widest span any element touches, element by element. *)
widened(a, b) == MkBounds(min_bound(a.earliest, b.earliest), max_bound(a.latest, b.latest))

set_bounds(elements) ==
  LET hull[n \in 1..Len(elements)] ==
        IF n = 1 THEN element_bounds(elements[1])
        ELSE widened(hull[n - 1], element_bounds(elements[n]))
  IN  IF elements = <<>> THEN UnknownBounds ELSE hull[Len(elements)]

bounds(x) ==
  CASE x.type \in {"Date", "DateTime"} -> date_bounds(x.date)
    [] x.type = "Interval" -> interval_bounds(x.start, x.end)
    [] x.type = "Set" -> set_bounds(x.elements)
=============================================================================
