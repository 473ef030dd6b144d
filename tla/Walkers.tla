------------------------------- MODULE Walkers -------------------------------
(***************************************************************************)
(* The walkers behind Edtf::values (enumerate.rs): their construction and  *)
(* what each holds.  Their steps are the actions of module Values.         *)
(***************************************************************************)
EXTENDS Bounds

SingletonWalk(x) == [walk |-> "Singleton", left |-> Some(x)]

SweepWalk(lo, hi, q) ==
  [walk |-> "Sweep", cur |-> lo, hi |-> hi, qualifier |-> q, done |-> FALSE]

slot_candidates(slot, candidates(_)) ==
  IF slot = None THEN None ELSE Some(candidates(Get(slot)))

slot_qualifier(slot) == IF slot = None THEN {} ELSE Get(slot).qualifier

(* The odometer over a masked date: counters yi, mi, di start at 0.  Its   *)
(* years are numbered here once more, apart from the search of bounds.rs.  *)
year_count(kind) ==
  IF year_of(kind) # None THEN 1 ELSE 10^Cardinality({p \in DOMAIN kind.digits : kind.digits[p] = X})

MaskedWalk(d) ==
  [walk |-> "Masked",
   year |-> d.year.kind,
   year_count |-> year_count(d.year.kind),
   months |-> slot_candidates(d.month, month_candidates_of),
   days |-> slot_candidates(d.day, day_candidates_of),
   yq |-> d.year.qualifier, mq |-> slot_qualifier(d.month), dq |-> slot_qualifier(d.day),
   yi |-> 0, mi |-> 0, di |-> 0]

(* The year at one position of the odometer.  The four places are filled   *)
(* from the right: a masked one takes the last digit of what is left of    *)
(* the counter, and drops it.                                              *)
place(digit, rem) == IF digit = X THEN rem % 10 ELSE digit
left_over(digit, rem) == IF digit = X THEN rem \div 10 ELSE rem

(* Mutant of filled: every masked place takes the same digit.              *)
filled_undropped(digits, counter) ==
  1000 * place(digits[1], counter) + 100 * place(digits[2], counter)
    + 10 * place(digits[3], counter) + place(digits[4], counter)

filled(digits, counter) ==
  LET tens == left_over(digits[4], counter)
      hundreds == left_over(digits[3], tens)
      thousands == left_over(digits[2], hundreds)
  IN  1000 * place(digits[1], thousands) + 100 * place(digits[2], hundreds)
        + 10 * place(digits[3], tens) + place(digits[4], counter)

year_at(kind, counter) ==
  IF year_of(kind) # None THEN Get(year_of(kind)) ELSE filled(kind.digits, counter)

RangeWalker(a, b) ==
  LET slot(o) == IF slot_value(o) = None THEN 0 ELSE Get(slot_value(o))
      at(d) == <<Get(year_of(d.year.kind)), slot(d.month), slot(d.day)>>
  IN  [walk |-> "Range", cur |-> at(a), end |-> at(b), precision |-> precision(a), done |-> FALSE]

-----------------------------------------------------------------------------
(* A concrete date at the precision of its slots. *)
DateOf(y, m, d) ==
  DateExpr(Date(y, m, d))

SweepItem(w) == DateOf(concrete_year(w.cur, w.qualifier), None, None)

RangeItem(w) ==
  DateOf(concrete_year(w.cur[1], {}),
         IF w.precision # "Year" THEN Some(concrete_field(w.cur[2], {})) ELSE None,
         IF w.precision = "Day" THEN Some(concrete_field(w.cur[3], {})) ELSE None)

(* Where a masked walk stands: the month and day are read from the         *)
(* candidate lists, so the year, month and day counters must be in range.  *)
masked_year(w)  == concrete_year(year_at(w.year, w.yi), w.yq)
masked_month(w) == Get(w.months)[w.mi + 1]
masked_day(w)   == Get(w.days)[w.di + 1]

MaskedItem(w) ==
  DateOf(masked_year(w),
         IF w.months # None THEN Some(concrete_field(masked_month(w), w.mq)) ELSE None,
         IF w.days # None THEN Some(concrete_field(masked_day(w), w.dq)) ELSE None)

day_exists(w) == masked_day(w) <= last_day(masked_month(w), is_leap(year_at(w.year, w.yi)))

-----------------------------------------------------------------------------
(* Why a date or a range has no walker; construction reports the first.    *)
date_error(d) ==
  LET v == year_of(d.year.kind)
  IN  IF /\ d.year.significant_digits # None
         /\ v = None \/ significant_range(Get(v), d.year.significant_digits,
                                          big_width(d.year.kind)) = None
      THEN Some("YearRangeOverflow") ELSE None

(* Mutant of element_error: date.. is enumerated as if it were the date.   *)
element_error_open_after(e) ==
  CASE e.kind \in {"Date", "OnOrAfter"} -> date_error(e.date)
    [] e.kind = "Range" -> IF year_of(e.date.year.kind) = None \/ year_of(e.to.year.kind) = None
                           THEN Some("YearRangeOverflow") ELSE None
    [] e.kind = "OnOrBefore" -> Some("UnboundedSetElement")

element_error(e) ==
  CASE e.kind = "Date" -> date_error(e.date)
    [] e.kind = "Range" -> IF year_of(e.date.year.kind) = None \/ year_of(e.to.year.kind) = None
                           THEN Some("YearRangeOverflow") ELSE None
    [] e.kind \in {"OnOrBefore", "OnOrAfter"} -> Some("UnboundedSetElement")

Unenumerable(x) ==
  CASE x.type = "Interval" -> Some("Interval")
    [] x.type = "DateTime" -> None
    [] x.type = "Date" -> date_error(x.date)
    [] x.type = "Set" -> find_map([i \in DOMAIN x.elements |-> element_error(x.elements[i])])

DateWalker(d) ==
  IF d.year.significant_digits # None
  THEN LET r == Get(significant_range(Get(year_of(d.year.kind)), d.year.significant_digits,
                                      big_width(d.year.kind)))
       IN  SweepWalk(r[1], r[2], d.year.qualifier)
  ELSE IF ~has_unspecified(d) THEN SingletonWalk(DateExpr(d))
  ELSE MaskedWalk(d)

ElementWalker(e) ==
  IF e.kind = "Range" THEN RangeWalker(e.date, e.to) ELSE DateWalker(e.date)

(* The queue values() builds; a date or a date-time is a queue of one. *)
WalkersOf(x) ==
  CASE x.type = "DateTime" -> <<SingletonWalk(x)>>
    [] x.type = "Date" -> <<DateWalker(x.date)>>
    [] x.type = "Set" -> [i \in DOMAIN x.elements |-> ElementWalker(x.elements[i])]
=============================================================================
