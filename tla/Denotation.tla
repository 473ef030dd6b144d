------------------------------ MODULE Denotation ------------------------------
(***************************************************************************)
(* What an expression denotes, written as sets rather than as the code's   *)
(* walks: decisions D24 to D29 of docs/spec-notes.md.  The iterator and    *)
(* the bounds are checked against these definitions.                       *)
(***************************************************************************)
EXTENDS EdtfTypes

FillsOf(digit) == IF digit = X THEN Digit ELSE {digit}

(* A year's leading digits decide which years S digits leave open. *)
YearsSharing(value, kept, width) ==
  LET unit == 10^(width - kept)
      lead == Abs(value) \div unit
      mags == (lead * unit)..(lead * unit + unit - 1)
  IN  {IF value < 0 THEN -m ELSE m : m \in mags}

YearsOf(kind) ==
  IF year_of(kind) # None THEN {Get(year_of(kind))}
  ELSE {1000 * a + 100 * b + 10 * c + d :
          a \in FillsOf(kind.digits[1]), b \in FillsOf(kind.digits[2]),
          c \in FillsOf(kind.digits[3]), d \in FillsOf(kind.digits[4])}

(* A slot's values: 0 where the slot is absent, so that positions compare. *)
SlotValues(slot, calendar) ==
  IF slot = None THEN {0}
  ELSE {v \in calendar : field_matches(Get(slot).digits, v)}

MonthSlots(d) == SlotValues(d.month, (1..12) \cup SeasonCode)
MaskedMonthSlots(d) == IF d.month # None /\ has_x(Get(d.month).digits)
                       THEN MonthSlots(d) \cap (1..12) ELSE MonthSlots(d)

(* Every position a masked date may stand for: valid in the calendar. *)
Completions(d) ==
  {t \in YearsOf(d.year.kind) \X MaskedMonthSlots(d) \X SlotValues(d.day, 1..31) :
     t[3] = 0 \/ IsDay(t)}

(* Every position between two endpoints of one precision. *)
Between(a, b) ==
  LET at(d) == <<Get(year_of(d.year.kind)),
                 IF d.month = None THEN 0 ELSE Get(slot_value(d.month)),
                 IF d.day = None THEN 0 ELSE Get(slot_value(d.day))>>
      months == IF a.month = None THEN {0} ELSE 1..12
      days   == IF a.day = None THEN {0} ELSE 1..31
  IN  {t \in (at(a)[1]..at(b)[1]) \X months \X days :
         /\ t[3] = 0 \/ IsDay(t)
         /\ AtMost(at(a), t) /\ AtMost(t, at(b))}

(* A position written out in d's shape, with d's qualifiers copied (D28). *)
Written(d, t) ==
  DateExpr(Date(concrete_year(t[1], d.year.qualifier),
                IF d.month = None THEN None ELSE Some(concrete_field(t[2], Get(d.month).qualifier)),
                IF d.day = None THEN None ELSE Some(concrete_field(t[3], Get(d.day).qualifier))))

DateDenotes(d) ==
  IF d.year.significant_digits # None
  THEN LET width == CASE d.year.kind.form = "Standard" -> 4
                      [] d.year.kind.form = "Big" ->
                           CHOOSE k \in 1..(MaxPow10 + 1) :
                             Abs(d.year.kind.value) \in (10^(k - 1))..(10^k - 1)
                      [] d.year.kind.form = "Exponential" ->
                           d.year.kind.exponent +
                           CHOOSE k \in 1..(MaxPow10 + 1) :
                             Abs(d.year.kind.significand) \in (10^(k - 1))..(10^k - 1)
       IN  {Written(d, <<y, 0, 0>>) :
              y \in YearsSharing(Get(year_of(d.year.kind)),
                                 Get(d.year.significant_digits), width)}
  ELSE IF has_unspecified(d) THEN {Written(d, t) : t \in Completions(d)}
  ELSE {DateExpr(d)}

ElementDenotes(e) ==
  IF e.kind = "Range" THEN {Written(e.date, t) : t \in Between(e.date, e.to)}
  ELSE DateDenotes(e.date)

(* The sets an expression denotes, one per element in written order. *)
Denotes(x) ==
  CASE x.type = "DateTime" -> <<{x}>>
    [] x.type = "Date" -> <<DateDenotes(x.date)>>
    [] x.type = "Set" -> [i \in DOMAIN x.elements |-> ElementDenotes(x.elements[i])]
=============================================================================
