------------------------------ MODULE EdtfTypes ------------------------------
(***************************************************************************)
(* The data model of edtf-core (types.rs).  An Option is the empty or the  *)
(* one-element sequence; a qualifier is the set of its raised flags, so    *)
(* Qualifier::merge is union and the default is {}.                        *)
(*                                                                         *)
(* i64 is scaled: I64Max and I64Min stand for i64::MAX and i64::MIN, and   *)
(* MaxPow10 for the largest power of ten an i64 holds (18 in the code).    *)
(* Only the order of these limits matters to the code modelled, so a run   *)
(* picks small ones; checked arithmetic compares against them first.       *)
(***************************************************************************)
EXTENDS EdtfCalendar

CONSTANTS I64Max, I64Min, MaxPow10

ASSUME I64Assumption == /\ I64Max \in Nat /\ I64Min = -I64Max - 1
                        /\ MaxPow10 \in Nat
                        /\ \A e \in 0..MaxPow10 : 10^e \in 1..I64Max /\ 10^(e + 1) = 10 * 10^e
                        /\ I64Max + 1 < 10^(MaxPow10 + 1)
                        /\ I64Max > 100000 + MaxPow10

-----------------------------------------------------------------------------
None == <<>>
Some(v) == <<v>>
IsSome(o) == o # None
Get(o) == o[1]

Qualifier == SUBSET {"uncertain", "approximate"}

Abs(n) == IF n < 0 THEN -n ELSE n

-----------------------------------------------------------------------------
(* The three year forms, fields and dates. *)
Standard(negative, digits) ==
  [form |-> "Standard", negative |-> negative, digits |-> digits]
Big(value) == [form |-> "Big", value |-> value]
Exponential(significand, exponent) ==
  [form |-> "Exponential", significand |-> significand, exponent |-> exponent]

Year(kind, significant, qualifier) ==
  [kind |-> kind, significant_digits |-> significant, qualifier |-> qualifier]
Field(digits, qualifier) == [digits |-> digits, qualifier |-> qualifier]
Date(year, month, day) == [year |-> year, month |-> month, day |-> day]

checked_pow10(e) == IF e > MaxPow10 THEN None ELSE Some(10^e)

checked_mul(n, p) ==
  IF n > I64Max \div p \/ n < -((I64Max + 1) \div p) THEN None ELSE Some(n * p)

checked_add(n, k) == IF n > I64Max - k THEN None ELSE Some(n + k)

scaled(n, power) == IF power = None THEN None ELSE checked_mul(n, Get(power))

year_of(kind) ==
  CASE kind.form = "Standard" ->
         IF has_x(kind.digits) THEN None
         ELSE Some((IF kind.negative THEN -1 ELSE 1) * year_value(kind.digits, 0))
    [] kind.form = "Big" -> Some(kind.value)
    [] kind.form = "Exponential" ->
         scaled(kind.significand, checked_pow10(kind.exponent))

field_value(f) == IF has_x(f.digits) THEN None
                  ELSE Some(10 * f.digits[1] + f.digits[2])

(* The value of an optional slot that is present and fully written. *)
slot_value(o) == IF IsSome(o) THEN field_value(Get(o)) ELSE None

SeasonCode == 21..41
IsSeason(d) == slot_value(d.month) \in {Some(code) : code \in SeasonCode}

precision(d) ==
  CASE IsSome(d.day) -> "Day"
    [] d.day = None /\ IsSome(d.month) ->
         IF slot_value(d.month) \in {Some(code) : code \in 21..99} THEN "Season" ELSE "Month"
    [] OTHER -> "Year"

has_unspecified(d) ==
  \/ d.year.kind.form = "Standard" /\ has_x(d.year.kind.digits)
  \/ IsSome(d.month) /\ has_x(Get(d.month).digits)
  \/ IsSome(d.day) /\ has_x(Get(d.day).digits)

qualifiers(d) == {d.year.qualifier}
                   \cup (IF IsSome(d.month) THEN {Get(d.month).qualifier} ELSE {})
                   \cup (IF IsSome(d.day) THEN {Get(d.day).qualifier} ELSE {})

is_uncertain(d)   == \E q \in qualifiers(d) : "uncertain" \in q
is_approximate(d) == \E q \in qualifiers(d) : "approximate" \in q

-----------------------------------------------------------------------------
(* Expressions.  A date-time carries a plain complete date; its time of    *)
(* day moves no bound and no value, so it is a parameter only.             *)
DateExpr(d) == [type |-> "Date", date |-> d]
DateTimeExpr(d, time) == [type |-> "DateTime", date |-> d, time |-> time]

OpenEnd == [kind |-> "Open"]
UnknownEnd == [kind |-> "Unknown"]
OnOrBefore(d) == [kind |-> "OnOrBefore", date |-> d]
OnOrAfter(d) == [kind |-> "OnOrAfter", date |-> d]
At(d) == [kind |-> "Date", date |-> d]
RangeOf(d, e) == [kind |-> "Range", date |-> d, to |-> e]

is_dated(endpoint) == endpoint.kind \notin {"Open", "Unknown"}

IntervalExpr(start, end) == [type |-> "Interval", start |-> start, end |-> end]
SetExpr(kind, elements) == [type |-> "Set", kind |-> kind, elements |-> elements]

-----------------------------------------------------------------------------
(* What an expression holds by its Rust types, and by the parser, which    *)
(* reads only the digits 0 to 9 into a digit's u8.                         *)
IsYearKind(kind) ==
  \/ kind.form = "Standard" /\ kind.negative \in BOOLEAN /\ kind.digits \in [1..4 -> MaskDigit]
  \/ kind.form = "Big" /\ kind.value \in I64Min..I64Max
  \/ kind.form = "Exponential" /\ kind.significand \in I64Min..I64Max /\ kind.exponent \in Nat

IsSlot(o) == \/ o = None
             \/ /\ o = Some(Get(o)) /\ Get(o).digits \in [1..2 -> MaskDigit]
                /\ Get(o).qualifier \in Qualifier

IsSignificance(o) == \/ o = None
                     \/ o = Some(Get(o)) /\ Get(o) \in Nat

IsDateRecord(d) == /\ IsYearKind(d.year.kind) /\ IsSignificance(d.year.significant_digits)
                   /\ d.year.qualifier \in Qualifier
                   /\ IsSlot(d.month) /\ IsSlot(d.day)

IsEndpoint(e) == /\ e.kind \in {"Date", "Open", "Unknown", "OnOrBefore", "OnOrAfter"}
                 /\ is_dated(e) => IsDateRecord(e.date)

IsElement(e) == /\ e.kind \in {"Date", "OnOrBefore", "OnOrAfter", "Range"}
                /\ IsDateRecord(e.date)
                /\ e.kind = "Range" => IsDateRecord(e.to)

IsExpr(x) ==
  \/ x.type \in {"Date", "DateTime"} /\ IsDateRecord(x.date)
  \/ x.type = "Interval" /\ IsEndpoint(x.start) /\ IsEndpoint(x.end)
  \/ /\ x.type = "Set"
     /\ Len(x.elements) \in Nat /\ DOMAIN x.elements = 1..Len(x.elements)
     /\ \A i \in DOMAIN x.elements : IsElement(x.elements[i])

-----------------------------------------------------------------------------
(* Rebuilding a concrete value (enumerate.rs): the canonical year form, and *)
(* two digits for a field.                                                  *)
concrete_year(v, q) ==
  LET mag == Abs(v)
      digits == <<(mag \div 1000) % 10, (mag \div 100) % 10, (mag \div 10) % 10, mag % 10>>
  IN  Year(IF v \in -9999..9999 THEN Standard(v < 0, digits) ELSE Big(v), None, q)

concrete_field(v, q) == Field(<<v \div 10, v % 10>>, q)
=============================================================================
