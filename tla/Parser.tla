-------------------------------- MODULE Parser --------------------------------
(***************************************************************************)
(* Reading a text (parser.rs): the dispatch on the expression's shape, the *)
(* cursor's scan of each date, one component to an action, and the checks  *)
(* across the dates.  A parse ends "parsed" or "rejected"; which message   *)
(* and which offset a rejection carries is not modelled.                   *)
(*                                                                         *)
(* A user then does what fuzz_targets/roundtrip.rs does: what was parsed   *)
(* is rendered, and the rendered text is parsed again.                     *)
(***************************************************************************)
EXTENDS Validate, Display

(* What a user may give: groups of digits, the symbols that have a meaning *)
(* somewhere, and one that stands for every other character.               *)
Symbols == {"-", "?", "~", "%", "Y", "E", "S", "T", "Z", "+", ":", "/", ",", "..",
            "{", "}", "[", "]", "other"}

Token == [digits : Seq(MaskDigit) \ {<<>>}] \cup [sym : Symbols]
TokenText == Seq(Token)

CONSTANT Texts      \* the texts a user may give

ASSUME TextsAssumption == Texts \subseteq TokenText

VARIABLES text,     \* the text being parsed
          pc,       \* what is read next, or the outcome
          later,    \* the text of the parts that are not begun, if any
          part,     \* the kind of the current part
          slices,   \* the texts of its dates that are not begun
          dates,    \* its dates that are read
          rest,     \* the current date's text the cursor has not passed
          date,     \* the current date, as far as it is read
          width,    \* the digits a prefixed year is written with
          ends,     \* the parts that are read: endpoints, or elements
          value,    \* the parsed expression, once there is one
          first     \* what the first parse gave, once it is rendered

vars == <<text, pc, later, part, slices, dates, rest, date, width, ends, value, first>>

-----------------------------------------------------------------------------
(* The cursor.  Each helper looks at what it has not passed, r. *)
starts(r, s) == r # <<>> /\ Head(r) = Sym(s)
eat(r, s) == IF starts(r, s) THEN Tail(r) ELSE r

take_qualifier(r) == IF r # <<>> /\ Head(r) \in Markers THEN flags_of(Head(r)) ELSE {}
after_qualifier(r) == IF take_qualifier(r) = {} THEN r ELSE Tail(r)

group_ahead(r, n) == r # <<>> /\ IsGroup(Head(r)) /\ Len(Head(r).digits) = n

(* The number ahead; none if there is no digit, or if an i64 cannot hold   *)
(* the number (nor then one of the numbers its first digits write).        *)
number(digits) ==
  LET upto[k \in 0..Len(digits)] == IF k = 0 THEN 0 ELSE 10 * upto[k - 1] + digits[k]
  IN  upto[Len(digits)]

fitting_number(n) == IF n > I64Max THEN None ELSE Some(n)

take_number(r) ==
  IF r # <<>> /\ IsGroup(Head(r)) /\ ~has_x(Head(r).digits)
  THEN fitting_number(number(Head(r).digits))
  ELSE None

(* An optional letter and its number. *)
suffix(r, letter) == IF starts(r, letter) THEN take_number(Tail(r)) ELSE None
suffix_ahead(r, letter) == starts(r, letter) => take_number(Tail(r)) # None
after_suffix(r, letter) == IF starts(r, letter) THEN Tail(Tail(r)) ELSE r

-----------------------------------------------------------------------------
(* The shape of a text decides how it is read: brackets make a set, "/" an *)
(* interval, "T" a date-time, in this order.                               *)
holds(t, s) == \E i \in DOMAIN t : t[i] = Sym(s)

shape(t) == IF Head(t) \in {Sym("{"), Sym("[")} THEN "Set"
            ELSE IF holds(t, "/") THEN "Interval"
            ELSE IF holds(t, "T") THEN "DateTime"
            ELSE "Date"

set_kind(t) == IF Head(t) = Sym("{") THEN "AllMembers" ELSE "OneMember"

(* A text is cut at the first place of a symbol. *)
first_place(t, s) == CHOOSE i \in DOMAIN t : t[i] = Sym(s) /\ \A j \in 1..(i - 1) : t[j] # Sym(s)

before(t, s) == IF holds(t, s) THEN SubSeq(t, 1, first_place(t, s) - 1) ELSE t
after(t, s) == IF holds(t, s) THEN Some(SubSeq(t, first_place(t, s) + 1, Len(t))) ELSE None

(* The parts of a text: the elements between a set's brackets, the         *)
(* endpoints of an interval, the whole of a date.                          *)
separator(t) == IF shape(t) = "Set" THEN "," ELSE "/"
undivided(t) == IF shape(t) = "Set" THEN SubSeq(t, 2, Len(t) - 1) ELSE t

(* A part: the two dots, and the dates around them.  A text that is a date *)
(* is read as it stands: dots belong to endpoints and elements.            *)
kind_of(p) == IF p = <<>> THEN "Unknown"
              ELSE IF p = <<Sym("..")>> THEN "Open"
              ELSE IF starts(p, "..") THEN "OnOrBefore"
              ELSE IF p[Len(p)] = Sym("..") THEN "OnOrAfter"
              ELSE IF holds(p, "..") THEN "Range"
              ELSE "Date"

part_kind(t, p) == IF shape(t) = "Date" THEN "Date" ELSE kind_of(p)

date_slices(kind, p) ==
  CASE kind \in {"Unknown", "Open"} -> <<>>
    [] kind = "OnOrBefore" -> <<Tail(p)>>
    [] kind = "OnOrAfter" -> <<SubSeq(p, 1, Len(p) - 1)>>
    [] kind = "Range" -> <<before(p, ".."), Get(after(p, ".."))>>
    [] kind = "Date" -> <<p>>

endpoint(kind, ds) == CASE kind = "Unknown" -> UnknownEnd
                        [] kind = "Open" -> OpenEnd
                        [] kind = "OnOrBefore" -> OnOrBefore(ds[1])
                        [] kind = "OnOrAfter" -> OnOrAfter(ds[1])
                        [] kind = "Range" -> RangeOf(ds[1], ds[2])
                        [] kind = "Date" -> At(ds[1])

(* What the parts make. *)
put_together(t, es) == CASE shape(t) = "Date" -> DateExpr(es[1].date)
                         [] shape(t) = "Interval" -> IntervalExpr(es[1], es[2])
                         [] shape(t) = "Set" -> SetExpr(set_kind(t), es)

-----------------------------------------------------------------------------
(* Two digits as a number, and a time of day. *)
two(token) == 10 * token.digits[1] + token.digits[2]

plain_group(token, n) == IsGroup(token) /\ Len(token.digits) = n /\ ~has_x(token.digits)

shift_minutes(r) == 60 * two(r[2]) + (IF Len(r) = 4 THEN two(r[4]) ELSE 0)

(* A shift: nothing, Z, or a signed hh or hh:mm of at most 14 hours, not   *)
(* zero under a minus sign.                                                *)
shift_ahead(r) ==
  \/ r \in {<<>>, <<Sym("Z")>>}
  \/ /\ Len(r) \in {2, 4} /\ Head(r) \in {Sym("+"), Sym("-")} /\ plain_group(r[2], 2)
     /\ Len(r) = 4 => r[3] = Sym(":") /\ plain_group(r[4], 2) /\ two(r[4]) <= 59
     /\ shift_minutes(r) <= 14 * 60
     /\ Head(r) = Sym("-") => shift_minutes(r) # 0

parse_shift(r) ==
  CASE r = <<>> -> None
    [] r = <<Sym("Z")>> -> Some(Utc)
    [] Len(r) > 1 -> Some(Offset(IF Head(r) = Sym("-") THEN -shift_minutes(r) ELSE shift_minutes(r),
                                 Len(r) = 2))

time_ahead(r) ==
  /\ Len(r) >= 5 /\ \A i \in {1, 3, 5} : plain_group(r[i], 2)
  /\ r[2] = Sym(":") /\ r[4] = Sym(":")
  /\ two(r[1]) <= 23 /\ two(r[3]) <= 59 /\ two(r[5]) <= 60
  /\ shift_ahead(SubSeq(r, 6, Len(r)))

parse_time(r) == Time(two(r[1]), two(r[3]), two(r[5]), parse_shift(SubSeq(r, 6, Len(r))))

plain_date(r) ==
  Date(Year(Standard(FALSE, r[1].digits), None, {}),
       Some(Field(r[3].digits, {})), Some(Field(r[5].digits, {})))

plain_date_ahead(r) ==
  /\ Len(r) = 5 /\ r[2] = Sym("-") /\ r[4] = Sym("-")
  /\ plain_group(r[1], 4) /\ plain_group(r[3], 2) /\ plain_group(r[5], 2)
  /\ parse_plain_complete_date(plain_date(r))

-----------------------------------------------------------------------------
(* A qualifier on the right of a component reaches it and everything left  *)
(* of it, so every component read so far.                                  *)
mark_field(slot, q) ==
  IF slot = None THEN None ELSE Some(Field(Get(slot).digits, Get(slot).qualifier \cup q))

(* Mutant of marked: it reaches the component on its left only.            *)
marked_last(d, q) ==
  IF d.month = None THEN [d EXCEPT !.year.qualifier = @ \cup q]
  ELSE IF d.day = None THEN [d EXCEPT !.month = mark_field(@, q)]
  ELSE [d EXCEPT !.day = mark_field(@, q)]

marked(d, q) ==
  Date([d.year EXCEPT !.qualifier = @ \cup q], mark_field(d.month, q), mark_field(d.day, q))

-----------------------------------------------------------------------------
NothingRead == /\ later = None /\ part = "Date" /\ slices = <<>> /\ dates = <<>>
               /\ rest = <<>> /\ date = None /\ width = 0 /\ ends = <<>>

Init == text \in Texts /\ pc = "start" /\ NothingRead /\ value = None /\ first = None

SameText == UNCHANGED <<text, value, first>>
SamePart == SameText /\ UNCHANGED <<later, part, ends>>
SameDate == SamePart /\ UNCHANGED <<slices, dates>>
SameYear == SameDate /\ UNCHANGED width

-----------------------------------------------------------------------------
(* Each step has its condition, named for what is ahead. *)

(* A set closes with its own bracket. *)
text_ahead ==
  /\ pc = "start" /\ text # <<>> /\ shape(text) # "DateTime"
  /\ shape(text) = "Set" => Len(text) > 1 /\ text[Len(text)] = Brackets(set_kind(text))[2]

Dispatch == /\ text_ahead
            /\ pc' = "part" /\ later' = Some(undivided(text))
            /\ SameText /\ UNCHANGED <<part, slices, dates, rest, date, width, ends>>

date_time_ahead ==
  /\ pc = "start" /\ text # <<>> /\ shape(text) = "DateTime"
  /\ plain_date_ahead(before(text, "T"))
  /\ time_ahead(Get(after(text, "T")))

ReadDateTime ==
  /\ date_time_ahead
  /\ pc' = "parsed"
  /\ value' = Some(DateTimeExpr(plain_date(before(text, "T")), parse_time(Get(after(text, "T")))))
  /\ UNCHANGED <<text, later, part, slices, dates, rest, date, width, ends, first>>

part_ahead == pc = "part" /\ IsSome(later)

NextPart ==
  /\ part_ahead
  /\ \E p \in {before(Get(later), separator(text))} :
       part' = part_kind(text, p) /\ slices' = date_slices(part_kind(text, p), p)
  /\ later' = after(Get(later), separator(text))
  /\ pc' = "next" /\ dates' = <<>>
  /\ SameText /\ UNCHANGED <<rest, date, width, ends>>

date_ahead == pc = "next" /\ slices # <<>>

NextDate == /\ date_ahead
            /\ pc' = "date" /\ rest' = Head(slices) /\ slices' = Tail(slices)
            /\ SamePart /\ UNCHANGED <<dates, date, width>>

-----------------------------------------------------------------------------
(* A four-digit year: a qualifier, a sign, four digits or X. *)
(* Mutant of year_may_be_negative: a negative year may be masked.          *)
year_may_be_negative_masked(digits) == digits # <<0, 0, 0, 0>>

year_may_be_negative(digits) == ~has_x(digits) /\ digits # <<0, 0, 0, 0>>

year_at(r) ==
  LET signed == after_qualifier(r)
  IN  Year(Standard(starts(signed, "-"), Head(eat(signed, "-")).digits), None, take_qualifier(r))

after_year(r) == Tail(eat(after_qualifier(r), "-"))

year_ahead ==
  /\ pc = "date" /\ ~starts(rest, "Y")
  /\ group_ahead(eat(after_qualifier(rest), "-"), 4)
  /\ starts(after_qualifier(rest), "-") => year_may_be_negative(year_at(rest).kind.digits)

ReadYear == /\ year_ahead
            /\ date' = Date(year_at(rest), None, None)
            /\ pc' = "significant" /\ rest' = after_year(rest)
            /\ SameYear

(* Its S suffix, on a fully written year. *)
significant_ahead ==
  /\ pc = "significant" /\ suffix_ahead(rest, "S")
  /\ starts(rest, "S") => ~has_x(date.year.kind.digits) /\ Get(suffix(rest, "S")) \in 1..4

ReadSignificant ==
  /\ significant_ahead
  /\ date' = [date EXCEPT !.year.significant_digits = suffix(rest, "S")]
  /\ pc' = "year end" /\ rest' = after_suffix(rest, "S")
  /\ SameYear

(* After a component: the end of the date, or "-" and the next one. *)
ends_or_goes_on(r) == r = <<>> \/ starts(r, "-")
Continue(r, next) == pc' = (IF r = <<>> THEN "finish" ELSE next) /\ rest' = eat(r, "-")

(* Its qualifier on the right; a year with significant digits ends there.  *)
year_end_ahead ==
  /\ pc = "year end" /\ ends_or_goes_on(after_qualifier(rest))
  /\ IsSome(date.year.significant_digits) => after_qualifier(rest) = <<>>

EndYear == /\ year_end_ahead
           /\ date' = marked(date, take_qualifier(rest))
           /\ Continue(after_qualifier(rest), "month")
           /\ SameYear

(* A month, or a day: two digits or X with a qualifier on either side.     *)
field_at(r) == Field(Head(after_qualifier(r)).digits, take_qualifier(r))
after_field(r) == Tail(after_qualifier(r))

month_ahead == /\ pc = "month" /\ group_ahead(after_qualifier(rest), 2)
               /\ ends_or_goes_on(after_qualifier(after_field(rest)))

ReadMonth ==
  /\ month_ahead
  /\ date' = marked([date EXCEPT !.month = Some(field_at(rest))],
                    take_qualifier(after_field(rest)))
  /\ Continue(after_qualifier(after_field(rest)), "day")
  /\ SameYear

day_ahead == /\ pc = "day" /\ group_ahead(after_qualifier(rest), 2)
             /\ after_qualifier(after_field(rest)) = <<>>

ReadDay ==
  /\ day_ahead
  /\ date' = marked([date EXCEPT !.day = Some(field_at(rest))],
                    take_qualifier(after_field(rest)))
  /\ pc' = "finish" /\ rest' = <<>>
  /\ SameYear

-----------------------------------------------------------------------------
(* A Y-prefixed year: a sign and a mantissa without leading zeros, an      *)
(* exponent, significant digits within the digits it has, a qualifier.     *)
(* Mutant of is_mantissa: leading zeros are let through (D20).             *)
is_mantissa_padded(r) == take_number(r) # None

is_mantissa(r) ==
  /\ take_number(r) # None
  /\ take_number(r) = Some(0) \/ Len(Head(r).digits) = decimal_digits(Get(take_number(r)))

mantissa_ahead == pc = "date" /\ starts(rest, "Y") /\ is_mantissa(eat(Tail(rest), "-"))

ReadMantissa ==
  /\ mantissa_ahead
  /\ LET digits == eat(Tail(rest), "-")
         sign == IF starts(Tail(rest), "-") THEN -1 ELSE 1
     IN  /\ date' = Date(Year(Big(sign * Get(take_number(digits))), None, {}), None, None)
         /\ width' = Len(Head(digits).digits)
         /\ rest' = Tail(digits)
  /\ pc' = "exponent"
  /\ SameDate

(* Without an exponent the year is beyond four digits; so is the year with *)
(* one, whenever an i64 holds it.                                          *)
(* Mutant of beyond_four_digits: a year an i64 cannot hold is refused.     *)
beyond_four_digits_held(kind) == year_of(kind) # None /\ Abs(Get(year_of(kind))) > 9999

beyond_four_digits(kind) == year_of(kind) # None => Abs(Get(year_of(kind))) > 9999

no_exponent_ahead ==
  pc = "exponent" /\ ~starts(rest, "E") /\ beyond_four_digits(date.year.kind)

NoExponent == /\ no_exponent_ahead
              /\ pc' = "digits"
              /\ SameYear /\ UNCHANGED <<rest, date>>

exponential_at(significand, r) == Exponential(significand, Get(suffix(r, "E")))

exponent_ahead ==
  /\ pc = "exponent" /\ starts(rest, "E") /\ suffix_ahead(rest, "E")
  /\ date.year.kind.value # 0
  /\ Get(suffix(rest, "E")) <= MaxExponent
  /\ beyond_four_digits(exponential_at(date.year.kind.value, rest))

ReadExponent ==
  /\ exponent_ahead
  /\ date' = [date EXCEPT !.year.kind = exponential_at(@.value, rest)]
  /\ width' = width + Get(suffix(rest, "E"))
  /\ pc' = "digits" /\ rest' = after_suffix(rest, "E")
  /\ SameDate

prefixed_end_ahead ==
  /\ pc = "digits" /\ suffix_ahead(rest, "S")
  /\ starts(rest, "S") => Get(suffix(rest, "S")) \in 1..width
  /\ after_qualifier(after_suffix(rest, "S")) = <<>>

ReadPrefixedEnd ==
  /\ prefixed_end_ahead
  /\ date' = [date EXCEPT !.year = Year(@.kind, suffix(rest, "S"),
                                        take_qualifier(after_suffix(rest, "S")))]
  /\ pc' = "finish" /\ rest' = <<>> /\ width' = 0
  /\ SameDate

-----------------------------------------------------------------------------
(* A date is read: some completion of its year has its month and day.  A   *)
(* prefixed year has neither.                                              *)
whole_date_ahead == pc = "finish" /\ validate_month_day(date.year.kind, date.month, date.day)

FinishDate == /\ whole_date_ahead
              /\ pc' = "next" /\ dates' = Append(dates, date)
              /\ SamePart /\ UNCHANGED <<slices, rest, date, width>>

(* A part is read.  A set's elements are dated, and its ranges in order.   *)
part_end_ahead ==
  /\ pc = "next" /\ slices = <<>>
  /\ shape(text) = "Set" =>
       is_dated(endpoint(part, dates)) /\ range_agrees(endpoint(part, dates))

EndPart == /\ part_end_ahead
           /\ pc' = "part" /\ ends' = Append(ends, endpoint(part, dates))
           /\ SameText /\ UNCHANGED <<later, part, slices, dates, rest, date, width>>

(* All are read.  An interval has two endpoints, and they agree.           *)
end_ahead == /\ pc = "part" /\ later = None
             /\ shape(text) = "Interval" => Len(ends) = 2 /\ ends_agree(ends[1], ends[2])

Assemble == /\ end_ahead
            /\ pc' = "parsed" /\ value' = Some(put_together(text, ends))
            /\ UNCHANGED <<text, later, part, slices, dates, rest, date, width, ends, first>>

Read == \/ Dispatch \/ ReadDateTime \/ NextPart \/ NextDate
        \/ ReadYear \/ ReadSignificant \/ EndYear \/ ReadMonth \/ ReadDay
        \/ ReadMantissa \/ NoExponent \/ ReadExponent \/ ReadPrefixedEnd
        \/ FinishDate \/ EndPart \/ Assemble

(* What no step reads is an error. *)
Readable == \/ text_ahead \/ date_time_ahead \/ part_ahead \/ date_ahead
            \/ year_ahead \/ significant_ahead \/ year_end_ahead \/ month_ahead \/ day_ahead
            \/ mantissa_ahead \/ no_exponent_ahead \/ exponent_ahead \/ prefixed_end_ahead
            \/ whole_date_ahead \/ part_end_ahead \/ end_ahead

Ended == pc \in {"parsed", "rejected"}

Reject == /\ ~Ended /\ ~Readable
          /\ pc' = "rejected"
          /\ UNCHANGED <<text, later, part, slices, dates, rest, date, width, ends, value, first>>

(* What was parsed is rendered, and the rendered text is parsed.           *)
Render == /\ pc = "parsed" /\ first = None
          /\ first' = value /\ text' = display(Get(value))
          /\ pc' = "start" /\ value' = None
          /\ later' = None /\ part' = "Date" /\ slices' = <<>> /\ dates' = <<>>
          /\ rest' = <<>> /\ date' = None /\ width' = 0 /\ ends' = <<>>

Done == /\ pc = "rejected" \/ (pc = "parsed" /\ first # None)
        /\ UNCHANGED vars

Next == Read \/ Reject \/ Render \/ Done

Spec == Init /\ [][Next]_vars
=============================================================================
