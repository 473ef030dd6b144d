----------------------------- MODULE ParserCorrect -----------------------------
(***************************************************************************)
(* What reading and rendering promise together.  The meaning of a text is  *)
(* stated here from its tokens' places alone, without the cursor.          *)
(***************************************************************************)
EXTENDS Parser, Levels
LOCAL INSTANCE SequencesExt
LOCAL INSTANCE FiniteSetsExt

(* What the parser makes, as records of the exact shape. *)
Option(S) == {o \in Seq(S) : Len(o) <= 1}

YearKinds == [form : {"Standard"}, negative : BOOLEAN, digits : [1..4 -> MaskDigit]]
               \cup [form : {"Big"}, value : -I64Max..I64Max]
               \cup [form : {"Exponential"}, significand : -I64Max..I64Max, exponent : Nat]

Years == [kind : YearKinds, significant_digits : Option(Nat), qualifier : Qualifier]
Fields == [digits : [1..2 -> MaskDigit], qualifier : Qualifier]
Dates == [year : Years, month : Option(Fields), day : Option(Fields)]

(* An offset given in hours alone has no minutes left. *)
TimeShifts ==
  {Utc} \cup {o \in [shift : {"Offset"}, minutes : -840..840, hours_only : BOOLEAN] :
                o.hours_only => o.minutes % 60 = 0}
Times == [hour : 0..23, minute : 0..59, second : 0..60, shift : Option(TimeShifts)]

Ends == {OpenEnd, UnknownEnd}
          \cup [kind : {"Date", "OnOrBefore", "OnOrAfter"}, date : Dates]
          \cup [kind : {"Range"}, date : Dates, to : Dates]

Expressions == [type : {"Date"}, date : Dates]
                 \cup [type : {"DateTime"}, date : Dates, time : Times]
                 \cup [type : {"Interval"}, start : Ends, end : Ends]
                 \cup [type : {"Set"}, kind : {"AllMembers", "OneMember"}, elements : Seq(Ends)]

CONSTANT Known      \* accepted expressions whose rendered texts are in Texts

ASSUME KnownAssumption ==
  \A x \in Known : x \in Expressions /\ Accepted(x) /\ display(x) \in Texts

-----------------------------------------------------------------------------
Scanning == {"date", "significant", "year end", "month", "day", "exponent", "digits", "finish"}

(* The types: what is read is text, and what is parsed is what the rules   *)
(* of Validate accept - the cursor's guards let nothing else through.      *)
TypeOK ==
  /\ pc \in {"start", "part", "next", "parsed", "rejected"} \cup Scanning
  /\ text \in TokenText /\ rest \in TokenText
  /\ slices \in Seq(TokenText) /\ later \in Option(TokenText)
  /\ dates \in Seq(Dates) /\ \A i \in DOMAIN dates : ValidDate(dates[i])
  /\ ends \in Seq(Ends)
  /\ value \in Option(Expressions) /\ first \in Option(Expressions)
  /\ IsSome(value) <=> pc = "parsed"
  /\ IsSome(value) => Accepted(Get(value))

(* Conversely, the rendered text of an accepted expression is never        *)
(* rejected: rules and cursor admit the same expressions.                  *)
KnownIsRead == pc = "rejected" => \A x \in Known : display(x) # text

(* The fuzz target's property: the rendered text of whatever was parsed    *)
(* parses again, and to the same value (display.rs:8-10).                  *)
RoundTrip == IsSome(first) => /\ pc # "rejected"
                              /\ pc = "parsed" => value = first

-----------------------------------------------------------------------------
(* A date's components are its groups of digits but the numbers after S    *)
(* and E.  A marker just right of digits reaches every component before    *)
(* it, another one the next component.                                     *)
ComponentsOf(p) ==
  {i \in DOMAIN p : IsGroup(p[i]) /\ (i = 1 \/ p[i - 1] \notin {Sym("S"), Sym("E")})}
MarkersOf(p) == {k \in DOMAIN p : p[k] \in Markers}

Reach(p, k) == IF k > 1 /\ IsGroup(p[k - 1]) THEN {i \in ComponentsOf(p) : i < k}
               ELSE {Min({i \in ComponentsOf(p) : i > k})}

SaidOf(p, i) == UNION {flags_of(p[k]) : k \in {m \in MarkersOf(p) : i \in Reach(p, m)}}

Said(p) == LET order == SetToSortSeq(ComponentsOf(p), <)
           IN  [n \in DOMAIN order |-> SaidOf(p, order[n])]

SlotQualifier(slot) == IF slot = None THEN <<>> ELSE <<Get(slot).qualifier>>
QualifiersOf(d) ==
  <<d.year.qualifier>> \o SlotQualifier(d.month) \o SlotQualifier(d.day)

(* The dates that are read, and their texts: the longest stretches without *)
(* a bracket, a comma, a slash or two dots.                                *)
DatesOf(e) == IF ~is_dated(e) THEN <<>>
              ELSE IF e.kind = "Range" THEN <<e.date, e.to>>
              ELSE <<e.date>>
DatesRead == FlattenSeq([i \in DOMAIN ends |-> DatesOf(ends[i])])

Inside(t) ==
  {i \in DOMAIN t : t[i] \notin {Sym(s) : s \in {"{", "}", "[", "]", ",", "/", ".."}}}

DateTexts(t) ==
  LET firsts == SetToSortSeq({i \in Inside(t) : i - 1 \notin Inside(t)}, <)
      lasts == SetToSortSeq({i \in Inside(t) : i + 1 \notin Inside(t)}, <)
  IN  [n \in DOMAIN firsts |-> SubSeq(t, firsts[n], lasts[n])]

HasDates == pc = "parsed" /\ shape(text) # "DateTime"

(* Each component's flags are those of the markers that reach it, however  *)
(* individual, group and complete markers are mixed (docs/spec-notes.md    *)
(* 4.5).                                                                   *)
MarkersReach ==
  HasDates => [n \in DOMAIN DatesRead |-> QualifiersOf(DatesRead[n])]
                = [n \in DOMAIN DateTexts(text) |-> Said(DateTexts(text)[n])]

(* A rendered text has no redundant marker (display.rs:4-6): without any   *)
(* one of them it says something else.                                     *)
NoRedundantMarker ==
  HasDates /\ IsSome(first) =>
    \A n \in DOMAIN DateTexts(text) :
      LET p == DateTexts(text)[n]
      IN  \A k \in MarkersOf(p) : Said(RemoveAt(p, k)) # Said(p)

-----------------------------------------------------------------------------
(* The level a text is written at (docs/spec-notes.md 2-4), from the       *)
(* features that occur in it.                                              *)
DigitsOf(p) == FlattenSeq([i \in DOMAIN p |-> IF IsGroup(p[i]) THEN p[i].digits ELSE <<>>])
GroupsOf(p) == {i \in DOMAIN p : IsGroup(p[i])}

(* X replaces the rightmost digits only: one or two of a lone year, or     *)
(* whole fields.                                                           *)
RightmostMask(p) ==
  LET digits == DigitsOf(p)
      masked == {i \in DOMAIN digits : digits[i] = X}
  IN  /\ masked = (Len(digits) - Cardinality(masked) + 1)..Len(digits)
      /\ IF Len(digits) = 4 THEN Cardinality(masked) \in {1, 2}
         ELSE Cardinality(masked) \in {2, 4} /\ Len(digits) - Cardinality(masked) >= 4

MaskTextLevel(p, interval) ==
  IF X \notin ToSet(DigitsOf(p)) THEN 0 ELSE IF RightmostMask(p) /\ ~interval THEN 1 ELSE 2

MarkerTextLevel(p) ==
  IF MarkersOf(p) = {} THEN 0 ELSE IF MarkersOf(p) = {Len(p)} THEN 1 ELSE 2

(* The second component of a date without a day. *)
SeasonTextLevel(p) ==
  LET code == p[Max(ComponentsOf(p))]
  IN  IF Cardinality(ComponentsOf(p)) # 2 \/ has_x(code.digits) \/ two(code) < 21 THEN 0
      ELSE IF two(code) <= 24 THEN 1 ELSE 2

YearTextLevel(p) ==
  IF holds(p, "E") \/ holds(p, "S") THEN 2
  ELSE IF holds(p, "Y") \/ (\E i \in DOMAIN p : p[i] = Sym("-") /\ i < Min(GroupsOf(p))) THEN 1
  ELSE 0

DateTextLevel(p, interval) ==
  Max({YearTextLevel(p), SeasonTextLevel(p), MarkerTextLevel(p), MaskTextLevel(p, interval)})

EndTextLevel(p) == IF p \in {<<>>, <<Sym("..")>>} THEN 1
                   ELSE IF holds(p, "..") THEN 2
                   ELSE DateTextLevel(p, TRUE)

TextLevel(t) == CASE shape(t) = "DateTime" -> 0
                  [] shape(t) = "Set" -> 2
                  [] shape(t) = "Date" -> DateTextLevel(t, FALSE)
                  [] shape(t) = "Interval" -> Max({EndTextLevel(before(t, "/")), EndTextLevel(Get(after(t, "/")))})

(* level() is the least level that can write the value (types.rs:420-422): *)
(* no text of the value is of a lower level, and the rendered one is of    *)
(* that level.                                                             *)
LevelIsLeast ==
  pc = "parsed" => /\ level(Get(value)) <= TextLevel(text)
                   /\ IsSome(first) => level(Get(value)) = TextLevel(text)
=============================================================================
