-------------------------------- MODULE Display --------------------------------
(***************************************************************************)
(* Canonical text (display.rs).  A text is a sequence of tokens: a symbol, *)
(* or a group of digits that stand together (a year's four, a field's two, *)
(* the digits of a number), so that the text is what the code writes, and  *)
(* the parser reads, up to the spelling of each group.                     *)
(***************************************************************************)
EXTENDS Bounds

Sym(s) == [sym |-> s]
Group(digits) == [digits |-> digits]
IsGroup(token) == DOMAIN token = {"digits"}

MarkerSymbols == {"?", "~", "%"}
Markers == {Sym(s) : s \in MarkerSymbols}

(* The flags a marker raises, and the marker that raises given flags.      *)
flags_of(marker) == CASE marker = Sym("?") -> {"uncertain"}
                      [] marker = Sym("~") -> {"approximate"}
                      [] marker = Sym("%") -> {"uncertain", "approximate"}

qual_symbol(q) == IF q = {} THEN <<>> ELSE <<CHOOSE m \in Markers : flags_of(m) = q>>

-----------------------------------------------------------------------------
(* A number is written without leading zeros, with its sign if negative.   *)
NumberText(n) ==
  LET width == decimal_digits(n)
  IN  <<Group([i \in 1..width |-> (n \div 10^(width - i)) % 10])>>

SignedText(n) == (IF n < 0 THEN <<Sym("-")>> ELSE <<>>) \o NumberText(Abs(n))

SuffixText(letter, number) ==
  IF number = None THEN <<>> ELSE <<Sym(letter)>> \o NumberText(Get(number))

year_body(year) ==
  LET kind == year.kind
  IN  (CASE kind.form = "Standard" ->
              (IF kind.negative THEN <<Sym("-")>> ELSE <<>>) \o <<Group(kind.digits)>>
         [] kind.form = "Big" -> <<Sym("Y")>> \o SignedText(kind.value)
         [] kind.form = "Exponential" ->
              <<Sym("Y")>> \o SignedText(kind.significand)
                \o SuffixText("E", Some(kind.exponent)))
      \o SuffixText("S", year.significant_digits)

Part(body, q) == [body |-> body, q |-> q]

field_parts(slot) ==
  IF slot = None THEN <<>> ELSE <<Part(<<Group(Get(slot).digits)>>, Get(slot).qualifier)>>

date_parts(d) ==
  <<Part(year_body(d.year), d.year.qualifier)>> \o field_parts(d.month) \o field_parts(d.day)

(* The reach of one group marker: the leading parts with the year's        *)
(* qualifier, none if the year is not qualified.  When it reaches the last *)
(* part, the marker closes the date and qualifies it completely.           *)

(* Mutant of qualified_prefix_end: the group is not stopped by a part with *)
(* another qualifier.                                                      *)
qualified_prefix_end_all(parts) == IF parts[1].q = {} THEN 0 ELSE Len(parts)

qualified_prefix_end(parts) ==
  IF parts[1].q = {} THEN 0
  ELSE CHOOSE end \in DOMAIN parts :
         /\ \A i \in 1..end : parts[i].q = parts[1].q
         /\ end < Len(parts) => parts[end + 1].q # parts[1].q

(* A part of the group is bare but for the marker that closes it; a part   *)
(* after it is marked on its left.                                         *)
(* Mutant of PartText: a part of the group is marked on its left as well.  *)
PartText_marked_twice(parts, i, end) ==
  qual_symbol(parts[i].q) \o parts[i].body
    \o (IF i = end THEN qual_symbol(parts[1].q) ELSE <<>>)

PartText(parts, i, end) ==
  (IF i > end THEN qual_symbol(parts[i].q) ELSE <<>>)
    \o parts[i].body
    \o (IF i = end THEN qual_symbol(parts[1].q) ELSE <<>>)

(* Pieces of text with a symbol between any two; there is at least one.    *)
separated(pieces, s) ==
  LET from[i \in DOMAIN pieces] ==
        IF i = Len(pieces) THEN pieces[i] ELSE pieces[i] \o <<Sym(s)>> \o from[i + 1]
  IN  from[1]

PartsText(parts) ==
  separated([i \in DOMAIN parts |-> PartText(parts, i, qualified_prefix_end(parts))], "-")

DateText(d) == PartsText(date_parts(d))

-----------------------------------------------------------------------------
(* Times.  A shift is Utc or an offset in minutes.                         *)
TwoDigits(n) == <<Group(<<n \div 10, n % 10>>)>>

Utc == [shift |-> "Utc"]
Offset(minutes, hours_only) ==
  [shift |-> "Offset", minutes |-> minutes, hours_only |-> hours_only]
Time(hour, minute, second, shift) ==
  [hour |-> hour, minute |-> minute, second |-> second, shift |-> shift]

ShiftText(shift) ==
  CASE shift = None -> <<>>
    [] shift = Some(Utc) -> <<Sym("Z")>>
    [] shift \notin {None, Some(Utc)} ->
         <<Sym(IF Get(shift).minutes < 0 THEN "-" ELSE "+")>>
           \o TwoDigits(Abs(Get(shift).minutes) \div 60)
           \o (IF Get(shift).hours_only /\ Abs(Get(shift).minutes) % 60 = 0 THEN <<>>
               ELSE <<Sym(":")>> \o TwoDigits(Abs(Get(shift).minutes) % 60))

TimeText(time) ==
  TwoDigits(time.hour) \o <<Sym(":")>> \o TwoDigits(time.minute) \o <<Sym(":")>>
    \o TwoDigits(time.second) \o ShiftText(time.shift)

-----------------------------------------------------------------------------
(* Endpoints and set elements. *)
EndText(e) ==
  CASE e.kind = "Unknown" -> <<>>
    [] e.kind = "Open" -> <<Sym("..")>>
    [] e.kind = "Date" -> DateText(e.date)
    [] e.kind = "OnOrBefore" -> <<Sym("..")>> \o DateText(e.date)
    [] e.kind = "OnOrAfter" -> DateText(e.date) \o <<Sym("..")>>
    [] e.kind = "Range" -> DateText(e.date) \o <<Sym("..")>> \o DateText(e.to)

Brackets(kind) == IF kind = "AllMembers" THEN <<Sym("{"), Sym("}")>> ELSE <<Sym("["), Sym("]")>>

SetText(kind, elements) ==
  <<Brackets(kind)[1]>>
    \o separated([i \in DOMAIN elements |-> EndText(elements[i])], ",")
    \o <<Brackets(kind)[2]>>

display(x) ==
  CASE x.type = "Date" -> DateText(x.date)
    [] x.type = "DateTime" -> DateText(x.date) \o <<Sym("T")>> \o TimeText(x.time)
    [] x.type = "Interval" -> EndText(x.start) \o <<Sym("/")>> \o EndText(x.end)
    [] x.type = "Set" -> SetText(x.kind, x.elements)
=============================================================================
