------------------------------ MODULE MCNormalize ------------------------------
(***************************************************************************)
(* Prose for TLC: every kind of end alone, open and in alternatives, every *)
(* pair of the ends below as a range in every style, in both languages;    *)
(* options and qualifiers on the phrases they can change.                  *)
(***************************************************************************)
EXTENDS NormalizeCorrect

MCI64Min == -I64Max - 1

CoreEnds == {
  PlainYear(1914), PlainYear(1942), PlainYear(987), BeforeChrist(1), BeforeChrist(44),
  Month(6), MonthOf(7, 1940), DayIn(1, 12), FullDate(12, 4, 1985), FullDate(31, 6, 1940),
  SeasonOf(24, 1941), DecadeOf(198), DecadeOf(190), Tens(8), Century(19, FALSE), Century(2, TRUE),
  PartOf("Late", 19, FALSE), NthBare(10), NthBare(17), Numeric(4, 12, 1985), YearCode(1914, 21)}
FewEnds == {PlainYear(1914), BeforeChrist(44), MonthOf(7, 1940), Month(6), Century(19, FALSE), YearCode(1914, 21)}

EndsAlone == CoreEnds
  \cup {PartOf(span, n, bc) : span \in Span, n \in {1, 19}, bc \in BOOLEAN}
  \cup {TensOf(8, 19), SeasonOf(21, 1914), Century(1, TRUE), Numeric(4, 4, 1985), Numeric(13, 4, 1985),
        Numeric(4, 31, 1985), Numeric(13, 13, 1985), Numeric(29, 2, 1985), Numeric(29, 2, 1984),
        YearCode(1985, 21), YearCode(1914, 18), YearCode(1914, 7), YearCode(1914, 13), YearCode(1900, 0)}

ElidedEnds == {Elided(v) : v \in {0, 7, 12, 13, 18, 21, 41, 42}}

Absent == "absent"
Json(language, order, century) == [language |-> language, numericOrder |-> order, defaultCentury |-> century]
Plain(lang) == Json(lang, Absent, None)
AllOptions == [language : {"absent", "en", "ru", "de"}, numericOrder : {"absent", "dayFirst", "monthFirst", "iso"},
               defaultCentury : {None, Some(0), Some(1750), Some(9999), Some(10000)}]

Input(said, json) ==
  [said |-> said, options |-> json, text |-> Spelled(said, IF json.language = "ru" THEN "ru" ELSE "en")]

-----------------------------------------------------------------------------
Forms == {Alone(e) : e \in EndsAlone} \cup {OpenTo(form, e) : form \in {"before", "after"}, e \in EndsAlone}
           \cup {Or(a, b) : a, b \in FewEnds \cup {Tens(8), Century(2, TRUE)}}

(* Every pair in one style with spaces and one without, a few in the rest. *)
Ranges(lang) ==
  {FromTo(style, a, b) : style \in {"tight", "from"}, a \in CoreEnds, b \in CoreEnds \cup ElidedEnds}
    \cup {FromTo(style, a, b) : style \in Styles(lang), a \in FewEnds, b \in FewEnds \cup ElidedEnds}

(* Left out: a year-less end beside one of several readings, whose year is *)
(* not handed on; a bare English number, a month or an elided year beside  *)
(* all but a century; and a year before Christ after ot, whose own do is   *)
(* taken for the one between the ends.                                     *)
Yearly(e) == e.is \notin {"month", "day of month"}
Several(e) == e.is \in {"numeric", "tens", "year code"} \/ e = DecadeOf(190)
Excluded(said, lang) ==
  \/ Several(said.a) /\ ~Yearly(said.b)
  \/ Several(said.b) /\ ~Yearly(said.a)
  \/ lang = "en" /\ said.a.is = "ordinal" /\ said.b.is \notin {"century", "part"}
  \/ lang = "en" /\ said.b.is = "ordinal"
  \/ lang = "ru" /\ said.style = "between" /\ said.a.is = "bc year"

EndFlags == {{}, {"approximate"}, {"uncertain"}}
QualifiedEnds == {MonthOf(6, 1940), Century(2, TRUE), SeasonOf(24, 1941)}
LocalLeft(style) == IF style \in {"from", "between"} THEN EndFlags ELSE {{}}
QualifiedOf(said) ==
  {[said EXCEPT !.whole = w, !.left = l, !.right = r] :
     w \in EndFlags, l \in IF said.form = "range" THEN LocalLeft(said.style) ELSE {{}},
     r \in IF said.form \in {"range", "or"} THEN EndFlags ELSE {{}}}
QualifiedSaid(lang) ==
  UNION {QualifiedOf(s) : s \in {Alone(a) : a \in QualifiedEnds}
                                \cup {OpenTo("after", a) : a \in QualifiedEnds}
                                \cup {Or(a, b) : a, b \in QualifiedEnds}
                                \cup {FromTo(style, a, b) : style \in Styles(lang), a \in QualifiedEnds,
                                                          b \in {MonthOf(6, 1940), PlainYear(1942), Elided(42)}}}

OptionSaid == {Alone(e) : e \in {Tens(8), Numeric(4, 12, 1985), Numeric(4, 31, 1985)}}
                \cup {FromTo("from", Tens(8), PlainYear(1990)), OpenTo("before", Numeric(4, 12, 1985))}

OtherTexts == {NoDateSaid(<<"unknown">>), NoDateSaid(<<"no", "date">>), OtherSaid(<<>>), OtherSaid(<<"?">>),
               OtherSaid(<<",">>), OtherSaid(<<"birthday">>), OtherSaid(<<"the">>), OtherSaid(<<"or">>),
               OtherSaid(<<"june", "to">>), OtherSaid(<<"to", "june">>), OtherSaid(<<"june", "-">>)}

MCInputs ==
  UNION {{Input(s, Plain(lang)) : s \in Forms \cup QualifiedSaid(lang) \cup {s \in Ranges(lang) : ~Excluded(s, lang)}}
           : lang \in {"en", "ru"}}
    \cup {Input(s, o) : s \in OptionSaid, o \in AllOptions}
    \cup {Input(s, Plain("en")) : s \in OtherTexts}
=============================================================================
