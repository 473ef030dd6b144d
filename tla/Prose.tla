--------------------------------- MODULE Prose ---------------------------------
(***************************************************************************)
(* Date prose as a writer means it, and as it is then spelled in English   *)
(* or in Russian.  Nothing here looks at how the normalizer reads.         *)
(*                                                                         *)
(* An end is one date-like phrase; what is said is an end alone, before or *)
(* after one, one or another, or from one to another.  A writer qualifies  *)
(* all of it, or one of its ends.                                          *)
(***************************************************************************)
EXTENDS Display, TLC
LOCAL INSTANCE SequencesExt

PlainYear(y) == [is |-> "year", y |-> y]
BeforeChrist(b) == [is |-> "bc year", b |-> b]
Month(m) == [is |-> "month", m |-> m]
MonthOf(m, y) == [is |-> "month of year", m |-> m, y |-> y]
DayIn(m, d) == [is |-> "day of month", m |-> m, d |-> d]
FullDate(d, m, y) == [is |-> "full date", d |-> d, m |-> m, y |-> y]
SeasonOf(code, y) == [is |-> "season", code |-> code, y |-> y]
DecadeOf(prefix3) == [is |-> "decade", prefix3 |-> prefix3]
Tens(t) == [is |-> "tens", t |-> t]
TensOf(t, n) == [is |-> "tens of century", t |-> t, n |-> n]
Century(n, bc) == [is |-> "century", n |-> n, bc |-> bc]
PartOf(span, n, bc) == [is |-> "part", span |-> span, n |-> n, bc |-> bc]
NthBare(n) == [is |-> "ordinal", n |-> n]
Numeric(a, b, y) == [is |-> "numeric", a |-> a, b |-> b, y |-> y]
YearCode(y, v) == [is |-> "year code", y |-> y, v |-> v]
Elided(v) == [is |-> "elided", v |-> v]

Said(form, style, a, b) ==
  [form |-> form, style |-> style, a |-> a, b |-> b, whole |-> {}, left |-> {}, right |-> {}]
Alone(a) == Said("alone", "plain", a, a)
OpenTo(form, a) == Said(form, "plain", a, a)
Or(a, b) == Said("or", "plain", a, b)
FromTo(style, a, b) == Said("range", style, a, b)
NoDateSaid(phrase) == [form |-> "no date", phrase |-> phrase]
OtherSaid(phrase) == [form |-> "other", phrase |-> phrase]

-----------------------------------------------------------------------------
(* Spelling.  A phrase is a sequence of words, a word of tokens. *)
Word(s) == <<Sym(s)>>
Phrase(strings) == [i \in DOMAIN strings |-> Word(strings[i])]
Two(n) == <<Group(<<n \div 10, n % 10>>)>>
Letters(strings) == [i \in DOMAIN strings |-> Sym(strings[i])]

RomanFigures == (1 :> <<"i">>) @@ (2 :> <<"i", "i">>) @@ (10 :> <<"x">>) @@ (17 :> <<"x", "v", "i", "i">>)
                  @@ (19 :> <<"x", "i", "x">>) @@ (20 :> <<"x", "x">>)

MonthNames(lang) ==
  IF lang = "ru" THEN (1 :> "yanvarya") @@ (2 :> "fevralya") @@ (4 :> "aprelya") @@ (6 :> "iyunya") @@ (7 :> "iyulya")
  ELSE (1 :> "january") @@ (2 :> "february") @@ (4 :> "april") @@ (6 :> "june") @@ (7 :> "july")
SeasonNames(lang) == IF lang = "ru" THEN (21 :> "vesnoy") @@ (24 :> "zima")
                     ELSE (21 :> "spring") @@ (24 :> "winter")
PartWords(lang) ==
  IF lang = "ru"
  THEN [Early |-> <<"nachalo">>, Mid |-> <<"seredina">>, Late |-> <<"konets">>,
        FirstHalf |-> <<"pervaya", "polovina">>, SecondHalf |-> <<"vtoraya", "polovina">>]
  ELSE [Early |-> <<"early">>, Mid |-> <<"mid">>, Late |-> <<"late">>,
        FirstHalf |-> <<"first", "half", "of", "the">>, SecondHalf |-> <<"second", "half", "of", "the">>]

BcWords(lang) == IF lang = "ru" THEN Phrase(<<"do", "n", "eh">>) ELSE Phrase(<<"bc">>)
DecadeWord(number, lang) == number \o Letters(IF lang = "ru" THEN <<"-", "ye">> ELSE <<"s">>)
CenturyWords(n, lang) ==
  IF lang = "ru" THEN <<Letters(RomanFigures[n]), Word("veka")>>
  ELSE <<NumberText(n) \o Letters(<<"th">>), Word("century")>>

EndWords(e, lang) ==
  CASE e.is = "year" -> <<NumberText(e.y)>>
    [] e.is = "bc year" -> <<NumberText(e.b)>> \o (IF lang = "ru" THEN Phrase(<<"g">>) ELSE <<>>) \o BcWords(lang)
    [] e.is = "month" -> Phrase(<<MonthNames(lang)[e.m]>>)
    [] e.is = "month of year" -> Phrase(<<MonthNames(lang)[e.m]>>) \o <<NumberText(e.y)>>
    [] e.is = "day of month" -> Phrase(<<MonthNames(lang)[e.m]>>) \o <<NumberText(e.d)>>
    [] e.is = "full date" -> IF lang = "ru"
                             THEN <<NumberText(e.d) \o Letters(<<"-", "go">>), Word(MonthNames(lang)[e.m]), NumberText(e.y)>>
                             ELSE <<Word(MonthNames(lang)[e.m]), NumberText(e.d), NumberText(e.y)>>
    [] e.is = "season" -> <<Word(SeasonNames(lang)[e.code]), NumberText(e.y)>>
    [] e.is = "decade" -> <<DecadeWord(NumberText(10 * e.prefix3), lang)>>
    [] e.is = "tens" -> <<DecadeWord(Two(10 * e.t), lang)>>
    [] e.is = "tens of century" ->
         <<DecadeWord(Two(10 * e.t), lang)>> \o (IF lang = "ru" THEN Phrase(<<"gody">>) ELSE <<>>)
           \o CenturyWords(e.n, lang)
    [] e.is = "century" -> CenturyWords(e.n, lang) \o (IF e.bc THEN BcWords(lang) ELSE <<>>)
    [] e.is = "part" -> Phrase(PartWords(lang)[e.span]) \o CenturyWords(e.n, lang)
                          \o (IF e.bc THEN BcWords(lang) ELSE <<>>)
    [] e.is = "ordinal" -> IF lang = "ru" THEN <<Letters(RomanFigures[e.n])>> ELSE <<NumberText(e.n)>>
    [] e.is = "numeric" -> LET sep == Letters(IF lang = "ru" THEN <<".">> ELSE <<"/">>)
                           IN  <<Two(e.a) \o sep \o Two(e.b) \o sep \o NumberText(e.y)>>
    [] e.is = "year code" -> <<NumberText(e.y) \o Letters(<<"-">>) \o Two(e.v)>>
    [] e.is = "elided" -> <<Two(e.v)>>

(* A qualifier in front; an uncertain whole ends in a question mark.  What *)
(* begins with "from" is qualified as a whole by words behind it.          *)
QualifierWords(flags, lang) ==
  (IF "uncertain" \in flags THEN Phrase(IF lang = "ru" THEN <<"vozmozhno">> ELSE <<"possibly">>) ELSE <<>>)
    \o (IF "approximate" \in flags THEN Phrase(IF lang = "ru" THEN <<"okolo">> ELSE <<"circa">>) ELSE <<>>)

WordsBehind(flags, lang) ==
  (IF "uncertain" \in flags THEN Phrase(IF lang = "ru" THEN <<"vozmozhno">> ELSE <<"maybe">>) ELSE <<>>)
    \o (IF "approximate" \in flags THEN Phrase(IF lang = "ru" THEN <<"primerno">> ELSE <<"approximately">>) ELSE <<>>)

Joined(phrase) == FlattenSeq([i \in DOMAIN phrase |-> (IF i > 1 THEN <<Sym(" ")>> ELSE <<>>) \o phrase[i]])

OpenWords(form, lang) ==
  Phrase(CASE form = "before" /\ lang = "en" -> <<"no", "later", "than">>
           [] form = "after" /\ lang = "en" -> <<"after">>
           [] form = "before" /\ lang = "ru" -> <<"do">>
           [] form = "after" /\ lang = "ru" -> <<"c">>)
OrWord(lang) == Phrase(IF lang = "ru" THEN <<"ili">> ELSE <<"or">>)

Styles(lang) == IF lang = "ru" THEN {"tight", "apart", "from", "between"}
                ELSE {"tight", "apart", "dash", "to", "from", "between"}
LeadWords(style, lang) ==
  Phrase(CASE style = "from" -> IF lang = "ru" THEN <<"c">> ELSE <<"from">>
           [] style = "between" -> IF lang = "ru" THEN <<"ot">> ELSE <<"between">>
           [] style \notin {"from", "between"} -> <<>>)
MiddleWords(style, lang) ==
  Phrase(CASE style = "from" -> IF lang = "ru" THEN <<"po">> ELSE <<"to">>
           [] style = "between" -> IF lang = "ru" THEN <<"do">> ELSE <<"and">>
           [] style = "to" -> <<"to">>
           [] style = "apart" -> <<"-">>)

Tight(style) == style \in {"tight", "dash"}

RangeText(said, left, right, lang) ==
  IF Tight(said.style)
  THEN Joined(left) \o Letters(IF said.style = "dash" THEN <<"dash">> ELSE <<"-">>) \o Joined(right)
  ELSE Joined(LeadWords(said.style, lang) \o left \o MiddleWords(said.style, lang) \o right)

Spelled(said, lang) ==
  IF said.form \in {"no date", "other"} THEN Joined(Phrase(said.phrase))
  ELSE LET left == QualifierWords(said.left, lang) \o EndWords(said.a, lang)
           right == QualifierWords(said.right, lang) \o EndWords(said.b, lang)
           body == CASE said.form = "alone" -> Joined(left)
                     [] said.form \in {"before", "after"} -> Joined(OpenWords(said.form, lang) \o left)
                     [] said.form = "or" -> Joined(left \o OrWord(lang) \o right)
                     [] said.form = "range" -> RangeText(said, left, right, lang)
           front == QualifierWords(said.whole \ {"uncertain"}, lang)
       IN  IF said.form = "range" /\ said.style = "from" THEN Joined(<<body>> \o WordsBehind(said.whole, lang))
           ELSE Joined(front \o <<body>>) \o (IF "uncertain" \in said.whole THEN <<Sym("?")>> ELSE <<>>)
=============================================================================
