------------------------------- MODULE Normalize -------------------------------
(***************************************************************************)
(* Prose to EDTF (engine.rs run(), behind edtf-wasm normalize()): a text   *)
(* passes the collision check, the parser, the stripping of qualifier      *)
(* words, and then the grammars one after the other, until one reads it.   *)
(*                                                                         *)
(* A grammar reads a text as one Single or as nothing (Phrases): as one    *)
(* candidate, or as many that the text all admits.  A candidate is an      *)
(* expression and the notes that explain it, here a set.  The wording of   *)
(* readings is left out.                                                   *)
(***************************************************************************)
EXTENDS Phrases, Validate
LOCAL INSTANCE SequencesExt

CONSTANT Inputs     \* what callers give: texts and options

(* The tokens of the texts, and those that dashes and commas become; what  *)
(* is left of a text as words; and the sides of a range.                   *)
TextToken == {Space, Hyphen} \cup UNION {{given.text[k] : k \in DOMAIN given.text} : given \in Inputs}
TextWords == Seq(Seq(TextToken) \ {<<>>})
TextSides == [left : TextWords \ {<<>>}, right : TextWords \ {<<>>}]

ASSUME InputsAssumption == \A given \in Inputs : given.text \in Seq(TextToken)

VARIABLES input,    \* the caller's text and options
          pc,       \* the stage the text has reached
          options,  \* the options, parsed
          words,    \* what is left of the text, as words
          q,        \* the qualifier of the whole text
          splits,   \* the places a range may still be split at
          found,    \* what a grammar has read
          outcome   \* the answer, once there is one

vars == <<input, pc, options, words, q, splits, found, outcome>>

-----------------------------------------------------------------------------
Candidate(expr, notes) == [expr |-> expr, notes |-> notes]
One(expr, notes) == [form |-> "One", candidates |-> <<Candidate(expr, notes)>>]
Many(candidates) == [form |-> "Many", candidates |-> candidates]

OneDate(d, notes) == One(DateExpr(d), notes)
OneOf(dates, notes) == {OneDate(d, notes) : d \in dates}

IsOneDate(s) == s.form = "One" /\ s.candidates[1].expr.type = "Date"
TheDate(s) == s.candidates[1].expr.date
TheNotes(s) == s.candidates[1].notes

with_note(s, note) ==
  LET noted(c) == Candidate(c.expr, c.notes \cup {note})
  IN  [form |-> s.form, candidates |-> [i \in DOMAIN s.candidates |-> noted(s.candidates[i])]]

RomanNote(ordinal) == IF ordinal.roman THEN {"RomanCentury"} ELSE {}

(* A qualifier raises its flags on every component that is there. *)
qualify_date(d, flags) ==
  LET qualified(slot) ==
        IF slot = None THEN None ELSE Some(Field(Get(slot).digits, Get(slot).qualifier \cup flags))
  IN  Date([d.year EXCEPT !.qualifier = @ \cup flags], qualified(d.month), qualified(d.day))

qualify_end(e, flags) == IF e.kind = "Date" THEN At(qualify_date(e.date, flags)) ELSE e

(* Mutant of qualify_expr: only the end of an interval is qualified.       *)
qualify_expr_end(x, flags) ==
  IF x.type = "Date" THEN DateExpr(qualify_date(x.date, flags))
  ELSE IntervalExpr(x.start, qualify_end(x.end, flags))

qualify_expr(x, flags) ==
  IF x.type = "Date" THEN DateExpr(qualify_date(x.date, flags))
  ELSE IntervalExpr(qualify_end(x.start, flags), qualify_end(x.end, flags))

-----------------------------------------------------------------------------
(* The single-expression grammar: decades and centuries.                   *)
decade_single(decade, opts) ==
  LET tens == decade.prefix
      bare(century) == DateExpr(decade_date((century \div 100) * 10 + tens))
  IN  CASE decade.kind = "Exact" -> OneDate(decade_date(tens), {})
        [] decade.kind = "CenturyAmbig" ->
             Many(<<Candidate(DateExpr(decade_date(tens)), {"DecadeAmbiguity"}),
                    Candidate(DateExpr(century_date(tens \div 10)), {"DecadeAmbiguity"})>>)
        [] decade.kind = "Bare" ->
             IF IsSome(opts.default_century) /\ Get(opts.default_century) <= 9999
             THEN One(bare(Get(opts.default_century)), {"DefaultCenturyApplied"})
             ELSE Many(<<Candidate(bare(1800), {"DecadeAmbiguity"}),
                         Candidate(bare(1900), {"DecadeAmbiguity"})>>)

century_expr(ordinal, bc, notes) ==
  IF bc THEN One(YearsFromTo(century_span(ordinal.n, TRUE)),
                 {"AstronomicalYear", "BcCenturyInterval"} \cup RomanNote(ordinal) \cup notes)
  ELSE OneDate(century_date(ordinal.n - 1), {"CenturyMask"} \cup RomanNote(ordinal) \cup notes)

century_part_expr(span, ordinal, bc) ==
  One(YearsFromTo(century_part(span, ordinal.n, bc)),
      {"CenturyPartInterval"} \cup (IF bc THEN {"AstronomicalYear"} ELSE {}) \cup RomanNote(ordinal))

(* early 19th century; of a decade, or inside a range, the part is dropped. *)
modified_single(m, bc, opts, lang, in_range) ==
  LET decades == {d \in decade_tok(m.words[1], lang) : bc = None /\ Len(m.words) = 1}
      centuries == century_toks(m.words, lang)
  IN  OrElse({with_note(decade_single(d, opts), "ModifierDropped") : d \in decades},
             IF in_range THEN {century_expr(c, bc = Some(TRUE), {"ModifierDropped"}) : c \in centuries}
             ELSE {century_part_expr(m.span, c, bc = Some(TRUE)) : c \in centuries})

(* The 60s of the 19th century. *)
decade_of_century(ws, lang) ==
  {OneDate(decade_date((century.n - 1) * 10 + decade.prefix), {"DecadeOfCentury"} \cup RomanNote(century)) :
     decade \in {d \in decade_tok(ws[1], lang) : d.kind = "Bare"},
     century \in IF Len(ws) > 1 THEN century_toks(without_leading(Tail(ws), lang.noise_trailing), lang) ELSE {}}

(* 500 BC.  Five digits reach the last year of four digits before Christ.  *)
era_single(ws, bc) ==
  LET years == {v \in num(ws[1]) : Len(ws) = 1 /\ Digits(ws[1]) <= (IF bc THEN 5 ELSE 4) /\ v >= 1}
  IN  OneOf(UNION {date_y(era_year(v, bc)) : v \in years}, IF bc THEN {"AstronomicalYear"} ELSE {})

-----------------------------------------------------------------------------
(* All-numeric dates, with one kind of separator.                          *)
numeric_sep(w) == {s \in {Sym("/"), Hyphen, Sym(".")} : \E i \in DOMAIN w : w[i] = s}

(* Mutant of dmy: a day the month does not have is no date at all.         *)
dmy_by_calendar(d, m, y) ==
  {OnDay(date, m, d) : date \in {date \in date_y(y) : m \in 1..12 /\ d \in 1..last_day(m, is_leap(y))}}

dmy(d, m, y) == {OnDay(date, m, d) : date \in {date \in date_y(y) : m \in 1..12 /\ d \in 1..31}}

season_range_collision(y, code) ==
  Many(<<Candidate(DateExpr(InMonth(InYear(y), code)), {"SeasonRangeCollision"}),
         Candidate(YearsFromTo(<<y, elided(y, code)>>), {"ElidedEndYear", "SeasonRangeCollision"})>>)

(* a/b/y: an option first, then the language's order, then both readings,  *)
(* which are dates or neither is.                                          *)
ordered(order, a, b, y) == IF order = "DayFirst" THEN dmy(a, b, y) ELSE dmy(b, a, y)

(* Mutant of either_order: the language's order wins over the caller's.    *)
either_order_locale(a, b, y, opts, lang) ==
  IF lang.implied_numeric_order # "None"
  THEN OneOf(ordered(lang.implied_numeric_order, a, b, y), {"NumericResolvedByLocale"})
  ELSE OneOf(ordered(opts.numeric_order, a, b, y), {"NumericResolvedByOption"})

either_order(a, b, y, opts, lang) ==
  IF opts.numeric_order # "None"
  THEN OneOf(ordered(opts.numeric_order, a, b, y), {"NumericResolvedByOption"})
  ELSE IF lang.implied_numeric_order # "None"
  THEN OneOf(ordered(lang.implied_numeric_order, a, b, y), {"NumericResolvedByLocale"})
  ELSE {Many(<<Candidate(DateExpr(day_first), {"NumericOrderAmbiguous"}),
               Candidate(DateExpr(month_first), {"NumericOrderAmbiguous"})>>) :
          day_first \in dmy(a, b, y), month_first \in dmy(b, a, y)}

small_fields(a, b, y, opts, lang) ==
  CASE a > 12 /\ b <= 12 -> OneOf(dmy(a, b, y), {"NumericUnambiguous"})
    [] a <= 12 /\ b > 12 -> OneOf(dmy(b, a, y), {"NumericUnambiguous"})
    [] a > 12 /\ b > 12 -> {}
    [] a <= 12 /\ b <= 12 /\ a = b -> OneOf(dmy(a, b, y), {"NumericOrderIrrelevant"})
    [] OTHER -> either_order(a, b, y, opts, lang)

(* 1914-1918, 1914-18. *)
year_pair(y, b, width) ==
  CASE width = 4 /\ b > y -> {One(YearsFromTo(<<y, b>>), {})}
    [] width = 2 /\ collides(y, b) -> {season_range_collision(y, b)}
    [] width = 2 /\ ~collides(y, b) /\ elides(y, b) -> {One(YearsFromTo(<<y, elided(y, b)>>), {"ElidedEndYear"})}
    [] OTHER -> {}

numeric_fields(v, width, sep, opts, lang) ==
  LET month(m, y) == {OneDate(InMonth(InYear(y), m), {})}
  IN  CASE Len(v) = 3 /\ width[1] = 4 -> OneOf(dmy(v[3], v[2], v[1]), {"NumericUnambiguous"})
        [] Len(v) = 3 /\ width[1] <= 2 /\ width[2] <= 2 /\ width[3] = 4 ->
             small_fields(v[1], v[2], v[3], opts, lang)
        [] Len(v) = 2 /\ width[1] <= 2 /\ width[2] = 4 /\ v[1] \in 1..12 -> month(v[1], v[2])
        [] Len(v) = 2 /\ width[1] = 4 /\ width[2] <= 2 /\ v[2] \in 1..12 -> month(v[2], v[1])
        [] Len(v) = 2 /\ width[1] = 4 /\ sep = Hyphen /\ ~(width[2] <= 2 /\ v[2] \in 1..12) ->
             year_pair(v[1], v[2], width[2])
        [] OTHER -> {}

numeric_token(w, opts, lang) ==
  LET fields(parts, sep) ==
        IF \E i \in DOMAIN parts : num(parts[i]) = {} THEN {}
        ELSE numeric_fields([i \in DOMAIN parts |-> Number(parts[i])],
                            [i \in DOMAIN parts |-> Digits(parts[i])], sep, opts, lang)
  IN  UNION {fields(pieces(w, sep), sep) : sep \in {s \in numeric_sep(w) : numeric_sep(w) = {s}}}

-----------------------------------------------------------------------------
(* One, two or three words. *)
word_single(w, opts, lang) ==
  OrElse(OneOf({InYear(y) : y \in year_num(w)}, {}),
  OrElse({decade_single(decade, opts) : decade \in decade_tok(w, lang)},
  OrElse(OneOf({InMonth(WithoutYear, m) : m \in table_u8(w, lang.months)}, {"MissingYearMasked"}),
         numeric_token(w, opts, lang))))

OfYear(field, y) == {InMonth(InYear(v), f) : f \in field, v \in year_num(y)}

(* A season or a month and a year, a month and a day: in either order.     *)
pair_single(ws, lang) ==
  LET either(read(_, _)) == read(ws[1], ws[2]) \cup read(ws[2], ws[1])
      season(s, y) == OfYear(table_u8(s, lang.seasons), y)
      month(m, y) == OfYear(table_u8(m, lang.months), y)
      day(m, d) == {OnDay(WithoutYear, v, n) : v \in table_u8(m, lang.months), n \in day_num(d, lang)}
  IN  OrElse(OneOf(either(season), {"SeasonCode"}),
      OrElse(OneOf(either(month), {}),
             OneOf(either(day), {"MissingYearMasked"})))

full_single(ws, lang) ==
  LET full(d, m) == {[date EXCEPT !.day = Some(quiet(n))] :
                       date \in OfYear(table_u8(m, lang.months), ws[3]), n \in day_num(d, lang)}
  IN  OneOf(full(ws[1], ws[2]) \cup full(ws[2], ws[1]), {})

parse_words(ws, opts, lang) ==
  CASE Len(ws) = 1 -> word_single(ws[1], opts, lang)
    [] Len(ws) = 2 -> pair_single(ws, lang)
    [] Len(ws) = 3 -> full_single(ws, lang)
    [] Len(ws) \notin 1..3 -> {}

(* The single-expression grammar.  What begins with a modifier or ends     *)
(* with an era is read as that or not at all.                              *)
parse_core(ws, bc, opts, lang, in_range) ==
  LET modified == split_modifier(ws, lang)
      centuries == century_toks(ws, lang)
  IN  IF modified # {} THEN UNION {modified_single(m, bc, opts, lang, in_range) : m \in modified}
      ELSE IF centuries # {} THEN {century_expr(c, bc = Some(TRUE), {}) : c \in centuries}
      ELSE IF bc # None THEN era_single(ws, Get(bc))
      ELSE OrElse(decade_of_century(ws, lang), parse_words(ws, opts, lang))

parse_single(ws, opts, lang, in_range) ==
  UNION {parse_core(without_trailing(era.words, lang.noise_trailing), era.bc, opts, lang, in_range) :
           era \in {split_era(ws, lang)}}

-----------------------------------------------------------------------------
(* before 1917, after 1917.  A candidate that is no date is dropped.       *)
open_ended(before, d) ==
  IF before THEN IntervalExpr(OpenEnd, At(d)) ELSE IntervalExpr(At(d), OpenEnd)

IsDate(candidate) == candidate.expr.type = "Date"

opened(single, before, flags) ==
  LET dates == {i \in DOMAIN single.candidates : IsDate(single.candidates[i])}
      nth(k) == CHOOSE i \in dates : Cardinality({j \in dates : j <= i}) = k
      open(c) == Candidate(open_ended(before, qualify_date(c.expr.date, flags)), c.notes \cup {"OpenInterval"})
  IN  IF dates = {} THEN {}
      ELSE {[form |-> single.form,
             candidates |-> [k \in 1..Cardinality(dates) |-> open(single.candidates[nth(k)])]]}

parse_open(ws, opts, lang) ==
  LET b == match_head(ws, lang.before_phrases)
      a == match_head(ws, lang.after_phrases)
      phrase == IF b # 0 THEN lang.before_phrases[b] ELSE lang.after_phrases[a]
      read(side) == UNION {opened(s, b # 0, side.q) : s \in parse_single(side.words, opts, lang, TRUE)}
  IN  IF b = 0 /\ a = 0 THEN {}
      ELSE UNION {read(side) : side \in {strip_qualifiers(Rest(ws, Len(phrase)), lang)}}

(* 1863 or 1864: both sides are one date or interval each.                 *)
alternative(ws, opts, lang) ==
  LET read(side) == {Candidate(qualify_expr(s.candidates[1].expr, side.q), TheNotes(s) \cup {"OrAlternatives"}) :
                       s \in {s \in parse_single(side.words, opts, lang, TRUE) : s.form = "One"}}
  IN  UNION {read(side) : side \in {strip_qualifiers(ws, lang)}}

or_word(ws, lang) == SelectInSeq(ws, LAMBDA w : Spelling(w) \in lang.or_words)

parse_or(ws, opts, lang) ==
  LET at == or_word(ws, lang)
  IN  IF at \notin 2..(Len(ws) - 1) THEN {}
      ELSE {Many(<<left, right>>) : left \in alternative(SubSeq(ws, 1, at - 1), opts, lang),
                                    right \in alternative(Rest(ws, at), opts, lang)}

-----------------------------------------------------------------------------
(* Two-sided ranges.  A year stated at one end is the year of both.        *)
StatedYear(d) == year_of(d.year.kind)
Inherited(d, source) == [d EXCEPT !.year.kind = source.year.kind]
YearlessNotes(notes) == (notes \ {"MissingYearMasked"}) \cup {"EndpointYearDistributed"}

Ends(left, lnotes, right, rnotes) == [left |-> left, lnotes |-> lnotes, right |-> right, rnotes |-> rnotes]

(* Mutant of distribute_year: a year is handed on from the left only.      *)
distribute_year_rightward(e) ==
  IF "MissingYearMasked" \in e.rnotes \ e.lnotes
  THEN IF StatedYear(e.left) = None THEN {}
       ELSE {Ends(e.left, e.lnotes, Inherited(e.right, e.left), YearlessNotes(e.rnotes))}
  ELSE {e}

(* Mutant of distribute_year: the endpoint's note stays behind.            *)
distribute_year_keeps_note(e) ==
  LET lmasked == "MissingYearMasked" \in e.lnotes
      rmasked == "MissingYearMasked" \in e.rnotes
  IN  IF lmasked = rmasked THEN {e}
      ELSE IF StatedYear(IF lmasked THEN e.right ELSE e.left) = None THEN {}
      ELSE IF lmasked
      THEN {Ends(Inherited(e.left, e.right), e.lnotes \cup {"EndpointYearDistributed"}, e.right, e.rnotes)}
      ELSE {Ends(e.left, e.lnotes, Inherited(e.right, e.left), e.rnotes \cup {"EndpointYearDistributed"})}

distribute_year(e) ==
  LET lmasked == "MissingYearMasked" \in e.lnotes
      rmasked == "MissingYearMasked" \in e.rnotes
  IN  IF lmasked = rmasked THEN {e}
      ELSE IF StatedYear(IF lmasked THEN e.right ELSE e.left) = None THEN {}
      ELSE IF lmasked
      THEN {Ends(Inherited(e.left, e.right), YearlessNotes(e.lnotes), e.right, e.rnotes)}
      ELSE {Ends(e.left, e.lnotes, Inherited(e.right, e.left), YearlessNotes(e.rnotes))}

(* The interval, unless its years are reversed. *)
build(left, right, lq, rq) ==
  LET reversed == /\ IsSome(StatedYear(left)) /\ IsSome(StatedYear(right))
                  /\ Get(StatedYear(left)) > Get(StatedYear(right))
  IN  IF reversed THEN {} ELSE {interval(qualify_date(left, lq), qualify_date(right, rq))}

(* winter 1941-42: one winter, or a range. *)
Winter == 24

cross_year_season(e) ==
  /\ slot_value(e.left.month) = Some(Winter) /\ e.right.month = None
  /\ IsSome(StatedYear(e.left)) /\ IsSome(StatedYear(e.right))
  /\ Get(StatedYear(e.right)) = Get(StatedYear(e.left)) + 1

pair_dates(e, lq, rq) ==
  LET notes == e.lnotes \cup e.rnotes
      read(range) ==
        IF cross_year_season(e)
        THEN Many(<<Candidate(DateExpr(qualify_date(e.left, lq)), e.lnotes \cup {"CrossYearSeason"}),
                    Candidate(range, notes \cup {"CrossYearSeason"})>>)
        ELSE One(range, notes)
  IN  {read(range) : range \in build(e.left, e.right, lq, rq)}

(* One end has several readings: each is a range, or none is.              *)
pair_candidates(l, r, lq, rq) ==
  LET paired(a, b) == {Candidate(range, a.notes \cup b.notes) :
                         range \in IF IsDate(a) /\ IsDate(b) THEN build(a.expr.date, b.expr.date, lq, rq) ELSE {}}
      ranges == IF r.form = "Many"
                THEN [i \in DOMAIN r.candidates |-> paired(l.candidates[1], r.candidates[i])]
                ELSE [i \in DOMAIN l.candidates |-> paired(l.candidates[i], r.candidates[1])]
  IN  IF \E i \in DOMAIN ranges : ranges[i] = {} THEN {}
      ELSE {Many([i \in DOMAIN ranges |-> CHOOSE c \in ranges[i] : TRUE])}

pair_ends(l, r, lq, rq) ==
  LET given == distribute_year(Ends(TheDate(l), TheNotes(l), TheDate(r), TheNotes(r)))
  IN  IF l.form = "Many" /\ r.form = "Many" THEN {}
      ELSE IF l.form = "Many" \/ r.form = "Many" THEN pair_candidates(l, r, lq, rq)
      ELSE IF ~IsOneDate(l) \/ ~IsOneDate(r) THEN {}
      ELSE UNION {pair_dates(e, lq, rq) : e \in given}

(* 17-19th centuries: an ordinal on the left is a century, of at most one  *)
(* byte.  The zeroth has none: n - 1 wraps (a build that checks arithmetic *)
(* panics here, which is not modelled).                                    *)
MaxU8 == 255

inherits_century(ws, r, lang) ==
  IF Len(ws) = 1 /\ IsOneDate(r) /\ "CenturyMask" \in TheNotes(r)
  THEN {century_expr(c, FALSE, {}) : c \in {c \in century_ordinal(ws[1], lang) : c.n \in 1..(MaxU8 + 1)}}
  ELSE {}

(* 1914 - 18: two digits on the right are a year of the left's century.    *)
elided_pair(l, y, v, lq, rq) ==
  LET end == InYear(elided(y, v))
  IN  IF v \in SubYearCode /\ TheDate(l).month = None
      THEN {Many(<<Candidate(DateExpr(qualify_date(InMonth(TheDate(l), v), lq)), {"SeasonRangeCollision"}),
                   Candidate(interval(qualify_date(TheDate(l), lq), qualify_date(end, rq)),
                             {"ElidedEndYear", "SeasonRangeCollision"})>>)}
      ELSE pair_ends(l, OneDate(end, {"ElidedEndYear"}), lq, rq)

elided_end(ws, l, lq, rq) ==
  LET codes == {v \in num(ws[1]) : Len(ws) = 1 /\ Digits(ws[1]) <= 2}
      years == IF IsOneDate(l) /\ IsSome(StatedYear(TheDate(l))) THEN {Get(StatedYear(TheDate(l)))} ELSE {}
  IN  UNION {IF elides_apart(y, v) THEN elided_pair(l, y, v, lq, rq) ELSE {} : y \in years, v \in codes}

(* Each side is read by itself; where only one is, it may lend the other   *)
(* what it lacks.                                                          *)
pair_sides(left, right, ls, rs, lang) ==
  CASE ls # {} /\ rs # {} -> UNION {pair_ends(l, r, left.q, right.q) : l \in ls, r \in rs}
    [] ls = {} /\ rs # {} ->
         UNION {UNION {pair_ends(l, r, left.q, right.q) : l \in inherits_century(left.words, r, lang)} : r \in rs}
    [] ls # {} /\ rs = {} -> UNION {elided_end(right.words, l, left.q, right.q) : l \in ls}
    [] ls = {} /\ rs = {} -> {}

endpoint_pair(split, opts, lang) ==
  LET read(side) == {parse_single(side.words, opts, lang, TRUE)}
      sides(left, right) == UNION {pair_sides(left, right, ls, rs, lang) : ls \in read(left), rs \in read(right)}
  IN  UNION {sides(left, right) : left \in {strip_qualifiers(split.left, lang)},
                                  right \in {strip_qualifiers(split.right, lang)}}

(* Where a text may be split in two: at the range words its language       *)
(* pairs, in the order of the table, then at each hyphen.                  *)
Split(left, right) == [left |-> left, right |-> right]

(* Mutant of word_split: the words of a pair may stand at an edge.         *)
word_split_at_edge(ws, pair) ==
  LET inner == IF pair.lead = "" THEN ws
               ELSE IF ws # <<>> /\ Spelling(ws[1]) = pair.lead THEN Tail(ws) ELSE <<>>
      at == SelectInSeq(inner, LAMBDA w : Spelling(w) = pair.sep)
  IN  IF at # 0 THEN <<Split(SubSeq(inner, 1, at - 1), Rest(inner, at))>> ELSE <<>>

word_split(ws, pair) ==
  LET inner == IF pair.lead = "" THEN ws
               ELSE IF ws # <<>> /\ Spelling(ws[1]) = pair.lead THEN Tail(ws) ELSE <<>>
      at == SelectInSeq(inner, LAMBDA w : Spelling(w) = pair.sep)
  IN  IF at \in 2..(Len(inner) - 1) THEN <<Split(SubSeq(inner, 1, at - 1), Rest(inner, at))>> ELSE <<>>

hyphen_split(t, i) ==
  LET left == words_of(SubSeq(t, 1, i - 1))
      right == words_of(SubSeq(t, i + 1, Len(t)))
  IN  IF t[i] = Hyphen /\ left # <<>> /\ right # <<>> THEN <<Split(left, right)>> ELSE <<>>

splits_of(ws, lang) ==
  LET t == joined(ws)
  IN  FlattenSeq([i \in DOMAIN lang.range_pairs |-> word_split(ws, lang.range_pairs[i])]
                   \o [i \in DOMAIN t |-> hyphen_split(t, i)])

-----------------------------------------------------------------------------
(* What is answered.  Rendering parses the text again, which is the check  *)
(* of the calendar and of the order of an interval: a reading that fails   *)
(* it takes the others with it.                                            *)
Answer(kind, readings, reason) == [kind |-> kind, readings |-> readings, reason |-> reason]
NotYet == Answer("NotYet", <<>>, "")
Undefined == Answer("Undefined", <<>>, "")
no_match(reason) == Answer("NoMatch", <<>>, reason)
answer(readings) == Answer(IF Len(readings) = 1 THEN "Normalized" ELSE "Ambiguous", readings, "")

Slots(d) == {Some(d.year.kind), d.month, d.day} \ {None}
EndDates(x) == IF x.type = "Date" THEN {x.date}
               ELSE {e.date : e \in {e \in {x.start, x.end} : e.kind = "Date"}}
TwoDigitFields(x) == \A d \in EndDates(x) : \A slot \in Slots(d) :
                       \A i \in DOMAIN Get(slot).digits : Get(slot).digits[i] \in 0..9 \cup {X}

(* Mutant of render: what is rendered is not parsed again.                 *)
render_unchecked(x) == TwoDigitFields(x)

render(x) == TwoDigitFields(x) /\ Accepted(x)

Distributed(single, x, flags) ==
  IF single.form = "One" /\ x.type = "Interval" /\ flags # {} THEN {"QualifierDistributed"} ELSE {}

(* Mutant of outcome_from: the readings that live are answered.            *)
outcome_from_survivors(single, flags) ==
  LET qualified(c) == LET x == qualify_expr(c.expr, flags)
                      IN  Candidate(x, c.notes \cup Distributed(single, x, flags))
      live(c) == render(c.expr)
      readings == SelectSeq([i \in DOMAIN single.candidates |-> qualified(single.candidates[i])], live)
  IN  IF readings = <<>> THEN no_match("ImpossibleDate") ELSE answer(readings)

outcome_from(single, flags) ==
  LET qualified(c) == LET x == qualify_expr(c.expr, flags)
                      IN  Candidate(x, c.notes \cup Distributed(single, x, flags))
      readings == [i \in DOMAIN single.candidates |-> qualified(single.candidates[i])]
  IN  IF \A i \in DOMAIN readings : render(readings[i].expr) THEN answer(readings)
      ELSE no_match("ImpossibleDate")

-----------------------------------------------------------------------------
(* The options a caller gives, as JSON: absent, or one of these values.    *)
Languages == [absent |-> "English", en |-> "English", ru |-> "Russian"]
Orders == [absent |-> "None", dayFirst |-> "DayFirst", monthFirst |-> "MonthFirst"]

parse_options(json) ==
  IF /\ json.language \in DOMAIN Languages /\ json.numericOrder \in DOMAIN Orders
     /\ json.defaultCentury = None \/ Get(json.defaultCentury) <= 9999
  THEN {Options(Languages[json.language], Orders[json.numericOrder], json.defaultCentury)}
  ELSE {}

(* 1914-21 is a valid expression, and also a range.                        *)
IsDigits(token, n) == IsGroup(token) /\ Len(token.digits) = n /\ ~has_x(token.digits)
IsYearCode(t) == Len(t) = 3 /\ IsDigits(t[1], 4) /\ t[2] = Hyphen /\ IsDigits(t[3], 2)
YearOf(t) == Number(<<t[1]>>)
CodeOf(t) == 10 * t[3].digits[1] + t[3].digits[2]
collision_check(t) == IsYearCode(t) /\ collides(YearOf(t), CodeOf(t))

(* Reading a valid expression, as far as the texts given here reach: dates *)
(* of plain digits, with a marker at the end, and intervals of them.       *)
DateShape(t) == /\ Len(t) \in {1, 3, 5} /\ IsDigits(t[1], 4)
                /\ \A i \in {2, 4} \cap DOMAIN t : t[i] = Hyphen /\ IsDigits(t[i + 1], 2)

EdtfDate(t, flags) ==
  LET field(i) == IF Len(t) >= i THEN Some(Field(t[i].digits, flags)) ELSE None
  IN  Date(Year(Standard(FALSE, t[1].digits), None, flags), field(3), field(5))

read_date(t) ==
  LET marked == t # <<>> /\ Last(t) \in Markers
      body == IF marked THEN Front(t) ELSE t
  IN  IF DateShape(body) THEN {EdtfDate(body, IF marked THEN flags_of(Last(t)) ELSE {})} ELSE {}

read_edtf(t) ==
  LET ends == pieces(t, Sym("/"))
      read == IF Len(ends) = 1 THEN {DateExpr(d) : d \in read_date(t)}
              ELSE IF Len(ends) = 2
              THEN {interval(d, e) : d \in read_date(ends[1]), e \in read_date(ends[2])}
              ELSE {}
  IN  {x \in read : Accepted(x)}

-----------------------------------------------------------------------------
NothingFound == [form |-> "Nothing", candidates |-> <<>>]
NoOptions == Options("English", "None", None)

Init == /\ input \in Inputs /\ pc = "options" /\ options = NoOptions
        /\ words = <<>> /\ q = {} /\ splits = <<>> /\ found = NothingFound /\ outcome = NotYet

Respond(o) == outcome' = o /\ pc' = "done" /\ UNCHANGED <<input, options, words, q, splits, found>>
Go(next) == pc' = next /\ UNCHANGED <<input, options, words, q, outcome>>
Found(single) == found' = single /\ Go("found") /\ UNCHANGED splits

RejectOptions == pc = "options" /\ parse_options(input.options) = {} /\ Respond(Undefined)

ReadOptions == /\ pc = "options"
               /\ options' \in parse_options(input.options)
               /\ pc' = "text" /\ UNCHANGED <<input, words, q, splits, found, outcome>>

Text == dashed(input.text)

Empty == pc = "text" /\ Text = <<>> /\ Respond(no_match("OutOfGrammar"))

Collide == /\ pc = "text" /\ collision_check(Text)
           /\ Found(season_range_collision(YearOf(Text), CodeOf(Text)))

Passthrough == /\ pc = "text" /\ Text # <<>> /\ ~collision_check(Text)
               /\ \E read \in {read_edtf(Text)} :
                    \/ \E x \in read : Respond(answer(<<Candidate(x, {"AlreadyValidEdtf"})>>))
                    \/ read = {} /\ Go("prose") /\ UNCHANGED <<splits, found>>

(* Prose: a question mark at the end qualifies all of it.                  *)
Asked(ws) == ws # <<>> /\ Last(Last(ws)) = Sym("?")
WithoutMark(ws) == IF Len(Last(ws)) = 1 THEN Front(ws) ELSE [ws EXCEPT ![Len(ws)] = Front(@)]

Preprocess == /\ pc = "prose"
              /\ \E ws \in {preprocess(input.text)} :
                   /\ words' = IF Asked(ws) THEN WithoutMark(ws) ELSE ws
                   /\ q' = IF Asked(ws) THEN {"uncertain"} ELSE {}
              /\ pc' = "strip" /\ UNCHANGED <<input, options, splits, found, outcome>>

(* What follows reads the words with the tables of the language.           *)
Tables == {lang_for(options.language)}

Strip == /\ pc = "strip"
         /\ \E lang \in Tables :
              \E u \in {unwrap(Unwrapped(words, q), lang)} :
                u # Unwrapped(words, q) /\ words' = u.words /\ q' = u.q
         /\ UNCHANGED <<input, pc, options, splits, found, outcome>>

NoDate(lang) == \E phrase \in lang.explicit_no_date : Len(words) = Len(phrase) /\ Spells(words, phrase)

Stripped == /\ pc = "strip"
            /\ \E lang \in Tables :
                 /\ unwrap(Unwrapped(words, q), lang) = Unwrapped(words, q)
                 /\ \/ words = <<>> /\ Respond(no_match("OutOfGrammar"))
                    \/ NoDate(lang) /\ Respond(no_match("ExplicitNoDate"))
                    \/ words # <<>> /\ ~NoDate(lang) /\ Go("single") /\ UNCHANGED <<splits, found>>

(* One grammar after another: the first that reads the text answers.       *)
Try(readings, next) ==
  \E singles \in readings :
    \/ singles = {} /\ Go(next) /\ UNCHANGED <<splits, found>>
    \/ \E s \in singles : Found(s)

ReadSingle == pc = "single" /\ Try({parse_single(words, options, lang, FALSE) : lang \in Tables}, "open")
ReadOpen == pc = "open" /\ Try({parse_open(words, options, lang) : lang \in Tables}, "or")
ReadOr == pc = "or" /\ Try({parse_or(words, options, lang) : lang \in Tables}, "range")

FindSplits == /\ pc = "range"
              /\ \E lang \in Tables : splits' = splits_of(words, lang)
              /\ Go("split") /\ UNCHANGED found

ReadSplit ==
  /\ pc = "split" /\ splits # <<>>
  /\ \E singles \in {endpoint_pair(Head(splits), options, lang) : lang \in Tables} :
       \/ singles = {} /\ splits' = Tail(splits) /\ Go("split") /\ UNCHANGED found
       \/ \E s \in singles : Found(s)

GiveUp == pc = "split" /\ splits = <<>> /\ Respond(no_match("OutOfGrammar"))

Render == pc = "found" /\ Respond(outcome_from(found, q))

Finished == pc = "done" /\ UNCHANGED vars

Step == \/ RejectOptions \/ ReadOptions
        \/ Empty \/ Collide \/ Passthrough \/ Preprocess \/ Strip \/ Stripped
        \/ ReadSingle \/ ReadOpen \/ ReadOr \/ FindSplits \/ ReadSplit \/ GiveUp \/ Render

Next == Step \/ Finished

(* run() is one call on one thread. *)
Spec == Init /\ [][Next]_vars

-----------------------------------------------------------------------------
(* What is answered is EDTF: every reading of an answer is an expression   *)
(* the parser accepts, an ambiguous answer has at least two of them and a  *)
(* normalized one has one; no list of candidates was empty (engine.rs      *)
(* render(), "every output is valid EDTF", and outcome_from(), "Many is    *)
(* never built empty").                                                    *)
Readings == {outcome.readings[i] : i \in DOMAIN outcome.readings}

AnswersParse ==
  /\ outcome.kind \in {"NotYet", "Normalized", "Ambiguous", "NoMatch", "Undefined"}
  /\ outcome.kind = "NotYet" <=> pc # "done"
  /\ outcome.kind = "Normalized" => Len(outcome.readings) = 1
  /\ outcome.kind = "Ambiguous" => Len(outcome.readings) > 1
  /\ outcome.kind \in {"NoMatch", "Undefined"} => outcome.readings = <<>>
  /\ \A r \in Readings : Accepted(r.expr)

(* The types: what is left of the text is words, each side of a split has  *)
(* some, and no stage hands its grammar an empty phrase (engine.rs run(),  *)
(* whose grammars index the first word, and parse_range()).                *)
Stage == [options |-> 1, text |-> 2, prose |-> 3, strip |-> 4, single |-> 5, open |-> 6, or |-> 7,
          range |-> 8, split |-> 9, found |-> 10, done |-> 11]
Grammars == {"single", "open", "or", "range", "split"}

TypeOK ==
  /\ pc \in DOMAIN Stage /\ q \in Qualifier
  /\ words \in TextWords /\ (pc \in Grammars => words # <<>>)
  /\ splits \in Seq(TextSides)
  /\ outcome.kind = "NotYet" <=> pc # "done"

(* Every text is answered: each step goes on to a later stage, or within   *)
(* one it takes words or a prefix away, as a turn of strip_qualifiers'     *)
(* loop does, or a place that is left to split at (parse_range()).         *)
Shorter(ws, than) == \/ Len(ws) < Len(than)
                     \/ Len(ws) = Len(than) /\ ws # <<>> /\ Len(ws[1]) < Len(than[1])

ComesToAnEnd ==
  [][\/ Stage[pc'] > Stage[pc]
     \/ pc' = pc /\ (Shorter(words', words) \/ Len(splits') < Len(splits))]_vars
=============================================================================
