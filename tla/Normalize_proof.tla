---------------------------- MODULE Normalize_proof ----------------------------
(***************************************************************************)
(* Whatever text and options a caller gives, it is answered, and what is   *)
(* answered is EDTF; what is left of the text on the way is words; and the *)
(* year arithmetic that answers are made with holds for every year:        *)
(* centuries tile the years, their parts tile them, the eras meet at the   *)
(* year 0, and an elided end year lies in its start's century.             *)
(***************************************************************************)
EXTENDS Normalize, Bounds_proof
LOCAL INSTANCE SequencesExt

(* Candidates: a sequence of at least one. *)
IsList(c) == \E n \in Nat \ {0} : c = [i \in 1..n |-> c[i]]
IsSingle(s) == IsList(s.candidates)
Singles(ss) == \A s \in ss : IsSingle(s)

(* The length of a list of candidates. *)
LEMMA ListLength ==
  ASSUME NEW c, IsList(c)
  PROVE  Len(c) \in Nat \ {0} /\ DOMAIN c = 1..Len(c)
BY DEF IsList

(* What is made of each candidate of a list is a list, as long. *)
LEMMA ListMapped ==
  ASSUME NEW c, IsList(c), NEW d, DOMAIN d = DOMAIN c, d = [i \in DOMAIN d |-> d[i]]
  PROVE  IsList(d) /\ Len(d) = Len(c)
BY ListLength DEF IsList

(* One reading; two. *)
LEMMA OneSingle ==
  ASSUME NEW expr, NEW notes
  PROVE  IsSingle(One(expr, notes))
<1> DEFINE c == <<Candidate(expr, notes)>>
<1>1. c = [i \in 1..1 |-> c[i]]
  OBVIOUS
<1>2. IsList(c)
  BY <1>1 DEF IsList
<1> QED BY <1>2 DEF IsSingle, One

(* Two readings, one reading with notes, one reading out of several: each  *)
(* is a single.                                                            *)
LEMMA TwoSingle ==
  ASSUME NEW a, NEW b
  PROVE  IsSingle(Many(<<a, b>>))
<1> DEFINE c == <<a, b>>
<1>1. c = [i \in 1..2 |-> c[i]]
  OBVIOUS
<1>2. IsList(c)
  BY <1>1 DEF IsList
<1> QED BY <1>2 DEF IsSingle, Many

(* A date read from a phrase is a single reading.                          *)
LEMMA OneDateSingle ==
  ASSUME NEW d, NEW notes
  PROVE  IsSingle(OneDate(d, notes))
BY OneSingle DEF OneDate

(* So is each of several dates a phrase may mean.                          *)
LEMMA OneOfSingles ==
  ASSUME NEW dates, NEW notes
  PROVE  Singles(OneOf(dates, notes))
BY OneDateSingle DEF Singles, OneOf

(* A further note leaves as many candidates. *)
LEMMA NotedSingle ==
  ASSUME NEW s, IsSingle(s), NEW note
  PROVE  IsSingle(with_note(s, note))
<1> DEFINE d == [i \in DOMAIN s.candidates |->
                   Candidate(s.candidates[i].expr, s.candidates[i].notes \cup {note})]
<1>1. with_note(s, note) = [form |-> s.form, candidates |-> d]
  BY Zenon DEF with_note
<1>2. IsList(d)
  BY ListMapped DEF IsSingle
<1> HIDE DEF d
<1> QED BY <1>1, <1>2 DEF IsSingle

(* Alternatives: what reads, reads singles. *)
LEMMA OrElseSingles ==
  ASSUME NEW a, NEW b, Singles(a), Singles(b)
  PROVE  Singles(OrElse(a, b))
BY DEF Singles, OrElse

-----------------------------------------------------------------------------
(* Every grammar reads singles. *)
DecadeKinds == {"Exact", "CenturyAmbig", "Bare"}

(* Whatever names a decade names it in one of the known kinds.             *)
LEMMA DecadeKind ==
  ASSUME NEW w, NEW lang, NEW d \in decade_tok(w, lang)
  PROVE  d.kind \in DecadeKinds
BY DEF decade_tok, Decade, DecadeKinds

(* A decade is a single reading.                                           *)
LEMMA DecadeSingle ==
  ASSUME NEW decade, NEW opts, decade.kind \in DecadeKinds
  PROVE  IsSingle(decade_single(decade, opts))
<1>1. CASE decade.kind = "Exact"
  BY <1>1, OneDateSingle, Zenon DEF decade_single
<1>2. CASE decade.kind = "CenturyAmbig"
  BY <1>2, TwoSingle, Zenon DEF decade_single
<1>3. CASE decade.kind = "Bare"
  <2>1. \A e : IsSingle(One(e, {"DefaultCenturyApplied"}))
    BY OneSingle
  <2>2. \A e, f : IsSingle(Many(<<e, f>>))
    BY TwoSingle
  <2> DEFINE bare(century) == DateExpr(decade_date((century \div 100) * 10 + decade.prefix))
  <2>3. decade_single(decade, opts) =
          IF IsSome(opts.default_century) /\ Get(opts.default_century) <= 9999
          THEN One(bare(Get(opts.default_century)), {"DefaultCenturyApplied"})
          ELSE Many(<<Candidate(bare(1800), {"DecadeAmbiguity"}),
                      Candidate(bare(1900), {"DecadeAmbiguity"})>>)
    BY <1>3, Zenon DEF decade_single
  <2> HIDE DEF bare
  <2> QED BY <2>1, <2>2, <2>3
<1> QED BY <1>1, <1>2, <1>3 DEF DecadeKinds

(* A century is a single reading.                                          *)
LEMMA CenturySingle ==
  ASSUME NEW ordinal, NEW bc, NEW notes
  PROVE  IsSingle(century_expr(ordinal, bc, notes))
BY OneSingle, OneDateSingle, Zenon DEF century_expr

(* Early, mid and late parts of a period are single readings.              *)
LEMMA ModifiedSingles ==
  ASSUME NEW m, NEW bc, NEW opts, NEW lang, NEW in_range
  PROVE  Singles(modified_single(m, bc, opts, lang, in_range))
<1> DEFINE decades == {d \in decade_tok(m.words[1], lang) : bc = None /\ Len(m.words) = 1}
           centuries == century_toks(m.words, lang)
           dropped == {with_note(decade_single(d, opts), "ModifierDropped") : d \in decades}
           before == bc = Some(TRUE)
           whole == {century_expr(c, before, {"ModifierDropped"}) : c \in centuries}
           part == {century_part_expr(m.span, c, before) : c \in centuries}
<1> HIDE DEF before
<1>1. Singles(dropped)
  BY DecadeKind, DecadeSingle, NotedSingle, Zenon DEF Singles
<1>2. Singles(whole)
  BY CenturySingle, Zenon DEF Singles
<1>3. Singles(part)
  BY OneSingle, Zenon DEF Singles, century_part_expr
<1>4. modified_single(m, bc, opts, lang, in_range) = OrElse(dropped, IF in_range THEN whole ELSE part)
  BY Zenon DEF modified_single, before
<1> HIDE DEF dropped, whole, part
<1>5. Singles(IF in_range THEN whole ELSE part)
  BY <1>2, <1>3, Zenon
<1> QED BY <1>1, <1>4, <1>5, OrElseSingles, Zenon

(* Two small numbers before a year are single readings.                    *)
LEMMA SmallFieldsSingles ==
  ASSUME NEW a, NEW b, NEW y, NEW opts, NEW lang
  PROVE  Singles(small_fields(a, b, y, opts, lang))
<1>1. Singles({})
  BY DEF Singles
<1>2. Singles(either_order(a, b, y, opts, lang))
  <2> DEFINE both == {Many(<<Candidate(DateExpr(day_first), {"NumericOrderAmbiguous"}),
                             Candidate(DateExpr(month_first), {"NumericOrderAmbiguous"})>>) :
                        day_first \in dmy(a, b, y), month_first \in dmy(b, a, y)}
  <2>1. \A s \in both : IsSingle(s)
    <3>1. \A d, e : IsSingle(Many(<<Candidate(DateExpr(d), {"NumericOrderAmbiguous"}),
                                    Candidate(DateExpr(e), {"NumericOrderAmbiguous"})>>))
      BY TwoSingle, Zenon
    <3>2. SUFFICES ASSUME NEW s \in both PROVE IsSingle(s)
      OBVIOUS
    <3>3. PICK d \in dmy(a, b, y), e \in dmy(b, a, y) :
            s = Many(<<Candidate(DateExpr(d), {"NumericOrderAmbiguous"}),
                       Candidate(DateExpr(e), {"NumericOrderAmbiguous"})>>)
      OBVIOUS
    <3> QED BY <3>1, <3>3
  <2> HIDE DEF both
  <2>2. Singles(both)
    BY <2>1, Zenon DEF Singles
  <2>3. either_order(a, b, y, opts, lang) =
          IF opts.numeric_order # "None"
          THEN OneOf(ordered(opts.numeric_order, a, b, y), {"NumericResolvedByOption"})
          ELSE IF lang.implied_numeric_order # "None"
          THEN OneOf(ordered(lang.implied_numeric_order, a, b, y), {"NumericResolvedByLocale"})
          ELSE both
    BY DEF either_order, both
  <2> QED BY <2>2, <2>3, OneOfSingles, Zenon
<1> QED BY <1>1, <1>2, OneOfSingles, Zenon DEF small_fields

(* A year with a second number is a single reading.                        *)
LEMMA YearPairSingles ==
  ASSUME NEW y, NEW b, NEW width
  PROVE  Singles(year_pair(y, b, width))
<1>1. Singles({})
  BY DEF Singles
<1>2. Singles({season_range_collision(y, b)})
  BY TwoSingle DEF Singles, season_range_collision
<1>3. \A expr, notes : Singles({One(expr, notes)})
  BY OneSingle, Zenon DEF Singles
<1> QED BY <1>1, <1>2, <1>3, Zenon DEF year_pair

(* A numeric token is a single reading.                                    *)
LEMMA NumericSingles ==
  ASSUME NEW w, NEW opts, NEW lang
  PROVE  Singles(numeric_token(w, opts, lang))
<1>1. ASSUME NEW v, NEW width, NEW sep
      PROVE  Singles(numeric_fields(v, width, sep, opts, lang))
  <2>1. Singles({})
    BY DEF Singles
  <2>2. \A m, y : Singles({OneDate(InMonth(InYear(y), m), {})})
    BY OneDateSingle, Zenon DEF Singles
  <2> QED BY <2>1, <2>2, OneOfSingles, SmallFieldsSingles, YearPairSingles, Zenon DEF numeric_fields
<1> QED BY <1>1, Zenon DEF numeric_token, Singles

(* A phrase of words is a single reading.                                  *)
LEMMA WordSingles ==
  ASSUME NEW ws, NEW opts, NEW lang
  PROVE  Singles(parse_words(ws, opts, lang))
<1>1. ASSUME NEW w
      PROVE  Singles(word_single(w, opts, lang))
  <2> DEFINE decades == {decade_single(decade, opts) : decade \in decade_tok(w, lang)}
  <2>1. Singles(decades)
    BY DecadeKind, DecadeSingle, Zenon DEF Singles
  <2> HIDE DEF decades
  <2>2. word_single(w, opts, lang) =
          OrElse(OneOf({InYear(y) : y \in year_num(w)}, {}),
          OrElse(decades,
          OrElse(OneOf({InMonth(WithoutYear, m) : m \in table_u8(w, lang.months)}, {"MissingYearMasked"}),
                 numeric_token(w, opts, lang))))
    BY Zenon DEF word_single, decades
  <2> QED BY <2>1, <2>2, OneOfSingles, NumericSingles, OrElseSingles, Zenon
<1>2. Singles(pair_single(ws, lang))
  BY OneOfSingles, OrElseSingles, SMT DEF pair_single
<1>3. Singles(full_single(ws, lang))
  BY OneOfSingles, SMT DEF full_single
<1>4. Singles({})
  BY DEF Singles
<1>5. Len(ws) = 1 \/ Len(ws) = 2 \/ Len(ws) = 3 \/ Len(ws) \notin 1..3
  OBVIOUS
<1> QED BY <1>1, <1>2, <1>3, <1>4, <1>5, Zenon DEF parse_words

(* What parse_single() returns are single readings.                        *)
LEMMA SingleSingles ==
  ASSUME NEW ws, NEW opts, NEW lang, NEW in_range
  PROVE  Singles(parse_single(ws, opts, lang, in_range))
<1>1. ASSUME NEW vs, NEW bc
      PROVE  Singles(parse_core(vs, bc, opts, lang, in_range))
  <2> DEFINE modified == UNION {modified_single(m, bc, opts, lang, in_range) : m \in split_modifier(vs, lang)}
             before == bc = Some(TRUE)
             whole == {century_expr(c, before, {}) : c \in century_toks(vs, lang)}
             words_of_it == OrElse(decade_of_century(vs, lang), parse_words(vs, opts, lang))
  <2>1. Singles(modified)
    BY ModifiedSingles, SMT DEF Singles
  <2> HIDE DEF before
  <2>2. Singles(whole)
    BY CenturySingle, Zenon DEF Singles
  <2>3. Singles(era_single(vs, Get(bc)))
    BY OneOfSingles, Zenon DEF era_single
  <2>4. Singles(words_of_it)
    <3>1. Singles(decade_of_century(vs, lang))
      <4>1. SUFFICES ASSUME NEW s \in decade_of_century(vs, lang)
                     PROVE  \E d, notes : s = OneDate(d, notes)
        BY OneDateSingle, Zenon DEF Singles
      <4> DEFINE D == {d \in decade_tok(vs[1], lang) : d.kind = "Bare"}
                 C == IF Len(vs) > 1 THEN century_toks(without_leading(Tail(vs), lang.noise_trailing), lang) ELSE {}
      <4>2. PICK decade \in D, century \in C :
              s = OneDate(decade_date((century.n - 1) * 10 + decade.prefix), {"DecadeOfCentury"} \cup RomanNote(century))
        BY <4>1 DEF decade_of_century
      <4> QED BY <4>2, Zenon
    <3> QED BY <3>1, WordSingles, OrElseSingles, Zenon
  <2> HIDE DEF modified, whole, words_of_it
  <2>5. parse_core(vs, bc, opts, lang, in_range) =
          IF split_modifier(vs, lang) # {} THEN modified
          ELSE IF century_toks(vs, lang) # {} THEN whole
          ELSE IF bc # None THEN era_single(vs, Get(bc))
          ELSE words_of_it
    BY Zenon DEF parse_core, modified, before, whole, words_of_it
  <2> QED BY <2>1, <2>2, <2>3, <2>4, <2>5, Zenon
<1> QED BY <1>1, Zenon DEF parse_single, Singles

(* What is left of the candidates is a list again. *)
LEMMA OpenedSingles ==
  ASSUME NEW s, IsSingle(s), NEW before, NEW flags
  PROVE  Singles(opened(s, before, flags))
<1> DEFINE c == s.candidates
           dates == {i \in DOMAIN c : IsDate(c[i])}
           nth(k) == CHOOSE i \in dates : Cardinality({j \in dates : j <= i}) = k
           open(d) == Candidate(open_ended(before, qualify_date(d.expr.date, flags)), d.notes \cup {"OpenInterval"})
           n == Cardinality(dates)
           left == [k \in 1..n |-> open(c[nth(k)])]
<1>1. ASSUME dates # {}
      PROVE  n \in Nat \ {0}
  <2>0. Len(c) \in Nat /\ DOMAIN c = 1..Len(c)
    BY ListLength DEF IsSingle
  <2>1. IsFiniteSet(1..Len(c)) /\ dates \subseteq 1..Len(c)
    BY <2>0, FS_Interval
  <2>2. IsFiniteSet(dates)
    BY <2>1, FS_Subset
  <2> HIDE DEF dates
  <2> QED BY <1>1, <2>2, FS_EmptySet, FS_CardinalityType
<1>2. opened(s, before, flags) = IF dates = {} THEN {} ELSE {[form |-> s.form, candidates |-> left]}
  BY Zenon DEF opened
<1>3. left = [k \in 1..n |-> left[k]]
  OBVIOUS
<1> HIDE DEF dates, left, n
<1>4. ASSUME dates # {}
      PROVE  IsSingle([form |-> s.form, candidates |-> left])
  <2>1. IsList(left)
    BY <1>1, <1>3, <1>4 DEF IsList
  <2> QED BY <2>1 DEF IsSingle
<1> QED BY <1>2, <1>4 DEF Singles

(* So is what parse_open() returns.                                        *)
LEMMA OpenSingles ==
  ASSUME NEW ws, NEW opts, NEW lang
  PROVE  Singles(parse_open(ws, opts, lang))
<1> DEFINE b == match_head(ws, lang.before_phrases)
           a == match_head(ws, lang.after_phrases)
           phrase == IF b # 0 THEN lang.before_phrases[b] ELSE lang.after_phrases[a]
           read(side) == UNION {opened(s, b # 0, side.q) : s \in parse_single(side.words, opts, lang, TRUE)}
           sides == {strip_qualifiers(Rest(ws, Len(phrase)), lang)}
<1>1. ASSUME NEW side
      PROVE  Singles(read(side))
  <2> DEFINE before == b # 0
  <2> HIDE DEF before
  <2>1. Singles(UNION {opened(s, before, side.q) : s \in parse_single(side.words, opts, lang, TRUE)})
    <3>1. SUFFICES ASSUME NEW s \in parse_single(side.words, opts, lang, TRUE)
                   PROVE  Singles(opened(s, before, side.q))
      BY DEF Singles
    <3>2. IsSingle(s)
      BY SingleSingles DEF Singles
    <3> QED BY <3>2, OpenedSingles
  <2> QED BY <2>1 DEF before
<1>2. parse_open(ws, opts, lang) = IF b = 0 /\ a = 0 THEN {} ELSE UNION {read(side) : side \in sides}
  BY Zenon DEF parse_open
<1> HIDE DEF b, a, sides, read
<1> QED BY <1>1, <1>2 DEF Singles

(* So is what parse_or() returns.                                          *)
LEMMA OrSingles ==
  ASSUME NEW ws, NEW opts, NEW lang
  PROVE  Singles(parse_or(ws, opts, lang))
<1> DEFINE at == or_word(ws, lang)
           lefts == alternative(SubSeq(ws, 1, at - 1), opts, lang)
           rights == alternative(Rest(ws, at), opts, lang)
           both == {Many(<<left, right>>) : left \in lefts, right \in rights}
<1>1. parse_or(ws, opts, lang) = IF at \notin 2..(Len(ws) - 1) THEN {} ELSE both
  BY DEF parse_or
<1> HIDE DEF at, lefts, rights
<1>2. Singles(both)
  <2>1. SUFFICES ASSUME NEW s \in both PROVE IsSingle(s)
    BY DEF Singles
  <2>2. PICK left \in lefts, right \in rights : s = Many(<<left, right>>)
    BY <2>1
  <2> QED BY <2>2, TwoSingle
<1> HIDE DEF both
<1> QED BY <1>1, <1>2 DEF Singles

(* Every pairing of two single readings is a single reading.               *)
LEMMA PairedSingles ==
  ASSUME NEW l, NEW r, IsSingle(l), IsSingle(r), NEW lq, NEW rq
  PROVE  Singles(pair_candidates(l, r, lq, rq))
<1> DEFINE paired(a, b) == {Candidate(range, a.notes \cup b.notes) :
                              range \in IF IsDate(a) /\ IsDate(b) THEN build(a.expr.date, b.expr.date, lq, rq) ELSE {}}
           ranges == IF r.form = "Many"
                     THEN [i \in DOMAIN r.candidates |-> paired(l.candidates[1], r.candidates[i])]
                     ELSE [i \in DOMAIN l.candidates |-> paired(l.candidates[i], r.candidates[1])]
           chosen == [i \in DOMAIN ranges |-> CHOOSE c \in ranges[i] : TRUE]
<1>1. pair_candidates(l, r, lq, rq) = IF \E i \in DOMAIN ranges : ranges[i] = {} THEN {} ELSE {Many(chosen)}
  BY Zenon DEF pair_candidates
<1>2. DOMAIN ranges = DOMAIN r.candidates \/ DOMAIN ranges = DOMAIN l.candidates
  <2> HIDE DEF paired
  <2> QED OBVIOUS
<1>3. DOMAIN chosen = DOMAIN ranges /\ chosen = [i \in DOMAIN chosen |-> chosen[i]]
  <2> HIDE DEF ranges
  <2> QED OBVIOUS
<1> HIDE DEF ranges, chosen
<1>4. IsList(chosen)
  BY <1>2, <1>3, ListMapped DEF IsSingle
<1>5. IsSingle(Many(chosen))
  BY <1>4 DEF IsSingle, Many
<1> QED BY <1>1, <1>5, Zenon DEF Singles

(* So is the pairing of two dates.                                         *)
LEMMA PairDatesSingles ==
  ASSUME NEW e, NEW lq, NEW rq
  PROVE  Singles(pair_dates(e, lq, rq))
<1> DEFINE notes == e.lnotes \cup e.rnotes
           both(range) == Many(<<Candidate(DateExpr(qualify_date(e.left, lq)), e.lnotes \cup {"CrossYearSeason"}),
                                 Candidate(range, notes \cup {"CrossYearSeason"})>>)
           made(range) == IF cross_year_season(e) THEN both(range) ELSE One(range, notes)
<1>1. pair_dates(e, lq, rq) = {made(range) : range \in build(e.left, e.right, lq, rq)}
  BY Zenon DEF pair_dates
<1>2. \A range : IsSingle(both(range)) /\ IsSingle(One(range, notes))
  BY OneSingle, TwoSingle, Zenon
<1> HIDE DEF both, notes
<1>3. \A range : IsSingle(made(range))
  BY <1>2, Zenon
<1> HIDE DEF made
<1> QED BY <1>1, <1>3, Zenon DEF Singles

(* So is the pairing of two ends of a range.                               *)
LEMMA PairEndsSingles ==
  ASSUME NEW l, NEW r, IsSingle(l), IsSingle(r), NEW lq, NEW rq
  PROVE  Singles(pair_ends(l, r, lq, rq))
<1> DEFINE given == distribute_year(Ends(TheDate(l), TheNotes(l), TheDate(r), TheNotes(r)))
           dates == UNION {pair_dates(e, lq, rq) : e \in given}
<1>1. pair_ends(l, r, lq, rq) =
        IF l.form = "Many" /\ r.form = "Many" THEN {}
        ELSE IF l.form = "Many" \/ r.form = "Many" THEN pair_candidates(l, r, lq, rq)
        ELSE IF ~IsOneDate(l) \/ ~IsOneDate(r) THEN {}
        ELSE dates
  BY Zenon DEF pair_ends
<1> HIDE DEF given
<1>2. Singles(dates)
  BY PairDatesSingles, SMT DEF Singles
<1>3. Singles({})
  BY DEF Singles
<1> HIDE DEF dates
<1> QED BY <1>1, <1>2, <1>3, PairedSingles, Zenon

(* An end that takes its century from the other is a single reading.       *)
LEMMA InheritedSingles ==
  ASSUME NEW ws, NEW r, NEW lang
  PROVE  Singles(inherits_century(ws, r, lang))
<1> DEFINE single == Len(ws) = 1 /\ IsOneDate(r) /\ "CenturyMask" \in TheNotes(r)
           first == {c \in century_ordinal(ws[1], lang) : c.n \in 1..(MaxU8 + 1)}
           read == {century_expr(c, FALSE, {}) : c \in first}
<1>1. inherits_century(ws, r, lang) = IF single THEN read ELSE {}
  BY Zenon DEF inherits_century
<1> HIDE DEF single, first
<1>2. Singles(read)
  BY CenturySingle, Zenon DEF Singles
<1> HIDE DEF read
<1> QED BY <1>1, <1>2, Zenon DEF Singles

(* An end written short is a single reading.                               *)
LEMMA ElidedSingles ==
  ASSUME NEW ws, NEW l, IsSingle(l), NEW lq, NEW rq
  PROVE  Singles(elided_end(ws, l, lq, rq))
<1>1. ASSUME NEW y, NEW v
      PROVE  Singles(elided_pair(l, y, v, lq, rq))
  <2> DEFINE end == InYear(elided(y, v))
             two == Many(<<Candidate(DateExpr(qualify_date(InMonth(TheDate(l), v), lq)), {"SeasonRangeCollision"}),
                           Candidate(interval(qualify_date(TheDate(l), lq), qualify_date(end, rq)),
                                     {"ElidedEndYear", "SeasonRangeCollision"})>>)
             apart == pair_ends(l, OneDate(end, {"ElidedEndYear"}), lq, rq)
  <2>1. Singles({two})
    BY TwoSingle, Zenon DEF Singles
  <2>2. Singles(apart)
    BY PairEndsSingles, OneDateSingle, Zenon
  <2>3. elided_pair(l, y, v, lq, rq) =
          IF v \in SubYearCode /\ TheDate(l).month = None THEN {two} ELSE apart
    BY Zenon DEF elided_pair
  <2> HIDE DEF two, apart
  <2> QED BY <2>1, <2>2, <2>3, Zenon
<1>2. SUFFICES ASSUME NEW s \in elided_end(ws, l, lq, rq)
               PROVE  \E y, v : s \in elided_pair(l, y, v, lq, rq)
  BY <1>1, Zenon DEF Singles
<1> QED BY <1>2 DEF elided_end

(* Both sides of a range paired are single readings.                       *)
LEMMA SidesSingles ==
  ASSUME NEW left, NEW right, NEW ls, NEW rs, Singles(ls), Singles(rs), NEW lang
  PROVE  Singles(pair_sides(left, right, ls, rs, lang))
<1> DEFINE both == UNION {pair_ends(l, r, left.q, right.q) : l \in ls, r \in rs}
           lent == UNION {UNION {pair_ends(l, r, left.q, right.q) :
                                   l \in inherits_century(left.words, r, lang)} : r \in rs}
           short == UNION {elided_end(right.words, l, left.q, right.q) : l \in ls}
<1>1. Singles(both)
  BY PairEndsSingles, SMT DEF Singles
<1>2. Singles(lent)
  <2>1. SUFFICES ASSUME NEW r \in rs, NEW l \in inherits_century(left.words, r, lang)
                 PROVE  Singles(pair_ends(l, r, left.q, right.q))
    BY DEF Singles
  <2> QED BY InheritedSingles, PairEndsSingles DEF Singles
<1>3. Singles(short)
  <2>1. SUFFICES ASSUME NEW l \in ls
                 PROVE  Singles(elided_end(right.words, l, left.q, right.q))
    BY DEF Singles
  <2> QED BY ElidedSingles DEF Singles
<1>4. Singles({})
  BY DEF Singles
<1>5. Singles(CASE ls # {} /\ rs # {} -> both
                [] ls = {} /\ rs # {} -> lent
                [] ls # {} /\ rs = {} -> short
                [] ls = {} /\ rs = {} -> {})
  <2> HIDE DEF both, lent, short
  <2> QED BY <1>1, <1>2, <1>3, <1>4, Zenon
<1> QED BY <1>5 DEF pair_sides

(* What endpoint_pair() returns are single readings.                       *)
LEMMA RangeSingles ==
  ASSUME NEW split, NEW opts, NEW lang
  PROVE  Singles(endpoint_pair(split, opts, lang))
<1>1. SUFFICES ASSUME NEW s \in endpoint_pair(split, opts, lang)
               PROVE  IsSingle(s)
  BY DEF Singles
<1> DEFINE read(side) == {parse_single(side.words, opts, lang, TRUE)}
           sides(left, right) == UNION {pair_sides(left, right, ls, rs, lang) : ls \in read(left), rs \in read(right)}
<1>0. \A side : \A ss \in read(side) : Singles(ss)
  BY SingleSingles, Zenon
<1>2. PICK left, right : s \in sides(left, right)
  <2>1. endpoint_pair(split, opts, lang) = UNION {sides(left, right) : left \in {strip_qualifiers(split.left, lang)},
                                          right \in {strip_qualifiers(split.right, lang)}}
    <3> HIDE DEF read
    <3> QED BY DEF endpoint_pair, read
  <2> HIDE DEF sides
  <2> QED BY <1>1, <2>1
<1> HIDE DEF read
<1>3. PICK ls \in read(left), rs \in read(right) : s \in pair_sides(left, right, ls, rs, lang)
  BY <1>2
<1> QED BY <1>3, <1>0, SidesSingles DEF Singles

-----------------------------------------------------------------------------
(* What is answered. *)
IsAnswer(o) ==
  /\ o.kind \in {"Normalized", "Ambiguous", "NoMatch", "Undefined"}
  /\ o.kind = "Normalized" => Len(o.readings) = 1
  /\ o.kind = "Ambiguous" => Len(o.readings) > 1
  /\ o.kind \in {"NoMatch", "Undefined"} => o.readings = <<>>
  /\ \A i \in DOMAIN o.readings : Accepted(o.readings[i].expr)

(* A refusal is an answer.                                                 *)
LEMMA RefusalIsAnswer ==
  ASSUME NEW reason
  PROVE  IsAnswer(no_match(reason)) /\ IsAnswer(Undefined)
BY DEF IsAnswer, no_match, Undefined, Answer

(* A list of accepted readings is an answer.                               *)
LEMMA ReadingsAreAnswer ==
  ASSUME NEW rs, IsList(rs), \A i \in DOMAIN rs : Accepted(rs[i].expr)
  PROVE  IsAnswer(answer(rs))
<1>1. Len(rs) \in Nat \ {0}
  BY ListLength
<1>2. CASE Len(rs) = 1
  BY <1>2 DEF IsAnswer, answer, Answer
<1>3. CASE Len(rs) # 1
  <2>1. Len(rs) > 1
    BY <1>1, <1>3
  <2> QED BY <1>3, <2>1 DEF IsAnswer, answer, Answer
<1> QED BY <1>2, <1>3

(* Every reading is rendered before any is answered. *)
LEMMA RenderedIsAnswer ==
  ASSUME NEW s, IsSingle(s), NEW flags
  PROVE  IsAnswer(outcome_from(s, flags))
<1> DEFINE c == s.candidates
           x(i) == qualify_expr(c[i].expr, flags)
           rs == [i \in DOMAIN c |-> Candidate(x(i), c[i].notes \cup Distributed(s, x(i), flags))]
<1>1. outcome_from(s, flags) = IF \A i \in DOMAIN rs : render(rs[i].expr) THEN answer(rs)
                               ELSE no_match("ImpossibleDate")
  BY Zenon DEF outcome_from
<1>2. IsList(rs)
  BY ListMapped DEF IsSingle
<1> HIDE DEF rs
<1>3. ASSUME \A i \in DOMAIN rs : render(rs[i].expr)
      PROVE  IsAnswer(answer(rs))
  BY <1>2, <1>3, ReadingsAreAnswer DEF render
<1> QED BY <1>1, <1>3, RefusalIsAnswer, Zenon

(* An EDTF string that parses is an answer.                                *)
LEMMA EdtfIsAnswer ==
  ASSUME NEW t, NEW x \in read_edtf(t), NEW notes
  PROVE  IsAnswer(answer(<<Candidate(x, notes)>>))
<1> DEFINE rs == <<Candidate(x, notes)>>
<1>1. Accepted(x)
  BY DEF read_edtf
<1>2. rs = [i \in 1..1 |-> rs[i]] /\ \A i \in DOMAIN rs : rs[i].expr = x
  BY DEF Candidate
<1>3. IsList(rs)
  BY <1>2 DEF IsList
<1> QED BY <1>1, <1>2, <1>3, ReadingsAreAnswer

-----------------------------------------------------------------------------
(* The answer may rely on what was found: at least one candidate. *)
Inv == AnswersParse /\ (pc = "found" => IsSingle(found))

(* Responding with an answer keeps the invariant.                          *)
LEMMA RespondKeeps ==
  ASSUME NEW o, IsAnswer(o), Respond(o)
  PROVE  Inv'
BY DEF Respond, Inv, AnswersParse, IsAnswer, Readings

(* Passing on to the next attempt keeps it.                                *)
LEMMA GoKeeps ==
  ASSUME Inv, NEW next, next \notin {"done", "found"}, pc # "done", pc' = next, outcome' = outcome
  PROVE  Inv'
BY DEF Inv, AnswersParse, Readings

(* Finding a reading keeps it.                                             *)
LEMMA FoundKeeps ==
  ASSUME Inv, pc # "done", NEW s, IsSingle(s), Found(s)
  PROVE  Inv'
BY DEF Inv, AnswersParse, Readings, Found, Go

(* An attempt keeps it, whether it finds a reading or passes on.           *)
LEMMA TryKeeps ==
  ASSUME Inv, pc # "done", NEW readings, \A singles \in readings : Singles(singles),
         NEW next, next \notin {"done", "found"}, Try(readings, next)
  PROVE  Inv'
<1>1. PICK singles \in readings :
        \/ singles = {} /\ Go(next)
        \/ \E s \in singles : Found(s)
  BY DEF Try
<1>2. CASE Go(next)
  BY <1>2, GoKeeps DEF Go
<1>3. CASE \E s \in singles : Found(s)
  BY <1>3, FoundKeeps DEF Singles
<1> QED BY <1>1, <1>2, <1>3

(* Every step of the engine keeps it.                                      *)
LEMMA StepKeeps ==
  ASSUME Inv, [Next]_vars
  PROVE  Inv'
<1>1. CASE RejectOptions
  BY <1>1, RefusalIsAnswer, RespondKeeps DEF RejectOptions
<1>2. CASE ReadOptions
  BY <1>2, GoKeeps DEF ReadOptions
<1>3. CASE Empty
  BY <1>3, RefusalIsAnswer, RespondKeeps DEF Empty
<1>4. CASE Collide
  <2>1. IsSingle(season_range_collision(YearOf(Text), CodeOf(Text)))
    BY TwoSingle DEF season_range_collision
  <2> QED BY <1>4, <2>1, FoundKeeps DEF Collide
<1>5. CASE Passthrough
  <2>1. CASE \E x \in read_edtf(Text) : Respond(answer(<<Candidate(x, {"AlreadyValidEdtf"})>>))
    BY <2>1, EdtfIsAnswer, RespondKeeps
  <2>2. CASE Go("prose")
    BY <1>5, <2>2, GoKeeps DEF Passthrough, Go
  <2> QED BY <1>5, <2>1, <2>2 DEF Passthrough
<1>6. CASE Preprocess
  BY <1>6, GoKeeps DEF Preprocess
<1>7. CASE Strip
  BY <1>7, GoKeeps DEF Strip
<1>8. CASE Stripped
  <2>1. CASE \E reason : Respond(no_match(reason))
    BY <2>1, RefusalIsAnswer, RespondKeeps
  <2>2. CASE Go("single")
    BY <1>8, <2>2, GoKeeps DEF Stripped, Go
  <2> QED BY <1>8, <2>1, <2>2 DEF Stripped
<1>9. CASE ReadSingle
  BY <1>9, SingleSingles, TryKeeps DEF ReadSingle
<1>10. CASE ReadOpen
  BY <1>10, OpenSingles, TryKeeps DEF ReadOpen
<1>11. CASE ReadOr
  BY <1>11, OrSingles, TryKeeps DEF ReadOr
<1>12. CASE FindSplits
  BY <1>12, GoKeeps DEF FindSplits, Go
<1>13. CASE ReadSplit
  <2>1. PICK lang \in Tables :
          \/ Go("split")
          \/ \E s \in endpoint_pair(Head(splits), options, lang) : Found(s)
    BY <1>13 DEF ReadSplit
  <2>2. CASE Go("split")
    BY <1>13, <2>2, GoKeeps DEF ReadSplit, Go
  <2>3. CASE \E s \in endpoint_pair(Head(splits), options, lang) : Found(s)
    BY <1>13, <2>3, RangeSingles, FoundKeeps DEF ReadSplit, Singles
  <2> QED BY <2>1, <2>2, <2>3
<1>14. CASE GiveUp
  BY <1>14, RefusalIsAnswer, RespondKeeps DEF GiveUp
<1>15. CASE Render
  BY <1>15, RenderedIsAnswer, RespondKeeps DEF Render, Inv
<1>16. CASE UNCHANGED vars
  BY <1>16 DEF vars, Inv, AnswersParse, Readings
<1> QED BY <1>1, <1>2, <1>3, <1>4, <1>5, <1>6, <1>7, <1>8, <1>9, <1>10, <1>11, <1>12, <1>13, <1>14,
           <1>15, <1>16 DEF Next, Step, Finished

(* Whatever text and options a caller gives, what is answered is EDTF, in  *)
(* the form its kind promises: no grammar hands over an empty list of      *)
(* candidates (engine.rs outcome_from(), "Many is never built empty"), and  *)
(* none is answered that the parser refuses (render()).                    *)
THEOREM AlwaysEdtf == Spec => []AnswersParse
<1>1. Init => Inv
  <2> SUFFICES ASSUME Init PROVE Inv
    OBVIOUS
  <2>1. pc = "options" /\ outcome.kind = "NotYet" /\ outcome.readings = <<>>
    BY DEF Init, NotYet, Answer
  <2>2. Readings = {}
    BY <2>1 DEF Readings
  <2> QED BY <2>1, <2>2 DEF Inv, AnswersParse
<1>2. Inv /\ [Next]_vars => Inv'
  BY StepKeeps
<1>3. Inv => AnswersParse
  BY DEF Inv
<1> QED BY <1>1, <1>2, <1>3, PTL DEF Spec

-----------------------------------------------------------------------------
(* A phrase as the stripping loop sees it: words, none of them empty.      *)
Wordy(phrase, tokens) == /\ phrase \in Seq(Seq(tokens)) /\ phrase # <<>>
                         /\ \A i \in DOMAIN phrase : phrase[i] # <<>>

(* A sequence with a length is not the empty one.                          *)
LEMMA NotEmpty ==
  ASSUME NEW values, NEW s \in Seq(values), Len(s) > 0
  PROVE  s # <<>>
OBVIOUS

(* The three ways a turn takes something away.                             *)
LEMMA WithoutFirst ==
  ASSUME NEW tokens, NEW phrase, Wordy(phrase, tokens), Len(phrase) > 1
  PROVE  Wordy(Tail(phrase), tokens) /\ Len(Tail(phrase)) < Len(phrase)
<1>1. /\ Tail(phrase) \in Seq(Seq(tokens)) /\ Len(Tail(phrase)) = Len(phrase) - 1
      /\ \A i \in 1..(Len(phrase) - 1) : Tail(phrase)[i] = phrase[i + 1]
  BY DEF Wordy
<1>2. DOMAIN phrase = 1..Len(phrase) /\ DOMAIN Tail(phrase) = 1..(Len(phrase) - 1) /\ Len(phrase) \in Nat
  BY <1>1 DEF Wordy
<1>3. \A i \in DOMAIN Tail(phrase) : Tail(phrase)[i] # <<>>
  <2> TAKE i \in DOMAIN Tail(phrase)
  <2>1. i + 1 \in DOMAIN phrase /\ Tail(phrase)[i] = phrase[i + 1]
    BY <1>1, <1>2
  <2> QED BY <2>1 DEF Wordy
<1>4. Len(Tail(phrase)) > 0 /\ Len(Tail(phrase)) < Len(phrase)
  BY <1>1, <1>2
<1>5. Tail(phrase) # <<>>
  BY <1>1, <1>4, NotEmpty
<1> QED BY <1>1, <1>3, <1>4, <1>5 DEF Wordy

(* Dropping the last token leaves a shorter phrase of the same tokens.     *)
LEMMA WithoutLast ==
  ASSUME NEW tokens, NEW phrase, Wordy(phrase, tokens), Len(phrase) > 1
  PROVE  LET rest == SubSeq(phrase, 1, Len(phrase) - 1)
         IN  Wordy(rest, tokens) /\ Len(rest) < Len(phrase)
<1> DEFINE rest == SubSeq(phrase, 1, Len(phrase) - 1)
<1>1. /\ rest \in Seq(Seq(tokens)) /\ Len(rest) = Len(phrase) - 1
      /\ \A i \in 1..(Len(phrase) - 1) : rest[i] = phrase[i]
  BY DEF Wordy
<1>2. DOMAIN phrase = 1..Len(phrase) /\ DOMAIN rest = 1..(Len(phrase) - 1) /\ Len(phrase) \in Nat
  BY <1>1 DEF Wordy
<1> HIDE DEF rest
<1>3. \A i \in DOMAIN rest : rest[i] # <<>>
  <2> TAKE i \in DOMAIN rest
  <2>1. i \in DOMAIN phrase /\ rest[i] = phrase[i]
    BY <1>1, <1>2
  <2> QED BY <2>1 DEF Wordy
<1>4. rest # <<>> /\ Len(rest) < Len(phrase)
  BY <1>1, <1>2
<1>5. Wordy(rest, tokens)
  BY <1>1, <1>3, <1>4 DEF Wordy
<1> QED BY <1>4, <1>5 DEF rest

(* Dropping the first character of a token leaves a shorter token.         *)
LEMMA WithoutPrefix ==
  ASSUME NEW tokens, NEW phrase, Wordy(phrase, tokens), Len(phrase[1]) > 1
  PROVE  LET rest == <<Tail(phrase[1])>> \o Tail(phrase)
         IN  Wordy(rest, tokens) /\ Len(rest) = Len(phrase) /\ Len(rest[1]) < Len(phrase[1])
<1> DEFINE head == Tail(phrase[1])
           rest == <<head>> \o Tail(phrase)
<1>1. /\ phrase[1] \in Seq(tokens) /\ Len(phrase) \in Nat \ {0}
      /\ DOMAIN phrase = 1..Len(phrase)
  BY DEF Wordy
<1>2. head \in Seq(tokens) /\ Len(head) = Len(phrase[1]) - 1 /\ head # <<>>
  <2> DEFINE w == phrase[1]
  <2>1. w \in Seq(tokens) /\ Len(w) > 1
    BY <1>1
  <2> HIDE DEF w
  <2>2. w # <<>>
    BY <2>1
  <2>3. Tail(w) \in Seq(tokens) /\ Len(Tail(w)) = Len(w) - 1
    BY <2>1, <2>2
  <2>4. Len(Tail(w)) > 0
    BY <2>1, <2>3
  <2>5. Tail(w) # <<>>
    BY <2>3, <2>4, NotEmpty
  <2> QED BY <2>3, <2>5 DEF w
<1>3. /\ Tail(phrase) \in Seq(Seq(tokens)) /\ Len(Tail(phrase)) = Len(phrase) - 1
      /\ \A i \in 1..(Len(phrase) - 1) : Tail(phrase)[i] = phrase[i + 1]
  BY <1>1 DEF Wordy
<1> HIDE DEF head
<1>4. /\ rest \in Seq(Seq(tokens)) /\ Len(rest) = Len(phrase) /\ rest[1] = head
      /\ \A i \in 2..Len(phrase) : rest[i] = phrase[i]
  BY <1>1, <1>2, <1>3
<1>5. DOMAIN rest = 1..Len(phrase)
  BY <1>4
<1> HIDE DEF rest
<1>6. Wordy(rest, tokens)
  BY <1>1, <1>2, <1>4, <1>5 DEF Wordy
<1>7. Len(phrase[1]) \in Nat
  BY <1>1
<1> QED BY <1>2, <1>4, <1>6, <1>7 DEF rest, head

(* The stripping loop starts again after every turn that took something    *)
(* (engine.rs strip_qualifiers()): whatever the words and the language's   *)
(* tables, such a turn leaves fewer words, or as many of which the first   *)
(* is shorter, so the loop ends; and it never leaves an empty phrase, nor  *)
(* an empty word for the grammars to index.                                *)
THEOREM StrippingShrinks ==
  ASSUME NEW tokens, NEW u, NEW lang, Wordy(u.words, tokens)
  PROVE  LET v == unwrap(u, lang)
         IN  /\ Wordy(v.words, tokens)
             /\ \/ v = u
                \/ Len(v.words) < Len(u.words)
                \/ Len(v.words) = Len(u.words) /\ Len(v.words[1]) < Len(u.words[1])
<1> DEFINE n == Len(u.words)
           v == unwrap(u, lang)
           front == n > 1 /\ InFront(u.words[1], lang)
           typed == n > 0 /\ Prefixed(u.words[1], lang)
           behind == n > 1 /\ Behind(u.words[n], lang)
<1>1. CASE front
  <2>1. v.words = Tail(u.words)
    BY <1>1 DEF unwrap, Unwrapped
  <2> QED BY <1>1, <2>1, WithoutFirst
<1>2. CASE ~front /\ typed
  <2>1. v.words = <<Tail(u.words[1])>> \o Tail(u.words)
    BY <1>2 DEF unwrap, Unwrapped
  <2>2. Len(u.words[1]) > 1
    BY <1>2 DEF Prefixed
  <2> QED BY <2>1, <2>2, WithoutPrefix
<1>3. CASE ~front /\ ~typed /\ behind
  <2>1. v.words = SubSeq(u.words, 1, n - 1)
    BY <1>3 DEF unwrap, Unwrapped
  <2> QED BY <1>3, <2>1, WithoutLast
<1>4. CASE ~front /\ ~typed /\ ~behind
  <2>1. v = u
    BY <1>4 DEF unwrap
  <2> QED BY <2>1
<1> QED BY <1>1, <1>2, <1>3, <1>4

-----------------------------------------------------------------------------
(* The words of a text: they are cut out of one, and joined to one.        *)
(* A number that may be the least, of a set that has one.                  *)
LEMMA LeastOf ==
  ASSUME NEW S, S \subseteq Nat, S # {}
  PROVE  Min(S) \in S
<1>1. \E least \in S : \A k \in S : least <= k
  BY Least
<1> QED BY <1>1 DEF Min

(* What is put together of sequences is a sequence of the same things.     *)
LEMMA Flattened ==
  ASSUME NEW S, NEW seqs \in Seq(Seq(S))
  PROVE  FlattenSeq(seqs) \in Seq(S)
<1> DEFINE n == Len(seqs)
           step(f) == [i \in 1..n |-> IF i = 1 THEN seqs[i] ELSE f[i - 1] \o seqs[i]]
           whole == CHOOSE f : f = step(f)
<1>1. n \in Nat /\ \A i \in 1..n : seqs[i] \in Seq(S)
  OBVIOUS
<1>2. CASE n = 0
  <2>1. seqs = <<>>
    BY <1>2
  <2>2. FlattenSeq(seqs) = <<>>
    BY <1>2, <2>1 DEF FlattenSeq
  <2> QED BY <2>2
<1>3. CASE n # 0
  <2> DEFINE F == [i \in 1..n |-> [x \in Seq(S) |-> x \o seqs[i]]]
  <2>1. F \in [1..n -> [Seq(S) -> Seq(S)]]
    BY <1>1
  <2>2. <<>> \in Seq(S)
    OBVIOUS
  <2>3. Iterated(n, Seq(S), <<>>, F)
    <3> HIDE DEF F, n
    <3> QED BY <1>1, <2>1, <2>2, Stepwise
  <2>4. PICK h \in [0..n -> Seq(S)] : h[0] = <<>> /\ \A i \in 1..n : h[i] = F[i][h[i - 1]]
    BY <2>3 DEF Iterated
  <2>5. \A i \in 1..n : h[i - 1] \in Seq(S) /\ h[i] = h[i - 1] \o seqs[i]
    <3> HIDE DEF n
    <3> TAKE i \in 1..n
    <3>1. i - 1 \in 0..n
      BY <1>1
    <3>2. h[i - 1] \in Seq(S)
      BY <3>1
    <3>3. h[i] = F[i][h[i - 1]]
      BY <2>4
    <3> QED BY <3>2, <3>3
  <2>6. seqs[1] \in Seq(S) /\ <<>> \o seqs[1] = seqs[1]
    <3>1. 1 \in 1..n
      BY <1>1, <1>3
    <3>2. seqs[1] \in Seq(S)
      BY <1>1, <3>1
    <3> QED BY <3>2
  <2> DEFINE g == [i \in 1..n |-> h[i]]
  <2>7. g = step(g)
    <3>1. ASSUME NEW i \in 1..n
          PROVE  g[i] = IF i = 1 THEN seqs[i] ELSE g[i - 1] \o seqs[i]
      <4>1. CASE i = 1
        <5>1. h[1] = h[0] \o seqs[1]
          <6> HIDE DEF F, n
          <6>1. h[i] = h[i - 1] \o seqs[i]
            BY <2>5
          <6>2. i - 1 = 0
            BY <4>1
          <6> QED BY <6>1, <6>2, <4>1
        <5> QED BY <4>1, <5>1, <2>4, <2>6
      <4>2. CASE i # 1
        <5>1. i - 1 \in 1..n
          BY <1>1, <4>2
        <5> QED BY <4>2, <5>1, <2>5
      <4> QED BY <4>1, <4>2
    <3> QED BY <3>1
  <2>8. whole = step(whole)
    <3> HIDE DEF g, step
    <3> QED BY <2>7
  <2>9. FlattenSeq(seqs) = whole[n]
    BY <1>3, Zenon DEF FlattenSeq
  <2> DEFINE G == {i \in 0..n : i = 0 \/ whole[i] \in Seq(S)}
  <2>10. 0..n \subseteq G
    <3>1. \A i \in 1..n : whole[i] = IF i = 1 THEN seqs[i] ELSE whole[i - 1] \o seqs[i]
      <4> HIDE DEF whole
      <4> QED BY <2>8
    <3> HIDE DEF whole
    <3>2. 0 \in G
      BY <1>1
    <3>3. ASSUME NEW i \in 1..n, i - 1 \in G PROVE i \in G
      <4>1. CASE i = 1
        BY <4>1, <3>1, <1>1
      <4>2. CASE i # 1
        <5>1. whole[i - 1] \in Seq(S) /\ seqs[i] \in Seq(S)
          BY <3>3, <4>2, <1>1
        <5>2. whole[i] = whole[i - 1] \o seqs[i]
          <6> HIDE DEF n, G
          <6> QED BY <4>2, <3>1
        <5>3. whole[i] \in Seq(S)
          BY <5>1, <5>2
        <5> QED BY <5>3
      <4> QED BY <4>1, <4>2
    <3> HIDE DEF G, n
    <3> QED BY <1>1, <3>2, <3>3, Climb
  <2>11. whole[n] \in Seq(S)
    <3> HIDE DEF whole
    <3>1. n \in 0..n
      BY <1>1
    <3> QED BY <2>10, <3>1, <1>3
  <2> QED BY <2>9, <2>11
<1> QED BY <1>2, <1>3

(* A word that begins at a place has at least the token there.             *)
LEMMA WordAt ==
  ASSUME NEW S, NEW t \in Seq(S), NEW i \in DOMAIN t
  PROVE  word_at(t, i) \in Seq(Seq(S) \ {<<>>})
<1> DEFINE n == Len(t)
           spaces == {j \in (i + 1)..(n + 1) : j = n + 1 \/ t[j] = Space}
           word == SubSeq(t, i, Past(t, i) - 1)
<1>1. n \in Nat /\ i \in 1..n
  OBVIOUS
<1>2. n + 1 \in spaces /\ spaces \subseteq Nat
  BY <1>1
<1>3. Past(t, i) \in spaces
  <2> HIDE DEF spaces
  <2>1. Min(spaces) \in spaces
    BY <1>2, LeastOf
  <2> QED BY <2>1 DEF Past, spaces
<1>4. Past(t, i) - 1 \in i..n
  BY <1>1, <1>3
<1>5. word \in Seq(S) /\ Len(word) > 0
  <2> DEFINE m == Past(t, i) - 1
  <2>1. m \in i..n
    BY <1>4
  <2> HIDE DEF m
  <2>2. SubSeq(t, i, m) \in Seq(S) /\ Len(SubSeq(t, i, m)) = m - i + 1
    BY <1>1, <2>1
  <2> QED BY <1>1, <2>1, <2>2 DEF m
<1>6. word # <<>>
  <2> HIDE DEF word
  <2> QED BY <1>5, NotEmpty
<1>7. word_at(t, i) \in {<<word>>, <<>>}
  BY DEF word_at
<1>8. word \in Seq(S) \ {<<>>}
  <2> HIDE DEF word
  <2> QED BY <1>5, <1>6
<1>9. \A W : \A w \in W : <<w>> \in Seq(W) /\ <<>> \in Seq(W)
  OBVIOUS
<1> HIDE DEF word
<1> QED BY <1>7, <1>8, <1>9, Zenon

(* The words of a text are words.                                          *)
LEMMA WordsOf ==
  ASSUME NEW S, NEW t \in Seq(S)
  PROVE  words_of(t) \in Seq(Seq(S) \ {<<>>})
<1> DEFINE seqs == [i \in DOMAIN t |-> word_at(t, i)]
<1>1. \A i \in DOMAIN t : word_at(t, i) \in Seq(Seq(S) \ {<<>>})
  BY WordAt
<1>2. seqs \in Seq(Seq(Seq(S) \ {<<>>}))
  BY <1>1
<1> HIDE DEF seqs
<1> QED BY <1>2, Flattened DEF words_of, seqs

(* Words and the spaces between them are a text.                           *)
LEMMA JoinedIsText ==
  ASSUME NEW S, Space \in S, NEW ws \in Seq(Seq(S))
  PROVE  joined(ws) \in Seq(S)
<1> DEFINE seqs == [i \in DOMAIN ws |-> IF i = 1 THEN ws[i] ELSE <<Space>> \o ws[i]]
<1>1. \A i \in DOMAIN ws : ws[i] \in Seq(S) /\ <<Space>> \o ws[i] \in Seq(S)
  OBVIOUS
<1>2. \A i \in DOMAIN ws : (IF i = 1 THEN ws[i] ELSE <<Space>> \o ws[i]) \in Seq(S)
  BY <1>1, Zenon
<1> DEFINE n == Len(ws)
<1>3. n \in Nat /\ seqs \in [1..n -> Seq(S)]
  BY <1>2
<1> HIDE DEF seqs, n
<1>4. seqs \in Seq(Seq(S))
  BY <1>3
<1> QED BY <1>4, Flattened DEF joined, seqs

(* Preprocessing makes words of a text.                                    *)
LEMMA Preprocessed ==
  ASSUME NEW t \in Seq(TextToken)
  PROVE  preprocess(t) \in TextWords
<1> DEFINE u == [i \in DOMAIN t |-> Uncommaed(Undashed(t[i]))]
<1>1. \A token \in TextToken : Uncommaed(Undashed(token)) \in TextToken
  BY DEF Uncommaed, Undashed, TextToken
<1>2. u \in Seq(TextToken)
  BY <1>1
<1> HIDE DEF u
<1> QED BY <1>2, WordsOf DEF preprocess, u, TextWords

(* A sequence without its last element.                                    *)
LEMMA FrontOf ==
  ASSUME NEW S, NEW s \in Seq(S), s # <<>>
  PROVE  SubSeq(s, 1, Len(s) - 1) \in Seq(S) /\ Len(SubSeq(s, 1, Len(s) - 1)) = Len(s) - 1
<1> DEFINE m == Len(s) - 1
<1>1. m \in 0..Len(s)
  OBVIOUS
<1> HIDE DEF m
<1>2. SubSeq(s, 1, m) \in Seq(S) /\ Len(SubSeq(s, 1, m)) = m
  BY <1>1
<1> QED BY <1>2 DEF m

(* So does taking the question mark away.                                  *)
LEMMA Unmarked ==
  ASSUME NEW ws \in TextWords, Asked(ws)
  PROVE  WithoutMark(ws) \in TextWords
<1> DEFINE n == Len(ws)
           last == ws[n]
           word == SubSeq(last, 1, Len(last) - 1)
           W == Seq(TextToken) \ {<<>>}
<1>1. ws \in Seq(W) /\ ws # <<>>
  BY DEF TextWords, Asked
<1>2. n \in Nat \ {0} /\ last \in W
  BY <1>1
<1>3. last \in Seq(TextToken) /\ Len(last) \in Nat \ {0}
  BY <1>2
<1>4. Last(ws) = last /\ Front(ws) = SubSeq(ws, 1, n - 1) /\ Front(last) = word
  BY DEF Last, Front
<1>5. CASE Len(last) = 1
  <2>1. SubSeq(ws, 1, n - 1) \in Seq(W)
    BY <1>1, <1>2
  <2> QED BY <1>4, <1>5, <2>1 DEF WithoutMark, TextWords
<1>6. CASE Len(last) # 1
  <2>1. word \in Seq(TextToken) /\ Len(word) = Len(last) - 1
    <3>1. last # <<>>
      BY <1>2
    <3> HIDE DEF last
    <3> QED BY <1>3, <3>1, FrontOf
  <2>2. word \in W
    <3>1. Len(word) > 0
      <4> HIDE DEF word, last
      <4> QED BY <1>3, <1>6, <2>1
    <3> HIDE DEF word
    <3>2. word # <<>>
      BY <2>1, <3>1, NotEmpty
    <3> QED BY <2>1, <3>2
  <2>3. WithoutMark(ws) = [ws EXCEPT ![n] = word]
    BY <1>4, <1>6, Zenon DEF WithoutMark
  <2> HIDE DEF word, W, last
  <2>4. [ws EXCEPT ![n] = word] \in Seq(W)
    BY <1>1, <1>2, <2>2
  <2> QED BY <2>3, <2>4 DEF TextWords, W
<1> QED BY <1>5, <1>6

-----------------------------------------------------------------------------
(* The places a range may be split at: both sides are words, and some.     *)
LEMMA SidesAreSplit ==
  ASSUME NEW left \in TextWords \ {<<>>}, NEW right \in TextWords \ {<<>>}
  PROVE  <<Split(left, right)>> \in Seq(TextSides)
<1>1. Split(left, right) \in TextSides
  BY DEF Split, TextSides
<1>2. \A S : \A x \in S : <<x>> \in Seq(S)
  OBVIOUS
<1> HIDE DEF TextSides
<1> QED BY <1>1, <1>2

(* The words of a pair have words around them.                             *)
LEMMA WordSplit ==
  ASSUME NEW ws \in TextWords, NEW pair
  PROVE  word_split(ws, pair) \in Seq(TextSides)
<1> DEFINE inner == IF pair.lead = "" THEN ws
                    ELSE IF ws # <<>> /\ Spelling(ws[1]) = pair.lead THEN Tail(ws) ELSE <<>>
           at == SelectInSeq(inner, LAMBDA w : Spelling(w) = pair.sep)
           n == Len(inner)
           left == SubSeq(inner, 1, at - 1)
           right == SubSeq(inner, at + 1, n)
<1>1. inner \in TextWords
  <2>1. ws # <<>> => Tail(ws) \in TextWords
    BY DEF TextWords
  <2>2. <<>> \in TextWords
    BY DEF TextWords
  <2> QED BY <2>1, <2>2
<1>2. word_split(ws, pair) = IF at \in 2..(n - 1) THEN <<Split(left, right)>> ELSE <<>>
  BY Zenon DEF word_split, Rest
<1>3. CASE at \notin 2..(n - 1)
  <2> HIDE DEF at, n, left, right
  <2>1. word_split(ws, pair) = <<>>
    BY <1>2, <1>3
  <2>2. <<>> \in Seq(TextSides)
    OBVIOUS
  <2> QED BY <2>1, <2>2
<1>4. CASE at \in 2..(n - 1)
  <2> HIDE DEF inner, at
  <2>1. n \in Nat /\ inner \in Seq(Seq(TextToken) \ {<<>>})
    BY <1>1 DEF TextWords
  <2>2. left \in TextWords /\ Len(left) = at - 1
    <3>1. 1 \in Int /\ at - 1 \in 0..n
      BY <1>4, <2>1
    <3> QED BY <2>1, <3>1, <1>4 DEF TextWords
  <2>3. right \in TextWords /\ Len(right) = n - at
    <3>1. at + 1 \in 1..n
      BY <1>4, <2>1
    <3> QED BY <2>1, <3>1, <1>4 DEF TextWords
  <2>4. Len(left) > 0 /\ Len(right) > 0
    <3> HIDE DEF n, left, right
    <3> QED BY <1>4, <2>1, <2>2, <2>3
  <2> HIDE DEF left, right
  <2>5. left # <<>> /\ right # <<>>
    BY <2>2, <2>3, <2>4, NotEmpty DEF TextWords
  <2>6. <<Split(left, right)>> \in Seq(TextSides)
    BY <2>2, <2>3, <2>5, SidesAreSplit
  <2> QED BY <1>2, <1>4, <2>6
<1> QED BY <1>3, <1>4

(* So does a hyphen that a text is split at.                               *)
LEMMA HyphenSplit ==
  ASSUME NEW t \in Seq(TextToken), NEW i \in DOMAIN t
  PROVE  hyphen_split(t, i) \in Seq(TextSides)
<1> DEFINE left == words_of(SubSeq(t, 1, i - 1))
           right == words_of(SubSeq(t, i + 1, Len(t)))
<1>1. SubSeq(t, 1, i - 1) \in Seq(TextToken) /\ SubSeq(t, i + 1, Len(t)) \in Seq(TextToken)
  OBVIOUS
<1>2. left \in TextWords /\ right \in TextWords
  BY <1>1, WordsOf DEF TextWords
<1>3. hyphen_split(t, i) = IF t[i] = Hyphen /\ left # <<>> /\ right # <<>> THEN <<Split(left, right)>> ELSE <<>>
  BY Zenon DEF hyphen_split
<1> HIDE DEF left, right
<1> QED BY <1>2, <1>3, SidesAreSplit

(* A table of range words is a sequence.                                   *)
LEMMA PairsListed ==
  ASSUME NEW lang \in Tables
  PROVE  \E n \in Nat : DOMAIN lang.range_pairs = 1..n
<1>1. lang = RU \/ lang = EN
  BY DEF Tables, lang_for
<1>2. RU.range_pairs = <<RangeWords("c", "po"), RangeWords("ot", "do"), RangeWords("c", "do")>>
  BY Zenon DEF RU
<1>3. EN.range_pairs = <<RangeWords("from", "to"), RangeWords("between", "and"),
                         RangeWords("", "to"), RangeWords("", "through")>>
  BY Zenon DEF EN
<1>4. \A a, b, c : DOMAIN <<a, b, c>> = 1..3
  OBVIOUS
<1>5. \A a, b, c, d : DOMAIN <<a, b, c, d>> = 1..4
  OBVIOUS
<1> QED BY <1>1, <1>2, <1>3, <1>4, <1>5

(* All the places words may be split at.                                   *)
LEMMA SplitsOf ==
  ASSUME NEW ws \in TextWords, NEW lang \in Tables
  PROVE  splits_of(ws, lang) \in Seq(TextSides)
<1> DEFINE t == joined(ws)
           paired == [i \in DOMAIN lang.range_pairs |-> word_split(ws, lang.range_pairs[i])]
           hyphens == [i \in DOMAIN t |-> hyphen_split(t, i)]
<1>1. t \in Seq(TextToken)
  <2>1. Space \in TextToken /\ ws \in Seq(Seq(TextToken))
    BY DEF TextToken, TextWords
  <2> QED BY <2>1, JoinedIsText
<1>2. paired \in Seq(Seq(TextSides))
  <2>1. PICK n \in Nat : DOMAIN lang.range_pairs = 1..n
    BY PairsListed
  <2>2. \A i \in 1..n : word_split(ws, lang.range_pairs[i]) \in Seq(TextSides)
    BY WordSplit
  <2>3. paired \in [1..n -> Seq(TextSides)]
    BY <2>1, <2>2
  <2> HIDE DEF paired
  <2> QED BY <2>3
<1>3. hyphens \in Seq(Seq(TextSides))
  <2> HIDE DEF t
  <2>1. \A i \in DOMAIN t : hyphen_split(t, i) \in Seq(TextSides)
    BY <1>1, HyphenSplit
  <2>2. DOMAIN t = 1..Len(t) /\ Len(t) \in Nat
    BY <1>1
  <2>3. hyphens \in [1..Len(t) -> Seq(TextSides)]
    BY <2>1, <2>2
  <2> HIDE DEF hyphens
  <2> QED BY <2>2, <2>3
<1>4. splits_of(ws, lang) = FlattenSeq(paired \o hyphens)
  BY Zenon DEF splits_of
<1> HIDE DEF paired, hyphens
<1>5. paired \o hyphens \in Seq(Seq(TextSides))
  BY <1>2, <1>3
<1> QED BY <1>4, <1>5, Flattened

-----------------------------------------------------------------------------
(* The engine's stages.  Stripping, a turn of it at a time.                *)
LEMMA Unwraps ==
  ASSUME NEW u, NEW lang, u.words \in TextWords, u.q \in Qualifier, u = Unwrapped(u.words, u.q)
  PROVE  LET v == unwrap(u, lang)
         IN  /\ v.words \in TextWords /\ v.q \in Qualifier
             /\ u.words # <<>> => v.words # <<>>
             /\ v = u \/ Shorter(v.words, u.words)
<1> DEFINE v == unwrap(u, lang)
<1>1. v.q \in Qualifier
  <2>1. FrontFlags(u.words[1], lang) \in Qualifier /\ BackFlags(u.words[Len(u.words)], lang) \in Qualifier
    BY DEF FrontFlags, BackFlags, Qualifier
  <2>2. \A a, b \in Qualifier : a \cup b \in Qualifier /\ a \cup {"approximate"} \in Qualifier
    BY DEF Qualifier
  <2>3. v.q \in {u.q, u.q \cup FrontFlags(u.words[1], lang), u.q \cup {"approximate"},
                 u.q \cup BackFlags(u.words[Len(u.words)], lang)}
    BY DEF unwrap, Unwrapped
  <2> HIDE DEF v
  <2> QED BY <2>1, <2>2, <2>3
<1>2. CASE u.words = <<>>
  <2>1. Len(u.words) = 0
    BY <1>2
  <2>2. v = u
    BY <2>1 DEF unwrap
  <2> QED BY <1>1, <1>2, <2>2
<1>3. CASE u.words # <<>>
  <2>1. Wordy(u.words, TextToken)
    <3>1. u.words \in Seq(Seq(TextToken) \ {<<>>})
      BY DEF TextWords
    <3>2. u.words \in Seq(Seq(TextToken)) /\ \A i \in DOMAIN u.words : u.words[i] # <<>>
      BY <3>1
    <3> QED BY <1>3, <3>2 DEF Wordy
  <2>2. /\ Wordy(v.words, TextToken)
        /\ \/ v = u
           \/ Len(v.words) < Len(u.words)
           \/ Len(v.words) = Len(u.words) /\ Len(v.words[1]) < Len(u.words[1])
    BY <2>1, StrippingShrinks
  <2> HIDE DEF v
  <2>3. v.words \in TextWords /\ v.words # <<>>
    <3> DEFINE w == v.words
    <3>1. w \in Seq(Seq(TextToken)) /\ w # <<>> /\ \A i \in DOMAIN w : w[i] # <<>>
      BY <2>2 DEF Wordy
    <3> HIDE DEF w
    <3>2. \A i \in 1..Len(w) : w[i] \in Seq(TextToken) \ {<<>>}
      BY <3>1
    <3>3. w \in Seq(Seq(TextToken) \ {<<>>})
      BY <3>1, <3>2
    <3> QED BY <3>1, <3>3 DEF w, TextWords
  <2> QED BY <1>1, <2>2, <2>3 DEF Shorter, v
<1> QED BY <1>2, <1>3

(* The types without the answer's, which AnswersParse has.                 *)
Typed ==
  /\ pc \in DOMAIN Stage /\ q \in Qualifier
  /\ words \in TextWords /\ (pc \in Grammars => words # <<>>)
  /\ splits \in Seq(TextSides)

(* Every step but stuttering goes on.                                      *)
Ahead == \/ Stage[pc'] > Stage[pc]
         \/ pc' = pc /\ (Shorter(words', words) \/ Len(splits') < Len(splits))

(* The names of the stages, and their order.                               *)
LEMMA StageNames ==
  /\ DOMAIN Stage = {"options", "text", "prose", "strip", "single", "open", "or", "range", "split",
                     "found", "done"}
  /\ Stage["options"] = 1 /\ Stage["text"] = 2 /\ Stage["prose"] = 3 /\ Stage["strip"] = 4
  /\ Stage["single"] = 5 /\ Stage["open"] = 6 /\ Stage["or"] = 7 /\ Stage["range"] = 8
  /\ Stage["split"] = 9 /\ Stage["found"] = 10 /\ Stage["done"] = 11
BY DEF Stage

(* An answer ends it.                                                      *)
LEMMA RespondAhead ==
  ASSUME Typed, NEW o, Respond(o), pc # "done"
  PROVE  Typed' /\ Ahead
<1>1. pc' = "done" /\ UNCHANGED <<words, q, splits>>
  BY DEF Respond
<1> QED BY <1>1, StageNames DEF Typed, Ahead, Grammars

(* What is found is left to be rendered.                                   *)
LEMMA FoundAhead ==
  ASSUME Typed, NEW s, Found(s), pc \notin {"found", "done"}
  PROVE  Typed' /\ Ahead
<1>1. pc' = "found" /\ UNCHANGED <<words, q, splits>>
  BY DEF Found, Go
<1> QED BY <1>1, StageNames DEF Typed, Ahead, Grammars

(* A later stage is asked, a grammar only about words.                     *)
LEMMA GoAhead ==
  ASSUME Typed, NEW next \in DOMAIN Stage, Go(next), UNCHANGED splits, Stage[next] > Stage[pc],
         next \in Grammars => words # <<>>
  PROVE  Typed' /\ Ahead
<1>1. pc' = next /\ UNCHANGED <<words, q, splits>>
  BY DEF Go
<1> QED BY <1>1 DEF Typed, Ahead

(* A grammar finds a reading, or the next one is asked.                    *)
LEMMA TryAhead ==
  ASSUME Typed, pc \in Grammars, NEW readings, NEW next \in Grammars, Try(readings, next),
         Stage[next] > Stage[pc]
  PROVE  Typed' /\ Ahead
<1>1. words # <<>> /\ pc \notin {"found", "done"} /\ next \in DOMAIN Stage
  BY StageNames DEF Typed, Grammars
<1>2. CASE \E singles \in readings : \E s \in singles : Found(s)
  BY <1>1, <1>2, FoundAhead
<1>3. CASE Go(next) /\ UNCHANGED splits
  BY <1>1, <1>3, GoAhead
<1> QED BY <1>2, <1>3 DEF Try

(* Stripping takes one word or prefix away, or nothing and goes on.        *)
LEMMA StripAhead ==
  ASSUME Typed, Strip
  PROVE  Typed' /\ Ahead
<1>1. pc = "strip" /\ UNCHANGED <<pc, splits>>
  BY DEF Strip
<1>2. PICK lang \in Tables : LET u == unwrap(Unwrapped(words, q), lang)
                             IN  u # Unwrapped(words, q) /\ words' = u.words /\ q' = u.q
  BY DEF Strip
<1> DEFINE old == Unwrapped(words, q)
           new == unwrap(old, lang)
<1>3. old.words = words /\ old.q = q
  BY DEF Unwrapped
<1>4. new.words \in TextWords /\ new.q \in Qualifier /\ (new = old \/ Shorter(new.words, words))
  <2>1. old = Unwrapped(old.words, old.q) /\ old.words \in TextWords /\ old.q \in Qualifier
    BY <1>3 DEF Typed
  <2> HIDE DEF old
  <2> QED BY <1>3, <2>1, Unwraps
<1>5. words' \in TextWords /\ q' \in Qualifier /\ Shorter(words', words)
  BY <1>2, <1>4
<1> QED BY <1>1, <1>5 DEF Typed, Ahead, Grammars

(* What is read is words.                                                  *)
LEMMA PreprocessAhead ==
  ASSUME Typed, input \in Inputs, Preprocess
  PROVE  Typed' /\ Ahead
<1>1. pc = "prose" /\ pc' = "strip" /\ UNCHANGED splits
  BY DEF Preprocess
<1> DEFINE ws == preprocess(input.text)
<1>2. words' = (IF Asked(ws) THEN WithoutMark(ws) ELSE ws) /\ q' = IF Asked(ws) THEN {"uncertain"} ELSE {}
  BY DEF Preprocess
<1>3. ws \in TextWords
  BY InputsAssumption, Preprocessed
<1> HIDE DEF ws
<1>4. words' \in TextWords /\ q' \in Qualifier
  BY <1>2, <1>3, Unmarked DEF Qualifier
<1> QED BY <1>1, <1>4, StageNames DEF Typed, Ahead, Grammars

(* A place to split at is read, or the next one is tried.                  *)
LEMMA SplitAhead ==
  ASSUME Typed, ReadSplit
  PROVE  Typed' /\ Ahead
<1>1. pc = "split" /\ splits # <<>> /\ splits \in Seq(TextSides)
  BY DEF ReadSplit, Typed
<1>2. CASE \E s : Found(s)
  BY <1>1, <1>2, FoundAhead
<1>3. CASE splits' = Tail(splits) /\ Go("split")
  <2>1. Tail(splits) \in Seq(TextSides) /\ Len(Tail(splits)) < Len(splits)
    <3> HIDE DEF TextSides
    <3> QED BY <1>1
  <2>2. pc' = pc /\ UNCHANGED <<words, q>>
    BY <1>1, <1>3 DEF Go
  <2> QED BY <1>3, <2>1, <2>2 DEF Typed, Ahead
<1> QED BY <1>2, <1>3 DEF ReadSplit

(* Every step goes on, and keeps the types.                                *)
LEMMA StepAhead ==
  ASSUME Typed, input \in Inputs, Step
  PROVE  Typed' /\ Ahead
<1>1. CASE RejectOptions
  BY <1>1, RespondAhead DEF RejectOptions
<1>2. CASE ReadOptions
  <2>1. pc = "options" /\ pc' = "text" /\ UNCHANGED <<words, q, splits>>
    BY <1>2 DEF ReadOptions
  <2> QED BY <2>1, StageNames DEF Typed, Ahead, Grammars
<1>3. CASE Empty
  BY <1>3, RespondAhead DEF Empty
<1>4. CASE Collide
  BY <1>4, FoundAhead DEF Collide
<1>5. CASE Passthrough
  <2>1. pc = "text"
    BY <1>5 DEF Passthrough
  <2>2. CASE \E x \in read_edtf(Text) : Respond(answer(<<Candidate(x, {"AlreadyValidEdtf"})>>))
    BY <2>1, <2>2, RespondAhead
  <2>3. CASE Go("prose") /\ UNCHANGED splits
    <3>1. "prose" \in DOMAIN Stage /\ Stage["prose"] > Stage[pc] /\ "prose" \notin Grammars
      BY <2>1, StageNames DEF Grammars
    <3> QED BY <2>3, <3>1, GoAhead
  <2> QED BY <1>5, <2>2, <2>3 DEF Passthrough
<1>6. CASE Preprocess
  BY <1>6, PreprocessAhead
<1>7. CASE Strip
  BY <1>7, StripAhead
<1>8. CASE Stripped
  <2>1. pc = "strip"
    BY <1>8 DEF Stripped
  <2>2. CASE \E reason : Respond(no_match(reason))
    BY <2>1, <2>2, RespondAhead
  <2>3. CASE words # <<>> /\ Go("single") /\ UNCHANGED splits
    <3>1. "single" \in DOMAIN Stage /\ Stage["single"] > Stage[pc]
      BY <2>1, StageNames
    <3> QED BY <2>3, <3>1, GoAhead
  <2> QED BY <1>8, <2>2, <2>3 DEF Stripped
<1>9. CASE ReadSingle
  <2>1. pc = "single" /\ pc \in Grammars /\ "open" \in Grammars /\ Stage["open"] > Stage[pc]
    BY <1>9, StageNames DEF ReadSingle, Grammars
  <2> QED BY <1>9, <2>1, TryAhead DEF ReadSingle
<1>10. CASE ReadOpen
  <2>1. pc = "open" /\ pc \in Grammars /\ "or" \in Grammars /\ Stage["or"] > Stage[pc]
    BY <1>10, StageNames DEF ReadOpen, Grammars
  <2> QED BY <1>10, <2>1, TryAhead DEF ReadOpen
<1>11. CASE ReadOr
  <2>1. pc = "or" /\ pc \in Grammars /\ "range" \in Grammars /\ Stage["range"] > Stage[pc]
    BY <1>11, StageNames DEF ReadOr, Grammars
  <2> QED BY <1>11, <2>1, TryAhead DEF ReadOr
<1>12. CASE FindSplits
  <2>1. PICK lang \in Tables : splits' = splits_of(words, lang)
    BY <1>12 DEF FindSplits
  <2>2. splits' \in Seq(TextSides)
    BY <2>1, SplitsOf DEF Typed
  <2>3. pc = "range" /\ pc' = "split" /\ UNCHANGED <<words, q>>
    BY <1>12 DEF FindSplits, Go
  <2> QED BY <2>2, <2>3, StageNames DEF Typed, Ahead, Grammars
<1>13. CASE ReadSplit
  BY <1>13, SplitAhead
<1>14. CASE GiveUp
  BY <1>14, RespondAhead DEF GiveUp
<1>15. CASE Render
  BY <1>15, RespondAhead DEF Render
<1> QED BY <1>1, <1>2, <1>3, <1>4, <1>5, <1>6, <1>7, <1>8, <1>9, <1>10, <1>11, <1>12, <1>13, <1>14, <1>15 DEF Step

(* The caller's input stays what it was.                                   *)
LEMMA InputKept ==
  ASSUME [Next]_vars
  PROVE  input' = input
BY DEF Next, Step, Finished, vars, RejectOptions, ReadOptions, Empty, Collide, Passthrough, Preprocess, Strip,
       Stripped, ReadSingle, ReadOpen, ReadOr, FindSplits, ReadSplit, GiveUp, Render, Try, Respond, Found, Go

(* With the input, whose text a step preprocesses, they are inductive.     *)
GivenTyped == Typed /\ input \in Inputs

(* They hold from the first state on.                                      *)
LEMMA TypedHolds == Spec => []GivenTyped
<1>1. Init => GivenTyped
  BY StageNames DEF Init, GivenTyped, Typed, TextWords, Grammars, Qualifier
<1>2. GivenTyped /\ [Next]_vars => GivenTyped'
  <2> SUFFICES ASSUME GivenTyped, [Next]_vars PROVE GivenTyped'
    OBVIOUS
  <2>1. input' \in Inputs
    BY InputKept DEF GivenTyped
  <2>2. CASE Step
    BY <2>1, <2>2, StepAhead DEF GivenTyped
  <2>3. CASE UNCHANGED vars
    BY <2>3 DEF GivenTyped, Typed, vars
  <2> QED BY <2>2, <2>3 DEF Next, Finished
<1> QED BY <1>1, <1>2, PTL DEF Spec

(* Whatever the text, what is left of it is words, none of them empty;     *)
(* each side of a place to split at has some; and no stage hands its       *)
(* grammar an empty phrase, whose first word it would index (engine.rs     *)
(* run(), parse_range()).                                                  *)
THEOREM TypeCorrect == Spec => []TypeOK
<1>1. GivenTyped /\ AnswersParse => TypeOK
  BY DEF GivenTyped, Typed, AnswersParse, TypeOK
<1> QED BY <1>1, TypedHolds, AlwaysEdtf, PTL

(* Every text is answered: no step repeats a stage without taking words, a *)
(* prefix or a place to split at away (engine.rs strip_qualifiers(),       *)
(* parse_range()), and there are finitely many of these.                   *)
THEOREM AlwaysEnds == Spec => ComesToAnEnd
<1>1. GivenTyped /\ [Next]_vars => [Ahead]_vars
  BY StepAhead DEF GivenTyped, Next, Finished
<1>2. [Ahead]_vars => [\/ Stage[pc'] > Stage[pc]
                       \/ pc' = pc /\ (Shorter(words', words) \/ Len(splits') < Len(splits))]_vars
  BY DEF Ahead
<1> QED BY <1>1, <1>2, TypedHolds, PTL DEF Spec, ComesToAnEnd

-----------------------------------------------------------------------------
(* The year arithmetic (Centuries).                                        *)
Century == {n \in Int : n >= 1}

First(span) == span[1]
Final(span) == span[2]
Within(y, span) == First(span) <= y /\ y <= Final(span)

(* A century is a hundred years. *)
LEMMA SpanEnds ==
  ASSUME NEW n \in Century, NEW bc \in BOOLEAN
  PROVE  /\ First(century_span(n, bc)) = IF bc THEN 1 - 100 * n ELSE 100 * n - 99
         /\ Final(century_span(n, bc)) = IF bc THEN 100 - 100 * n ELSE 100 * n
         /\ First(century_span(n, bc)) \in Int
         /\ Final(century_span(n, bc)) = First(century_span(n, bc)) + 99
BY DEF Century, First, Final, century_span

(* Every year lies in exactly one century of one era: the years up to 0    *)
(* before Christ, and no year is lost between the 1st century BC and the   *)
(* 1st (engine.rs century_expr, whose BC arm counts down from year 0).     *)
THEOREM CenturiesTile ==
  \A y \in Int : \E n \in Century, bc \in BOOLEAN :
    /\ Within(y, century_span(n, bc))
    /\ bc <=> y <= 0
    /\ \A m \in Century, b \in BOOLEAN : Within(y, century_span(m, b)) => m = n /\ b = bc
<1> SUFFICES ASSUME NEW y \in Int
             PROVE  \E n \in Century, bc \in BOOLEAN :
                      /\ Within(y, century_span(n, bc))
                      /\ bc <=> y <= 0
                      /\ \A m \in Century, b \in BOOLEAN : Within(y, century_span(m, b)) => m = n /\ b = bc
  OBVIOUS
<1>1. CASE y <= 0
  <2> DEFINE n == (-y) \div 100 + 1
  <2>1. n \in Century /\ 1 - 100 * n <= y /\ y <= 100 - 100 * n
    BY <1>1 DEF Century
  <2>2. Within(y, century_span(n, TRUE))
    BY <2>1, SpanEnds DEF Within
  <2>3. ASSUME NEW m \in Century, NEW b \in BOOLEAN, Within(y, century_span(m, b))
        PROVE  m = n /\ b = TRUE
    <3>1. b = TRUE
      BY <1>1, <2>3, SpanEnds DEF Within, Century
    <3>2. 1 - 100 * m <= y /\ y <= 100 - 100 * m
      BY <2>3, <3>1, SpanEnds DEF Within
    <3>3. m = n
      BY <2>1, <3>2 DEF Century
    <3> QED BY <3>1, <3>3
  <2> HIDE DEF n
  <2> QED BY <1>1, <2>1, <2>2, <2>3
<1>2. CASE y >= 1
  <2> DEFINE n == (y - 1) \div 100 + 1
  <2>1. n \in Century /\ 100 * n - 99 <= y /\ y <= 100 * n
    BY <1>2 DEF Century
  <2>2. Within(y, century_span(n, FALSE))
    BY <2>1, SpanEnds DEF Within
  <2>3. ASSUME NEW m \in Century, NEW b \in BOOLEAN, Within(y, century_span(m, b))
        PROVE  m = n /\ b = FALSE
    <3>1. b = FALSE
      BY <1>2, <2>3, SpanEnds DEF Within, Century
    <3>2. 100 * m - 99 <= y /\ y <= 100 * m
      BY <2>3, <3>1, SpanEnds DEF Within
    <3>3. m = n
      BY <2>1, <3>2 DEF Century
    <3> QED BY <3>1, <3>3
  <2>4. FALSE <=> y <= 0
    BY <1>2
  <2> HIDE DEF n
  <2> QED BY <2>1, <2>2, <2>3, <2>4
<1> QED BY <1>1, <1>2

(* Early, mid and late make up a century, and so do its halves; no year    *)
(* belongs to two of either (engine.rs century_part).                      *)
THEOREM PartsPartition ==
  \A n \in Century, bc \in BOOLEAN, y \in Int :
    LET in(part) == Within(y, century_part(part, n, bc))
    IN  /\ Within(y, century_span(n, bc)) <=> in("Early") \/ in("Mid") \/ in("Late")
        /\ Within(y, century_span(n, bc)) <=> in("FirstHalf") \/ in("SecondHalf")
        /\ ~(in("Early") /\ in("Mid")) /\ ~(in("Mid") /\ in("Late")) /\ ~(in("Early") /\ in("Late"))
        /\ ~(in("FirstHalf") /\ in("SecondHalf"))
<1> SUFFICES ASSUME NEW n \in Century, NEW bc \in BOOLEAN, NEW y \in Int
             PROVE  LET in(part) == Within(y, century_part(part, n, bc))
                    IN  /\ Within(y, century_span(n, bc)) <=> in("Early") \/ in("Mid") \/ in("Late")
                        /\ Within(y, century_span(n, bc)) <=> in("FirstHalf") \/ in("SecondHalf")
                        /\ ~(in("Early") /\ in("Mid")) /\ ~(in("Mid") /\ in("Late")) /\ ~(in("Early") /\ in("Late"))
                        /\ ~(in("FirstHalf") /\ in("SecondHalf"))
  OBVIOUS
<1> DEFINE s == century_span(n, bc)[1]
           e == century_span(n, bc)[2]
<1>1. s \in Int /\ e = s + 99
  BY SpanEnds DEF First, Final
<1>2. /\ century_part("Early", n, bc) = <<s, s + 29>>
      /\ century_part("Mid", n, bc) = <<s + 30, s + 69>>
      /\ century_part("Late", n, bc) = <<s + 70, e>>
      /\ century_part("FirstHalf", n, bc) = <<s, s + 49>>
      /\ century_part("SecondHalf", n, bc) = <<s + 50, e>>
  BY DEF century_part
<1>3. century_span(n, bc)[1] = s /\ century_span(n, bc)[2] = e
  BY DEF s, e
<1> HIDE DEF s, e
<1> QED BY <1>1, <1>2, <1>3 DEF Within, First, Final

(* Years before Christ count backwards, all of them before the years of    *)
(* our era, and 1 BC is the year just before AD 1 (engine.rs era_single).  *)
THEOREM ErasMeet ==
  \A a, b \in Century :
    /\ era_year(a, TRUE) < era_year(b, TRUE) <=> b < a
    /\ era_year(a, TRUE) < era_year(b, FALSE)
    /\ era_year(1, FALSE) = era_year(1, TRUE) + 1
BY DEF Century, era_year

(* An end year written with two digits keeps its start's century and the   *)
(* digits written; where it is read as a range it lies after the start; a  *)
(* range written apart is one written together whose start has a century   *)
(* and whose end cannot be a month; and where a start with a century       *)
(* collides with a sub-year code, both ways of writing read a range        *)
(* (engine.rs collision_check, year_pair, elided_pair).                    *)
THEOREM ElidedForward ==
  ASSUME NEW y \in 0..9999, NEW v \in 0..99
  PROVE  /\ elided(y, v) \div 100 = y \div 100
         /\ elided(y, v) % 100 = v
         /\ elides(y, v) <=> v > y % 100
         /\ elides(y, v) => elided(y, v) \in (y + 1)..9999
         /\ elides_apart(y, v) <=> y >= 100 /\ v > 12 /\ elides(y, v)
         /\ collides(y, v) /\ y >= 100 => elides_apart(y, v)
<1> DEFINE c == y \div 100
           r == y % 100
<1>0. y \div 100 = c /\ y % 100 = r
  BY DEF c, r
<1>1. c \in 0..99 /\ r \in 0..99 /\ y = 100 * c + r
  OBVIOUS
<1>2. elided(y, v) = 100 * c + v
  BY <1>1 DEF elided
<1> HIDE DEF c, r
<1>3. (100 * c + v) \div 100 = c /\ (100 * c + v) % 100 = v
  BY <1>1
<1>4. elides(y, v) <=> 100 * c + v > y
  BY <1>2 DEF elides
<1>5. elides(y, v) <=> v > r
  BY <1>1, <1>4
<1>6. elides(y, v) => elided(y, v) \in (y + 1)..9999
  BY <1>1, <1>2, <1>4
<1>7. elides_apart(y, v) <=> y >= 100 /\ v > 12 /\ elides(y, v)
  BY DEF elides_apart, elides
<1>8. collides(y, v) /\ y >= 100 => elides_apart(y, v)
  BY <1>7 DEF collides, SubYearCode
<1> QED BY <1>0, <1>2, <1>3, <1>5, <1>6, <1>7, <1>8
=============================================================================
