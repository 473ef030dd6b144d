--------------------------- MODULE NormalizeCorrect ---------------------------
(***************************************************************************)
(* What the normalizer owes to the writer of the prose.  An input carries  *)
(* what was said (Prose), from which the meaning is stated here by the     *)
(* decisions of docs/normalize-notes.md (N1 to N17), without the grammars. *)
(***************************************************************************)
EXTENDS Normalize, Prose
LOCAL INSTANCE SequencesExt
LOCAL INSTANCE FiniteSetsExt

-----------------------------------------------------------------------------
(* The readings of one end: a set of expressions.                          *)
Just(year) == concrete_year(year, {})
YearDate(year) == Date(Just(year), None, None)
TwoOf(n) == Some(concrete_field(n, {}))
Masked2(n) == Date(Year(Standard(FALSE, <<n \div 10, n % 10, X, X>>), None, {}), None, None)
Masked1(n) == Date(Year(Standard(FALSE, <<n \div 100, (n \div 10) % 10, n % 10, X>>), None, {}), None, None)
NoYear == Year(Standard(FALSE, <<X, X, X, X>>), None, {})

DatesOf(dates) == {DateExpr(d) : d \in dates}
Span2(first, last) == {IntervalExpr(At(YearDate(first)), At(YearDate(last)))}

(* N2: the n-th century is (n-1)XX; before Christ, its hundred years.      *)
CenturyReadings(n, bc) == IF bc THEN Span2(1 - 100 * n, 100 - 100 * n) ELSE DatesOf({Masked2(n - 1)})

(* N1: the parts in decades from the century's first year, 1801 or -0199.  *)
PartReadings(span, n, bc) ==
  LET first == IF bc THEN 1 - 100 * n ELSE 100 * n - 99
      from == [Early |-> 0, Mid |-> 30, Late |-> 70, FirstHalf |-> 0, SecondHalf |-> 50]
      until == [Early |-> 30, Mid |-> 70, Late |-> 100, FirstHalf |-> 50, SecondHalf |-> 100]
  IN  Span2(first + from[span], first + until[span] - 1)

(* N5: a field over 12 proves the order; an option, then the language's    *)
(* order, decides; without either both remain.                             *)
NumericReadings(a, b, y, opts) ==
  LET orders == {<<d, m>> \in {<<a, b>>, <<b, a>>} : m <= 12}
      wanted == IF opts.numeric_order # "None" THEN opts.numeric_order
                ELSE IF opts.language = "Russian" THEN "DayFirst" ELSE "None"
      decided == CASE wanted = "DayFirst" -> {<<a, b>>}
                   [] wanted = "MonthFirst" -> {<<b, a>>}
                   [] wanted = "None" -> orders
  IN  DatesOf({Date(Just(y), TwoOf(o[2]), TwoOf(o[1])) : o \in IF Cardinality(orders) = 2 THEN decided ELSE orders})

(* N6: the tens alone are of the 1800s or the 1900s, unless an option says.*)
TensReadings(t, opts) ==
  DatesOf({Masked1(10 * c + t) : c \in IF opts.default_century = None THEN {18, 19}
                                       ELSE {Get(opts.default_century) \div 100}})

(* N4, N13: YYYY-VV is a month, a sub-year code, an elided end, or two of  *)
(* these.                                                                  *)
InCenturyOf(y, v) == 100 * (y \div 100) + v
CodeReadings(y, v) ==
  (IF v \in (1..12) \cup SeasonCode THEN DatesOf({Date(Just(y), TwoOf(v), None)}) ELSE {})
    \cup (IF v > 12 /\ InCenturyOf(y, v) > y THEN Span2(y, InCenturyOf(y, v)) ELSE {})

EndReadings(e, opts) ==
  CASE e.is = "year" -> DatesOf({YearDate(e.y)})
    [] e.is = "bc year" -> DatesOf({YearDate(1 - e.b)})
    [] e.is = "month" -> DatesOf({Date(NoYear, TwoOf(e.m), None)})
    [] e.is = "month of year" -> DatesOf({Date(Just(e.y), TwoOf(e.m), None)})
    [] e.is = "day of month" -> DatesOf({Date(NoYear, TwoOf(e.m), TwoOf(e.d))})
    [] e.is = "full date" -> DatesOf({Date(Just(e.y), TwoOf(e.m), TwoOf(e.d))})
    [] e.is = "season" -> DatesOf({Date(Just(e.y), TwoOf(e.code), None)})
    [] e.is = "decade" -> DatesOf({Masked1(e.prefix3)}
                                    \cup (IF e.prefix3 % 10 = 0 THEN {Masked2(e.prefix3 \div 10)} ELSE {}))
    [] e.is = "tens" -> TensReadings(e.t, opts)
    [] e.is = "tens of century" -> DatesOf({Masked1(10 * (e.n - 1) + e.t)})
    [] e.is = "century" -> CenturyReadings(e.n, e.bc)
    [] e.is = "part" -> PartReadings(e.span, e.n, e.bc)
    [] e.is = "ordinal" -> IF opts.language = "Russian" /\ e.n \notin {1, 10}
                           THEN CenturyReadings(e.n, FALSE) ELSE {}
    [] e.is = "numeric" -> NumericReadings(e.a, e.b, e.y, opts)
    [] e.is = "year code" -> CodeReadings(e.y, e.v)
    [] e.is = "elided" -> {}

(* N1: beside another end, a part of a century is the whole of it.  What   *)
(* is EDTF and nothing else, a sub-year code that is no range, is only     *)
(* read when it stands alone.                                              *)
SideReadings(e, opts) ==
  IF e.is = "part" THEN CenturyReadings(e.n, e.bc)
  ELSE IF e.is = "year code" /\ e.v > 12 /\ InCenturyOf(e.y, e.v) <= e.y THEN {}
  ELSE EndReadings(e, opts)

-----------------------------------------------------------------------------
(* The readings of a range: no interval has an end that is one, and of two *)
(* ends at most one has several readings.                                  *)
AllDates(readings) == \A x \in readings : x.type = "Date"
Yearless(x) == x.date.year.kind = NoYear.kind
Stated(x) == x.type = "Date" /\ ~has_x(x.date.year.kind.digits)
YearIn(x) == Get(year_of(x.date.year.kind))

(* N16: a stated year is the year of both ends. *)
LendsYear(x, y) == IF Yearless(x) /\ Stated(y) THEN [x EXCEPT !.date.year = y.date.year] ELSE x
Ranged(x, y) == IntervalExpr(At(LendsYear(x, y).date), At(LendsYear(y, x).date))

(* N17: a winter and the year after it may be that one winter. *)
OneWinter(x, y) == /\ Stated(x) /\ x.date.month = TwoOf(24)
                   /\ Stated(y) /\ y.date.month = None /\ YearIn(y) = YearIn(x) + 1

PairReadings(xs, ys) ==
  LET pairs == xs \X ys
      lost(x, y) == Yearless(x) # Yearless(y) /\ ~Stated(x) /\ ~Stated(y)
  IN  IF ~AllDates(xs \cup ys) \/ (Cardinality(xs) > 1 /\ Cardinality(ys) > 1) THEN {}
      ELSE IF \E p \in pairs : lost(p[1], p[2]) THEN {}
      ELSE {Ranged(p[1], p[2]) : p \in pairs} \cup {p[1] : p \in {p \in pairs : OneWinter(p[1], p[2])}}

(* N4: an elided end needs a start of three or four digits after Christ,   *)
(* comes after it, and is no month; N13: a bare year and a sub-year code.  *)
ElidedReadings(xs, v) ==
  LET x == CHOOSE x \in xs : TRUE
  IN  IF Cardinality(xs) # 1 \/ ~Stated(x) THEN {}
      ELSE IF YearIn(x) < 100 \/ v <= 12 \/ InCenturyOf(YearIn(x), v) <= YearIn(x) THEN {}
      ELSE PairReadings(xs, DatesOf({YearDate(InCenturyOf(YearIn(x), v))}))
             \cup (IF v \in SeasonCode /\ x.date.month = None
                   THEN {[x EXCEPT !.date.month = TwoOf(v)]} ELSE {})

RangeReadings(said, opts) ==
  LET xs == SideReadings(said.a, opts)
      ys == SideReadings(said.b, opts)
      bare == said.a.is = "ordinal" /\ said.b.is \in {"century", "part", "ordinal"} /\ AllDates(ys)
  IN  IF Tight(said.style) /\ said.a.is = "year" /\ said.a.y > 999 /\ said.b.is = "elided"
      THEN CodeReadings(said.a.y, said.b.v)
      ELSE IF said.b.is = "elided" THEN ElidedReadings(xs, said.b.v)
      ELSE PairReadings(IF bare THEN CenturyReadings(said.a.n, FALSE) ELSE xs, ys)

OpenReadings(said, opts) ==
  {IF said.form = "before" THEN IntervalExpr(OpenEnd, At(x.date)) ELSE IntervalExpr(At(x.date), OpenEnd)
     : x \in {x \in SideReadings(said.a, opts) : x.type = "Date"}}

OrReadings(said, opts) ==
  LET xs == SideReadings(said.a, opts)
      ys == SideReadings(said.b, opts)
  IN  IF Cardinality(xs) = 1 /\ Cardinality(ys) = 1 THEN xs \cup ys ELSE {}

Formed(said, opts) ==
  CASE said.form = "alone" -> EndReadings(said.a, opts)
    [] said.form \in {"before", "after"} -> OpenReadings(said, opts)
    [] said.form = "or" -> OrReadings(said, opts)
    [] said.form = "range" -> RangeReadings(said, opts)
    [] said.form \in {"no date", "other"} -> {}

(* Stated years that run backwards are an error of the prose, even if the  *)
(* end is a winter that outlasts its year.                                 *)
Backwards(x, y) == Stated(x) /\ Stated(y) /\ YearIn(x) > YearIn(y)
RunsBackwards(said, opts) ==
  said.form = "range" /\ \E x \in SideReadings(said.a, opts), y \in SideReadings(said.b, opts) : Backwards(x, y)

(* N14: one impossible reading takes the others with it. *)
Meanings(said, opts) ==
  IF RunsBackwards(said, opts) THEN {}
  ELSE UNION {IF \A x \in formed : Accepted(x) THEN formed ELSE {} : formed \in {Formed(said, opts)}}

-----------------------------------------------------------------------------
Answered == pc = "done" /\ outcome.kind # "Undefined"
Unqualified(x) ==
  LET plain(slot) == IF slot = None THEN None ELSE Some(Field(Get(slot).digits, {}))
      bare(d) == Date([d.year EXCEPT !.qualifier = {}], plain(d.month), plain(d.day))
      end(e) == IF e.kind = "Date" THEN At(bare(e.date)) ELSE e
  IN  IF x.type = "Date" THEN DateExpr(bare(x.date)) ELSE IntervalExpr(end(x.start), end(x.end))

(* The answer's readings, their qualifiers aside, are exactly what was     *)
(* meant, with the options the caller gave; what has no meaning is         *)
(* refused.  No grammar tried early, and no split tried late, reads a      *)
(* phrase another one should have (engine.rs run(), "the ordered arms ARE  *)
(* the grammar").                                                          *)
ReadsAsMeant ==
  Answered => {Unqualified(r.expr) : r \in Readings} = Meanings(input.said, options)

(* Every component of every date in the answer carries the qualifiers said *)
(* of the whole and of its own end, and no other (N10).  A reading that is *)
(* one date is about the first end, an alternative about its own.          *)
FlagsSaid(i, x) ==
  LET said == input.said
      first == IF said.form = "or" /\ i = 2 THEN said.right ELSE said.left
  IN  IF x.type = "Date" \/ said.form # "range" THEN <<first, first>> ELSE <<said.left, said.right>>

QualifiersScope ==
  Answered =>
    \A i \in DOMAIN outcome.readings :
      LET x == outcome.readings[i].expr
          said == FlagsSaid(i, x)
          carries(d, flags) == qualifiers(d) = {input.said.whole \cup flags}
      IN  IF x.type = "Date" THEN carries(x.date, said[1])
          ELSE /\ x.start.kind = "Date" => carries(x.start.date, said[1])
               /\ x.end.kind = "Date" => carries(x.end.date, said[2])

WithoutAYear(d) == d.year.kind = NoYear.kind
BeforeYearOne(d) == year_of(d.year.kind) # None /\ Get(year_of(d.year.kind)) < 1
IsOpen(x) == x.type = "Interval" /\ OpenEnd \in {x.start, x.end}
SecondReading == {"DecadeAmbiguity", "NumericOrderAmbiguous", "SeasonRangeCollision", "OrAlternatives", "CrossYearSeason"}
SeasonNotes == {"SeasonCode", "SeasonRangeCollision"}

(* The prose reads several ways.  An open end keeps those that are dates   *)
(* (engine.rs map_single()), which may leave one: before 1914-21.          *)
ReadsSeveralWays ==
  \/ Len(outcome.readings) > 1
  \/ /\ input.said.form \in {"before", "after"}
     /\ Cardinality(SideReadings(input.said.a, options)) > 1

(* Nothing is guessed silently, and no note outlives what it explains      *)
(* (lib.rs Note): the notes for a masked year, a year before year 1 and an *)
(* open end stand exactly by the readings that have one; a season has its  *)
(* note; a note of a choice stands by a reading exactly if the prose reads *)
(* several ways, though not always beside the other reading (BothReported);*)
(* a year is only noted as inherited where both ends have it.  A qualifier *)
(* of the whole is noted as distributed exactly by a reading that is an    *)
(* interval and was the only one: among several, engine.rs:1435-1457 do    *)
(* not add that note, though they distribute it (circa winter 1941-1942).  *)
NotesTellTrue ==
  Answered =>
    \A r \in {r \in Readings : "AlreadyValidEdtf" \notin r.notes} :
      LET dates == EndDates(r.expr)
          some(Shows(_)) == \E d \in dates : Shows(d)
      IN  /\ "MissingYearMasked" \in r.notes <=> some(WithoutAYear)
          /\ "AstronomicalYear" \in r.notes <=> some(BeforeYearOne)
          /\ "OpenInterval" \in r.notes <=> IsOpen(r.expr)
          /\ some(IsSeason) => r.notes \cap SeasonNotes # {}
          /\ r.notes \cap SecondReading # {} <=> ReadsSeveralWays
          /\ "EndpointYearDistributed" \in r.notes => Cardinality({d.year.kind : d \in dates}) = 1
          /\ "QualifierDistributed" \in r.notes <=>
               input.said.whole # {} /\ r.expr.type = "Interval" /\ ~ReadsSeveralWays

(* "NNNN-NN collides between an EDTF sub-year code and an elided year      *)
(* range; both readings reported" (lib.rs:139-140): a reading with that    *)
(* note is not the only one.                                               *)
BothReported ==
  Answered =>
    \A r \in Readings : "SeasonRangeCollision" \in r.notes => Len(outcome.readings) > 1

(* A refusal says why (lib.rs NoMatchReason): no date is what was said; an *)
(* impossible date is only reported of prose that was read and has a       *)
(* reading that cannot be; and prose that was read is called out of        *)
(* grammar only if its stated years run backwards (engine.rs:1189-1191,    *)
(* against what ReversedIsImpossible quotes).                              *)
RefusalTells ==
  Answered /\ outcome.kind = "NoMatch" =>
    \A formed \in {Formed(input.said, options)} :
      /\ outcome.reason = "ExplicitNoDate" <=> input.said.form = "no date"
      /\ outcome.reason = "ImpossibleDate" => \E x \in formed : ~Accepted(x)
      /\ outcome.reason = "OutOfGrammar" => formed = {} \/ RunsBackwards(input.said, options)

(* "The prose matched, but every reading named an impossible or            *)
(* contradictory date (February 30, a reversed range, ...)"                *)
(* (lib.rs:279-281): a range whose years run backwards in every reading is *)
(* refused for that reason.                                                *)
ReversedIsImpossible ==
  Answered /\ input.said.form = "range" =>
    LET xs == SideReadings(input.said.a, options)
        ys == SideReadings(input.said.b, options)
    IN  xs # {} /\ ys # {} /\ (\A x \in xs, y \in ys : Backwards(x, y)) => outcome.reason = "ImpossibleDate"
=============================================================================
