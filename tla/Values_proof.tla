----------------------------- MODULE Values_proof -----------------------------
(***************************************************************************)
(* Proofs about the iterator Values, for every i64 width and every         *)
(* expression the parser accepts:                                          *)
(*                                                                         *)
(*   1. every walker keeps its type (TypeCorrect), and construction fails  *)
(*      exactly where the bounds say so (ErrorsAgree);                     *)
(*   2. a step of a walker hands out the least of what remains of it, or   *)
(*      changes nothing of what remains (SingletonGives to OdometerSpent); *)
(*   3. every walker starts on what its element denotes (SweepStart to     *)
(*      ValuesStart);                                                      *)
(*   4. so the iterator implements the stream it promises                  *)
(*      (StreamImplemented);                                               *)
(*   5. the bounds of what an element denotes join to the bounds of the    *)
(*      element (SweepJoins, RangeJoins, MaskJoins, SeasonMaskJoins), so   *)
(*      what was handed out by the end joins to the bounds of the whole    *)
(*      (HullAlways).                                                      *)
(*                                                                         *)
(* And about the range walker alone, at the end: it meets its end, and     *)
(* hands out exactly the positions up to it (WalkIInvAlways).              *)
(***************************************************************************)
EXTENDS ValuesCorrect, RangeWalk, Bounds_proof

(* The iterator with its history behaves as the iterator.                  *)
LEMMA TracedIsSpec == TracedSpec => Spec
<1>1. TracedInit => Init
  BY DEF TracedInit
<1>2. [Next /\ Record]_<<vars, history>> => [Next]_vars
  BY DEF vars, history
<1> QED BY <1>1, <1>2, PTL DEF TracedSpec, Spec

-----------------------------------------------------------------------------
(* What a walker keeps while it walks, by its kind.                        *)
Listed(slot) == IF slot = None THEN 0 ELSE Len(Get(slot))

SingletonFields == {"walk", "left"}
SweepFields == {"walk", "cur", "hi", "qualifier", "done"}
RangeFields == {"walk", "cur", "end", "precision", "done"}
MaskedFields == {"walk", "year", "year_count", "months", "days", "yq", "mq", "dq", "yi", "mi", "di"}

SingletonKeeps(w) ==
  /\ DOMAIN w = SingletonFields
  /\ w.left = None \/ w.left = Some(Get(w.left))

SweepKeeps(w) ==
  /\ DOMAIN w = SweepFields
  /\ w.cur \in I64Years /\ w.hi \in I64Years /\ w.cur <= w.hi
  /\ w.done \in BOOLEAN

RangeKeeps(w) ==
  /\ DOMAIN w = RangeFields
  /\ w.precision \in Precisions
  /\ w.cur \in Position(w.precision, I64Years) /\ w.end \in Position(w.precision, I64Years)
  /\ AtMost(w.cur, w.end)
  /\ w.done \in BOOLEAN

MaskedKeeps(w) ==
  /\ DOMAIN w = MaskedFields
  /\ w.year_count \in Nat /\ Listed(w.months) \in Nat /\ Listed(w.days) \in Nat
  /\ w.yi \in 0..w.year_count /\ w.mi \in 0..Listed(w.months) /\ w.di \in 0..Listed(w.days)

Keeps(w) == \/ w.walk = "Singleton" /\ SingletonKeeps(w)
            \/ w.walk = "Sweep" /\ SweepKeeps(w)
            \/ w.walk = "Range" /\ RangeKeeps(w)
            \/ w.walk = "Masked" /\ MaskedKeeps(w)

IsQueue(q) == /\ Len(q) \in Nat /\ q = [i \in 1..Len(q) |-> q[i]]
              /\ \A i \in 1..Len(q) : Keeps(q[i])

(* The inductive invariant.  A walker is built only once, from an          *)
(* expression that can be enumerated, and an iterator that failed has none.*)
IInv ==
  /\ expr \in Exprs
  /\ pc \in {"new", "failed", "idle", "running"}
  /\ item.out \in {"NotAsked", "End", "Value", "Failed"}
  /\ IsQueue(queue) /\ idx \in 0..Len(queue)
  /\ pc \in {"new", "failed"} => idx = 0
  /\ pc \in {"idle", "running"} => Unenumerable(expr) = None
  /\ pc = "failed" => Unenumerable(expr) # None /\ item = Failed(Get(Unenumerable(expr)))

-----------------------------------------------------------------------------
(* One walker moves, the others stay.                                      *)
LEMMA OneMoves ==
  ASSUME NEW q, IsQueue(q), NEW i \in 1..Len(q), NEW w, Keeps(w)
  PROVE  IsQueue([q EXCEPT ![i] = w]) /\ Len([q EXCEPT ![i] = w]) = Len(q)
<1> DEFINE n == Len(q)
           r == [q EXCEPT ![i] = w]
<1>1. n \in Nat /\ q = [j \in 1..n |-> q[j]] /\ \A j \in 1..n : Keeps(q[j])
  BY DEF IsQueue
<1>2. r = [j \in 1..n |-> IF j = i THEN w ELSE q[j]]
  BY <1>1
<1> HIDE DEF n, r
<1>3. r = [j \in 1..n |-> r[j]] /\ \A j \in 1..n : Keeps(r[j])
  BY <1>1, <1>2
<1>4. Len(r) = n
  BY <1>1, <1>3
<1> QED BY <1>1, <1>3, <1>4 DEF IsQueue, n, r

(* A sequence of walkers that keep what they should is a queue.            *)
LEMMA MadeQueue ==
  ASSUME NEW n \in Nat, NEW q, q = [i \in 1..n |-> q[i]], \A i \in 1..n : Keeps(q[i])
  PROVE  IsQueue(q)
<1>1. Len(q) = n
  OBVIOUS
<1> QED BY <1>1 DEF IsQueue

(* The kinds of walkers are told apart by their tag.                       *)
LEMMA KeptByKind ==
  ASSUME NEW w, Keeps(w)
  PROVE  /\ w.walk = "Singleton" => SingletonKeeps(w)
         /\ w.walk = "Sweep" => SweepKeeps(w)
         /\ w.walk = "Range" => RangeKeeps(w)
         /\ w.walk = "Masked" => MaskedKeeps(w)
BY DEF Keeps

(* A single value is taken.                                                *)
LEMMA SingletonMoves ==
  ASSUME NEW w, Keeps(w), w.walk = "Singleton"
  PROVE  Keeps([w EXCEPT !.left = None])
<1> DEFINE v == [w EXCEPT !.left = None]
<1>1. DOMAIN w = SingletonFields
  BY KeptByKind DEF SingletonKeeps
<1>2. DOMAIN v = SingletonFields /\ v.walk = "Singleton" /\ v.left = None
  BY <1>1 DEF SingletonFields
<1> HIDE DEF v
<1>3. Keeps(v)
  BY <1>2 DEF Keeps, SingletonKeeps
<1> QED BY <1>3 DEF v

(* A sweep before its last year has a next one.                            *)
LEMMA SweepMoves ==
  ASSUME NEW w, Keeps(w), w.walk = "Sweep"
  PROVE  Keeps(IF w.cur = w.hi THEN [w EXCEPT !.done = TRUE] ELSE [w EXCEPT !.cur = @ + 1])
<1>1. /\ DOMAIN w = SweepFields
      /\ w.cur \in I64Years /\ w.hi \in I64Years /\ w.cur <= w.hi /\ w.done \in BOOLEAN
  BY KeptByKind DEF SweepKeeps
<1>2. CASE w.cur = w.hi
  <2> DEFINE v == [w EXCEPT !.done = TRUE]
  <2>1. /\ DOMAIN v = SweepFields /\ v.walk = "Sweep"
        /\ v.cur = w.cur /\ v.hi = w.hi /\ v.done = TRUE
    BY <1>1 DEF SweepFields
  <2> HIDE DEF v
  <2>2. Keeps(v)
    BY <1>1, <2>1 DEF Keeps, SweepKeeps
  <2> QED BY <1>2, <2>2 DEF v
<1>3. CASE w.cur # w.hi
  <2> DEFINE v == [w EXCEPT !.cur = @ + 1]
  <2>1. /\ DOMAIN v = SweepFields /\ v.walk = "Sweep"
        /\ v.cur = w.cur + 1 /\ v.hi = w.hi /\ v.done = w.done
    BY <1>1 DEF SweepFields
  <2>2. w.cur + 1 \in I64Years /\ w.cur + 1 <= w.hi
    BY <1>1, <1>3, I64Assumption DEF I64Years
  <2> HIDE DEF v
  <2>3. Keeps(v)
    BY <1>1, <2>1, <2>2 DEF Keeps, SweepKeeps
  <2> QED BY <1>3, <2>3 DEF v
<1> QED BY <1>2, <1>3

(* So does a range before its end.                                         *)
LEMMA RangeMoves ==
  ASSUME NEW w, Keeps(w), w.walk = "Range"
  PROVE  Keeps(IF w.cur = w.end THEN [w EXCEPT !.done = TRUE]
               ELSE [w EXCEPT !.cur = successor(w.precision, w.cur)])
<1>1. /\ DOMAIN w = RangeFields /\ w.precision \in Precisions
      /\ w.cur \in Position(w.precision, I64Years) /\ w.end \in Position(w.precision, I64Years)
      /\ AtMost(w.cur, w.end) /\ w.done \in BOOLEAN
  BY KeptByKind DEF RangeKeeps
<1>2. CASE w.cur = w.end
  <2> DEFINE v == [w EXCEPT !.done = TRUE]
  <2>1. /\ DOMAIN v = RangeFields /\ v.walk = "Range" /\ v.precision = w.precision
        /\ v.cur = w.cur /\ v.end = w.end /\ v.done = TRUE
    BY <1>1 DEF RangeFields
  <2> HIDE DEF v
  <2>2. Keeps(v)
    BY <1>1, <2>1 DEF Keeps, RangeKeeps
  <2> QED BY <1>2, <2>2 DEF v
<1>3. CASE w.cur # w.end
  <2> DEFINE next == successor(w.precision, w.cur)
             v == [w EXCEPT !.cur = next]
  <2>1. Before(w.cur, w.end)
    BY <1>1, <1>3 DEF AtMost
  <2>2. next \in Position(w.precision, I64Years) /\ AtMost(next, w.end)
    BY <1>1, <2>1, SuccessorWithin, Numbers DEF I64Years
  <2> HIDE DEF next
  <2>3. /\ DOMAIN v = RangeFields /\ v.walk = "Range" /\ v.precision = w.precision
        /\ v.cur = next /\ v.end = w.end /\ v.done = w.done
    BY <1>1 DEF RangeFields
  <2> HIDE DEF v
  <2>4. Keeps(v)
    BY <1>1, <2>2, <2>3 DEF Keeps, RangeKeeps
  <2> QED BY <1>3, <2>4 DEF v, next
<1> QED BY <1>2, <1>3

(* The odometer's counters move within its lists.                          *)
LEMMA MaskedMoves ==
  ASSUME NEW w, Keeps(w), w.walk = "Masked", NEW v, DOMAIN v = MaskedFields, v.walk = "Masked",
         v.year_count = w.year_count, v.months = w.months, v.days = w.days,
         v.yi \in 0..w.year_count, v.mi \in 0..Listed(w.months), v.di \in 0..Listed(w.days)
  PROVE  Keeps(v)
<1>1. w.year_count \in Nat /\ Listed(w.months) \in Nat /\ Listed(w.days) \in Nat
  BY KeptByKind DEF MaskedKeeps
<1> QED BY <1>1 DEF Keeps, MaskedKeeps

-----------------------------------------------------------------------------
(* The walkers values() builds.                                            *)
LEMMA SingletonBuilt ==
  ASSUME NEW x
  PROVE  Keeps(SingletonWalk(x))
<1>1. /\ DOMAIN SingletonWalk(x) = SingletonFields
      /\ SingletonWalk(x).walk = "Singleton" /\ SingletonWalk(x).left = Some(x)
  BY DEF SingletonWalk, SingletonFields
<1> QED BY <1>1, SomeFacts DEF Keeps, SingletonKeeps

(* A new sweep starts as it should.                                        *)
LEMMA SweepBuilt ==
  ASSUME NEW lo \in I64Years, NEW hi \in I64Years, lo <= hi, NEW q
  PROVE  Keeps(SweepWalk(lo, hi, q))
<1> DEFINE w == SweepWalk(lo, hi, q)
<1>1. DOMAIN w = SweepFields /\ w.walk = "Sweep" /\ w.cur = lo /\ w.hi = hi /\ w.done = FALSE
  BY DEF SweepWalk, SweepFields
<1> HIDE DEF w
<1>2. Keeps(w)
  BY <1>1 DEF Keeps, SweepKeeps
<1> QED BY <1>2 DEF w

(* So does a new walk over a range.                                        *)
LEMMA RangeBuilt ==
  ASSUME NEW a, NEW b, precision(a) \in Precisions,
         PlaceOf(a) \in Position(precision(a), I64Years), PlaceOf(b) \in Position(precision(a), I64Years),
         AtMost(PlaceOf(a), PlaceOf(b))
  PROVE  Keeps(RangeWalker(a, b))
<1> DEFINE w == RangeWalker(a, b)
<1>1. w = [walk |-> "Range", cur |-> PlaceOf(a), end |-> PlaceOf(b), precision |-> precision(a), done |-> FALSE]
  BY DEF RangeWalker, PlaceOf, SlotNumber
<1> HIDE DEF w
<1>2. /\ DOMAIN w = RangeFields /\ w.walk = "Range" /\ w.cur = PlaceOf(a) /\ w.end = PlaceOf(b)
      /\ w.precision = precision(a) /\ w.done = FALSE
  BY <1>1 DEF RangeFields
<1>3. Keeps(w)
  BY <1>2 DEF Keeps, RangeKeeps
<1> QED BY <1>3 DEF w

(* The candidates of a slot are listed.                                    *)
LEMMA SlotsListed ==
  ASSUME NEW slot, IsSlot(slot)
  PROVE  /\ Listed(slot_candidates(slot, month_candidates_of)) \in Nat
         /\ Listed(slot_candidates(slot, day_candidates_of)) \in Nat
<1>1. CASE slot = None
  BY <1>1 DEF slot_candidates, Listed
<1>2. CASE slot # None
  <2> DEFINE f == Get(slot)
             months == month_candidates_of(f)
             days == day_candidates_of(f)
  <2>1. f.digits \in [1..2 -> MaskDigit]
    BY <1>2 DEF IsSlot
  <2>2. Len(months) \in Nat /\ Len(days) \in Nat
    <3>1. CASE has_x(f.digits)
      <4>1. months = candidates_of(f, 12) /\ days = candidates_of(f, 31)
        BY <3>1 DEF month_candidates_of, day_candidates_of
      <4>2. Len(candidates_of(f, 12)) \in Nat /\ Len(candidates_of(f, 31)) \in Nat
        BY Candidates DEF Rising
      <4> QED BY <4>1, <4>2
    <3>2. CASE ~has_x(f.digits)
      <4>1. PICK v \in Nat : field_value(f) = Some(v)
        BY <2>1, <3>2, FieldValue
      <4>2. months = <<v>> /\ days = <<v>>
        BY <3>2, <4>1 DEF month_candidates_of, day_candidates_of, Some
      <4> HIDE DEF months, days
      <4> QED BY <4>2
    <3> QED BY <3>1, <3>2
  <2>3. /\ slot_candidates(slot, month_candidates_of) = Some(months)
        /\ slot_candidates(slot, day_candidates_of) = Some(days)
    BY <1>2 DEF slot_candidates
  <2> HIDE DEF months, days
  <2> QED BY <2>2, <2>3, SomeFacts DEF Listed
<1> QED BY <1>1, <1>2

(* So does a new odometer.                                                 *)
LEMMA MaskedBuilt ==
  ASSUME NEW d, IsDateRecord(d), ValidDate(d), has_unspecified(d)
  PROVE  Keeps(MaskedWalk(d))
<1> DEFINE w == MaskedWalk(d)
           months == slot_candidates(d.month, month_candidates_of)
           days == slot_candidates(d.day, day_candidates_of)
           count == IF year_of(d.year.kind) # None THEN 1 ELSE completion_count(d.year.kind.digits)
<1>1. d.year.kind.form = "Standard"
  <2>1. SUFFICES ASSUME d.year.kind.form # "Standard" PROVE FALSE
    OBVIOUS
  <2>2. d.month = None /\ d.day = None
    BY <2>1 DEF ValidDate, ValidPrefixedYear
  <2> QED BY <2>1, <2>2 DEF has_unspecified, IsSome
<1>2. count \in Nat
  <2>1. d.year.kind.digits \in [1..4 -> MaskDigit]
    BY <1>1 DEF IsDateRecord, IsYearKind
  <2>2. completion_count(d.year.kind.digits) \in Nat
    BY <2>1, CompletionsRise
  <2> QED BY <2>2
<1>3. Listed(months) \in Nat /\ Listed(days) \in Nat
  BY SlotsListed DEF IsDateRecord
<1>4. /\ DOMAIN w = MaskedFields /\ w.walk = "Masked" /\ w.year_count = count
      /\ w.months = months /\ w.days = days /\ w.yi = 0 /\ w.mi = 0 /\ w.di = 0
  BY DEF MaskedWalk, MaskedFields, year_count, completion_count, MaskedPositions
<1> HIDE DEF w, months, days, count
<1>5. Keeps(w)
  BY <1>2, <1>3, <1>4 DEF Keeps, MaskedKeeps
<1> QED BY <1>5 DEF w

(* A date without an error has a walker; what a year range needs of it is  *)
(* what date_error looks for.                                              *)
LEMMA DateBuilt ==
  ASSUME NEW d, IsDateRecord(d), ValidDate(d), date_error(d) = None
  PROVE  Keeps(DateWalker(d))
<1>1. CASE d.year.significant_digits # None
  <2> DEFINE kind == d.year.kind
             sig == d.year.significant_digits
             v == Get(year_of(kind))
             range == significant_range(v, sig, big_width(kind))
  <2>1. year_of(kind) # None /\ range # None
    BY <1>1, SomeFacts DEF date_error
  <2>2. v \in I64Years /\ IsSignificance(sig) /\ big_width(kind) \in Int
    BY <2>1, YearFits, WidthIsInt DEF IsDateRecord
  <2>3. PICK lo \in I64Years, hi \in I64Years : lo <= hi /\ range = Some(<<lo, hi>>)
    BY <2>1, <2>2, SweepFits
  <2>4. DateWalker(d) = SweepWalk(Get(range)[1], Get(range)[2], d.year.qualifier)
    BY <1>1 DEF DateWalker
  <2>5. Get(range) = <<lo, hi>>
    BY <2>3, SomeFacts
  <2> HIDE DEF range
  <2>6. DateWalker(d) = SweepWalk(lo, hi, d.year.qualifier)
    BY <2>4, <2>5
  <2> QED BY <2>3, <2>6, SweepBuilt
<1>2. CASE d.year.significant_digits = None
  BY <1>2, SingletonBuilt, MaskedBuilt DEF DateWalker
<1> QED BY <1>1, <1>2

(* So does the walker of an element of a set.                              *)
LEMMA ElementBuilt ==
  ASSUME NEW e, IsElement(e), parse_set_element(e), range_agrees(e), element_error(e) = None
  PROVE  Keeps(ElementWalker(e))
<1>1. CASE e.kind = "Range"
  <2>1. element_error(e) = IF year_of(e.date.year.kind) = None \/ year_of(e.to.year.kind) = None
                           THEN Some("YearRangeOverflow") ELSE None
    <3>1. e.kind # "Date" /\ e.kind \notin {"OnOrBefore", "OnOrAfter"}
      BY <1>1
    <3> QED BY <1>1, <3>1, Zenon DEF element_error
  <2>2. year_of(e.date.year.kind) # None /\ year_of(e.to.year.kind) # None
    BY <2>1, SomeFacts
  <2>3. Keeps(RangeWalker(e.date, e.to))
    BY <1>1, <2>2, RangeInOrder, RangeBuilt
  <2> QED BY <1>1, <2>3 DEF ElementWalker
<1>2. CASE e.kind # "Range"
  <2>1. e.kind = "Date"
    <3>1. SUFFICES ASSUME e.kind \in {"OnOrBefore", "OnOrAfter"} PROVE FALSE
      BY <1>2 DEF IsElement
    <3>2. e.kind # "Date" /\ e.kind # "Range"
      BY <3>1
    <3>3. element_error(e) = Some("UnboundedSetElement")
      BY <3>1, <3>2, Zenon DEF element_error
    <3> QED BY <3>3, SomeFacts
  <2>2. date_error(e.date) = None
    BY <2>1, Zenon DEF element_error
  <2>3. Keeps(DateWalker(e.date))
    BY <2>2, DateBuilt DEF IsElement, parse_set_element
  <2> QED BY <1>2, <2>3 DEF ElementWalker
<1> QED BY <1>1, <1>2

(* The first error of a set is no error exactly where no element has one.  *)
LEMMA NoElementError ==
  ASSUME NEW elements, Len(elements) \in Nat, DOMAIN elements = 1..Len(elements),
         find_map([i \in DOMAIN elements |-> element_error(elements[i])]) = None
  PROVE  \A i \in DOMAIN elements : element_error(elements[i]) = None
<1> DEFINE tries == [i \in DOMAIN elements |-> element_error(elements[i])]
<1>1. DOMAIN tries = DOMAIN elements /\ \A i \in DOMAIN elements : tries[i] = element_error(elements[i])
  OBVIOUS
<1>2. DOMAIN tries \subseteq Nat
  BY <1>1
<1>3. find_map(tries) = None
  OBVIOUS
<1> HIDE DEF tries
<1>4. \A i \in DOMAIN tries : tries[i] = None
  BY <1>2, <1>3, FoundFirst
<1> QED BY <1>1, <1>4

(* One walker is a queue.                                                  *)
LEMMA OneWalker ==
  ASSUME NEW w, Keeps(w)
  PROVE  IsQueue(<<w>>)
<1> DEFINE q == <<w>>
<1>1. Len(q) = 1 /\ q[1] = w /\ q = [i \in 1..1 |-> q[i]]
  OBVIOUS
<1> HIDE DEF q
<1>2. IsQueue(q)
  BY <1>1 DEF IsQueue
<1> QED BY <1>2 DEF q

(* Every walker of an expression that can be enumerated starts as it       *)
(* should.                                                                 *)
LEMMA QueueBuilt ==
  ASSUME NEW x, IsExpr(x), Accepted(x), Unenumerable(x) = None
  PROVE  IsQueue(WalkersOf(x))
<1>1. CASE x.type = "DateTime"
  <2>1. WalkersOf(x) = <<SingletonWalk(x)>>
    BY <1>1, Zenon DEF WalkersOf
  <2> QED BY <2>1, SingletonBuilt, OneWalker
<1>2. CASE x.type = "Date"
  <2>1. WalkersOf(x) = <<DateWalker(x.date)>>
    <3>1. x.type # "DateTime"
      BY <1>2
    <3> QED BY <1>2, <3>1, Zenon DEF WalkersOf
  <2>2. date_error(x.date) = None
    <3>1. x.type # "Interval" /\ x.type # "DateTime"
      BY <1>2
    <3> QED BY <1>2, <3>1, Zenon DEF Unenumerable
  <2>3. IsDateRecord(x.date) /\ ValidDate(x.date)
    <3>1. IsDateRecord(x.date)
      BY <1>2 DEF IsExpr
    <3> QED BY <1>2, <3>1, Zenon DEF Accepted
  <2> QED BY <2>1, <2>2, <2>3, DateBuilt, OneWalker
<1>3. CASE x.type = "Interval"
  <2>1. Unenumerable(x) = Some("Interval")
    BY <1>3, Zenon DEF Unenumerable
  <2> QED BY <2>1, SomeFacts
<1>4. CASE x.type = "Set"
  <2> DEFINE n == Len(x.elements)
             q == [i \in DOMAIN x.elements |-> ElementWalker(x.elements[i])]
  <2>0. x.type # "DateTime" /\ x.type # "Date" /\ x.type # "Interval"
    BY <1>4
  <2>1. n \in Nat /\ DOMAIN x.elements = 1..n /\ \A i \in 1..n : IsElement(x.elements[i])
    BY <1>4 DEF IsExpr
  <2>2. WalkersOf(x) = q
    BY <1>4, <2>0, Zenon DEF WalkersOf
  <2>3. find_map([i \in DOMAIN x.elements |-> element_error(x.elements[i])]) = None
    BY <1>4, <2>0, Zenon DEF Unenumerable
  <2>4. parse_set(x.elements)
    BY <1>4, <2>0, Zenon DEF Accepted
  <2>5. \A i \in 1..n : Keeps(ElementWalker(x.elements[i]))
    <3> TAKE i \in 1..n
    <3>1. element_error(x.elements[i]) = None
      BY <2>1, <2>3, NoElementError
    <3>2. parse_set_element(x.elements[i]) /\ range_agrees(x.elements[i])
      BY <2>1, <2>4 DEF parse_set, elements_agree
    <3> QED BY <2>1, <3>1, <3>2, ElementBuilt
  <2>6. q = [i \in 1..n |-> q[i]] /\ \A i \in 1..n : Keeps(q[i])
    BY <2>1, <2>5
  <2> HIDE DEF q
  <2> QED BY <2>1, <2>2, <2>6, MadeQueue
<1> QED BY <1>1, <1>2, <1>3, <1>4 DEF IsExpr

-----------------------------------------------------------------------------
(* The invariant holds before values() is called.                          *)
LEMMA InitIInv == Init => IInv
<1> SUFFICES ASSUME Init PROVE IInv
  OBVIOUS
<1>1. expr \in Exprs /\ pc = "new" /\ item = NotAsked /\ queue = <<>> /\ idx = 0
  BY DEF Init
<1>2. Len(queue) = 0 /\ queue = [i \in 1..0 |-> queue[i]]
  BY <1>1
<1>3. IsQueue(queue)
  BY <1>2 DEF IsQueue
<1> QED BY <1>1, <1>2, <1>3 DEF IInv, NotAsked

(* The call of values(). *)
LEMMA ConstructIInv == IInv /\ Construct => IInv'
<1> SUFFICES ASSUME IInv, Construct PROVE IInv'
  OBVIOUS
<1>1. /\ expr \in Exprs /\ pc = "new" /\ idx = 0 /\ IsQueue(queue)
      /\ item.out \in {"NotAsked", "End", "Value", "Failed"}
      /\ expr' = expr /\ idx' = idx
  BY DEF IInv, Construct
<1>2. Unenumerable(expr)' = Unenumerable(expr)
  BY <1>1
<1>3. CASE Unenumerable(expr) = None
  <2>1. pc' = "idle" /\ queue' = WalkersOf(expr) /\ item' = item
    BY <1>3 DEF Construct
  <2>2. IsQueue(WalkersOf(expr))
    BY <1>1, <1>3, ExprsAssumption, QueueBuilt
  <2>3. IsQueue(queue') /\ Len(queue') \in Nat
    BY <2>1, <2>2 DEF IsQueue
  <2>4. IsQueue(queue)'
    BY <2>3
  <2> QED BY <1>1, <1>2, <1>3, <2>1, <2>3, <2>4 DEF IInv
<1>4. CASE Unenumerable(expr) # None
  <2>1. pc' = "failed" /\ item' = Failed(Get(Unenumerable(expr))) /\ queue' = queue
    BY <1>4 DEF Construct
  <2>2. item'.out = "Failed"
    BY <2>1 DEF Failed
  <2> QED BY <1>1, <1>2, <1>4, <2>1, <2>2 DEF IInv
<1> QED BY <1>3, <1>4

(* What a step of the iterator leaves as it was.                           *)
LEMMA MovedIInv ==
  ASSUME IInv, pc = "running", expr' = expr, idx' = idx,
         IsQueue(queue'), Len(queue') = Len(queue),
         pc' \in {"idle", "running"}, item'.out \in {"NotAsked", "End", "Value", "Failed"}
  PROVE  IInv'
<1>1. Unenumerable(expr)' = Unenumerable(expr)
  OBVIOUS
<1> QED BY <1>1 DEF IInv

(* Leaving a drained element keeps the invariant.                          *)
LEMMA DrainedIInv ==
  ASSUME IInv, pc = "running", HasElement, Drained
  PROVE  IInv'
<1>1. IsQueue(queue) /\ idx \in 0..Len(queue) /\ Len(queue) \in Nat /\ idx < Len(queue)
  BY DEF IInv, IsQueue, HasElement
<1>2. expr' = expr /\ queue' = queue /\ Unenumerable(expr)' = Unenumerable(expr)
  BY DEF Drained, ReturnEnd
<1>3. CASE expr.type = "Set"
  <2>1. idx' = idx + 1 /\ pc' = pc /\ item' = item
    BY <1>3 DEF Drained
  <2> QED BY <1>1, <1>2, <2>1 DEF IInv
<1>4. CASE expr.type # "Set"
  <2>1. idx' = idx /\ pc' = "idle" /\ item' = End
    BY <1>4 DEF Drained, ReturnEnd
  <2> QED BY <1>1, <1>2, <2>1 DEF IInv, End
<1> QED BY <1>3, <1>4

(* The walker at work keeps what it keeps; it may be replaced by any that  *)
(* does.                                                                   *)
LEMMA AtWork ==
  ASSUME IInv, NEW kind, Running(kind)
  PROVE  /\ pc = "running" /\ HasElement /\ Keeps(walker) /\ walker.walk = kind
         /\ idx + 1 \in 1..Len(queue) /\ IsQueue(queue)
         /\ item.out \in {"NotAsked", "End", "Value", "Failed"}
<1>1. IsQueue(queue) /\ idx \in 0..Len(queue) /\ Len(queue) \in Nat /\ idx < Len(queue)
  BY DEF IInv, IsQueue, HasElement, Running
<1>2. Keeps(walker)
  BY <1>1 DEF IsQueue, walker
<1> QED BY <1>1, <1>2 DEF IInv, Running

(* A singleton's steps keep it.                                            *)
LEMMA SingletonIInv == IInv /\ (TakeSingleton \/ SingletonSpent) => IInv'
<1>1. ASSUME IInv, TakeSingleton PROVE IInv'
  <2> DEFINE w == [walker EXCEPT !.left = None]
  <2>1. /\ pc = "running" /\ Keeps(walker) /\ walker.walk = "Singleton"
        /\ idx + 1 \in 1..Len(queue) /\ IsQueue(queue)
    BY <1>1, AtWork DEF TakeSingleton
  <2>2. Keeps(w)
    BY <2>1, SingletonMoves
  <2>3. /\ queue' = [queue EXCEPT ![idx + 1] = w] /\ expr' = expr /\ idx' = idx
        /\ pc' = "idle" /\ item'.out = "Value"
    BY <1>1 DEF TakeSingleton, Advance, Return, Yielded
  <2> HIDE DEF w
  <2>4. IsQueue(queue') /\ Len(queue') = Len(queue)
    BY <2>1, <2>2, <2>3, OneMoves
  <2> QED BY <1>1, <2>1, <2>3, <2>4, MovedIInv
<1>2. ASSUME IInv, SingletonSpent PROVE IInv'
  BY <1>2, AtWork, DrainedIInv DEF SingletonSpent
<1> QED BY <1>1, <1>2

(* A sweep's steps keep it.                                                *)
LEMMA SweepIInv == IInv /\ (SweepYear \/ SweepSpent) => IInv'
<1>1. ASSUME IInv, SweepYear PROVE IInv'
  <2> DEFINE w == IF walker.cur = walker.hi THEN [walker EXCEPT !.done = TRUE] ELSE [walker EXCEPT !.cur = @ + 1]
  <2>1. /\ pc = "running" /\ Keeps(walker) /\ walker.walk = "Sweep"
        /\ idx + 1 \in 1..Len(queue) /\ IsQueue(queue)
    BY <1>1, AtWork DEF SweepYear
  <2>2. Keeps(w)
    BY <2>1, SweepMoves
  <2>3. /\ queue' = [queue EXCEPT ![idx + 1] = w] /\ expr' = expr /\ idx' = idx
        /\ pc' = "idle" /\ item'.out = "Value"
    BY <1>1 DEF SweepYear, Advance, Return, Yielded
  <2> HIDE DEF w
  <2>4. IsQueue(queue') /\ Len(queue') = Len(queue)
    BY <2>1, <2>2, <2>3, OneMoves
  <2> QED BY <1>1, <2>1, <2>3, <2>4, MovedIInv
<1>2. ASSUME IInv, SweepSpent PROVE IInv'
  BY <1>2, AtWork, DrainedIInv DEF SweepSpent
<1> QED BY <1>1, <1>2

(* A range walk's steps keep it.                                           *)
LEMMA RangeIInv == IInv /\ (RangeStep \/ RangeSpent) => IInv'
<1>1. ASSUME IInv, RangeStep PROVE IInv'
  <2> DEFINE w == IF walker.cur = walker.end THEN [walker EXCEPT !.done = TRUE]
                  ELSE [walker EXCEPT !.cur = successor(walker.precision, walker.cur)]
  <2>1. /\ pc = "running" /\ Keeps(walker) /\ walker.walk = "Range"
        /\ idx + 1 \in 1..Len(queue) /\ IsQueue(queue)
    BY <1>1, AtWork DEF RangeStep
  <2>2. Keeps(w)
    BY <2>1, RangeMoves
  <2>3. /\ queue' = [queue EXCEPT ![idx + 1] = w] /\ expr' = expr /\ idx' = idx
        /\ pc' = "idle" /\ item'.out = "Value"
    BY <1>1 DEF RangeStep, Advance, Return, Yielded
  <2> HIDE DEF w
  <2>4. IsQueue(queue') /\ Len(queue') = Len(queue)
    BY <2>1, <2>2, <2>3, OneMoves
  <2> QED BY <1>1, <2>1, <2>3, <2>4, MovedIInv
<1>2. ASSUME IInv, RangeSpent PROVE IInv'
  BY <1>2, AtWork, DrainedIInv DEF RangeSpent
<1> QED BY <1>1, <1>2

(* The odometer turns one of its counters and may reset another; none      *)
(* passes the end of its list.                                             *)
Turned(v, w) ==
  /\ DOMAIN w = MaskedFields /\ w.walk = "Masked"
  /\ w.year_count = v.year_count /\ w.months = v.months /\ w.days = v.days
  /\ w.yi \in 0..v.year_count /\ w.mi \in 0..Listed(v.months) /\ w.di \in 0..Listed(v.days)

(* No counter of the odometer is turned past its list.                     *)
LEMMA CountersTurn ==
  ASSUME NEW v, Keeps(v), v.walk = "Masked"
  PROVE  /\ v.yi < v.year_count => Turned(v, [v EXCEPT !.yi = @ + 1])
         /\ v.yi < v.year_count => Turned(v, [v EXCEPT !.mi = 0, !.yi = @ + 1])
         /\ v.months # None /\ v.mi < Len(Get(v.months)) => Turned(v, [v EXCEPT !.mi = @ + 1])
         /\ v.months # None /\ v.mi < Len(Get(v.months)) => Turned(v, [v EXCEPT !.di = 0, !.mi = @ + 1])
         /\ v.days # None /\ v.di < Len(Get(v.days)) => Turned(v, [v EXCEPT !.di = @ + 1])
<1>1. /\ DOMAIN v = MaskedFields
      /\ v.year_count \in Nat /\ Listed(v.months) \in Nat /\ Listed(v.days) \in Nat
      /\ v.yi \in 0..v.year_count /\ v.mi \in 0..Listed(v.months) /\ v.di \in 0..Listed(v.days)
  BY KeptByKind DEF MaskedKeeps
<1>2. /\ v.months # None => Listed(v.months) = Len(Get(v.months))
      /\ v.days # None => Listed(v.days) = Len(Get(v.days))
  BY DEF Listed
<1>3. ASSUME v.yi < v.year_count PROVE Turned(v, [v EXCEPT !.yi = @ + 1])
  BY <1>1, <1>3 DEF Turned, MaskedFields
<1>4. ASSUME v.yi < v.year_count PROVE Turned(v, [v EXCEPT !.mi = 0, !.yi = @ + 1])
  BY <1>1, <1>4 DEF Turned, MaskedFields
<1>5. ASSUME v.months # None, v.mi < Len(Get(v.months)) PROVE Turned(v, [v EXCEPT !.mi = @ + 1])
  BY <1>1, <1>2, <1>5 DEF Turned, MaskedFields
<1>6. ASSUME v.months # None, v.mi < Len(Get(v.months)) PROVE Turned(v, [v EXCEPT !.di = 0, !.mi = @ + 1])
  BY <1>1, <1>2, <1>6 DEF Turned, MaskedFields
<1>7. ASSUME v.days # None, v.di < Len(Get(v.days)) PROVE Turned(v, [v EXCEPT !.di = @ + 1])
  BY <1>1, <1>2, <1>7 DEF Turned, MaskedFields
<1> QED BY <1>3, <1>4, <1>5, <1>6, <1>7

(* A step that turns the odometer keeps the invariant.                     *)
LEMMA OdometerIInv ==
  ASSUME IInv, Running("Masked"),
         \E w : Turned(walker, w) /\ queue' = [queue EXCEPT ![idx + 1] = w],
         expr' = expr, idx' = idx,
         \/ pc' = pc /\ item' = item
         \/ pc' = "idle" /\ item'.out = "Value"
  PROVE  IInv'
<1>1. /\ pc = "running" /\ Keeps(walker) /\ walker.walk = "Masked"
      /\ idx + 1 \in 1..Len(queue) /\ IsQueue(queue)
      /\ item.out \in {"NotAsked", "End", "Value", "Failed"}
  BY AtWork
<1>2. PICK w : Turned(walker, w) /\ queue' = [queue EXCEPT ![idx + 1] = w]
  OBVIOUS
<1>3. Keeps(w)
  BY <1>1, <1>2, MaskedMoves DEF Turned
<1>4. IsQueue(queue') /\ Len(queue') = Len(queue)
  BY <1>1, <1>2, <1>3, OneMoves
<1> QED BY <1>1, <1>4, MovedIInv

(* All of the odometer's steps keep it.                                    *)
LEMMA MaskedIInv ==
  IInv /\ (MaskedYear \/ MaskedMonth \/ MaskedDay \/ SkipDay \/ NextMonth \/ NextYear \/ MaskedSpent) => IInv'
<1> DEFINE Moved == \E w : Turned(walker, w) /\ queue' = [queue EXCEPT ![idx + 1] = w]
<1>1. ASSUME IInv, Running("Masked") PROVE Keeps(walker) /\ walker.walk = "Masked"
  BY <1>1, AtWork
<1>2. ASSUME IInv, MaskedYear PROVE IInv'
  <2>1. Running("Masked") /\ expr' = expr /\ idx' = idx /\ pc' = "idle" /\ item'.out = "Value"
    BY <1>2 DEF MaskedYear, OnYear, Return, Yielded
  <2>2. walker.yi < walker.year_count /\ queue' = [queue EXCEPT ![idx + 1] = [walker EXCEPT !.yi = @ + 1]]
    BY <1>2 DEF MaskedYear, OnYear, Advance
  <2>3. Moved
    BY <1>1, <1>2, <2>1, <2>2, CountersTurn
  <2> QED BY <1>2, <2>1, <2>3, OdometerIInv
<1>3. ASSUME IInv, MaskedMonth PROVE IInv'
  <2>1. Running("Masked") /\ expr' = expr /\ idx' = idx /\ pc' = "idle" /\ item'.out = "Value"
    BY <1>3 DEF MaskedMonth, OnMonth, OnYear, Return, Yielded
  <2>2. /\ walker.months # None /\ walker.mi < Len(Get(walker.months))
        /\ queue' = [queue EXCEPT ![idx + 1] = [walker EXCEPT !.mi = @ + 1]]
    BY <1>3 DEF MaskedMonth, OnMonth, Advance
  <2>3. Moved
    BY <1>1, <1>3, <2>1, <2>2, CountersTurn
  <2> QED BY <1>3, <2>1, <2>3, OdometerIInv
<1>4. ASSUME IInv, MaskedDay PROVE IInv'
  <2>1. Running("Masked") /\ expr' = expr /\ idx' = idx /\ pc' = "idle" /\ item'.out = "Value"
    BY <1>4 DEF MaskedDay, OnDay, OnMonth, OnYear, Return, Yielded
  <2>2. /\ walker.days # None /\ walker.di < Len(Get(walker.days))
        /\ queue' = [queue EXCEPT ![idx + 1] = [walker EXCEPT !.di = @ + 1]]
    BY <1>4 DEF MaskedDay, OnDay, Advance
  <2>3. Moved
    BY <1>1, <1>4, <2>1, <2>2, CountersTurn
  <2> QED BY <1>4, <2>1, <2>3, OdometerIInv
<1>5. ASSUME IInv, SkipDay PROVE IInv'
  <2>1. Running("Masked") /\ expr' = expr /\ idx' = idx /\ pc' = pc /\ item' = item
    BY <1>5 DEF SkipDay, OnDay, OnMonth, OnYear, Quietly
  <2>2. /\ walker.days # None /\ walker.di < Len(Get(walker.days))
        /\ queue' = [queue EXCEPT ![idx + 1] = [walker EXCEPT !.di = @ + 1]]
    BY <1>5 DEF SkipDay, OnDay, Advance
  <2>3. Moved
    BY <1>1, <1>5, <2>1, <2>2, CountersTurn
  <2> QED BY <1>5, <2>1, <2>3, OdometerIInv
<1>6. ASSUME IInv, NextMonth PROVE IInv'
  <2>1. Running("Masked") /\ expr' = expr /\ idx' = idx /\ pc' = pc /\ item' = item
    BY <1>6 DEF NextMonth, OnMonth, OnYear, Quietly
  <2>2. /\ walker.months # None /\ walker.mi < Len(Get(walker.months))
        /\ queue' = [queue EXCEPT ![idx + 1] = [walker EXCEPT !.di = 0, !.mi = @ + 1]]
    BY <1>6 DEF NextMonth, OnMonth, Advance
  <2>3. Moved
    BY <1>1, <1>6, <2>1, <2>2, CountersTurn
  <2> QED BY <1>6, <2>1, <2>3, OdometerIInv
<1>7. ASSUME IInv, NextYear PROVE IInv'
  <2>1. Running("Masked") /\ expr' = expr /\ idx' = idx /\ pc' = pc /\ item' = item
    BY <1>7 DEF NextYear, OnYear, Quietly
  <2>2. walker.yi < walker.year_count /\ queue' = [queue EXCEPT ![idx + 1] = [walker EXCEPT !.mi = 0, !.yi = @ + 1]]
    BY <1>7 DEF NextYear, OnYear, Advance
  <2>3. Moved
    BY <1>1, <1>7, <2>1, <2>2, CountersTurn
  <2> QED BY <1>7, <2>1, <2>3, OdometerIInv
<1>8. ASSUME IInv, MaskedSpent PROVE IInv'
  BY <1>8, AtWork, DrainedIInv DEF MaskedSpent
<1> QED BY <1>2, <1>3, <1>4, <1>5, <1>6, <1>7, <1>8

(* The end of a set keeps it.                                              *)
LEMMA SetEndIInv == IInv /\ SetEnd => IInv'
<1> SUFFICES ASSUME IInv, SetEnd PROVE IInv'
  OBVIOUS
<1>1. /\ pc = "running" /\ expr' = expr /\ idx' = idx /\ queue' = queue /\ pc' = "idle" /\ item'.out = "End"
  BY DEF SetEnd, ReturnEnd, End
<1>2. IsQueue(queue') /\ Len(queue') = Len(queue)
  BY <1>1 DEF IInv
<1> QED BY <1>1, <1>2, MovedIInv

(* Every step of the iterator keeps it.                                    *)
LEMMA NextIInv == IInv /\ [Next]_vars => IInv'
<1> SUFFICES ASSUME IInv, [Next]_vars PROVE IInv'
  OBVIOUS
<1>1. CASE Construct
  BY <1>1, ConstructIInv
<1>2. CASE Call
  <2>1. Unenumerable(expr)' = Unenumerable(expr)
    BY <1>2 DEF Call
  <2> QED BY <1>2, <2>1 DEF Call, IInv
<1>3. CASE Retry
  <2>1. Unenumerable(expr)' = Unenumerable(expr)
    BY <1>3 DEF Retry
  <2> QED BY <1>3, <2>1 DEF Retry, IInv, NotAsked
<1>4. CASE Step
  BY <1>4, SingletonIInv, SweepIInv, RangeIInv, MaskedIInv, SetEndIInv DEF Step
<1>5. CASE UNCHANGED vars
  <2>1. Unenumerable(expr)' = Unenumerable(expr)
    BY <1>5 DEF vars
  <2> QED BY <1>5, <2>1 DEF vars, IInv
<1> QED BY <1>1, <1>2, <1>3, <1>4, <1>5 DEF Next

(* The invariant holds however a consumer calls.                           *)
THEOREM IInvAlways == Spec => []IInv
BY InitIInv, NextIInv, PTL DEF Spec

(* Whatever is enumerated: no walk leaves the years an i64 holds, no       *)
(* position is one the calendar lacks, no counter of the odometer passes   *)
(* the end of its candidates (enumerate.rs Sweep, RangeWalk, Masked).      *)
THEOREM TypeCorrect == TracedSpec => []TypeOK
<1>1. ASSUME NEW w, Keeps(w) PROVE WalkerOK(w)
  <2>1. CASE w.walk = "Singleton"
    <3>1. Len(w.left) <= 1
      <4>1. CASE w.left = None
        BY <4>1 DEF None
      <4>2. CASE \E v : w.left = Some(v)
        <5>1. PICK v : w.left = Some(v)
          BY <4>2
        <5>2. Len(Some(v)) = 1
          BY DEF Some
        <5> QED BY <5>1, <5>2
      <4> QED BY <1>1, <2>1, <4>1, <4>2, KeptByKind DEF SingletonKeeps
    <3> QED BY <2>1, <3>1, Zenon DEF WalkerOK
  <2>2. CASE w.walk = "Sweep"
    <3>1. w.cur \in I64Min..I64Max /\ w.hi \in I64Min..I64Max /\ w.cur <= w.hi
      BY <1>1, <2>2, KeptByKind DEF SweepKeeps, I64Years
    <3>2. w.walk # "Singleton"
      BY <2>2
    <3> QED BY <2>2, <3>1, <3>2, Zenon DEF WalkerOK
  <2>3. CASE w.walk = "Range"
    <3>1. w.cur \in Position(w.precision, I64Min..I64Max) /\ AtMost(w.cur, w.end)
      BY <1>1, <2>3, KeptByKind DEF RangeKeeps, I64Years
    <3>2. w.walk # "Singleton" /\ w.walk # "Sweep"
      BY <2>3
    <3> QED BY <2>3, <3>1, <3>2, Zenon DEF WalkerOK
  <2>4. CASE w.walk = "Masked"
    <3>1. /\ w.yi \in 0..w.year_count
          /\ w.mi \in 0..(IF w.months = None THEN 0 ELSE Len(Get(w.months)))
          /\ w.di \in 0..(IF w.days = None THEN 0 ELSE Len(Get(w.days)))
      BY <1>1, <2>4, KeptByKind DEF MaskedKeeps, Listed
    <3>2. w.walk # "Singleton" /\ w.walk # "Sweep" /\ w.walk # "Range"
      BY <2>4
    <3> QED BY <2>4, <3>1, <3>2, Zenon DEF WalkerOK
  <2> QED BY <1>1, <2>1, <2>2, <2>3, <2>4 DEF Keeps
<1>2. IInv => TypeOK
  <2> SUFFICES ASSUME IInv PROVE TypeOK
    OBVIOUS
  <2>1. expr.type \in {"Date", "DateTime", "Interval", "Set"}
    BY ExprsAssumption DEF IInv, IsExpr
  <2>2. \A i \in DOMAIN queue : WalkerOK(queue[i])
    <3>1. DOMAIN queue = 1..Len(queue)
      BY DEF IInv, IsQueue
    <3> QED BY <1>1, <3>1 DEF IInv, IsQueue
  <2> QED BY <2>1, <2>2 DEF IInv, TypeOK
<1> QED BY <1>2, IInvAlways, TracedIsSpec, PTL

-----------------------------------------------------------------------------
(* Construction errors and bounds.                                         *)
Infinite == {"NegInf", "PosInf"}

(* The bounds of a date have no infinity (bounds.rs date_bounds()).        *)
LEMMA DatesAreFinite ==
  ASSUME NEW d
  PROVE  ~Touches(date_bounds(d), Infinite)
<1>1. ~Touches(UnknownBounds, Infinite)
  BY DEF Touches, UnknownBounds, MkBounds, Unknown, Infinite
<1>2. \A s, t : ~Touches(MkBounds(DayBound(s), DayBound(t)), Infinite)
  BY DEF Touches, MkBounds, DayBound, Infinite
<1>3. \A r : ~Touches(year_bounds(r), Infinite)
  BY <1>1, <1>2, Zenon DEF year_bounds, WholeYears
<1>4. \A code : ~Touches(season_bounds(d, code), Infinite)
  BY <1>2, Zenon DEF season_bounds, span_bounds
<1>5. \A lo, hi : ~Touches(day_bounds(lo, hi), Infinite)
  BY <1>1, <1>2, Zenon DEF day_bounds
<1> QED BY <1>3, <1>4, <1>5, Zenon DEF date_bounds

(* A date with significant digits has no walker exactly where its bounds   *)
(* are unknown; no other date fails.                                       *)
LEMMA DateErrors ==
  ASSUME NEW d
  PROVE  /\ date_error(d) = None \/ date_error(d) = Some("YearRangeOverflow")
         /\ date_error(d) # None => d.year.significant_digits # None /\ Touches(date_bounds(d), {"Unknown"})
         /\ date_error(d) = None /\ d.year.significant_digits # None => ~Touches(date_bounds(d), {"Unknown"})
<1> DEFINE sig == d.year.significant_digits
           v == year_of(d.year.kind)
           range == significant_range(Get(v), sig, big_width(d.year.kind))
<1>1. date_error(d) = IF sig # None /\ (v = None \/ range = None) THEN Some("YearRangeOverflow") ELSE None
  BY DEF date_error
<1>2. date_range(d.year) = IF v = None THEN None ELSE range
  BY DEF date_range
<1>3. sig # None => date_bounds(d) = year_bounds(date_range(d.year))
  BY DEF date_bounds
<1>4. Touches(year_bounds(None), {"Unknown"})
  <2>1. year_bounds(None) = UnknownBounds
    BY Zenon DEF year_bounds
  <2> QED BY <2>1 DEF UnknownBounds, MkBounds, Touches, Unknown
<1>5. ASSUME NEW r, r # None PROVE ~Touches(year_bounds(r), {"Unknown"})
  <2>1. year_bounds(r) = WholeYears(Get(r)[1], Get(r)[2])
    BY <1>5, Zenon DEF year_bounds
  <2> QED BY <2>1 DEF WholeYears, MkBounds, DayBound, Touches
<1> HIDE DEF sig, v, range
<1>6. CASE sig # None /\ (v = None \/ range = None)
  BY <1>1, <1>2, <1>3, <1>4, <1>6, SomeFacts, Zenon DEF sig
<1>7. CASE ~(sig # None /\ (v = None \/ range = None))
  <2>1. date_error(d) = None
    BY <1>1, <1>7, Zenon
  <2>2. sig # None => date_range(d.year) # None
    BY <1>2, <1>7, Zenon
  <2> QED BY <1>3, <1>5, <2>1, <2>2, Zenon DEF sig
<1> QED BY <1>6, <1>7

(* A date whose year leaves i64 has unknown bounds, unless it is masked.   *)
LEMMA YearLost ==
  ASSUME NEW d, IsDateRecord(d), ~has_unspecified(d), year_of(d.year.kind) = None
  PROVE  date_bounds(d) = UnknownBounds
<1>1. d.year.kind.form # "Standard"
  <2>1. SUFFICES ASSUME d.year.kind.form = "Standard" PROVE FALSE
    OBVIOUS
  <2>2. ~has_x(d.year.kind.digits)
    BY <2>1 DEF has_unspecified
  <2>3. year_of(d.year.kind) = Some((IF d.year.kind.negative THEN -1 ELSE 1) * year_value(d.year.kind.digits, 0))
    BY <2>1, <2>2, Zenon DEF year_of
  <2> QED BY <2>3, SomeFacts
<1>2. date_range(d.year) = None
  BY Zenon DEF date_range
<1>3. date_bounds(d) = year_bounds(None)
  BY <1>1, <1>2, Zenon DEF date_bounds
<1> QED BY <1>3, Zenon DEF year_bounds

-----------------------------------------------------------------------------
(* The bounds of an element, by its kind.                                  *)
LEMMA ElementBoundsByKind ==
  ASSUME NEW e
  PROVE  /\ e.kind = "Date" => element_bounds(e) = MkBounds(date_bounds(e.date).earliest, date_bounds(e.date).latest)
         /\ e.kind = "Range" => element_bounds(e) = MkBounds(date_bounds(e.date).earliest, date_bounds(e.to).latest)
         /\ e.kind = "OnOrBefore" => element_bounds(e).earliest = NegInf
         /\ e.kind = "OnOrAfter" => element_bounds(e).latest = PosInf
<1> DEFINE b == date_bounds(e.date)
           lo == IF e.kind = "OnOrBefore" THEN NegInf ELSE b.earliest
           hi == CASE e.kind = "OnOrAfter" -> PosInf
                   [] e.kind = "Range" -> date_bounds(e.to).latest
                   [] e.kind \in {"Date", "OnOrBefore"} -> b.latest
<1>1. element_bounds(e) = MkBounds(lo, hi)
  BY DEF element_bounds
<1>2. e.kind = "Date" => lo = b.earliest /\ hi = b.latest
  BY Zenon
<1>3. e.kind = "Range" => lo = b.earliest /\ hi = date_bounds(e.to).latest
  <2> SUFFICES ASSUME e.kind = "Range" PROVE lo = b.earliest /\ hi = date_bounds(e.to).latest
    OBVIOUS
  <2>1. e.kind # "OnOrAfter" /\ e.kind # "Date" /\ e.kind # "OnOrBefore"
    OBVIOUS
  <2> QED BY <2>1, Zenon
<1>4. e.kind = "OnOrBefore" => lo = NegInf
  BY Zenon
<1>5. e.kind = "OnOrAfter" => hi = PosInf
  BY Zenon
<1> HIDE DEF lo, hi, b
<1> QED BY <1>1, <1>2, <1>3, <1>4, <1>5 DEF MkBounds, b

(* What an element's error says of its bounds.                             *)
Walkable(e) == /\ ~Touches(element_bounds(e), Infinite)
               /\ Swept(e) => ~Touches(element_bounds(e), {"Unknown"})

Unbounded(e) == element_bounds(e).earliest = NegInf \/ element_bounds(e).latest = PosInf
Overflows(e) == Swept(e) /\ Touches(element_bounds(e), {"Unknown"})

(* A date is walked or overflows, and its bounds tell which.               *)
LEMMA DateElementErrors ==
  ASSUME NEW e, e.kind = "Date"
  PROVE  \/ date_error(e.date) = None /\ Walkable(e)
         \/ date_error(e.date) = Some("YearRangeOverflow") /\ Overflows(e)
<1>1. /\ element_bounds(e).earliest = date_bounds(e.date).earliest
      /\ element_bounds(e).latest = date_bounds(e.date).latest
  BY ElementBoundsByKind DEF MkBounds
<1>2. \A S : Touches(element_bounds(e), S) <=> Touches(date_bounds(e.date), S)
  BY <1>1 DEF Touches
<1>3. Swept(e) <=> e.date.year.significant_digits # None
  BY DEF Swept
<1> QED BY <1>2, <1>3, DatesAreFinite, DateErrors, Zenon DEF Walkable, Overflows

(* So with a range, by the years of its endpoints.                         *)
LEMMA RangeElementErrors ==
  ASSUME NEW e, e.kind = "Range", IsElement(e), parse_set_element(e), range_agrees(e)
  PROVE  IF year_of(e.date.year.kind) = None \/ year_of(e.to.year.kind) = None
         THEN Overflows(e) ELSE Walkable(e)
<1>1. /\ element_bounds(e).earliest = date_bounds(e.date).earliest
      /\ element_bounds(e).latest = date_bounds(e.to).latest
  BY ElementBoundsByKind DEF MkBounds
<1>2. Swept(e)
  BY DEF Swept
<1>3. /\ check_range_endpoint(e.date) /\ check_range_endpoint(e.to)
      /\ ~has_unspecified(e.date) /\ ~has_unspecified(e.to)
      /\ IsDateRecord(e.date) /\ IsDateRecord(e.to) /\ ValidDate(e.date) /\ ValidDate(e.to)
  BY DEF range_agrees, check_range_endpoint, IsElement, parse_set_element
<1>4. CASE year_of(e.date.year.kind) = None
  <2>1. date_bounds(e.date) = UnknownBounds
    BY <1>3, <1>4, YearLost
  <2>2. element_bounds(e).earliest.at = "Unknown"
    BY <1>1, <2>1 DEF UnknownBounds, MkBounds, Unknown
  <2> QED BY <1>2, <1>4, <2>2 DEF Overflows, Touches
<1>5. CASE year_of(e.to.year.kind) = None
  <2>1. date_bounds(e.to) = UnknownBounds
    BY <1>3, <1>5, YearLost
  <2>2. element_bounds(e).latest.at = "Unknown"
    BY <1>1, <2>1 DEF UnknownBounds, MkBounds, Unknown
  <2> QED BY <1>2, <1>5, <2>2 DEF Overflows, Touches
<1>6. CASE year_of(e.date.year.kind) # None /\ year_of(e.to.year.kind) # None
  <2>1. \E s, t : date_bounds(e.date) = MkBounds(DayBound(s), DayBound(t))
    BY <1>3, <1>6, PlainDate
  <2>2. \E s, t : date_bounds(e.to) = MkBounds(DayBound(s), DayBound(t))
    BY <1>3, <1>6, PlainDate
  <2>3. element_bounds(e).earliest.at = "Day" /\ element_bounds(e).latest.at = "Day"
    BY <1>1, <2>1, <2>2 DEF MkBounds, DayBound
  <2> QED BY <1>6, <2>3 DEF Walkable, Touches, Infinite
<1> QED BY <1>4, <1>5, <1>6

(* An element is walked, overflows or is unbounded, and its bounds tell    *)
(* which.                                                                  *)
LEMMA ElementErrors ==
  ASSUME NEW e, IsElement(e), parse_set_element(e), range_agrees(e)
  PROVE  \/ element_error(e) = None /\ Walkable(e)
         \/ element_error(e) = Some("YearRangeOverflow") /\ Overflows(e)
         \/ element_error(e) = Some("UnboundedSetElement") /\ Unbounded(e)
<1>1. CASE e.kind = "Date"
  <2>1. element_error(e) = date_error(e.date)
    BY <1>1, Zenon DEF element_error
  <2> QED BY <1>1, <2>1, DateElementErrors
<1>2. CASE e.kind = "Range"
  <2>1. element_error(e) = IF year_of(e.date.year.kind) = None \/ year_of(e.to.year.kind) = None
                           THEN Some("YearRangeOverflow") ELSE None
    <3>1. e.kind # "Date" /\ e.kind \notin {"OnOrBefore", "OnOrAfter"}
      BY <1>2
    <3> QED BY <1>2, <3>1, Zenon DEF element_error
  <2> QED BY <1>2, <2>1, RangeElementErrors
<1>3. CASE e.kind \in {"OnOrBefore", "OnOrAfter"}
  <2>1. element_error(e) = Some("UnboundedSetElement")
    <3>1. e.kind # "Date" /\ e.kind # "Range"
      BY <1>3
    <3> QED BY <1>3, <3>1, Zenon DEF element_error
  <2> QED BY <1>3, <2>1, ElementBoundsByKind DEF Unbounded
<1> QED BY <1>1, <1>2, <1>3 DEF IsElement

-----------------------------------------------------------------------------
(* What the outcome of values() says of the expression's bounds.           *)
Enumerable(x) == \A e \in ElementsOf(x) : Walkable(e)

Explained(x, error) ==
  \/ error = "YearRangeOverflow" /\ \E e \in ElementsOf(x) : Overflows(e)
  \/ error = "UnboundedSetElement" /\ Touches(bounds(x), Infinite)
  \/ error = "Interval" /\ x.type = "Interval"

(* The outcome of values() on a date is what its bounds tell.              *)
LEMMA DateExplained ==
  ASSUME NEW x, x.type = "Date"
  PROVE  \/ Unenumerable(x) = None /\ Enumerable(x)
         \/ \E error : Unenumerable(x) = Some(error) /\ Explained(x, error)
<1> DEFINE e == At(x.date)
<1>0. x.type # "Interval" /\ x.type # "DateTime" /\ x.type # "Set"
  OBVIOUS
<1>1. Unenumerable(x) = date_error(x.date)
  BY <1>0, Zenon DEF Unenumerable
<1>2. ElementsOf(x) = {e}
  BY <1>0, Zenon DEF ElementsOf
<1>3. e.kind = "Date" /\ e.date = x.date
  BY DEF At
<1> HIDE DEF e
<1>4. \/ date_error(x.date) = None /\ Walkable(e)
      \/ date_error(x.date) = Some("YearRangeOverflow") /\ Overflows(e)
  BY <1>3, DateElementErrors
<1>5. CASE date_error(x.date) = None /\ Walkable(e)
  BY <1>1, <1>2, <1>5 DEF Enumerable
<1>6. CASE date_error(x.date) = Some("YearRangeOverflow") /\ Overflows(e)
  <2>1. Explained(x, "YearRangeOverflow")
    BY <1>2, <1>6 DEF Explained
  <2> QED BY <1>1, <1>6, <2>1
<1> QED BY <1>4, <1>5, <1>6

(* So is its outcome on a set.                                             *)
LEMMA SetExplained ==
  ASSUME NEW x, x.type = "Set", IsExpr(x), Accepted(x)
  PROVE  \/ Unenumerable(x) = None /\ Enumerable(x)
         \/ \E error : Unenumerable(x) = Some(error) /\ Explained(x, error)
<1> DEFINE n == Len(x.elements)
           el(i) == x.elements[i]
           tries == [i \in DOMAIN x.elements |-> element_error(el(i))]
<1>0. x.type # "Interval" /\ x.type # "DateTime" /\ x.type # "Date"
  OBVIOUS
<1>1. Unenumerable(x) = find_map(tries)
  BY <1>0, Zenon DEF Unenumerable
<1>2. n \in Nat /\ DOMAIN x.elements = 1..n /\ \A i \in 1..n : IsElement(el(i))
  BY DEF IsExpr
<1>3. parse_set(x.elements)
  BY <1>0, Zenon DEF Accepted
<1>4. \A i \in 1..n : parse_set_element(el(i)) /\ range_agrees(el(i))
  BY <1>2, <1>3 DEF parse_set, elements_agree
<1>5. ElementsOf(x) = {el(i) : i \in 1..n}
  BY <1>2, Zenon DEF ElementsOf
<1>6. bounds(x) = set_bounds(x.elements)
  BY <1>0, Zenon DEF bounds
<1>7. DOMAIN tries = 1..n /\ \A i \in 1..n : tries[i] = element_error(el(i))
  BY <1>2
<1>8. \A i \in 1..n : WellFormed(element_bounds(el(i)))
  BY <1>2, <1>4, ElementWellFormed
<1> HIDE DEF n, tries
<1>9. \A i \in 1..n : \/ tries[i] = None /\ Walkable(el(i))
                      \/ tries[i] = Some("YearRangeOverflow") /\ Overflows(el(i))
                      \/ tries[i] = Some("UnboundedSetElement") /\ Unbounded(el(i))
  BY <1>2, <1>4, <1>7, ElementErrors
<1>10. CASE find_map(tries) = None /\ \A i \in DOMAIN tries : tries[i] = None
  <2>1. \A i \in 1..n : Walkable(el(i))
    BY <1>7, <1>9, <1>10, SomeFacts
  <2> QED BY <1>1, <1>5, <1>10, <2>1 DEF Enumerable
<1>11. ASSUME NEW i \in 1..n, find_map(tries) = tries[i], tries[i] # None
       PROVE  \E error : Unenumerable(x) = Some(error) /\ Explained(x, error)
  <2>1. CASE tries[i] = Some("YearRangeOverflow") /\ Overflows(el(i))
    <3>1. Explained(x, "YearRangeOverflow")
      BY <1>5, <2>1 DEF Explained
    <3> QED BY <1>1, <1>11, <2>1, <3>1
  <2>2. CASE tries[i] = Some("UnboundedSetElement") /\ Unbounded(el(i))
    <3>1. bounds(x).earliest = NegInf \/ bounds(x).latest = PosInf
      <4>1. Len(x.elements) = n
        BY DEF n
      <4> QED BY <1>2, <1>6, <1>8, <2>2, <4>1, InfinityReachesHull DEF Unbounded
    <3>2. Explained(x, "UnboundedSetElement")
      BY <3>1 DEF Explained, Touches, Infinite, NegInf, PosInf
    <3> QED BY <1>1, <1>11, <2>2, <3>2
  <2> QED BY <1>9, <1>11, <2>1, <2>2
<1>12. DOMAIN tries \subseteq Nat
  BY <1>2, <1>7
<1> QED BY <1>7, <1>10, <1>11, <1>12, FoundFirst

(* So is its outcome on every accepted expression.                         *)
LEMMA OutcomeExplained ==
  ASSUME NEW x, IsExpr(x), Accepted(x)
  PROVE  \/ Unenumerable(x) = None /\ Enumerable(x)
         \/ \E error : Unenumerable(x) = Some(error) /\ Explained(x, error)
<1>1. CASE x.type = "Interval"
  <2>1. Unenumerable(x) = Some("Interval")
    BY <1>1, Zenon DEF Unenumerable
  <2> QED BY <1>1, <2>1 DEF Explained
<1>2. CASE x.type = "DateTime"
  <2>0. x.type # "Set" /\ x.type # "Date" /\ x.type # "Interval"
    BY <1>2
  <2>1. Unenumerable(x) = None
    BY <1>2, <2>0, Zenon DEF Unenumerable
  <2>2. ElementsOf(x) = {}
    BY <2>0, Zenon DEF ElementsOf
  <2> QED BY <2>1, <2>2 DEF Enumerable
<1> QED BY <1>1, <1>2, DateExplained, SetExplained DEF IsExpr

(* For every accepted expression: construction succeeds only where every   *)
(* element is bounded and every sweep has known bounds, and the error it   *)
(* fails with is one the bounds show (enumerate.rs against bounds.rs).     *)
THEOREM ErrorsAgree == TracedSpec => []ErrorsAgreeWithBounds
<1>1. IInv => ErrorsAgreeWithBounds
  <2> SUFFICES ASSUME IInv PROVE ErrorsAgreeWithBounds
    OBVIOUS
  <2>1. IsExpr(expr) /\ Accepted(expr)
    BY ExprsAssumption DEF IInv
  <2>2. CASE pc \in {"idle", "running"}
    <3>1. Unenumerable(expr) = None
      BY <2>2 DEF IInv
    <3>2. Enumerable(expr)
      BY <2>1, <3>1, OutcomeExplained, SomeFacts
    <3> QED BY <2>2, <3>2 DEF ErrorsAgreeWithBounds, Enumerable, Walkable, Infinite
  <2>3. CASE pc = "failed"
    <3>1. Unenumerable(expr) # None /\ item = Failed(Get(Unenumerable(expr)))
      BY <2>3 DEF IInv
    <3>2. PICK error : Unenumerable(expr) = Some(error) /\ Explained(expr, error)
      BY <2>1, <3>1, OutcomeExplained
    <3>3. item.error = error
      BY <3>1, <3>2, SomeFacts DEF Failed
    <3> DEFINE Verdict ==
           CASE item.error = "YearRangeOverflow" ->
                  \E e \in ElementsOf(expr) : Swept(e) /\ Touches(element_bounds(e), {"Unknown"})
             [] item.error = "UnboundedSetElement" -> Touches(bounds(expr), {"NegInf", "PosInf"})
             [] item.error = "Interval" -> expr.type = "Interval"
    <3>4. Verdict
      <4>1. CASE error = "YearRangeOverflow" /\ \E e \in ElementsOf(expr) : Overflows(e)
        <5>1. item.error # "UnboundedSetElement" /\ item.error # "Interval"
          BY <3>3, <4>1
        <5> QED BY <3>3, <4>1, <5>1, Zenon DEF Overflows
      <4>2. CASE error = "UnboundedSetElement" /\ Touches(bounds(expr), Infinite)
        <5>1. item.error # "YearRangeOverflow" /\ item.error # "Interval"
          BY <3>3, <4>2
        <5> QED BY <3>3, <4>2, <5>1, Zenon DEF Infinite
      <4>3. CASE error = "Interval" /\ expr.type = "Interval"
        <5>1. item.error # "YearRangeOverflow" /\ item.error # "UnboundedSetElement"
          BY <3>3, <4>3
        <5> QED BY <3>3, <4>3, <5>1, Zenon
      <4> QED BY <3>2, <4>1, <4>2, <4>3 DEF Explained
    <3> QED BY <2>3, <3>4 DEF ErrorsAgreeWithBounds
  <2>4. CASE pc = "new"
    BY <2>4 DEF ErrorsAgreeWithBounds
  <2> QED BY <2>2, <2>3, <2>4 DEF IInv
<1> QED BY <1>1, IInvAlways, TracedIsSpec, PTL

-----------------------------------------------------------------------------
(* Positions.  A date written out from numbers stands where the numbers    *)
(* say (YearReadBack, FieldReadBack).                                      *)

(* The date a walker writes at a position, in one of three shapes.         *)
Fits(v, shown) == IF shown THEN v \in 0..99 ELSE v = 0
Slotted(v, shown, q) == IF shown THEN Some(concrete_field(v, q)) ELSE None

(* A date written from three numbers stands at their position.             *)
LEMMA WhereWritten ==
  ASSUME NEW y \in Int, NEW m, NEW d, NEW withMonth \in BOOLEAN, NEW withDay \in BOOLEAN,
         Fits(m, withMonth), Fits(d, withDay),
         NEW yq, NEW mq, NEW dq
  PROVE  position(DateOf(concrete_year(y, yq), Slotted(m, withMonth, mq), Slotted(d, withDay, dq)))
           = Some(<<y, m, d>>)
<1> DEFINE v == DateOf(concrete_year(y, yq), Slotted(m, withMonth, mq), Slotted(d, withDay, dq))
<1>1. /\ v.date.year = concrete_year(y, yq)
      /\ v.date.month = Slotted(m, withMonth, mq)
      /\ v.date.day = Slotted(d, withDay, dq)
  BY DEF DateOf, DateExpr, Date
<1> HIDE DEF v
<1>2. slot_value(None) = None
  BY DEF slot_value, IsSome
<1>3. SlotNumber(v.date.month) = m
  <2>1. CASE withMonth
    BY <1>1, <2>1, FieldReadBack, SomeFacts DEF Fits, Slotted, SlotNumber
  <2>2. CASE ~withMonth
    BY <1>1, <1>2, <2>2 DEF Fits, Slotted, SlotNumber
  <2> QED BY <2>1, <2>2
<1>4. SlotNumber(v.date.day) = d
  <2>1. CASE withDay
    BY <1>1, <2>1, FieldReadBack, SomeFacts DEF Fits, Slotted, SlotNumber
  <2>2. CASE ~withDay
    BY <1>1, <1>2, <2>2 DEF Fits, Slotted, SlotNumber
  <2> QED BY <2>1, <2>2
<1>5. year_of(v.date.year.kind) = Some(y)
  BY <1>1, YearReadBack
<1>6. position(v) = IF year_of(v.date.year.kind) = None THEN None
                    ELSE Some(<<Get(year_of(v.date.year.kind)), SlotNumber(v.date.month), SlotNumber(v.date.day)>>)
  BY DEF position, SlotNumber
<1>7. position(v) = Some(<<y, m, d>>)
  BY <1>3, <1>4, <1>5, <1>6, SomeFacts
<1> QED BY <1>7 DEF v

-----------------------------------------------------------------------------
(* What is owed of one element's values P once `past' is the position of   *)
(* the last one handed out (None before the first).                        *)
OwedOf(P, past) ==
  {v \in P : \/ past = None
             \/ /\ Get(past) # None /\ position(v) # None
                /\ Before(Get(Get(past)), Get(position(v)))}

(* Every value of an element has a position, or it is alone: only a date   *)
(* written with a year beyond i64 has none, and it is not swept.           *)
Placed(P) == \/ \A v \in P : \E t \in Triples : position(v) = Some(t)
             \/ \E v : P = {v} /\ position(v) = None

Foremost(v, R) == v \in R /\ \A u \in R \ {v} : Before(Get(position(v)), Get(position(u)))

(* The values still owed after the least of them is handed out are the     *)
(* others: the order of positions loses none and repeats none.             *)
LEMMA OwedAfter ==
  ASSUME NEW P, Placed(P), NEW past, past = None \/ \E u \in P : past = Some(position(u)),
         NEW v, Foremost(v, OwedOf(P, past))
  PROVE  OwedOf(P, Some(position(v))) = OwedOf(P, past) \ {v}
<1> DEFINE R == OwedOf(P, past)
           After(u) == position(v) # None /\ position(u) # None /\ Before(Get(position(v)), Get(position(u)))
<1>1. v \in P /\ v \in R /\ R \subseteq P
  BY DEF Foremost, OwedOf
<1>2. \A u : u \in OwedOf(P, Some(position(v))) <=> u \in P /\ After(u)
  BY SomeFacts, Zenon DEF OwedOf
<1>3. CASE \A u \in P : \E t \in Triples : position(u) = Some(t)
  <2>1. ASSUME NEW u \in P PROVE Get(position(u)) \in Triples /\ position(u) # None
    <3>1. PICK t \in Triples : position(u) = Some(t)
      BY <1>3
    <3> QED BY <3>1, SomeFacts
  <2>2. ASSUME NEW u \in R, u # v PROVE After(u)
    BY <1>1, <2>1, <2>2 DEF Foremost
  <2>3. ~After(v)
    BY <1>1, <2>1, OrderTotal
  <2>4. ASSUME NEW u \in P, After(u) PROVE u \in R
    <3>1. CASE past = None
      BY <3>1 DEF OwedOf
    <3>2. CASE past # None
      <4>1. PICK x \in P : past = Some(position(x))
        BY <3>2
      <4>2. Get(past) = position(x)
        BY <4>1, SomeFacts
      <4>3. Before(Get(position(x)), Get(position(v)))
        BY <1>1, <3>2, <4>2 DEF OwedOf
      <4>4. Before(Get(position(x)), Get(position(u)))
        BY <1>1, <2>1, <2>4, <4>3, OrderTransitive
      <4> QED BY <2>1, <4>2, <4>4 DEF OwedOf
    <3> QED BY <3>1, <3>2
  <2> HIDE DEF After, R
  <2>5. \A u : u \in OwedOf(P, Some(position(v))) <=> u \in R \ {v}
    BY <1>1, <1>2, <2>2, <2>3, <2>4
  <2>6. OwedOf(P, Some(position(v))) = R \ {v}
    BY <2>5, Zenon
  <2> QED BY <2>6 DEF R
<1>4. CASE \E u : P = {u} /\ position(u) = None
  <2>1. P = {v} /\ position(v) = None
    BY <1>1, <1>4
  <2>2. OwedOf(P, Some(position(v))) = {}
    BY <1>2, <2>1
  <2>3. R \ {v} = {}
    BY <1>1, <2>1
  <2> QED BY <2>2, <2>3
<1> QED BY <1>3, <1>4 DEF Placed

-----------------------------------------------------------------------------
(* What a walker has yet to hand out, read off its fields.                 *)
YearItem(q, y) == DateOf(concrete_year(y, q), None, None)

PlaceItem(p, t) ==
  DateOf(concrete_year(t[1], {}), Slotted(t[2], p # "Year", {}), Slotted(t[3], p = "Day", {}))

(* The odometer's counters make a tick; a tick shows a position, and one   *)
(* that shows no day of the calendar is passed over.                       *)
Marks(slot) == IF slot = None THEN 1 ELSE Len(Get(slot))
ShownMonth(w, c) == IF w.months = None THEN 0 ELSE Get(w.months)[c[2] + 1]
ShownDay(w, c) == IF w.days = None THEN 0 ELSE Get(w.days)[c[3] + 1]
Shows(w, c) == <<year_at(w.year, c[1]), ShownMonth(w, c), ShownDay(w, c)>>

Ticks(w) == {c \in Nat \X Nat \X Nat :
               /\ c[1] < w.year_count /\ c[2] < Marks(w.months) /\ c[3] < Marks(w.days)
               /\ w.days = None \/ IsDay(Shows(w, c))}
Now(w) == <<w.yi, w.mi, w.di>>
Ahead(w) == {c \in Ticks(w) : AtMost(Now(w), c)}

TickItem(w, c) ==
  DateOf(concrete_year(year_at(w.year, c[1]), w.yq),
         Slotted(ShownMonth(w, c), w.months # None, w.mq),
         Slotted(ShownDay(w, c), w.days # None, w.dq))

Remaining(w) ==
  CASE w.walk = "Singleton" -> IF w.left = None THEN {} ELSE {Get(w.left)}
    [] w.walk = "Sweep" -> IF w.done THEN {} ELSE {YearItem(w.qualifier, y) : y \in w.cur..w.hi}
    [] w.walk = "Range" -> IF w.done THEN {}
                           ELSE {PlaceItem(w.precision, t) :
                                   t \in {t \in Position(w.precision, I64Years) :
                                            AtMost(w.cur, t) /\ AtMost(t, w.end)}}
    [] w.walk = "Masked" -> {TickItem(w, c) : c \in Ahead(w)}

(* What is left of a walker, kind by kind.                                 *)
LEMMA RemainingByKind ==
  ASSUME NEW w
  PROVE  /\ w.walk = "Singleton" => Remaining(w) = IF w.left = None THEN {} ELSE {Get(w.left)}
         /\ w.walk = "Sweep" =>
              Remaining(w) = IF w.done THEN {} ELSE {YearItem(w.qualifier, y) : y \in w.cur..w.hi}
         /\ w.walk = "Range" =>
              Remaining(w) = IF w.done THEN {}
                             ELSE {PlaceItem(w.precision, t) :
                                     t \in {t \in Position(w.precision, I64Years) :
                                              AtMost(w.cur, t) /\ AtMost(t, w.end)}}
         /\ w.walk = "Masked" => Remaining(w) = {TickItem(w, c) : c \in Ahead(w)}
<1>1. /\ w.walk = "Sweep" => w.walk # "Singleton"
      /\ w.walk = "Range" => w.walk # "Singleton" /\ w.walk # "Sweep"
      /\ w.walk = "Masked" => w.walk # "Singleton" /\ w.walk # "Sweep" /\ w.walk # "Range"
  OBVIOUS
<1> QED BY <1>1, Zenon DEF Remaining

(* A walker w that hands out v and becomes u.                              *)
Gives(w, v, u) == Foremost(v, Remaining(w)) /\ Remaining(u) = Remaining(w) \ {v}

(* A singleton hands out its value and has nothing left.                   *)
LEMMA SingletonGives ==
  ASSUME NEW w, Keeps(w), w.walk = "Singleton", w.left # None
  PROVE  Gives(w, Get(w.left), [w EXCEPT !.left = None])
<1> DEFINE u == [w EXCEPT !.left = None]
<1>1. u.walk = "Singleton" /\ u.left = None
  BY KeptByKind DEF SingletonKeeps, SingletonFields
<1> HIDE DEF u
<1>2. Remaining(u) = {} /\ Remaining(w) = {Get(w.left)}
  BY <1>1, RemainingByKind
<1>3. Gives(w, Get(w.left), u)
  BY <1>2 DEF Gives, Foremost
<1> QED BY <1>3 DEF u

(* Singletons, drained sweeps and drained ranges have nothing left.        *)
LEMMA SpentHaveNothing ==
  ASSUME NEW w
  PROVE  /\ w.walk = "Singleton" /\ w.left = None => Remaining(w) = {}
         /\ w.walk = "Sweep" /\ w.done => Remaining(w) = {}
         /\ w.walk = "Range" /\ w.done => Remaining(w) = {}
BY RemainingByKind

(* A year of a sweep stands at that year.                                  *)
LEMMA YearItemPlace ==
  ASSUME NEW y \in Int, NEW q
  PROVE  position(YearItem(q, y)) = Some(<<y, 0, 0>>)
<1>1. YearItem(q, y) = DateOf(concrete_year(y, q), Slotted(0, FALSE, {}), Slotted(0, FALSE, {}))
  BY DEF YearItem, Slotted
<1>2. ASSUME NEW b \in BOOLEAN, ~b
      PROVE  position(DateOf(concrete_year(y, q), Slotted(0, b, {}), Slotted(0, b, {}))) = Some(<<y, 0, 0>>)
  <2>1. Fits(0, b)
    BY DEF Fits
  <2> QED BY <2>1, WhereWritten
<1> QED BY <1>1, <1>2, Zenon

(* A sweep hands out its least year and keeps the later ones.              *)
LEMMA SweepGives ==
  ASSUME NEW w, Keeps(w), w.walk = "Sweep", ~w.done
  PROVE  Gives(w, SweepItem(w), IF w.cur = w.hi THEN [w EXCEPT !.done = TRUE] ELSE [w EXCEPT !.cur = @ + 1])
<1> DEFINE u == IF w.cur = w.hi THEN [w EXCEPT !.done = TRUE] ELSE [w EXCEPT !.cur = @ + 1]
           I(y) == YearItem(w.qualifier, y)
           c == w.cur
           h == w.hi
<1>1. /\ DOMAIN w = SweepFields /\ c \in Int /\ h \in Int /\ c <= h
  <2>1. I64Years \subseteq Int
    BY Numbers
  <2>2. DOMAIN w = SweepFields /\ c \in I64Years /\ h \in I64Years /\ c <= h
    BY KeptByKind DEF SweepKeeps
  <2> QED BY <2>1, <2>2, Zenon
<1>2. SweepItem(w) = I(c)
  BY DEF SweepItem, YearItem
<1>3. Remaining(w) = {I(y) : y \in c..h}
  BY RemainingByKind
<1>4. Remaining(u) = {I(y) : y \in (c + 1)..h}
  <2>1. CASE c = h
    <3>1. u.walk = "Sweep" /\ u.done
      BY <1>1, <2>1 DEF SweepFields
    <3> HIDE DEF u, I
    <3>2. Remaining(u) = {} /\ (c + 1)..h = {}
      BY <1>1, <2>1, <3>1, SpentHaveNothing
    <3> QED BY <3>2
  <2>2. CASE c # h
    <3>1. u.walk = "Sweep" /\ ~u.done /\ u.cur = c + 1 /\ u.hi = h /\ u.qualifier = w.qualifier
      BY <1>1, <2>2 DEF SweepFields
    <3> HIDE DEF u
    <3> QED BY <3>1, RemainingByKind
  <2> QED BY <2>1, <2>2
<1> HIDE DEF u
<1>5. ASSUME NEW y \in c..h, y # c
      PROVE  Before(Get(position(I(c))), Get(position(I(y)))) /\ I(y) # I(c)
  <2>1. position(I(y)) = Some(<<y, 0, 0>>) /\ position(I(c)) = Some(<<c, 0, 0>>)
    BY <1>1, YearItemPlace
  <2> HIDE DEF I
  <2>2. Get(position(I(y))) = <<y, 0, 0>> /\ Get(position(I(c))) = <<c, 0, 0>>
    BY <2>1, SomeFacts
  <2>3. c < y
    BY <1>1, <1>5
  <2> QED BY <1>1, <2>2, <2>3 DEF Before
<1> HIDE DEF I
<1>6. c \in c..h /\ \A y \in c..h : y = c \/ y \in (c + 1)..h
  BY <1>1
<1>7. \A y \in (c + 1)..h : y \in c..h /\ y # c
  BY <1>1
<1>8. Remaining(u) = Remaining(w) \ {I(c)}
  BY <1>3, <1>4, <1>5, <1>6, <1>7, Zenon
<1>9. Foremost(I(c), Remaining(w))
  BY <1>3, <1>5, <1>6, Zenon DEF Foremost
<1> QED BY <1>2, <1>8, <1>9 DEF Gives, u

(* The places of a range that lie at or after its cursor.                  *)
PlacesFrom(w) == {t \in Position(w.precision, I64Years) : AtMost(w.cur, t) /\ AtMost(t, w.end)}

(* A date of a range walk stands at the place it is written from.          *)
LEMMA PlaceItemPlace ==
  ASSUME NEW p \in Precisions, NEW t \in Position(p, I64Years)
  PROVE  position(PlaceItem(p, t)) = Some(t) /\ t \in Triples
<1>1. I64Years \subseteq Int
  BY Numbers
<1>2. t \in Triples /\ t = <<t[1], t[2], t[3]>> /\ t[1] \in Int /\ t[2] \in 0..12 /\ t[3] \in 0..31
  BY <1>1, PositionIsTriple, Zenon
<1>3. /\ p = "Year" => t[2] = 0
      /\ p # "Day" => t[3] = 0
  BY DEF Position, Precisions
<1> DEFINE a == p # "Year"
           b == p = "Day"
<1>4. Fits(t[2], a) /\ Fits(t[3], b)
  BY <1>2, <1>3 DEF Fits
<1>5. PlaceItem(p, t) = DateOf(concrete_year(t[1], {}), Slotted(t[2], a, {}), Slotted(t[3], b, {}))
  BY DEF PlaceItem
<1>6. a \in BOOLEAN /\ b \in BOOLEAN
  OBVIOUS
<1> HIDE DEF a, b
<1>7. position(PlaceItem(p, t)) = Some(<<t[1], t[2], t[3]>>)
  BY <1>2, <1>4, <1>5, <1>6, WhereWritten
<1> QED BY <1>2, <1>7

(* A range walk hands out its least place; the successor drops no other.   *)
LEMMA RangeGives ==
  ASSUME NEW w, Keeps(w), w.walk = "Range", ~w.done
  PROVE  Gives(w, RangeItem(w), IF w.cur = w.end THEN [w EXCEPT !.done = TRUE]
                                ELSE [w EXCEPT !.cur = successor(w.precision, w.cur)])
<1> DEFINE u == IF w.cur = w.end THEN [w EXCEPT !.done = TRUE]
                ELSE [w EXCEPT !.cur = successor(w.precision, w.cur)]
           c == w.cur
           p == w.precision
           I(t) == PlaceItem(p, t)
<1>1. /\ DOMAIN w = RangeFields /\ p \in Precisions
      /\ c \in Position(p, I64Years) /\ w.end \in Position(p, I64Years) /\ AtMost(c, w.end)
  BY KeptByKind DEF RangeKeeps
<1>2. RangeItem(w) = I(c)
  BY DEF RangeItem, PlaceItem, Slotted
<1>3. Remaining(w) = {I(t) : t \in PlacesFrom(w)}
  BY RemainingByKind DEF PlacesFrom
<1>4. ASSUME NEW t \in Position(p, I64Years)
      PROVE  /\ t \in Triples /\ Get(position(I(t))) = t
             /\ t \in Position(p, Int)
  <2>1. t \in Triples /\ position(I(t)) = Some(t)
    BY <1>1, PlaceItemPlace
  <2>2. t \in Position(p, Int)
    BY Numbers, PositionIsTriple
  <2> HIDE DEF I
  <2> QED BY <2>1, <2>2, SomeFacts
<1>5. c \in PlacesFrom(w) /\ \A t \in PlacesFrom(w) : t \in Position(p, I64Years) /\ (t = c \/ Before(c, t))
  BY <1>1 DEF PlacesFrom, AtMost
<1>6. Remaining(u) = {I(t) : t \in PlacesFrom(w) \ {c}}
  <2>1. CASE c = w.end
    <3>1. u.walk = "Range" /\ u.done
      BY <1>1, <2>1 DEF RangeFields
    <3> HIDE DEF u, I
    <3>2. Remaining(u) = {}
      BY <3>1, SpentHaveNothing
    <3>3. PlacesFrom(w) \ {c} = {}
      <4>1. ASSUME NEW t \in PlacesFrom(w), Before(c, t) PROVE FALSE
        <5>1. t \in Triples /\ c \in Triples /\ AtMost(t, c)
          BY <1>1, <1>4, <2>1 DEF PlacesFrom
        <5> QED BY <4>1, <5>1, OrderTotal DEF AtMost
      <4> QED BY <1>5, <4>1
    <3> QED BY <3>2, <3>3
  <2>2. CASE c # w.end
    <3> DEFINE s == successor(p, c)
    <3>0. Before(c, w.end)
      BY <1>1, <2>2 DEF AtMost
    <3>1. u.walk = "Range" /\ ~u.done /\ u.cur = s /\ u.end = w.end /\ u.precision = p
      BY <1>1, <2>2 DEF RangeFields
    <3>2. s \in Position(p, I64Years)
      BY <1>1, <3>0, SuccessorWithin, Numbers DEF I64Years
    <3> HIDE DEF u
    <3>3. Remaining(u) = {I(t) : t \in PlacesFrom(u)}
      BY <3>1, RemainingByKind DEF PlacesFrom
    <3>4. ASSUME NEW t \in Position(p, I64Years) PROVE AtMost(s, t) <=> (AtMost(c, t) /\ t # c)
      <4>1. Before(t, s) <=> AtMost(t, c)
        BY <1>1, <1>4, SuccessorIsNext
      <4>2. t \in Triples /\ s \in Triples /\ c \in Triples
        BY <1>1, <1>4, <3>2
      <4> HIDE DEF s, c
      <4> QED BY <4>1, <4>2, OrderTotal DEF AtMost
    <3>5. PlacesFrom(u) = PlacesFrom(w) \ {c}
      BY <3>1, <3>4 DEF PlacesFrom
    <3> QED BY <3>3, <3>5
  <2> QED BY <2>1, <2>2
<1> HIDE DEF u
<1>7. ASSUME NEW t \in PlacesFrom(w), t # c
      PROVE  Before(Get(position(I(c))), Get(position(I(t)))) /\ I(t) # I(c)
  <2>1. t \in Position(p, I64Years) /\ Before(c, t)
    BY <1>5, <1>7
  <2>2. Get(position(I(t))) = t /\ Get(position(I(c))) = c
    BY <1>1, <1>4, <2>1
  <2> HIDE DEF I
  <2> QED BY <1>7, <2>1, <2>2
<1> HIDE DEF I
<1>8. Remaining(u) = Remaining(w) \ {I(c)}
  BY <1>3, <1>5, <1>6, <1>7, Zenon
<1>9. Foremost(I(c), Remaining(w))
  BY <1>3, <1>5, <1>7, Zenon DEF Foremost
<1> QED BY <1>2, <1>8, <1>9 DEF Gives, u

-----------------------------------------------------------------------------
(* The lists an odometer reads rise, so its ticks show positions in order. *)
ListRises(slot, limit) == slot # None => Rising(Get(slot), limit)

Reads(w) ==
  /\ w.year_count \in Nat
  /\ \A i \in 0..(w.year_count - 1) : year_at(w.year, i) \in Int
  /\ \A i, j \in 0..(w.year_count - 1) : i < j => year_at(w.year, i) < year_at(w.year, j)
  /\ ListRises(w.months, 99) /\ ListRises(w.days, 31)
  /\ w.days # None => w.months # None /\ ListRises(w.months, 12)

(* Past the last month of a year no day is half way: NextYear resets the   *)
(* month counter alone.                                                    *)
Odometer(w) == Reads(w) /\ (w.mi = Listed(w.months) => w.di = 0)

SameLists(w, u) ==
  /\ u.walk = "Masked" /\ u.year = w.year /\ u.year_count = w.year_count
  /\ u.months = w.months /\ u.days = w.days
  /\ u.yq = w.yq /\ u.mq = w.mq /\ u.dq = w.dq

(* What a slot shows at a mark.                                            *)
LEMMA MarkShown ==
  ASSUME NEW slot, NEW limit \in Nat, ListRises(slot, limit)
  PROVE  /\ Marks(slot) \in Nat
         /\ slot = None => Marks(slot) = 1
         /\ slot # None => /\ Marks(slot) = Len(Get(slot))
                           /\ \A i \in Nat : i < Marks(slot) => Get(slot)[i + 1] \in 1..limit
                           /\ \A i, j \in Nat : i < j /\ j < Marks(slot) => Get(slot)[i + 1] < Get(slot)[j + 1]
<1>1. CASE slot = None
  BY <1>1 DEF Marks
<1>2. CASE slot # None
  <2>1. Rising(Get(slot), limit) /\ Marks(slot) = Len(Get(slot))
    BY <1>2 DEF ListRises, Marks
  <2>2. \A i \in Nat : i < Marks(slot) => i + 1 \in 1..Len(Get(slot))
    BY <2>1 DEF Rising
  <2> QED BY <1>2, <2>1, <2>2 DEF Rising
<1> QED BY <1>1, <1>2

(* A tick of the odometer is handed out at the position it shows.          *)
LEMMA TickShows ==
  ASSUME NEW w, Reads(w), NEW c \in Ticks(w)
  PROVE  /\ Shows(w, c) \in Triples
         /\ position(TickItem(w, c)) = Some(Shows(w, c))
<1> DEFINE y == year_at(w.year, c[1])
           m == ShownMonth(w, c)
           d == ShownDay(w, c)
<1>1. c[1] \in Nat /\ c[2] \in Nat /\ c[3] \in Nat /\ c[1] < w.year_count /\ c[2] < Marks(w.months) /\ c[3] < Marks(w.days)
  BY DEF Ticks
<1>2. y \in Int
  <2>1. c[1] \in 0..(w.year_count - 1)
    BY <1>1 DEF Reads
  <2> QED BY <2>1 DEF Reads
<1>3. IF w.months # None THEN m \in 1..99 ELSE m = 0
  BY <1>1, MarkShown DEF Reads, ShownMonth
<1>4. IF w.days # None THEN d \in 1..31 ELSE d = 0
  BY <1>1, MarkShown DEF Reads, ShownDay
<1>5. Fits(m, w.months # None) /\ Fits(d, w.days # None) /\ m \in Int /\ d \in Int
  BY <1>3, <1>4 DEF Fits
<1>6. /\ TickItem(w, c) = DateOf(concrete_year(y, w.yq), Slotted(m, w.months # None, w.mq),
                                 Slotted(d, w.days # None, w.dq))
      /\ Shows(w, c) = <<y, m, d>>
  BY DEF TickItem, Shows
<1> HIDE DEF y, m, d
<1>7. Shows(w, c) \in Triples
  BY <1>2, <1>5, <1>6 DEF Triples
<1> DEFINE a == w.months # None
           b == w.days # None
<1>8. a \in BOOLEAN /\ b \in BOOLEAN
  OBVIOUS
<1>9. Fits(m, a) /\ Fits(d, b)
  BY <1>5
<1>10. TickItem(w, c) = DateOf(concrete_year(y, w.yq), Slotted(m, a, w.mq), Slotted(d, b, w.dq))
  BY <1>6
<1> HIDE DEF a, b
<1>11. position(TickItem(w, c)) = Some(<<y, m, d>>)
  BY <1>2, <1>8, <1>9, <1>10, WhereWritten
<1> QED BY <1>6, <1>7, <1>11

(* Later ticks show later positions.                                       *)
LEMMA TicksRise ==
  ASSUME NEW w, Reads(w), NEW c \in Ticks(w), NEW e \in Ticks(w), Before(c, e)
  PROVE  Before(Shows(w, c), Shows(w, e))
<1>1. /\ c[1] \in Nat /\ c[2] \in Nat /\ c[3] \in Nat /\ c[1] < w.year_count /\ c[2] < Marks(w.months) /\ c[3] < Marks(w.days)
      /\ e[1] \in Nat /\ e[2] \in Nat /\ e[3] \in Nat /\ e[1] < w.year_count /\ e[2] < Marks(w.months) /\ e[3] < Marks(w.days)
  BY DEF Ticks
<1>2. CASE c[1] < e[1]
  <2>1. c[1] \in 0..(w.year_count - 1) /\ e[1] \in 0..(w.year_count - 1)
    BY <1>1 DEF Reads
  <2>2. year_at(w.year, c[1]) < year_at(w.year, e[1])
    BY <1>2, <2>1 DEF Reads
  <2> QED BY <2>2 DEF Before, Shows
<1>3. CASE c[1] = e[1] /\ c[2] < e[2]
  <2>1. w.months # None
    BY <1>1, <1>3, MarkShown DEF Reads
  <2>2. ShownMonth(w, c) < ShownMonth(w, e)
    BY <1>1, <1>3, <2>1, MarkShown DEF Reads, ShownMonth
  <2> QED BY <1>3, <2>2 DEF Before, Shows
<1>4. CASE c[1] = e[1] /\ c[2] = e[2] /\ c[3] < e[3]
  <2>1. w.days # None
    BY <1>1, <1>4, MarkShown DEF Reads
  <2>2. ShownDay(w, c) < ShownDay(w, e)
    BY <1>1, <1>4, <2>1, MarkShown DEF Reads, ShownDay
  <2>3. ShownMonth(w, c) = ShownMonth(w, e)
    BY <1>4 DEF ShownMonth
  <2> QED BY <1>4, <2>2, <2>3 DEF Before, Shows
<1> QED BY <1>2, <1>3, <1>4 DEF Before

(* Turning the counters does not change the ticks.                         *)
LEMMA SameTicks ==
  ASSUME NEW w, NEW u, SameLists(w, u)
  PROVE  Ticks(u) = Ticks(w) /\ \A c : TickItem(u, c) = TickItem(w, c)
<1>1. \A c : Shows(u, c) = Shows(w, c) /\ ShownMonth(u, c) = ShownMonth(w, c) /\ ShownDay(u, c) = ShownDay(w, c)
  BY DEF SameLists, Shows, ShownMonth, ShownDay
<1>2. \A c : TickItem(u, c) = TickItem(w, c)
  BY <1>1 DEF SameLists, TickItem
<1>3. Ticks(u) = Ticks(w)
  BY <1>1 DEF SameLists, Ticks
<1> QED BY <1>2, <1>3

(* Handing out the current tick and turning past it drops no other.        *)
LEMMA TickTaken ==
  ASSUME NEW w, w.walk = "Masked", Reads(w), NEW u, SameLists(w, u),
         Now(w) \in Ticks(w), Ahead(u) = Ahead(w) \ {Now(w)}
  PROVE  Gives(w, TickItem(w, Now(w)), u)
<1> DEFINE n == Now(w)
           I(c) == TickItem(w, c)
<1>1. Remaining(w) = {I(c) : c \in Ahead(w)}
  BY RemainingByKind
<1>2. Remaining(u) = {I(c) : c \in Ahead(w) \ {n}}
  <2>1. Remaining(u) = {TickItem(u, c) : c \in Ahead(u)}
    BY RemainingByKind DEF SameLists
  <2> QED BY <2>1, SameTicks
<1>3. n \in Ahead(w) /\ \A c \in Ahead(w) : c \in Ticks(w) /\ (c = n \/ Before(n, c))
  BY DEF Ahead, AtMost
<1>4. ASSUME NEW c \in Ahead(w), c # n
      PROVE  Before(Get(position(I(n))), Get(position(I(c)))) /\ I(c) # I(n)
  <2>1. /\ position(I(c)) = Some(Shows(w, c)) /\ Shows(w, c) \in Triples
        /\ position(I(n)) = Some(Shows(w, n)) /\ Shows(w, n) \in Triples
    BY <1>3, TickShows
  <2>2. Before(Shows(w, n), Shows(w, c))
    BY <1>3, <1>4, TicksRise
  <2> HIDE DEF I, n
  <2>3. Shows(w, n) # Shows(w, c)
    BY <2>1, <2>2, OrderTotal
  <2> QED BY <2>1, <2>2, <2>3, SomeFacts
<1> HIDE DEF I, n
<1>5. Remaining(u) = Remaining(w) \ {I(n)}
  BY <1>1, <1>2, <1>3, <1>4, Zenon
<1>6. Foremost(I(n), Remaining(w))
  BY <1>1, <1>3, <1>4, Zenon DEF Foremost
<1> QED BY <1>5, <1>6 DEF Gives, I, n

(* A turn with the same ticks ahead drops none.                            *)
LEMMA TickSkipped ==
  ASSUME NEW w, w.walk = "Masked", NEW u, SameLists(w, u), Ahead(u) = Ahead(w)
  PROVE  Remaining(u) = Remaining(w)
<1>1. Remaining(u) = {TickItem(u, c) : c \in Ahead(u)} /\ Remaining(w) = {TickItem(w, c) : c \in Ahead(w)}
  BY RemainingByKind DEF SameLists
<1> QED BY <1>1, SameTicks

(* The next tick in lexicographic order: the day turns; a drained month    *)
(* turns the month, a drained year the year.                               *)
LEMMA NextTick ==
  ASSUME NEW y \in Nat, NEW m \in Nat, NEW d \in Nat, NEW M \in Nat, NEW D \in Nat,
         NEW c \in Nat \X Nat \X Nat, c[2] < M, c[3] < D
  PROVE  /\ AtMost(<<y, m, d + 1>>, c) <=> Before(<<y, m, d>>, c)
         /\ d >= D => (AtMost(<<y, m + 1, 0>>, c) <=> AtMost(<<y, m, d>>, c))
         /\ m >= M => (AtMost(<<y + 1, 0, 0>>, c) <=> AtMost(<<y, m, d>>, c))
         /\ D = 1 /\ d = 0 => (AtMost(<<y, m + 1, 0>>, c) <=> Before(<<y, m, d>>, c))
         /\ M = 1 /\ D = 1 /\ m = 0 /\ d = 0 =>
              (AtMost(<<y + 1, 0, 0>>, c) <=> Before(<<y, m, d>>, c))
<1>1. PICK i, j, k \in Nat : c = <<i, j, k>>
  OBVIOUS
<1>2. \A p, q, r \in Nat : AtMost(<<p, q, r>>, c) <=>
        \/ p < i
        \/ p = i /\ q < j
        \/ p = i /\ q = j /\ r <= k
  BY <1>1 DEF AtMost, Before
<1>3. \A p, q, r \in Nat : Before(<<p, q, r>>, c) <=>
        \/ p < i
        \/ p = i /\ q < j
        \/ p = i /\ q = j /\ r < k
  BY <1>1 DEF Before
<1>4. j < M /\ k < D
  BY <1>1
<1>5. y + 1 \in Nat /\ m + 1 \in Nat /\ d + 1 \in Nat /\ 0 \in Nat
  OBVIOUS
<1> QED BY <1>2, <1>3, <1>4, <1>5

(* An odometer that has been turned: the same lists, other counters.       *)
TurnedTo(w, u, y, m, d) == SameLists(w, u) /\ u.yi = y /\ u.mi = m /\ u.di = d

(* The five turns the code makes (enumerate.rs Masked::next()).            *)
LEMMA TurnedMasked ==
  ASSUME NEW w, Keeps(w), w.walk = "Masked"
  PROVE  /\ TurnedTo(w, [w EXCEPT !.yi = @ + 1], w.yi + 1, w.mi, w.di)
         /\ TurnedTo(w, [w EXCEPT !.mi = @ + 1], w.yi, w.mi + 1, w.di)
         /\ TurnedTo(w, [w EXCEPT !.di = @ + 1], w.yi, w.mi, w.di + 1)
         /\ TurnedTo(w, [w EXCEPT !.di = 0, !.mi = @ + 1], w.yi, w.mi + 1, 0)
         /\ TurnedTo(w, [w EXCEPT !.mi = 0, !.yi = @ + 1], w.yi + 1, 0, w.di)
<1>1. DOMAIN w = MaskedFields
  BY KeptByKind DEF MaskedKeeps
<1> QED BY <1>1 DEF TurnedTo, SameLists, MaskedFields

(* Where the counters of an odometer may stand.                            *)
LEMMA CountersAt ==
  ASSUME NEW w, Keeps(w), w.walk = "Masked", Odometer(w)
  PROVE  /\ w.yi \in Nat /\ w.mi \in Nat /\ w.di \in Nat /\ w.year_count \in Nat
         /\ Marks(w.months) \in Nat /\ Marks(w.days) \in Nat
         /\ w.months = None => Marks(w.months) = 1 /\ w.mi = 0 /\ w.di = 0 /\ w.days = None
         /\ w.days = None => Marks(w.days) = 1 /\ w.di = 0
         /\ w.months # None => Marks(w.months) = Len(Get(w.months)) /\ w.mi <= Marks(w.months)
         /\ w.days # None => Marks(w.days) = Len(Get(w.days)) /\ w.di <= Marks(w.days)
         /\ w.months # None /\ w.mi = Marks(w.months) => w.di = 0
<1>1. /\ w.year_count \in Nat /\ Listed(w.months) \in Nat /\ Listed(w.days) \in Nat
      /\ w.yi \in 0..w.year_count /\ w.mi \in 0..Listed(w.months) /\ w.di \in 0..Listed(w.days)
  BY KeptByKind DEF MaskedKeeps
<1>2. /\ w.months # None => Listed(w.months) = Len(Get(w.months)) /\ Marks(w.months) = Len(Get(w.months))
      /\ w.days # None => Listed(w.days) = Len(Get(w.days)) /\ Marks(w.days) = Len(Get(w.days))
      /\ w.months = None => Listed(w.months) = 0 /\ Marks(w.months) = 1
      /\ w.days = None => Listed(w.days) = 0 /\ Marks(w.days) = 1
  BY DEF Listed, Marks
<1>3. (w.mi = Listed(w.months) => w.di = 0) /\ (w.days # None => w.months # None)
  BY DEF Odometer, Reads
<1> QED BY <1>1, <1>2, <1>3

(* The ticks ahead are triples of counters below the marks.                *)
LEMMA TickBounds ==
  ASSUME NEW w, NEW c \in Ticks(w)
  PROVE  /\ c \in Nat \X Nat \X Nat /\ c[1] < w.year_count
         /\ c[2] < Marks(w.months) /\ c[3] < Marks(w.days)
BY DEF Ticks

(* The ticks ahead before and after a turn.                                *)
LEMMA AheadOf ==
  ASSUME NEW w, NEW u, NEW y, NEW m, NEW d, TurnedTo(w, u, y, m, d)
  PROVE  /\ SameLists(w, u)
         /\ Ahead(u) = {c \in Ticks(w) : AtMost(<<y, m, d>>, c)}
         /\ Ahead(w) = {c \in Ticks(w) : AtMost(<<w.yi, w.mi, w.di>>, c)}
         /\ Now(w) = <<w.yi, w.mi, w.di>>
<1>1. Ticks(u) = Ticks(w)
  BY SameTicks DEF TurnedTo
<1> QED BY <1>1 DEF TurnedTo, Ahead, Now

(* Taking a tick: the turn passes over it and no other.                    *)
LEMMA TakenByTurn ==
  ASSUME NEW w, w.walk = "Masked", Reads(w), NEW u, NEW y, NEW m, NEW d, TurnedTo(w, u, y, m, d),
         Now(w) \in Ticks(w),
         \A c \in Ticks(w) : AtMost(<<y, m, d>>, c) <=> Before(<<w.yi, w.mi, w.di>>, c)
  PROVE  Gives(w, TickItem(w, Now(w)), u)
<1>0. /\ Ahead(u) = {c \in Ticks(w) : AtMost(<<y, m, d>>, c)}
      /\ Ahead(w) = {c \in Ticks(w) : AtMost(Now(w), c)}
      /\ Now(w) = <<w.yi, w.mi, w.di>>
  BY AheadOf
<1>1. Ahead(u) = Ahead(w) \ {Now(w)}
  <2>1. \A c \in Ticks(w) : c \in Triples
    BY TickBounds DEF Triples
  <2>2. \A c \in Ticks(w) : Before(Now(w), c) <=> AtMost(Now(w), c) /\ c # Now(w)
    BY <2>1, OrderTotal DEF AtMost
  <2> QED BY <1>0, <2>2, Zenon
<1> QED BY <1>1, TickTaken DEF TurnedTo

(* A turn over no tick leaves what remains as it was.                      *)
LEMMA SkippedByTurn ==
  ASSUME NEW w, w.walk = "Masked", NEW u, NEW y, NEW m, NEW d, TurnedTo(w, u, y, m, d),
         \A c \in Ticks(w) : AtMost(<<y, m, d>>, c) <=> AtMost(<<w.yi, w.mi, w.di>>, c)
  PROVE  Remaining(u) = Remaining(w)
<1>0. /\ Ahead(u) = {c \in Ticks(w) : AtMost(<<y, m, d>>, c)}
      /\ Ahead(w) = {c \in Ticks(w) : AtMost(<<w.yi, w.mi, w.di>>, c)}
  BY AheadOf
<1>1. Ahead(u) = Ahead(w)
  BY <1>0, Zenon
<1> QED BY <1>1, TickSkipped DEF TurnedTo

(* The item of a tick is the item the code builds from its counters.       *)
LEMMA MaskedItemIsTick ==
  ASSUME NEW w
  PROVE  MaskedItem(w) = TickItem(w, Now(w))
BY DEF MaskedItem, TickItem, Now, masked_year, masked_month, masked_day, ShownMonth, ShownDay, Slotted

(* A day of the odometer is handed out where the calendar has it.          *)
LEMMA DayExists ==
  ASSUME NEW w, Keeps(w), w.walk = "Masked", Odometer(w), w.yi < w.year_count,
         w.months # None, w.mi < Len(Get(w.months)), w.days # None, w.di < Len(Get(w.days))
  PROVE  day_exists(w) <=> Now(w) \in Ticks(w)
<1>1. /\ w.yi \in Nat /\ w.mi \in Nat /\ w.di \in Nat /\ w.year_count \in Nat
      /\ Marks(w.months) = Len(Get(w.months)) /\ Marks(w.days) = Len(Get(w.days))
  BY CountersAt
<1>2. Now(w) \in Ticks(w) <=> IsDay(Shows(w, Now(w)))
  BY <1>1 DEF Ticks, Now
<1>3. Shows(w, Now(w)) = <<year_at(w.year, w.yi), masked_month(w), masked_day(w)>>
  BY DEF Shows, ShownMonth, ShownDay, Now, masked_month, masked_day
<1>4. masked_month(w) \in 1..12
  <2>1. ListRises(w.months, 12)
    BY DEF Odometer, Reads
  <2> QED BY <1>1, <2>1, MarkShown DEF masked_month
<1>5. masked_day(w) \in 1..31
  <2>1. ListRises(w.days, 31)
    BY DEF Odometer, Reads
  <2> QED BY <1>1, <2>1, MarkShown DEF masked_day
<1>6. year_at(w.year, w.yi) \in Int
  <2>1. w.yi \in 0..(w.year_count - 1)
    BY <1>1
  <2> QED BY <2>1 DEF Odometer, Reads
<1>7. last_day(masked_month(w), is_leap(year_at(w.year, w.yi))) \in 28..31
  BY LastDayBounds
<1>8. IsDay(Shows(w, Now(w))) <=> masked_day(w) <= last_day(masked_month(w), is_leap(year_at(w.year, w.yi)))
  <2> DEFINE y == year_at(w.year, w.yi)
             m == masked_month(w)
             d == masked_day(w)
             l == last_day(m, is_leap(y))
             t == Shows(w, Now(w))
  <2>1. t[1] = y /\ t[2] = m /\ t[3] = d
    BY <1>3
  <2>2. y \in Int /\ m \in 1..12 /\ d \in 1..31 /\ l \in 28..31
    BY <1>4, <1>5, <1>6, <1>7
  <2>3. IsDay(t) <=> t[1] \in Int /\ t[2] \in 1..12 /\ t[3] \in 1..last_day(t[2], is_leap(t[1]))
    BY DEF IsDay
  <2>4. last_day(t[2], is_leap(t[1])) = l
    BY <2>1
  <2> HIDE DEF y, m, d, l, t
  <2>5. d \in 1..l <=> d <= l
    BY <2>2
  <2>6. IsDay(t) <=> d \in 1..l
    BY <2>1, <2>2, <2>3, <2>4, Zenon
  <2> QED BY <2>5, <2>6 DEF y, m, d, l, t
<1> QED BY <1>2, <1>8 DEF day_exists

(* The turns of the odometer, one by one (enumerate.rs Masked::next()).    *)
LEMMA YearTurns ==
  ASSUME NEW w, Keeps(w), w.walk = "Masked", Odometer(w), w.yi < w.year_count, w.months = None
  PROVE  Gives(w, MaskedItem(w), [w EXCEPT !.yi = @ + 1]) /\ Odometer([w EXCEPT !.yi = @ + 1])
<1> DEFINE u == [w EXCEPT !.yi = @ + 1]
<1>1. /\ w.yi \in Nat /\ w.mi = 0 /\ w.di = 0 /\ Marks(w.months) = 1 /\ Marks(w.days) = 1
      /\ w.days = None /\ w.mi \in Nat /\ w.di \in Nat
  BY CountersAt
<1>2. TurnedTo(w, u, w.yi + 1, 0, 0)
  BY <1>1, TurnedMasked
<1> HIDE DEF u
<1>3. Now(w) \in Ticks(w)
  BY <1>1 DEF Ticks, Now
<1>4. \A c \in Ticks(w) : AtMost(<<w.yi + 1, 0, 0>>, c) <=>
        Before(<<w.yi, w.mi, w.di>>, c)
  <2> TAKE c \in Ticks(w)
  <2>1. c \in Nat \X Nat \X Nat /\ c[2] < 1 /\ c[3] < 1
    BY <1>1, TickBounds
  <2> QED BY <1>1, <2>1, NextTick
<1>5. Gives(w, TickItem(w, Now(w)), u)
  BY <1>2, <1>3, <1>4, TakenByTurn DEF Odometer
<1>6. Odometer(u)
  BY <1>2 DEF Odometer, Reads, TurnedTo, SameLists
<1> QED BY <1>5, <1>6, MaskedItemIsTick DEF u

(* A masked month without a day.                                           *)
LEMMA MonthTurns ==
  ASSUME NEW w, Keeps(w), w.walk = "Masked", Odometer(w), w.yi < w.year_count,
         w.months # None, w.mi < Len(Get(w.months)), w.days = None
  PROVE  Gives(w, MaskedItem(w), [w EXCEPT !.mi = @ + 1]) /\ Odometer([w EXCEPT !.mi = @ + 1])
<1> DEFINE u == [w EXCEPT !.mi = @ + 1]
<1>1. /\ w.yi \in Nat /\ w.di = 0 /\ Marks(w.days) = 1 /\ w.mi \in Nat /\ w.di \in Nat
      /\ Marks(w.months) = Len(Get(w.months)) /\ Marks(w.months) \in Nat
  BY CountersAt
<1>2. TurnedTo(w, u, w.yi, w.mi + 1, 0)
  BY <1>1, TurnedMasked
<1> HIDE DEF u
<1>3. Now(w) \in Ticks(w)
  BY <1>1 DEF Ticks, Now
<1>4. \A c \in Ticks(w) : AtMost(<<w.yi, w.mi + 1, 0>>, c) <=>
        Before(<<w.yi, w.mi, w.di>>, c)
  <2> TAKE c \in Ticks(w)
  <2>1. c \in Nat \X Nat \X Nat /\ c[2] < Marks(w.months) /\ c[3] < 1
    BY <1>1, TickBounds
  <2> QED BY <1>1, <2>1, NextTick
<1>5. Gives(w, TickItem(w, Now(w)), u)
  BY <1>2, <1>3, <1>4, TakenByTurn DEF Odometer
<1>6. Odometer(u)
  BY <1>2 DEF Odometer, Reads, TurnedTo, SameLists
<1> QED BY <1>5, <1>6, MaskedItemIsTick DEF u

(* A masked day: handed out where the calendar has it, else passed over.   *)
LEMMA DayTurns ==
  ASSUME NEW w, Keeps(w), w.walk = "Masked", Odometer(w), w.yi < w.year_count,
         w.months # None, w.mi < Len(Get(w.months)), w.days # None, w.di < Len(Get(w.days))
  PROVE  LET u == [w EXCEPT !.di = @ + 1]
         IN  /\ day_exists(w) => Gives(w, MaskedItem(w), u)
             /\ ~day_exists(w) => Remaining(u) = Remaining(w)
             /\ Odometer(u)
<1> DEFINE u == [w EXCEPT !.di = @ + 1]
<1>1. /\ w.yi \in Nat /\ w.mi \in Nat /\ w.di \in Nat
      /\ Marks(w.months) = Len(Get(w.months)) /\ Marks(w.months) \in Nat /\ Marks(w.days) \in Nat
  BY CountersAt
<1>2. TurnedTo(w, u, w.yi, w.mi, w.di + 1)
  BY TurnedMasked
<1> HIDE DEF u
<1>3. day_exists(w) <=> Now(w) \in Ticks(w)
  BY DayExists
<1>4. \A c \in Ticks(w) : AtMost(<<w.yi, w.mi, w.di + 1>>, c) <=>
        Before(<<w.yi, w.mi, w.di>>, c)
  <2> TAKE c \in Ticks(w)
  <2>1. c \in Nat \X Nat \X Nat /\ c[2] < Marks(w.months) /\ c[3] < Marks(w.days)
    BY TickBounds
  <2> QED BY <1>1, <2>1, NextTick
<1>5. ASSUME day_exists(w) PROVE Gives(w, TickItem(w, Now(w)), u)
  BY <1>2, <1>3, <1>4, <1>5, TakenByTurn DEF Odometer
<1>6. ASSUME ~day_exists(w) PROVE Remaining(u) = Remaining(w)
  <2>1. \A c \in Ticks(w) : AtMost(<<w.yi, w.mi, w.di + 1>>, c) <=> AtMost(<<w.yi, w.mi, w.di>>, c)
    
    <3> TAKE c \in Ticks(w)
    <3>1. Now(w) # c
      BY <1>3, <1>6
    <3> QED BY <1>4, <3>1 DEF Now, AtMost
  <2> QED BY <1>2, <2>1, SkippedByTurn
<1>7. Odometer(u)
  <2>1. u.mi # Listed(u.months)
    BY <1>1, <1>2 DEF TurnedTo, SameLists, Listed
  <2> QED BY <1>2, <2>1 DEF Odometer, Reads, TurnedTo, SameLists
<1> QED BY <1>5, <1>6, <1>7, MaskedItemIsTick DEF u

(* The day wheel is turned back and the month wheel on: no tick is lost.   *)
LEMMA MonthDrained ==
  ASSUME NEW w, Keeps(w), w.walk = "Masked", Odometer(w),
         w.months # None, w.mi < Len(Get(w.months)), w.days # None, ~(w.di < Len(Get(w.days)))
  PROVE  LET u == [w EXCEPT !.di = 0, !.mi = @ + 1]
         IN  Remaining(u) = Remaining(w) /\ Odometer(u)
<1> DEFINE u == [w EXCEPT !.di = 0, !.mi = @ + 1]
<1>1. /\ w.yi \in Nat /\ w.mi \in Nat /\ w.di \in Nat
      /\ Marks(w.months) \in Nat /\ Marks(w.days) \in Nat /\ w.di >= Marks(w.days)
  BY CountersAt
<1>2. TurnedTo(w, u, w.yi, w.mi + 1, 0)
  BY TurnedMasked
<1> HIDE DEF u
<1>3. \A c \in Ticks(w) : AtMost(<<w.yi, w.mi + 1, 0>>, c) <=> AtMost(<<w.yi, w.mi, w.di>>, c)
  <2> TAKE c \in Ticks(w)
  <2>1. c \in Nat \X Nat \X Nat /\ c[2] < Marks(w.months) /\ c[3] < Marks(w.days)
    BY TickBounds
  <2> QED BY <1>1, <2>1, NextTick
<1>4. Odometer(u)
  BY <1>2 DEF Odometer, Reads, TurnedTo, SameLists
<1> QED BY <1>2, <1>3, <1>4, SkippedByTurn DEF u

(* The month wheel is turned back and the year wheel on: no tick is lost.  *)
LEMMA YearDrained ==
  ASSUME NEW w, Keeps(w), w.walk = "Masked", Odometer(w), w.months # None, ~(w.mi < Len(Get(w.months)))
  PROVE  LET u == [w EXCEPT !.mi = 0, !.yi = @ + 1]
         IN  Remaining(u) = Remaining(w) /\ Odometer(u)
<1> DEFINE u == [w EXCEPT !.mi = 0, !.yi = @ + 1]
<1>1. /\ w.yi \in Nat /\ w.mi \in Nat /\ w.di \in Nat /\ w.di = 0
      /\ Marks(w.months) \in Nat /\ Marks(w.days) \in Nat /\ w.mi >= Marks(w.months)
  BY CountersAt
<1>2. TurnedTo(w, u, w.yi + 1, 0, 0)
  BY <1>1, TurnedMasked
<1> HIDE DEF u
<1>3. \A c \in Ticks(w) : AtMost(<<w.yi + 1, 0, 0>>, c) <=> AtMost(<<w.yi, w.mi, w.di>>, c)
  <2> TAKE c \in Ticks(w)
  <2>1. c \in Nat \X Nat \X Nat /\ c[2] < Marks(w.months) /\ c[3] < Marks(w.days)
    BY TickBounds
  <2> QED BY <1>1, <2>1, NextTick
<1>4. Odometer(u)
  BY <1>2 DEF Odometer, Reads, TurnedTo, SameLists
<1> QED BY <1>2, <1>3, <1>4, SkippedByTurn DEF u

(* Past its last year an odometer has nothing left.                        *)
LEMMA OdometerSpent ==
  ASSUME NEW w, Keeps(w), w.walk = "Masked", Odometer(w), w.yi >= w.year_count
  PROVE  Remaining(w) = {}
<1>1. w.yi \in Nat /\ w.year_count \in Nat
  BY CountersAt
<1>2. Ahead(w) = {}
  <2>1. SUFFICES ASSUME NEW c \in Ticks(w), AtMost(Now(w), c) PROVE FALSE
    BY DEF Ahead
  <2>2. c[1] \in Nat /\ c[1] < w.year_count
    BY DEF Ticks
  <2>3. ~(w.yi <= c[1])
    BY <1>1, <2>2
  <2>4. w.yi <= c[1]
    BY <1>1, <2>1, <2>2 DEF AtMost, Before, Now
  <2> QED BY <2>3, <2>4
<1> QED BY <1>2, RemainingByKind

-----------------------------------------------------------------------------
(* Powers of ten up to the first that no i64 holds.                        *)
Exponents == 0..(MaxPow10 + 1)

(* Each power is ten times the one before; those an i64 holds are known.   *)
LEMMA PowerAtHand ==
  /\ 10^0 = 1 /\ 0 \in Exponents /\ MaxPow10 + 1 \in Exponents
  /\ \A e \in Exponents : e \in Nat /\ 10^e \in Nat /\ 10^e >= 1
  /\ \A e \in Exponents : e # 0 => e - 1 \in Exponents /\ 10^e = 10 * 10^(e - 1)
  /\ \A e \in 0..MaxPow10 : 10^e \in 1..I64Max
<1>1. MaxPow10 \in Nat /\ I64Max \in Nat
  BY Numbers
<1>2. \A e \in 0..MaxPow10 : 10^e \in 1..I64Max /\ 10^(e + 1) = 10 * 10^e
  BY I64Assumption
<1>3. \A e \in Exponents : e # 0 => e - 1 \in 0..MaxPow10 /\ (e - 1) + 1 = e
  BY <1>1 DEF Exponents
<1>4. ASSUME NEW e \in Exponents, e # 0
      PROVE  e - 1 \in Exponents /\ 10^e = 10 * 10^(e - 1) /\ 10^(e - 1) \in 1..I64Max
  <2>1. e - 1 \in 0..MaxPow10 /\ (e - 1) + 1 = e
    BY <1>3, <1>4
  <2>2. 10^((e - 1) + 1) = 10 * 10^(e - 1) /\ 10^(e - 1) \in 1..I64Max
    BY <1>2, <2>1
  <2> QED BY <1>1, <2>1, <2>2 DEF Exponents
<1>5. 10^0 = 1
  BY Powers
<1>6. ASSUME NEW e \in Exponents PROVE e \in Nat /\ 10^e \in Nat /\ 10^e >= 1
  <2>1. CASE e = 0
    BY <1>5, <2>1
  <2>2. CASE e # 0
    <3>1. PICK n \in 1..I64Max : 10^e = 10 * n
      BY <1>4, <2>2
    <3> QED BY <1>1, <3>1 DEF Exponents
  <2> QED BY <2>1, <2>2
<1>7. 0 \in Exponents /\ MaxPow10 + 1 \in Exponents
  BY <1>1 DEF Exponents
<1> QED BY <1>2, <1>4, <1>5, <1>6, <1>7

(* Exponents add up.                                                       *)
LEMMA PowersMultiply ==
  ASSUME NEW a \in Exponents, NEW b \in Exponents, a + b \in Exponents
  PROVE  10^(a + b) = 10^a * 10^b
<1> DEFINE n == MaxPow10 + 1
           G == {e \in 0..n : a + e \in Exponents => 10^(a + e) = 10^a * 10^e}
<1>1. n \in Nat /\ a \in Nat /\ 10^a \in Nat
  BY PowerAtHand, Numbers
<1>2. 0 \in G
  BY <1>1, PowerAtHand
<1>3. ASSUME NEW e \in 1..n, e - 1 \in G PROVE e \in G
  <2>1. SUFFICES ASSUME a + e \in Exponents PROVE 10^(a + e) = 10^a * 10^e
    BY <1>1
  <2>2. a + (e - 1) \in Exponents /\ (a + e) - 1 = a + (e - 1) /\ a + e # 0 /\ e \in Exponents /\ e # 0
    BY <1>1, <2>1 DEF Exponents
  <2>3. 10^(a + e) = 10 * 10^(a + (e - 1)) /\ 10^e = 10 * 10^(e - 1)
    BY <2>1, <2>2, PowerAtHand
  <2>4. 10^(a + (e - 1)) = 10^a * 10^(e - 1)
    BY <1>3, <2>2
  <2>5. 10^(e - 1) \in Nat
    BY <2>2, PowerAtHand
  <2> DEFINE p == 10^a
             q == 10^(e - 1)
  <2>6. p \in Nat /\ q \in Nat
    BY <1>1, <2>5
  <2>7. 10^(a + e) = 10 * (p * q) /\ 10^e = 10 * q
    BY <2>3, <2>4
  <2> HIDE DEF p, q
  <2>8. 10 * (p * q) = p * (10 * q)
    BY <2>6
  <2> QED BY <2>7, <2>8 DEF p
<1>4. 0..n \subseteq G
  <2> HIDE DEF G
  <2> QED BY <1>1, <1>2, <1>3, Climb
<1>5. b \in G
  BY <1>4 DEF Exponents
<1> QED BY <1>5

(* A larger exponent gives no smaller power.                               *)
LEMMA PowersRise ==
  ASSUME NEW a \in Exponents, NEW b \in Exponents, a <= b
  PROVE  10^a <= 10^b
<1>1. b - a \in Exponents /\ a + (b - a) = b
  BY Numbers DEF Exponents
<1>2. 10^b = 10^a * 10^(b - a)
  BY <1>1, PowersMultiply
<1>3. 10^a \in Nat /\ 10^(b - a) \in Nat /\ 10^(b - a) >= 1
  BY <1>1, PowerAtHand
<1> DEFINE p == 10^a
           q == 10^(b - a)
<1> HIDE DEF p, q
<1>4. p \in Nat /\ q \in Nat /\ q >= 1 => p <= p * q
  OBVIOUS
<1> QED BY <1>2, <1>3, <1>4 DEF p, q

(* The number of digits of a magnitude.                                    *)
LEMMA DigitsAreUnique ==
  ASSUME NEW n \in 1..(I64Max + 1)
  PROVE  /\ decimal_digits(n) \in 1..(MaxPow10 + 1)
         /\ n \in (10^(decimal_digits(n) - 1))..(10^decimal_digits(n) - 1)
         /\ \A k \in 1..(MaxPow10 + 1) : n \in (10^(k - 1))..(10^k - 1) => k = decimal_digits(n)
<1> DEFINE K == 1..(MaxPow10 + 1)
           Fits1(k) == n < 10^k /\ (k = 1 \/ n >= 10^(k - 1))
           d == decimal_digits(n)
<1>0. n \in Nat /\ n >= 1 /\ n \in 0..(I64Max + 1) /\ MaxPow10 \in Nat
  BY Numbers
<1>1. d \in K
  BY <1>0, DigitsCounted
<1>2. ASSUME NEW k \in K
      PROVE  k \in Nat /\ k \in Exponents /\ k - 1 \in Exponents /\ 10^k \in Nat /\ 10^(k - 1) \in Nat
  <2>1. k \in Nat /\ k \in Exponents /\ k - 1 \in Exponents
    BY <1>0 DEF Exponents
  <2> QED BY <2>1, PowerAtHand
<1>3. d = CHOOSE k \in K : Fits1(k)
  BY DEF decimal_digits
<1>4. \E k \in K : Fits1(k)
  <2> DEFINE S == {k \in K : n < 10^k}
  <2>1. MaxPow10 + 1 \in S /\ S \subseteq Nat
    BY <1>0, <1>2, I64Assumption, Numbers
  <2>2. PICK least \in S : \A k \in S : least <= k
    <3> HIDE DEF S
    <3> QED BY <2>1, Least
  <2>3. least = 1 \/ n >= 10^(least - 1)
    <3>1. SUFFICES ASSUME least # 1 PROVE n >= 10^(least - 1)
      OBVIOUS
    <3>2. least - 1 \in K /\ ~(least <= least - 1)
      BY <1>0, <2>2, <3>1
    <3>3. ~(n < 10^(least - 1))
      BY <2>2, <3>2
    <3> QED BY <1>0, <1>2, <3>2, <3>3
  <2> QED BY <2>2, <2>3
<1>5. Fits1(d)
  <2> HIDE DEF Fits1, K
  <2> QED BY <1>3, <1>4
<1>6. ASSUME NEW k \in K PROVE Fits1(k) <=> n \in (10^(k - 1))..(10^k - 1)
  <2>1. k = 1 => 10^(k - 1) = 1
    BY PowerAtHand
  <2> QED BY <1>0, <1>2, <2>1
<1>7. ASSUME NEW k \in K, Fits1(k), NEW l \in K, Fits1(l), k < l PROVE FALSE
  <2>1. k <= l - 1 /\ l # 1
    BY <1>2, <1>7
  <2>2. 10^k <= 10^(l - 1)
    BY <1>2, <2>1, PowersRise
  <2>3. n < 10^k /\ n >= 10^(l - 1)
    BY <1>7, <2>1
  <2> QED BY <1>0, <1>2, <2>2, <2>3
<1>8. ASSUME NEW k \in K, Fits1(k) PROVE k = d
  <2>1. ~(k < d) /\ ~(d < k)
    BY <1>1, <1>5, <1>7, <1>8
  <2>2. k \in Nat /\ d \in Nat
    BY <1>1, <1>2
  <2> HIDE DEF d
  <2> QED BY <2>1, <2>2
<1> QED BY <1>1, <1>5, <1>6, <1>8

(* The year of an exponential form fits only with few enough digits.       *)
LEMMA ExponentialFits ==
  ASSUME NEW s \in I64Years, s # 0, NEW e \in Nat, scaled(s, checked_pow10(e)) # None
  PROVE  decimal_digits(Abs(s)) + e \in 1..(MaxPow10 + 1)
<1> DEFINE k == decimal_digits(Abs(s))
           n == MaxPow10 + 1
           j == n - e
<1>0. I64Max \in Nat /\ MaxPow10 \in Nat /\ I64Max + 1 < 10^n /\ s \in Int /\ Abs(s) \in 1..(I64Max + 1)
  BY Numbers, I64Assumption DEF Abs, I64Years
<1>1. k \in 1..n /\ Abs(s) \in (10^(k - 1))..(10^k - 1)
  BY <1>0, DigitsAreUnique
<1>2. ~(e > MaxPow10) /\ checked_pow10(e) = Some(10^e)
  BY <1>0, SomeFacts DEF scaled, checked_pow10
<1>3. e \in Exponents /\ e \in 0..MaxPow10
  BY <1>0, <1>2 DEF Exponents
<1>4. checked_mul(s, 10^e) # None
  BY <1>2, SomeFacts DEF scaled
<1> DEFINE p == 10^e
<1>5. p \in Nat \ {0} /\ p \in 1..I64Max
  BY <1>0, <1>3, PowerAtHand
<1> HIDE DEF p
<1>6. ~(s > I64Max \div p) /\ ~(s < -((I64Max + 1) \div p))
  BY <1>4 DEF checked_mul, p
<1>7. s <= I64Max \div p /\ s >= -((I64Max + 1) \div p)
  <2>1. I64Max \div p \in Int /\ (I64Max + 1) \div p \in Int
    BY <1>0, <1>5
  <2> QED BY <1>0, <1>6, <2>1
<1>8. s * p \in (-I64Max - 1)..I64Max
  BY <1>0, <1>5, <1>7, ProductFits
<1>9. Abs(s) * p <= I64Max + 1
  <2>1. Abs(s) = s \/ Abs(s) = -s
    BY DEF Abs
  <2>2. (-s) * p = -(s * p) /\ s * p \in Int
    BY <1>0, <1>5
  <2> QED BY <1>0, <1>8, <2>1, <2>2
<1>10. CASE k + e <= n
  <2>1. k + e \in 1..n
    <3> HIDE DEF k
    <3> QED BY <1>0, <1>1, <1>10
  <2> QED BY <2>1
<1>11. CASE ~(k + e <= n)
  <2>1. j \in Exponents /\ k - 1 \in Exponents /\ j <= k - 1 /\ j + e = n /\ n \in Exponents
    <3> HIDE DEF k
    <3> QED BY <1>0, <1>1, <1>3, <1>11 DEF Exponents
  <2>2. 10^j <= 10^(k - 1)
    BY <2>1, PowersRise
  <2>3. 10^n = 10^j * p
    BY <1>3, <2>1, PowersMultiply DEF p
  <2>4. 10^j \in Nat /\ 10^(k - 1) \in Nat /\ 10^n \in Nat
    BY <2>1, PowerAtHand
  <2>5. 10^(k - 1) <= Abs(s)
    BY <1>0, <1>1, <2>4
  <2> DEFINE q == 10^j
             a == Abs(s)
  <2>6. q <= a /\ q \in Nat /\ a \in Nat
    BY <1>0, <2>2, <2>4, <2>5
  <2> HIDE DEF q, a
  <2>7. q * p <= a * p /\ q * p \in Nat /\ a * p \in Nat
    BY <1>5, <2>6
  <2>8. 10^n = q * p /\ a * p <= I64Max + 1
    BY <1>9, <2>3 DEF q, a
  <2> QED BY <1>0, <2>7, <2>8
<1> QED BY <1>10, <1>11

WidthDenoted(kind) ==
  CASE kind.form = "Standard" -> 4
    [] kind.form = "Big" ->
         CHOOSE k \in 1..(MaxPow10 + 1) : Abs(kind.value) \in (10^(k - 1))..(10^k - 1)
    [] kind.form = "Exponential" ->
         kind.exponent +
         CHOOSE k \in 1..(MaxPow10 + 1) : Abs(kind.significand) \in (10^(k - 1))..(10^k - 1)

(* The number of digits decimal_digits() counts is the one that is         *)
(* denoted.                                                                *)
LEMMA DigitsDenoted ==
  ASSUME NEW n \in 1..(I64Max + 1)
  PROVE  (CHOOSE k \in 1..(MaxPow10 + 1) : n \in (10^(k - 1))..(10^k - 1)) = decimal_digits(n)
<1> DEFINE K == 1..(MaxPow10 + 1)
           Has(k) == n \in (10^(k - 1))..(10^k - 1)
           c == CHOOSE k \in K : Has(k)
<1>1. decimal_digits(n) \in K /\ Has(decimal_digits(n)) /\ \A k \in K : Has(k) => k = decimal_digits(n)
  BY DigitsAreUnique
<1> HIDE DEF Has, K
<1>2. c \in K /\ Has(c)
  BY <1>1
<1> HIDE DEF c
<1>3. c = decimal_digits(n)
  BY <1>1, <1>2
<1> QED BY <1>3 DEF c, K, Has

(* Both counts of a year's digits agree, and the year's power fits.        *)
LEMMA WidthsAgree ==
  ASSUME NEW d, IsDateRecord(d), ValidDate(d), year_of(d.year.kind) # None
  PROVE  /\ WidthDenoted(d.year.kind) = big_width(d.year.kind)
         /\ big_width(d.year.kind) \in 1..(MaxPow10 + 1)
<1> DEFINE kind == d.year.kind
<1>0. I64Max \in Nat /\ MaxPow10 \in Nat /\ I64Max > 99999 /\ I64Max + 1 < 10^(MaxPow10 + 1)
  BY Numbers, I64Assumption
<1>1. CASE kind.form = "Standard"
  <2>1. WidthDenoted(kind) = 4 /\ big_width(kind) = 4
    BY <1>1, Zenon DEF WidthDenoted, big_width
  <2>2. 3 <= MaxPow10
    <3>1. SUFFICES ASSUME ~(3 <= MaxPow10) PROVE FALSE
      OBVIOUS
    <3>2. MaxPow10 \in {0, 1, 2, 3}
      BY <1>0, <3>1
    <3>3. 10^(MaxPow10 + 1) = 10 * 10^MaxPow10 /\ 10^MaxPow10 \in Tens
      BY <3>2, Powers
    <3>4. 10^(MaxPow10 + 1) \in {10, 100, 1000, 10000}
      BY <3>3 DEF Tens
    <3> QED BY <1>0, <3>4
  <2>3. 4 \in 1..(MaxPow10 + 1)
    BY <1>0, <2>2
  <2> QED BY <2>1, <2>3
<1>2. CASE kind.form = "Big"
  <2>1. kind.form # "Standard"
    BY <1>2
  <2>2. kind.value \in I64Years /\ Abs(kind.value) > 9999
    BY <1>2, <2>1 DEF IsDateRecord, IsYearKind, ValidDate, ValidPrefixedYear, I64Years
  <2>3. Abs(kind.value) \in 1..(I64Max + 1)
    BY <2>2, Numbers DEF Abs, I64Years
  <2>4. WidthDenoted(kind) = decimal_digits(Abs(kind.value))
    <3>1. WidthDenoted(kind) = CHOOSE k \in 1..(MaxPow10 + 1) : Abs(kind.value) \in (10^(k - 1))..(10^k - 1)
      BY <1>2, <2>1, Zenon DEF WidthDenoted
    <3> QED BY <2>3, <3>1, DigitsDenoted
  <2>5. big_width(kind) = decimal_digits(Abs(kind.value))
    BY <1>2, <2>1, Zenon DEF big_width
  <2> QED BY <2>3, <2>4, <2>5, DigitsAreUnique
<1>3. CASE kind.form = "Exponential"
  <2>1. kind.form # "Standard" /\ kind.form # "Big"
    BY <1>3
  <2>2. kind.significand \in I64Years /\ kind.exponent \in Nat
    BY <1>3, <2>1 DEF IsDateRecord, IsYearKind, I64Years
  <2>3. Abs(kind.significand) \in 1..I64Max /\ kind.significand # 0
    <3>1. Abs(kind.significand) \in 1..I64Max
      BY <1>3, <2>1 DEF ValidDate, ValidPrefixedYear
    <3> QED BY <3>1 DEF Abs
  <2>4. Abs(kind.significand) \in 1..(I64Max + 1)
    BY <2>3, Numbers
  <2>5. WidthDenoted(kind) = kind.exponent + decimal_digits(Abs(kind.significand))
    <3>1. WidthDenoted(kind) = kind.exponent + CHOOSE k \in 1..(MaxPow10 + 1) :
                                  Abs(kind.significand) \in (10^(k - 1))..(10^k - 1)
      BY <1>3, <2>1, Zenon DEF WidthDenoted
    <3> QED BY <2>4, <3>1, DigitsDenoted
  <2>6. big_width(kind) = decimal_digits(Abs(kind.significand)) + kind.exponent
    BY <1>3, <2>1, Zenon DEF big_width
  <2>7. year_of(kind) = scaled(kind.significand, checked_pow10(kind.exponent))
    BY <1>3, <2>1, Zenon DEF year_of
  <2>8. decimal_digits(Abs(kind.significand)) + kind.exponent \in 1..(MaxPow10 + 1)
    BY <2>2, <2>3, <2>7, ExponentialFits
  <2>9. decimal_digits(Abs(kind.significand)) \in Int
    <3>1. decimal_digits(Abs(kind.significand)) \in 1..(MaxPow10 + 1)
      BY <2>4, DigitsAreUnique
    <3> QED BY <1>0, <3>1
  <2> QED BY <2>2, <2>5, <2>6, <2>8, <2>9
<1> QED BY <1>1, <1>2, <1>3 DEF IsDateRecord, IsYearKind

-----------------------------------------------------------------------------
(* A walker starts with all its element denotes.                           *)
(* A sweep: the range of years the code computes is the set of years that  *)
(* share the leading digits.                                               *)
LEMMA SweptYears ==
  ASSUME NEW value \in I64Years, NEW unit \in 1..I64Max, swept_range(value, unit) # None
  PROVE  LET lo == (Abs(value) \div unit) * unit
             hi == lo + unit - 1
         IN  /\ Get(swept_range(value, unit)) = IF value < 0 THEN <<-hi, -lo>> ELSE <<lo, hi>>
             /\ lo \in Nat /\ hi \in Nat
<1> DEFINE mag == Abs(value)
           lo == mag - (mag % unit)
           q == mag \div unit
<1>1. mag \in Nat /\ I64Max \in Nat /\ value \in Int
  BY Numbers DEF Abs, I64Years
<1>2. mag = q * unit + (mag % unit) /\ q \in Nat /\ (mag % unit) \in Nat
  <2> HIDE DEF mag
  <2> QED BY <1>1
<1>3. lo = q * unit /\ q * unit \in Nat
  <2>1. q * unit \in Nat
    <3> HIDE DEF q
    <3> QED BY <1>2
  <2> HIDE DEF mag, q
  <2> QED BY <1>1, <1>2, <2>1
<1>4. swept_range(value, unit) = signed_range(value < 0, lo, checked_add(lo, unit - 1))
  BY DEF swept_range
<1> HIDE DEF lo, q
<1>5. checked_add(lo, unit - 1) = Some(lo + (unit - 1))
  BY <1>4 DEF checked_add, signed_range
<1>6. swept_range(value, unit) = Some(IF value < 0 THEN <<-(lo + (unit - 1)), -lo>> ELSE <<lo, lo + (unit - 1)>>)
  BY <1>4, <1>5, SomeFacts DEF signed_range
<1>7. lo + (unit - 1) = lo + unit - 1 /\ lo \in Nat /\ lo + unit - 1 \in Nat
  BY <1>1, <1>3
<1>8. Get(swept_range(value, unit)) = IF value < 0 THEN <<-(lo + unit - 1), -lo>> ELSE <<lo, lo + unit - 1>>
  BY <1>6, <1>7, SomeFacts
<1> QED BY <1>3, <1>7, <1>8 DEF q

(* A sweep starts on the years that share the significant digits.          *)
LEMMA SweepStart ==
  ASSUME NEW d, IsDateRecord(d), ValidDate(d), date_error(d) = None, d.year.significant_digits # None
  PROVE  /\ Remaining(DateWalker(d)) = DateDenotes(d)
         /\ \A v \in DateDenotes(d) : \E t \in Triples : position(v) = Some(t)
<1> DEFINE kind == d.year.kind
           sig == d.year.significant_digits
           v == Get(year_of(kind))
           width == big_width(kind)
           kept == Get(sig)
           unit == 10^(width - kept)
           range == significant_range(v, sig, width)
           lo == (Abs(v) \div unit) * unit
           hi == lo + unit - 1
           Y == YearsSharing(v, kept, width)
           q == d.year.qualifier
<1>1. year_of(kind) # None /\ range # None
  BY SomeFacts DEF date_error
<1>2. v \in I64Years /\ v \in Int
  <2>1. v \in I64Years
    BY <1>1, YearFits DEF IsDateRecord
  <2>2. I64Years \subseteq Int
    BY Numbers
  <2> HIDE DEF v
  <2> QED BY <2>1, <2>2, Zenon
<1>3. width \in 1..(MaxPow10 + 1) /\ WidthDenoted(kind) = width
  BY <1>1, WidthsAgree
<1>4. kept \in 1..width
  <2>1. CASE kind.form = "Standard"
    <3>1. width = 4
      BY <2>1, Zenon DEF big_width
    <3>2. kept \in 1..4
      BY <2>1 DEF ValidDate, ValidStandardDate
    <3> HIDE DEF width, kept
    <3> QED BY <3>1, <3>2
  <2>2. CASE kind.form # "Standard"
    <3>1. kept \in 1..digit_count(kind)
      BY <2>2 DEF ValidDate, ValidPrefixedYear
    <3>2. digit_count(kind) = width
      <4>1. CASE kind.form = "Big"
        BY <2>2, <4>1, Zenon DEF digit_count, big_width
      <4>2. CASE kind.form # "Big"
        <5>1. kind.form = "Exponential"
          BY <2>2, <4>2 DEF IsDateRecord, IsYearKind
        <5> QED BY <2>2, <4>2, <5>1, Zenon DEF digit_count, big_width
      <4> QED BY <4>1, <4>2
    <3> HIDE DEF width, kept
    <3> QED BY <3>1, <3>2
  <2> QED BY <2>1, <2>2
<1>5. d.month = None /\ d.day = None
  BY DEF ValidDate, ValidStandardDate, ValidPrefixedYear
<1>6. sweep_width(sig, width) = width - kept /\ width - kept \in 0..MaxPow10
  <2>0. sweep_width(sig, width) = IF width > kept THEN width - kept ELSE 0
    BY DEF sweep_width
  <2> HIDE DEF width, kept
  <2> QED BY <1>3, <1>4, <2>0, Numbers
<1>7. unit \in 1..I64Max /\ checked_pow10(width - kept) # None
  <2> HIDE DEF width, kept
  <2> QED BY <1>6, PowerAtHand, SomeFacts, Numbers DEF checked_pow10
<1>8. range = swept_range(v, unit)
  BY <1>6, <1>7 DEF significant_range
<1>9. Y = {IF v < 0 THEN -m ELSE m : m \in lo..hi}
  BY DEF YearsSharing
<1>10. DateDenotes(d) = {Written(d, <<y, 0, 0>>) : y \in Y}
  <2>1. DateDenotes(d) = {Written(d, <<y, 0, 0>>) : y \in YearsSharing(v, kept, WidthDenoted(kind))}
    BY DEF DateDenotes, WidthDenoted
  <2> HIDE DEF width, kept, v
  <2> QED BY <1>3, <2>1
<1>11. DateWalker(d) = SweepWalk(Get(range)[1], Get(range)[2], q)
  BY DEF DateWalker
<1> HIDE DEF range, unit, Y, width, kept, v
<1>12. lo \in Nat /\ hi \in Nat /\ Get(range) = IF v < 0 THEN <<-hi, -lo>> ELSE <<lo, hi>>
  BY <1>1, <1>2, <1>7, <1>8, SweptYears
<1> HIDE DEF lo, hi
<1>13. Y = Get(range)[1]..Get(range)[2] /\ Y \subseteq Int
  <2>1. CASE v < 0
    <3>1. Get(range)[1] = -hi /\ Get(range)[2] = -lo
      BY <1>12, <2>1
    <3>2. Y = {-m : m \in lo..hi}
      BY <1>9, <2>1
    <3>3. \A y \in (-hi)..(-lo) : -y \in lo..hi /\ -(-y) = y
      BY <1>12
    <3>4. \A m \in lo..hi : -m \in (-hi)..(-lo)
      BY <1>12
    <3>5. Y = (-hi)..(-lo)
      BY <3>2, <3>3, <3>4
    <3> QED BY <3>1, <3>5, <1>12
  <2>2. CASE ~(v < 0)
    BY <1>9, <1>12, <2>2
  <2> QED BY <2>1, <2>2
<1>14. \A y : Written(d, <<y, 0, 0>>) = YearItem(q, y)
  BY <1>5 DEF Written, YearItem, DateOf
<1>15. DateDenotes(d) = {YearItem(q, y) : y \in Y}
  BY <1>10, <1>14
<1> DEFINE w == DateWalker(d)
<1>16. w.walk = "Sweep" /\ ~w.done /\ w.cur = Get(range)[1] /\ w.hi = Get(range)[2] /\ w.qualifier = q
  BY <1>11 DEF SweepWalk
<1> HIDE DEF w, q
<1>17. Remaining(w) = {YearItem(q, y) : y \in Y}
  BY <1>13, <1>16, RemainingByKind
<1>18. \A y \in Y : position(YearItem(q, y)) = Some(<<y, 0, 0>>) /\ <<y, 0, 0>> \in Triples
  BY <1>13, YearItemPlace DEF Triples
<1> QED BY <1>15, <1>17, <1>18 DEF w

(* A date as written stands where its parts say, if its year fits i64.     *)
LEMMA DatePlace ==
  ASSUME NEW x, IsDateRecord(x.date)
  PROVE  position(x) = None \/ \E t \in Triples : position(x) = Some(t)
<1> DEFINE d == x.date
           y == year_of(d.year.kind)
<1>1. ASSUME NEW o, IsSlot(o) PROVE SlotNumber(o) \in Nat
  <2>1. CASE o = None
    BY <2>1 DEF SlotNumber, slot_value, IsSome
  <2>2. CASE o # None
    <3>1. Get(o).digits \in [1..2 -> MaskDigit] /\ slot_value(o) = field_value(Get(o))
      BY <1>1, <2>2 DEF IsSlot, slot_value, IsSome
    <3>2. CASE has_x(Get(o).digits)
      BY <3>1, <3>2 DEF field_value, SlotNumber
    <3>3. CASE ~has_x(Get(o).digits)
      <4>1. PICK v \in Nat : field_value(Get(o)) = Some(v)
        BY <3>1, <3>3, FieldValue
      <4> QED BY <3>1, <4>1, SomeFacts DEF SlotNumber
    <3> QED BY <3>2, <3>3
  <2> QED BY <2>1, <2>2
<1>2. position(x) = IF y = None THEN None ELSE Some(<<Get(y), SlotNumber(d.month), SlotNumber(d.day)>>)
  BY DEF position, SlotNumber
<1>3. CASE y = None
  BY <1>2, <1>3
<1>4. CASE y # None
  <2>1. Get(y) \in I64Years
    BY <1>4, YearFits DEF IsDateRecord
  <2>2. I64Years \subseteq Int
    BY Numbers
  <2>3. SlotNumber(d.month) \in Nat /\ SlotNumber(d.day) \in Nat
    BY <1>1 DEF IsDateRecord
  <2> HIDE DEF y
  <2>4. <<Get(y), SlotNumber(d.month), SlotNumber(d.day)>> \in Triples
    <3>1. Get(y) \in Int
      BY <2>1, <2>2, Zenon
    <3> QED BY <2>3, <3>1 DEF Triples
  <2> QED BY <1>2, <1>4, <2>4
<1> QED BY <1>3, <1>4

(* A singleton starts on its one value.                                    *)
LEMMA SingletonStart ==
  ASSUME NEW x, IsDateRecord(x.date)
  PROVE  Remaining(SingletonWalk(x)) = {x} /\ Placed({x})
<1> DEFINE w == SingletonWalk(x)
<1>1. w.walk = "Singleton" /\ w.left = Some(x)
  BY DEF SingletonWalk
<1> HIDE DEF w
<1>2. Remaining(w) = {x}
  BY <1>1, RemainingByKind, SomeFacts
<1>3. Placed({x})
  BY DatePlace DEF Placed
<1> QED BY <1>2, <1>3 DEF w

(* The endpoints of a range are written without qualifiers.                *)
LEMMA PlainQualifiers ==
  ASSUME NEW d, IsDateRecord(d), check_range_endpoint(d)
  PROVE  /\ d.year.qualifier = {}
         /\ d.month # None => Get(d.month).qualifier = {}
         /\ d.day # None => Get(d.day).qualifier = {}
<1>1. ASSUME NEW q \in qualifiers(d), q \in Qualifier PROVE q = {}
  BY <1>1 DEF check_range_endpoint, is_uncertain, is_approximate, Qualifier
<1>2. /\ d.year.qualifier \in Qualifier
      /\ d.month # None => Get(d.month).qualifier \in Qualifier
      /\ d.day # None => Get(d.day).qualifier \in Qualifier
  BY DEF IsDateRecord, IsSlot
<1>3. /\ d.year.qualifier \in qualifiers(d)
      /\ d.month # None => Get(d.month).qualifier \in qualifiers(d)
      /\ d.day # None => Get(d.day).qualifier \in qualifiers(d)
  BY DEF qualifiers, IsSome
<1> QED BY <1>1, <1>2, <1>3

(* The slots of an endpoint by its precision, each with its number.        *)
LEMMA EndpointSlots ==
  ASSUME NEW d, IsDateRecord(d), ValidDate(d), check_range_endpoint(d)
  PROVE  /\ precision(d) # "Year" <=> d.month # None
         /\ precision(d) = "Day" <=> d.day # None
         /\ SlotNumber(d.month) = IF d.month = None THEN 0 ELSE Get(slot_value(d.month))
         /\ SlotNumber(d.day) = IF d.day = None THEN 0 ELSE Get(slot_value(d.day))
<1>1. ASSUME NEW o, IsSlot(o), o # None => ~has_x(Get(o).digits)
      PROVE  SlotNumber(o) = IF o = None THEN 0 ELSE Get(slot_value(o))
  <2>1. CASE o = None
    BY <2>1 DEF SlotNumber, slot_value, IsSome
  <2>2. CASE o # None
    <3>1. Get(o).digits \in [1..2 -> MaskDigit] /\ slot_value(o) = field_value(Get(o))
      BY <1>1, <2>2 DEF IsSlot, slot_value, IsSome
    <3>2. field_value(Get(o)) # None
      BY <1>1, <2>2, <3>1, FieldValue
    <3> QED BY <2>2, <3>1, <3>2 DEF SlotNumber
  <2> QED BY <2>1, <2>2
<1>2. /\ d.month # None => ~has_x(Get(d.month).digits)
      /\ d.day # None => ~has_x(Get(d.day).digits)
  BY DEF check_range_endpoint, has_unspecified, IsSome
<1>3. d.day # None => d.month # None
  BY DEF ValidDate, ValidStandardDate, ValidPrefixedYear
<1>4. precision(d) # "Season"
  BY DEF check_range_endpoint
<1> QED BY <1>1, <1>2, <1>3, <1>4, PrecisionBySlots DEF IsDateRecord

(* A range: the places between its ends, counted out by the walker, are    *)
(* the positions of the calendar that lie between them.                    *)
LEMMA RangeStart ==
  ASSUME NEW e, IsElement(e), e.kind = "Range", range_agrees(e), parse_set_element(e),
         year_of(e.date.year.kind) # None, year_of(e.to.year.kind) # None
  PROVE  /\ Remaining(RangeWalker(e.date, e.to)) = ElementDenotes(e)
         /\ \A v \in ElementDenotes(e) : \E t \in Triples : position(v) = Some(t)
<1> DEFINE a == e.date
           b == e.to
           A == PlaceOf(a)
           B == PlaceOf(b)
           p == precision(a)
           w == RangeWalker(a, b)
<1>1. /\ p \in Precisions /\ A \in Position(p, I64Years) /\ B \in Position(p, I64Years) /\ AtMost(A, B)
  BY RangeInOrder
<1>2. /\ IsDateRecord(a) /\ ValidDate(a) /\ check_range_endpoint(a)
      /\ IsDateRecord(b) /\ ValidDate(b) /\ check_range_endpoint(b)
  BY DEF IsElement, parse_set_element, range_agrees
<1>3. /\ p # "Year" <=> a.month # None
      /\ p = "Day" <=> a.day # None
  BY <1>2, EndpointSlots
<1>4. w = [walk |-> "Range", cur |-> A, end |-> B, precision |-> p, done |-> FALSE]
  BY DEF RangeWalker, PlaceOf, SlotNumber
<1>5. /\ w.walk = "Range" /\ ~w.done /\ w.cur = A /\ w.end = B /\ w.precision = p
  BY <1>4
<1>6. \A t : PlaceItem(p, t) = Written(a, t)
  <2>1. /\ a.year.qualifier = {}
        /\ a.month # None => Get(a.month).qualifier = {}
        /\ a.day # None => Get(a.day).qualifier = {}
    BY <1>2, PlainQualifiers
  <2>2. TAKE t
  <2>3. Slotted(t[2], p # "Year", {}) = IF a.month = None THEN None ELSE Some(concrete_field(t[2], Get(a.month).qualifier))
    BY <1>3, <2>1 DEF Slotted
  <2>4. Slotted(t[3], p = "Day", {}) = IF a.day = None THEN None ELSE Some(concrete_field(t[3], Get(a.day).qualifier))
    BY <1>3, <2>1 DEF Slotted
  <2> QED BY <2>1, <2>3, <2>4 DEF PlaceItem, Written, DateOf
<1> DEFINE months == IF a.month = None THEN {0} ELSE 1..12
           days == IF a.day = None THEN {0} ELSE 1..31
           S == {t \in (A[1]..B[1]) \X months \X days :
                   /\ t[3] = 0 \/ IsDay(t)
                   /\ AtMost(A, t) /\ AtMost(t, B)}
           P == {t \in Position(p, I64Years) : AtMost(A, t) /\ AtMost(t, B)}
<1>7. Between(a, b) = S
  <2>1. /\ A = <<Get(year_of(a.year.kind)),
                 IF a.month = None THEN 0 ELSE Get(slot_value(a.month)),
                 IF a.day = None THEN 0 ELSE Get(slot_value(a.day))>>
        /\ B = <<Get(year_of(b.year.kind)),
                 IF b.month = None THEN 0 ELSE Get(slot_value(b.month)),
                 IF b.day = None THEN 0 ELSE Get(slot_value(b.day))>>
    BY <1>2, EndpointSlots DEF PlaceOf
  <2> QED BY <2>1 DEF Between
<1>8. ElementDenotes(e) = {Written(a, t) : t \in S}
  BY <1>7 DEF ElementDenotes
<1> HIDE DEF w, A, B
<1>9. Remaining(w) = {PlaceItem(p, t) : t \in P}
  BY <1>5, RemainingByKind
<1>10. P = S
  <2>1. A[1] \in Int /\ B[1] \in Int /\ A[1] \in I64Years /\ B[1] \in I64Years
    BY <1>1, Numbers, PositionIsTriple
  <2>2. I64Years = I64Min..I64Max /\ I64Min \in Int /\ I64Max \in Int
    BY Numbers DEF I64Years
  <2>3. ASSUME NEW t \in P PROVE t \in S
    <3>1. t \in Position(p, I64Years) /\ AtMost(A, t) /\ AtMost(t, B)
      OBVIOUS
    <3>2. t = <<t[1], t[2], t[3]>> /\ t[1] \in Int /\ t[2] \in 0..12 /\ t[3] \in 0..31
      BY <3>1, Numbers, PositionIsTriple
    <3>3. t[1] \in A[1]..B[1]
      BY <2>1, <3>1, <3>2 DEF AtMost, Before
    <3>4. t[2] \in months /\ t[3] \in days /\ (t[3] = 0 \/ IsDay(t))
      <4>1. /\ p = "Year"  => t[2] = 0 /\ t[3] = 0
            /\ p = "Month" => t[2] # 0 /\ t[3] = 0
            /\ p = "Day"   => IsDay(t)
        BY <3>1 DEF Position
      <4>2. IsDay(t) => t[2] \in 1..12 /\ t[3] # 0
        BY DEF IsDay
      <4> QED BY <1>1, <1>3, <3>2, <4>1, <4>2 DEF Precisions
    <3> QED BY <3>1, <3>2, <3>3, <3>4
  <2>4. ASSUME NEW t \in S PROVE t \in P
    <3>1. /\ t \in (A[1]..B[1]) \X months \X days
          /\ t[3] = 0 \/ IsDay(t)
          /\ AtMost(A, t) /\ AtMost(t, B)
      OBVIOUS
    <3>2. t = <<t[1], t[2], t[3]>> /\ t[1] \in A[1]..B[1] /\ t[2] \in months /\ t[3] \in days
      BY <3>1
    <3>3. t[1] \in I64Years
      BY <2>1, <2>2, <3>2
    <3>4. t[2] \in 0..12 /\ t[3] \in 0..31
      BY <3>2
    <3>5. /\ p = "Year"  => t[2] = 0 /\ t[3] = 0
          /\ p = "Month" => t[2] # 0 /\ t[3] = 0
          /\ p = "Day"   => IsDay(t)
      BY <1>3, <3>1, <3>2
    <3>6. t \in Position(p, I64Years)
      BY <3>2, <3>3, <3>4, <3>5 DEF Position
    <3> QED BY <3>1, <3>6
  <2> HIDE DEF P, S
  <2> QED BY <2>3, <2>4
<1> HIDE DEF P, S
<1>11. Remaining(w) = ElementDenotes(e)
  BY <1>6, <1>8, <1>9, <1>10
<1>12. \A v \in ElementDenotes(e) : \E t \in Triples : position(v) = Some(t)
  <2>1. ASSUME NEW t \in P PROVE position(PlaceItem(p, t)) = Some(t) /\ t \in Triples
    BY <1>1, PlaceItemPlace DEF P
  <2> QED BY <1>9, <1>11, <2>1
<1> QED BY <1>11, <1>12 DEF w

(* The odometer over the masked digits of a year stops at every year the   *)
(* mask admits.  A counter below Turn(digits, p) that shows the digits g   *)
(* after place p, whatever is added before it:                             *)
Filled(digits, g, p, k) ==
  /\ k \in 0..(Turn(digits, p) - 1)
  /\ \A q \in (p + 1)..4 : \A n \in Nat : Shown(digits, q, n * Turn(digits, p) + k) = g[q]

(* Counting T, the digit in its place is read back.                        *)
LEMMA DigitInPlace ==
  ASSUME NEW T \in Tens, NEW k \in 0..(T - 1), NEW a \in 0..9, NEW n \in Nat
  PROVE  /\ k + a * T \in 0..(10 * T - 1)
         /\ n * (10 * T) + (k + a * T) = (10 * n + a) * T + k
         /\ ((n * (10 * T) + (k + a * T)) \div T) % 10 = a
<1> DEFINE m == 10 * n + a
<1>1. m \in Nat /\ m % 10 = a
  OBVIOUS
<1>2. T \in {1, 10, 100, 1000}
  BY DEF Tens
<1>3. k + a * T \in 0..(10 * T - 1)
  BY <1>2
<1>4. n * (10 * T) + (k + a * T) = m * T + k
  BY <1>2
<1> HIDE DEF m
<1>5. (m * T + k) \div T = m
  <2>1. CASE T = 1
    BY <1>1, <2>1
  <2>2. CASE T = 10
    BY <1>1, <2>2
  <2>3. CASE T = 100
    BY <1>1, <2>3
  <2>4. CASE T = 1000
    BY <1>1, <2>4
  <2> QED BY <1>2, <2>1, <2>2, <2>3, <2>4
<1>6. ((n * (10 * T) + (k + a * T)) \div T) % 10 = a
  BY <1>1, <1>4, <1>5, Zenon
<1> QED BY <1>3, <1>4, <1>6 DEF m

(* A counter that shows the digits behind a place can be chosen to show    *)
(* the place too.                                                          *)
LEMMA PlaceFilled ==
  ASSUME NEW digits \in [1..4 -> MaskDigit], NEW g \in [1..4 -> 0..9],
         NEW p \in 1..4, digits[p] = X \/ g[p] = digits[p],
         NEW k, Filled(digits, g, p, k)
  PROVE  \E m : Filled(digits, g, p - 1, m)
<1> DEFINE T == Turn(digits, p)
           U == Turn(digits, p - 1)
           a == g[p]
<1>1. /\ T \in Tens /\ U = IF digits[p] = X THEN 10 * T ELSE T
      /\ a \in 0..9 /\ p - 1 \in Nat /\ (p - 1) + 1 = p
  BY Turns
<1>2. k \in 0..(T - 1) /\ \A q \in (p + 1)..4 : \A n \in Nat : Shown(digits, q, n * T + k) = g[q]
  BY DEF Filled
<1>3. \A q \in p..4 : q = p \/ q \in (p + 1)..4
  OBVIOUS
<1>4. \A i : Shown(digits, p, i) = IF digits[p] = X THEN (i \div T) % 10 ELSE digits[p]
  BY DEF Shown
<1>5. CASE digits[p] = X
  <2> DEFINE m == k + a * T
  <2> HIDE DEF T, U, a
  <2>1. m \in 0..(U - 1)
    BY <1>1, <1>2, <1>5, DigitInPlace
  <2>2. ASSUME NEW n \in Nat PROVE n * U + m = (10 * n + a) * T + k /\ ((n * U + m) \div T) % 10 = a /\ 10 * n + a \in Nat
    <3>1. n * (10 * T) + m = (10 * n + a) * T + k /\ ((n * (10 * T) + m) \div T) % 10 = a
      <4>1. T \in Tens /\ k \in 0..(T - 1) /\ a \in 0..9
        BY <1>1, <1>2
      <4> QED BY ONLY <4>1, n \in Nat, DigitInPlace, Zenon DEF m
    <3>2. U = 10 * T /\ 10 * n + a \in Nat
      BY <1>1, <1>5
    <3> HIDE DEF m
    <3> QED BY <3>1, <3>2, Zenon
  <2> HIDE DEF m
  <2>3. ASSUME NEW q \in p..4, NEW n \in Nat PROVE Shown(digits, q, n * U + m) = g[q]
    <3>1. CASE q = p
      BY <1>4, <1>5, <2>2, <3>1 DEF a
    <3>2. CASE q \in (p + 1)..4
      <4>1. Shown(digits, q, (10 * n + a) * T + k) = g[q]
        BY <1>2, <2>2, <3>2
      <4> QED BY <2>2, <4>1
    <3> QED BY <1>3, <3>1, <3>2
  <2>4. Filled(digits, g, p - 1, m)
    BY <1>1, <2>1, <2>3 DEF Filled, U
  <2> QED BY <2>4
<1>6. CASE digits[p] # X
  <2>1. U = T
    BY <1>1, <1>6
  <2> HIDE DEF T, U
  <2>2. ASSUME NEW q \in p..4, NEW n \in Nat PROVE Shown(digits, q, n * U + k) = g[q]
    BY <1>2, <1>3, <1>4, <1>6, <2>1
  <2>3. Filled(digits, g, p - 1, k)
    BY <1>1, <1>2, <2>1, <2>2 DEF Filled, U
  <2> QED BY <2>3
<1> QED BY <1>5, <1>6

(* Every way to fill the masked places of a year is some completion.       *)
LEMMA CompletionsCover ==
  ASSUME NEW digits \in [1..4 -> MaskDigit], NEW g \in [1..4 -> 0..9],
         \A p \in 1..4 : digits[p] = X \/ g[p] = digits[p]
  PROVE  \E i \in 0..(completion_count(digits) - 1) :
           completion(digits, i) = 1000 * g[1] + 100 * g[2] + 10 * g[3] + g[4]
<1>1. Filled(digits, g, 4, 0)
  <2>1. Turn(digits, 4) = 1 /\ (4 + 1)..4 = {}
    BY Turns
  <2> QED BY <2>1 DEF Filled
<1>0. 1 \in 1..4 /\ 2 \in 1..4 /\ 3 \in 1..4 /\ 4 \in 1..4 /\ 4 - 1 = 3 /\ 3 - 1 = 2 /\ 2 - 1 = 1 /\ 1 - 1 = 0
  OBVIOUS
<1>2. \E m : Filled(digits, g, 3, m)
  BY <1>0, <1>1, PlaceFilled
<1>3. \E m : Filled(digits, g, 2, m)
  BY <1>0, <1>2, PlaceFilled
<1>4. \E m : Filled(digits, g, 1, m)
  BY <1>0, <1>3, PlaceFilled
<1>5. PICK i : Filled(digits, g, 0, i)
  BY <1>0, <1>4, PlaceFilled
<1>6. i \in 0..(completion_count(digits) - 1)
  BY <1>5, Turns DEF Filled
<1>7. i \in Nat /\ \A n : n = 0 * Turn(digits, 0) + i => n = i
  <2>1. completion_count(digits) \in Nat
    BY CompletionsRise
  <2>2. Turn(digits, 0) \in Nat
    BY <2>1, Turns
  <2> QED BY <1>6, <2>1, <2>2
<1>8. \A q \in 1..4 : Shown(digits, q, i) = g[q]
  <2> TAKE q \in 1..4
  <2>1. 0 \in Nat /\ q \in (0 + 1)..4
    OBVIOUS
  <2>2. Shown(digits, q, 0 * Turn(digits, 0) + i) = g[q]
    BY <1>5, <2>1, Zenon DEF Filled
  <2> QED BY <1>7, <2>2
<1> QED BY <1>0, <1>6, <1>7, <1>8, CompletionShows

-----------------------------------------------------------------------------
(* What the places to the right of p leave of the counter.                 *)
LEMMA PlaceDropped ==
  ASSUME NEW digits \in [1..4 -> MaskDigit], NEW i \in Nat, NEW p \in 1..4
  PROVE  /\ place(digits[p], i \div Turn(digits, p)) = Shown(digits, p, i)
         /\ left_over(digits[p], i \div Turn(digits, p)) = i \div Turn(digits, p - 1)
<1> DEFINE T == Turn(digits, p)
<1>1. T \in {1, 10, 100, 1000} /\ Turn(digits, p - 1) = (IF digits[p] = X THEN 10 * T ELSE T)
  BY Turns DEF Tens
<1>2. place(digits[p], i \div T) = Shown(digits, p, i)
  BY DEF place, Shown
<1> HIDE DEF T
<1>3. (i \div T) \div 10 = i \div (10 * T)
  <2>1. CASE T = 1    BY <2>1
  <2>2. CASE T = 10   BY <2>2
  <2>3. CASE T = 100  BY <2>3
  <2>4. CASE T = 1000 BY <2>4
  <2> QED BY <1>1, <2>1, <2>2, <2>3, <2>4
<1>4. left_over(digits[p], i \div T) = i \div Turn(digits, p - 1)
  BY <1>1, <1>3 DEF left_over
<1> QED BY <1>2, <1>4 DEF T

(* The year odometer of the iterator (Masked::year_at), which drops the    *)
(* counter digit by digit, and that of the bounds (year_completions) stand *)
(* at the same year at every counter, and have as many positions.          *)
THEOREM OdometersAgree ==
  ASSUME NEW digits \in [1..4 -> MaskDigit], NEW i \in Nat
  PROVE  filled(digits, i) = completion(digits, i)
<1> DEFINE left(p) == i \div Turn(digits, p)
           S(p) == Shown(digits, p, i)
<1>0. /\ 1 \in 1..4 /\ 2 \in 1..4 /\ 3 \in 1..4 /\ 4 \in 1..4
      /\ 4 - 1 = 3 /\ 3 - 1 = 2 /\ 2 - 1 = 1
  OBVIOUS
<1>1. left(4) = i
  <2>1. Turn(digits, 4) = 1 /\ i \div 1 = i
    BY Turns
  <2> QED BY <2>1
<1>2. \A p \in 1..4 : place(digits[p], left(p)) = S(p) /\ left_over(digits[p], left(p)) = left(p - 1)
  BY PlaceDropped
<1> HIDE DEF left, S
<1>3. /\ place(digits[4], i) = S(4) /\ left_over(digits[4], i) = left(3)
      /\ place(digits[3], left(3)) = S(3) /\ left_over(digits[3], left(3)) = left(2)
      /\ place(digits[2], left(2)) = S(2) /\ left_over(digits[2], left(2)) = left(1)
      /\ place(digits[1], left(1)) = S(1)
  BY <1>0, <1>1, <1>2
<1>4. filled(digits, i) = 1000 * S(1) + 100 * S(2) + 10 * S(3) + S(4)
  BY <1>3 DEF filled
<1>5. completion(digits, i) = 1000 * S(1) + 100 * S(2) + 10 * S(3) + S(4)
  BY CompletionShows DEF S
<1> QED BY <1>4, <1>5

(* The years an odometer stops at are the years the date may mean.         *)
YearCount(kind) == IF year_of(kind) # None THEN 1 ELSE completion_count(kind.digits)

(* The odometer stops at exactly those years, ascending.                   *)
LEMMA YearsStopped ==
  ASSUME NEW kind, IsYearKind(kind), kind.form = "Standard"
  PROVE  LET n == YearCount(kind)
         IN  /\ n \in Nat
             /\ \A i \in 0..(n - 1) : year_at(kind, i) \in Int /\ year_at(kind, i) \in YearsOf(kind)
             /\ \A i, j \in 0..(n - 1) : i < j => year_at(kind, i) < year_at(kind, j)
             /\ \A y \in YearsOf(kind) : \E i \in 0..(n - 1) : y = year_at(kind, i)
<1> DEFINE n == YearCount(kind)
           D == kind.digits
<1>0. D \in [1..4 -> MaskDigit]
  BY DEF IsYearKind
<1>1. CASE year_of(kind) # None
  <2>1. n = 1 /\ \A i : year_at(kind, i) = Get(year_of(kind))
    BY <1>1 DEF YearCount, year_at
  <2>2. YearsOf(kind) = {Get(year_of(kind))}
    BY <1>1 DEF YearsOf
  <2>3. Get(year_of(kind)) \in Int
    <3>1. Get(year_of(kind)) \in I64Years /\ I64Years \subseteq Int
      BY <1>1, YearFits, Numbers
    <3> QED BY <3>1, Zenon
  <2> HIDE DEF n
  <2>4. 0..(n - 1) = {0}
    BY <2>1
  <2>5. \A i, j \in 0..(n - 1) : ~(i < j)
    BY <2>4
  <2> QED BY <2>1, <2>2, <2>3, <2>4, <2>5 DEF n
<1>2. CASE year_of(kind) = None
  <2>1. n = completion_count(D) /\ \A i \in Nat : year_at(kind, i) = completion(D, i)
    BY <1>0, <1>2, OdometersAgree DEF YearCount, year_at
  <2> DEFINE Sum(a, b, c, d) == 1000 * a + 100 * b + 10 * c + d
  <2>2. YearsOf(kind) = {Sum(a, b, c, d) :
                           a \in FillsOf(D[1]), b \in FillsOf(D[2]), c \in FillsOf(D[3]), d \in FillsOf(D[4])}
    BY <1>2 DEF YearsOf
  <2>6. \A y : y \in YearsOf(kind) <=>
           \E a \in FillsOf(D[1]), b \in FillsOf(D[2]), c \in FillsOf(D[3]), d \in FillsOf(D[4]) :
              y = Sum(a, b, c, d)
    <3> HIDE DEF Sum, D
    <3> QED BY <2>2
  <2>3. /\ n \in Nat
        /\ \A i \in 0..(n - 1) : completion(D, i) \in WrittenYears
        /\ \A i, j \in 0..(n - 1) : i < j => completion(D, i) < completion(D, j)
    BY <1>0, <2>1, CompletionsRise
  <2>0. 1 \in 1..4 /\ 2 \in 1..4 /\ 3 \in 1..4 /\ 4 \in 1..4
    OBVIOUS
  <2> HIDE DEF n, D
  <2>4. ASSUME NEW i \in 0..(n - 1) PROVE completion(D, i) \in YearsOf(kind) /\ completion(D, i) \in Int
    <3>1. i \in Nat
      BY <2>3
    <3>2. \A p \in 1..4 : Shown(D, p, i) \in FillsOf(D[p])
      <4> TAKE p \in 1..4
      <4>1. Shown(D, p, i) \in 0..9
        BY <1>0, <3>1, CompletionShows
      <4>2. D[p] # X => Shown(D, p, i) = D[p]
        BY DEF Shown
      <4> QED BY <4>1, <4>2 DEF FillsOf, Digit
    <3>3. completion(D, i) = Sum(Shown(D, 1, i), Shown(D, 2, i), Shown(D, 3, i), Shown(D, 4, i))
      BY <1>0, <3>1, CompletionShows
    <3>4. completion(D, i) \in Int
      <4>1. WrittenYears \subseteq Int
        BY DEF WrittenYears
      <4> QED BY <2>3, <4>1, Zenon
    <3> HIDE DEF Sum
    <3> QED BY <2>0, <2>6, <3>2, <3>3, <3>4, Zenon
  <2>5. ASSUME NEW y \in YearsOf(kind) PROVE \E i \in 0..(n - 1) : y = completion(D, i)
    <3>1. PICK a \in FillsOf(D[1]), b \in FillsOf(D[2]), c \in FillsOf(D[3]), d \in FillsOf(D[4]) :
            y = Sum(a, b, c, d)
      <4> HIDE DEF Sum
      <4> QED BY <2>6, Zenon
    <3> DEFINE g == <<a, b, c, d>>
    <3>2. \A p \in 1..4 : D[p] = X \/ D[p] \in 0..9
      BY <1>0 DEF MaskDigit, Digit
    <3>3. g[1] = a /\ g[2] = b /\ g[3] = c /\ g[4] = d
      OBVIOUS
    <3>4. \A p \in 1..4 : g[p] \in 0..9 /\ (D[p] = X \/ g[p] = D[p])
      <4>1. \A p \in 1..4 : \A v \in FillsOf(D[p]) : v \in 0..9 /\ (D[p] = X \/ v = D[p])
        BY <3>2 DEF FillsOf, Digit
      <4>2. /\ a \in 0..9 /\ (D[1] = X \/ a = D[1])
            /\ b \in 0..9 /\ (D[2] = X \/ b = D[2])
            /\ c \in 0..9 /\ (D[3] = X \/ c = D[3])
            /\ d \in 0..9 /\ (D[4] = X \/ d = D[4])
        BY <2>0, <4>1, Zenon
      <4>3. ASSUME NEW p \in 1..4 PROVE p = 1 \/ p = 2 \/ p = 3 \/ p = 4
        OBVIOUS
      <4> HIDE DEF g
      <4> QED BY <3>3, <4>2, <4>3
    <3>5. g \in [1..4 -> 0..9]
      BY <3>4
    <3> HIDE DEF g
    <3>6. PICK i \in 0..(completion_count(D) - 1) : completion(D, i) = 1000 * g[1] + 100 * g[2] + 10 * g[3] + g[4]
      BY <1>0, <3>4, <3>5, CompletionsCover
    <3>7. y = completion(D, i)
      BY <3>1, <3>3, <3>6
    <3> QED BY <2>1, <3>6, <3>7
  <2> QED BY <2>1, <2>3, <2>4, <2>5 DEF n
<1> QED BY <1>1, <1>2

(* A fully written field matches its own value alone.                      *)
LEMMA ValueMatches ==
  ASSUME NEW f, f.digits \in [1..2 -> MaskDigit], ~has_x(f.digits), NEW v, field_value(f) = Some(v)
  PROVE  v \in 0..99 /\ \A w \in 0..99 : field_matches(f.digits, w) <=> w = v
<1>1. 1 \in 1..2 /\ 2 \in 1..2 /\ DOMAIN f.digits = 1..2
  OBVIOUS
<1>2. f.digits[1] \in 0..9 /\ f.digits[2] \in 0..9
  BY <1>1 DEF has_x, MaskDigit, Digit
<1>3. v = 10 * f.digits[1] + f.digits[2]
  BY SomeFacts DEF field_value
<1>4. ASSUME NEW w \in 0..99
      PROVE  field_matches(f.digits, w) <=> f.digits[1] = w \div 10 /\ f.digits[2] = w % 10
  <2> DEFINE s == <<w \div 10, w % 10>>
  <2>1. s[1] = w \div 10 /\ s[2] = w % 10
    OBVIOUS
  <2>2. field_matches(f.digits, w) <=> \A i \in 1..2 : f.digits[i] \in {X, s[i]}
    BY <1>1 DEF field_matches, matches
  <2>3. \A i \in 1..2 : i = 1 \/ i = 2
    OBVIOUS
  <2>4. f.digits[1] # X /\ f.digits[2] # X
    BY <1>2 DEF X
  <2> HIDE DEF s
  <2> QED BY <1>1, <2>1, <2>2, <2>3, <2>4
<1>5. \A w \in 0..99 : w = 10 * (w \div 10) + (w % 10) /\ w \div 10 \in 0..9 /\ (w % 10) \in 0..9
  OBVIOUS
<1>6. \A w \in 0..99 : \A a, b \in 0..9 : w = 10 * a + b => w \div 10 = a /\ w % 10 = b
  OBVIOUS
<1> DEFINE a == f.digits[1]
           b == f.digits[2]
<1>7. a \in 0..9 /\ b \in 0..9 /\ v = 10 * a + b
  BY <1>2, <1>3
<1>8. ASSUME NEW w \in 0..99 PROVE field_matches(f.digits, w) <=> w = v
  <2>1. field_matches(f.digits, w) <=> a = w \div 10 /\ b = w % 10
    BY <1>4
  <2> HIDE DEF a, b
  <2> QED BY <1>5, <1>6, <1>7, <2>1
<1>9. v \in 0..99
  <2> HIDE DEF a, b
  <2> QED BY <1>7
<1> QED BY <1>8, <1>9

(* The candidates listed for a slot are the values the slot may mean: for  *)
(* a month the calendar's or a season's, for a day the calendar's.         *)
LEMMA MonthsListed ==
  ASSUME NEW d, IsSlot(d.month), d.month # None, validate_month_day(d.year.kind, d.month, d.day)
  PROVE  LET c == month_candidates_of(Get(d.month))
         IN  /\ Rising(c, 99)
             /\ d.day # None => Rising(c, 12)
             /\ \A k : Lists(c, k) <=> k \in MaskedMonthSlots(d)
<1> DEFINE f == Get(d.month)
           c == month_candidates_of(f)
           All == (1..12) \cup SeasonCode
<1>1. f.digits \in [1..2 -> MaskDigit]
  BY DEF IsSlot
<1>2. MonthSlots(d) = {v \in All : field_matches(f.digits, v)}
  BY DEF MonthSlots, SlotValues
<1>3. CASE has_x(f.digits)
  <2>1. c = candidates_of(f, 12)
    BY <1>3 DEF month_candidates_of
  <2>2. MaskedMonthSlots(d) = {v \in 1..12 : field_matches(f.digits, v)}
    BY <1>2, <1>3 DEF MaskedMonthSlots
  <2> HIDE DEF c
  <2>3. Rising(c, 12) /\ \A k \in 1..12 : field_matches(f.digits, k) <=> Lists(c, k)
    BY <2>1, Candidates
  <2>4. \A k : Lists(c, k) => k \in 1..12
    BY <2>3 DEF Lists, Rising
  <2>5. Rising(c, 99)
    BY <2>3 DEF Rising
  <2> QED BY <2>2, <2>3, <2>4, <2>5 DEF c
<1>4. CASE ~has_x(f.digits)
  <2>1. PICK v \in Nat : field_value(f) = Some(v) /\ Get(field_value(f)) = v /\ field_value(f) # None
    BY <1>1, <1>4, FieldValue
  <2>2. c = Some(v)
    BY <1>4, <2>1 DEF month_candidates_of
  <2>3. MaskedMonthSlots(d) = MonthSlots(d)
    BY <1>4 DEF MaskedMonthSlots
  <2>4. v \in All /\ (d.day # None => v \notin SeasonCode)
    BY <2>1 DEF validate_month_day
  <2>5. \A w \in 0..99 : field_matches(f.digits, w) <=> w = v
    BY <1>1, <1>4, <2>1, ValueMatches
  <2>6. MonthSlots(d) = {v}
    <3>1. All \subseteq 0..99
      BY DEF SeasonCode
    <3> HIDE DEF All
    <3> QED BY <1>2, <2>4, <2>5, <3>1
  <2>7. v \in 1..99 /\ (d.day # None => v \in 1..12)
    BY <2>4 DEF SeasonCode
  <2>8. Rising(Some(v), 99) /\ (d.day # None => Rising(Some(v), 12))
    BY <2>7, OneCandidate
  <2>9. \A k : Lists(Some(v), k) <=> k = v
    BY DEF Lists, Some
  <2> HIDE DEF c
  <2> QED BY <2>2, <2>3, <2>6, <2>8, <2>9 DEF c
<1> QED BY <1>3, <1>4

(* The candidates of a day slot are the days it matches, ascending.        *)
LEMMA DaysListed ==
  ASSUME NEW d, IsSlot(d.day), d.day # None, d.month # None, validate_month_day(d.year.kind, d.month, d.day)
  PROVE  LET c == day_candidates_of(Get(d.day))
         IN  Rising(c, 31) /\ \A k : Lists(c, k) <=> k \in SlotValues(d.day, 1..31)
<1> DEFINE f == Get(d.day)
           c == day_candidates_of(f)
<1>1. f.digits \in [1..2 -> MaskDigit]
  BY DEF IsSlot
<1>2. SlotValues(d.day, 1..31) = {v \in 1..31 : field_matches(f.digits, v)}
  BY DEF SlotValues
<1>3. CASE has_x(f.digits)
  <2>1. c = candidates_of(f, 31)
    BY <1>3 DEF day_candidates_of
  <2> HIDE DEF c
  <2>3. Rising(c, 31) /\ \A k \in 1..31 : field_matches(f.digits, k) <=> Lists(c, k)
    BY <2>1, Candidates
  <2>4. \A k : Lists(c, k) => k \in 1..31
    BY <2>3 DEF Lists, Rising
  <2> QED BY <1>2, <2>3, <2>4 DEF c
<1>4. CASE ~has_x(f.digits)
  <2>1. PICK v \in Nat : field_value(f) = Some(v) /\ Get(field_value(f)) = v /\ field_value(f) # None
    BY <1>1, <1>4, FieldValue
  <2>2. c = Some(v)
    BY <1>4, <2>1 DEF day_candidates_of
  <2>3. accepted_days(f) # {}
    BY DEF validate_month_day, day_has_valid_completion
  <2>4. v \in 1..31
    BY <2>1, <2>3 DEF accepted_days
  <2>5. \A w \in 0..99 : field_matches(f.digits, w) <=> w = v
    BY <1>1, <1>4, <2>1, ValueMatches
  <2>6. SlotValues(d.day, 1..31) = {v}
    <3>1. 1..31 \subseteq 0..99
      OBVIOUS
    <3> QED BY <1>2, <2>4, <2>5, <3>1
  <2>7. Rising(Some(v), 31)
    BY <2>4, OneCandidate
  <2>8. \A k : Lists(Some(v), k) <=> k = v
    BY DEF Lists, Some
  <2> HIDE DEF c
  <2> QED BY <2>2, <2>6, <2>7, <2>8 DEF c
<1> QED BY <1>3, <1>4

(* What the odometer of a masked date reads.                               *)
LEMMA MaskedIsStandard ==
  ASSUME NEW d, IsDateRecord(d), ValidDate(d), has_unspecified(d)
  PROVE  /\ d.year.kind.form = "Standard" /\ IsYearKind(d.year.kind)
         /\ d.day # None => d.month # None
         /\ validate_month_day(d.year.kind, d.month, d.day)
<1>1. d.year.kind.form = "Standard"
  <2>1. SUFFICES ASSUME d.year.kind.form # "Standard" PROVE FALSE
    OBVIOUS
  <2>2. d.month = None /\ d.day = None
    BY <2>1 DEF ValidDate, ValidPrefixedYear
  <2> QED BY <2>1, <2>2 DEF has_unspecified, IsSome
<1> QED BY <1>1 DEF IsDateRecord, ValidDate, ValidStandardDate

(* A new odometer stands at its first tick and reads rising lists.         *)
LEMMA MaskedReads ==
  ASSUME NEW d, IsDateRecord(d), ValidDate(d), has_unspecified(d)
  PROVE  LET w == MaskedWalk(d)
         IN  /\ w.walk = "Masked" /\ Now(w) = <<0, 0, 0>>
             /\ w.year = d.year.kind /\ w.year_count = YearCount(d.year.kind)
             /\ w.months = slot_candidates(d.month, month_candidates_of)
             /\ w.days = slot_candidates(d.day, day_candidates_of)
             /\ w.yq = d.year.qualifier /\ w.mq = slot_qualifier(d.month) /\ w.dq = slot_qualifier(d.day)
             /\ Odometer(w)
<1> DEFINE w == MaskedWalk(d)
           kind == d.year.kind
<1>1. /\ w.walk = "Masked" /\ w.yi = 0 /\ w.mi = 0 /\ w.di = 0
      /\ w.year = kind /\ w.year_count = YearCount(kind)
      /\ w.months = slot_candidates(d.month, month_candidates_of)
      /\ w.days = slot_candidates(d.day, day_candidates_of)
      /\ w.yq = d.year.qualifier /\ w.mq = slot_qualifier(d.month) /\ w.dq = slot_qualifier(d.day)
  BY DEF MaskedWalk, YearCount, year_count, completion_count, MaskedPositions
<1> HIDE DEF w
<1>2. /\ IsSlot(d.month) /\ IsSlot(d.day) /\ (d.day # None => d.month # None)
      /\ validate_month_day(kind, d.month, d.day) /\ kind.form = "Standard" /\ IsYearKind(kind)
  BY MaskedIsStandard DEF IsDateRecord
<1>3. /\ w.year_count \in Nat
      /\ \A i \in 0..(w.year_count - 1) : year_at(w.year, i) \in Int
      /\ \A i, j \in 0..(w.year_count - 1) : i < j => year_at(w.year, i) < year_at(w.year, j)
  BY <1>1, <1>2, YearsStopped
<1>4. /\ w.months = None <=> d.month = None
      /\ w.months # None => Get(w.months) = month_candidates_of(Get(d.month))
      /\ w.days = None <=> d.day = None
      /\ w.days # None => Get(w.days) = day_candidates_of(Get(d.day))
  BY <1>1, SomeFacts DEF slot_candidates
<1>5. /\ ListRises(w.months, 99) /\ (w.days # None => w.months # None /\ ListRises(w.months, 12))
  BY <1>2, <1>4, MonthsListed DEF ListRises
<1>6. ListRises(w.days, 31)
  BY <1>2, <1>4, DaysListed DEF ListRises
<1>7. Odometer(w)
  BY <1>1, <1>3, <1>5, <1>6 DEF Odometer, Reads
<1> QED BY <1>1, <1>7 DEF Now, w

(* What the odometer shows, slot by slot, is what the slot may mean.       *)
ShownAt(slot, i) == IF slot = None THEN 0 ELSE Get(slot)[i + 1]

(* A wheel shows exactly the values its slot may mean.                     *)
LEMMA SlotShown ==
  ASSUME NEW slot, NEW S, NEW limit \in Nat,
         slot = None => S = {0},
         slot # None => Rising(Get(slot), limit) /\ \A k : Lists(Get(slot), k) <=> k \in S
  PROVE  /\ \A i \in Nat : i < Marks(slot) => ShownAt(slot, i) \in S
         /\ \A k \in S : \E i \in Nat : i < Marks(slot) /\ ShownAt(slot, i) = k
<1>1. CASE slot = None
  <2>1. 0 \in Nat /\ 0 < 1
    OBVIOUS
  <2> QED BY <1>1, <2>1 DEF ShownAt, Marks
<1>2. CASE slot # None
  <2> DEFINE list == Get(slot)
  <2>1. Len(list) \in Nat /\ \A k : k \in S <=> \E i \in 1..Len(list) : list[i] = k
    BY <1>2 DEF Rising, Lists
  <2>2. \A i \in Nat : i < Len(list) => i + 1 \in 1..Len(list)
    BY <2>1
  <2>3. \A i \in 1..Len(list) : i - 1 \in Nat /\ i - 1 < Len(list) /\ (i - 1) + 1 = i
    BY <2>1
  <2>4. \A i \in Nat : i < Len(list) => list[i + 1] \in S
    BY <2>1, <2>2
  <2>5. ASSUME NEW k \in S PROVE \E i \in Nat : i < Len(list) /\ list[i + 1] = k
    <3>1. PICK i \in 1..Len(list) : list[i] = k
      BY <2>1
    <3> QED BY <2>3, <3>1
  <2>6. Marks(slot) = Len(list) /\ \A i : ShownAt(slot, i) = list[i + 1]
    BY <1>2 DEF Marks, ShownAt
  <2> HIDE DEF list
  <2> QED BY <2>4, <2>5, <2>6
<1> QED BY <1>1, <1>2

(* An odometer starts on the completions of its date.                      *)
LEMMA MaskedStart ==
  ASSUME NEW d, IsDateRecord(d), ValidDate(d), has_unspecified(d), d.year.significant_digits = None
  PROVE  /\ Remaining(MaskedWalk(d)) = DateDenotes(d)
         /\ Odometer(MaskedWalk(d))
         /\ \A v \in DateDenotes(d) : \E t \in Triples : position(v) = Some(t)
<1> DEFINE w == MaskedWalk(d)
           kind == d.year.kind
           Y == YearsOf(kind)
           M == MaskedMonthSlots(d)
           D == SlotValues(d.day, 1..31)
<1>1. /\ w.walk = "Masked" /\ Now(w) = <<0, 0, 0>>
      /\ w.year = kind /\ w.year_count = YearCount(kind)
      /\ w.months = slot_candidates(d.month, month_candidates_of)
      /\ w.days = slot_candidates(d.day, day_candidates_of)
      /\ w.yq = d.year.qualifier /\ w.mq = slot_qualifier(d.month) /\ w.dq = slot_qualifier(d.day)
      /\ Odometer(w) /\ Reads(w)
  BY MaskedReads DEF Odometer
<1> HIDE DEF w
<1>2. /\ IsSlot(d.month) /\ IsSlot(d.day) /\ (d.day # None => d.month # None)
      /\ validate_month_day(kind, d.month, d.day) /\ kind.form = "Standard" /\ IsYearKind(kind)
  BY MaskedIsStandard DEF IsDateRecord
<1>3. /\ w.months = None <=> d.month = None
      /\ w.months # None => Get(w.months) = month_candidates_of(Get(d.month))
      /\ w.days = None <=> d.day = None
      /\ w.days # None => Get(w.days) = day_candidates_of(Get(d.day))
  BY <1>1, SomeFacts DEF slot_candidates
<1> DEFINE monthAt(i) == ShownAt(w.months, i)
           dayAt(i) == ShownAt(w.days, i)
<1>4. /\ \A i \in Nat : i < Marks(w.months) => monthAt(i) \in M
      /\ \A k \in M : \E i \in Nat : i < Marks(w.months) /\ monthAt(i) = k
  <2>1. w.months = None => M = {0}
    BY <1>3 DEF MaskedMonthSlots, MonthSlots, SlotValues
  <2>2. w.months # None => Rising(Get(w.months), 99) /\ \A k : Lists(Get(w.months), k) <=> k \in M
    BY <1>2, <1>3, MonthsListed
  <2>3. 99 \in Nat
    OBVIOUS
  <2> HIDE DEF M
  <2> QED BY <2>1, <2>2, <2>3, SlotShown
<1>5. /\ \A i \in Nat : i < Marks(w.days) => dayAt(i) \in D
      /\ \A k \in D : \E i \in Nat : i < Marks(w.days) /\ dayAt(i) = k
  <2>1. w.days = None => D = {0}
    BY <1>3 DEF SlotValues
  <2>2. w.days # None => Rising(Get(w.days), 31) /\ \A k : Lists(Get(w.days), k) <=> k \in D
    BY <1>2, <1>3, DaysListed
  <2>3. 31 \in Nat
    OBVIOUS
  <2> HIDE DEF D
  <2> QED BY <2>1, <2>2, <2>3, SlotShown
<1>6. /\ \A i \in Nat : i < w.year_count => year_at(kind, i) \in Y
      /\ \A y \in Y : \E i \in Nat : i < w.year_count /\ year_at(kind, i) = y
  <2>1. /\ w.year_count \in Nat
        /\ \A i \in 0..(w.year_count - 1) : year_at(kind, i) \in Y
        /\ \A y \in Y : \E i \in 0..(w.year_count - 1) : y = year_at(kind, i)
    BY <1>1, <1>2, YearsStopped
  <2>2. \A i \in Nat : i < w.year_count <=> i \in 0..(w.year_count - 1)
    BY <2>1
  <2>3. 0..(w.year_count - 1) \subseteq Nat
    BY <2>1
  <2> QED BY <2>1, <2>2, <2>3, Zenon
<1>7. \A c : Shows(w, c) = <<year_at(kind, c[1]), monthAt(c[2]), dayAt(c[3])>>
  BY <1>1 DEF Shows, ShownMonth, ShownDay, ShownAt
<1>8. \A c : TickItem(w, c) = Written(d, Shows(w, c))
  <2> TAKE c
  <2> DEFINE t == Shows(w, c)
  <2>1. t[1] = year_at(kind, c[1]) /\ t[2] = ShownMonth(w, c) /\ t[3] = ShownDay(w, c)
    BY <1>1 DEF Shows
  <2> HIDE DEF t
  <2>2. Slotted(ShownMonth(w, c), w.months # None, w.mq)
          = IF d.month = None THEN None ELSE Some(concrete_field(t[2], Get(d.month).qualifier))
    BY <1>1, <1>3, <2>1 DEF Slotted, slot_qualifier
  <2>3. Slotted(ShownDay(w, c), w.days # None, w.dq)
          = IF d.day = None THEN None ELSE Some(concrete_field(t[3], Get(d.day).qualifier))
    BY <1>1, <1>3, <2>1 DEF Slotted, slot_qualifier
  <2>4. TickItem(w, c) = Written(d, t)
    BY <1>1, <2>1, <2>2, <2>3 DEF TickItem, Written, DateOf
  <2> QED BY <2>4 DEF t
<1>9. Ahead(w) = Ticks(w)
  <2>1. \A c \in Nat \X Nat \X Nat : AtMost(<<0, 0, 0>>, c)
    <3> TAKE c \in Nat \X Nat \X Nat
    <3>1. PICK i, j, k \in Nat : c = <<i, j, k>>
      OBVIOUS
    <3> QED BY <3>1 DEF AtMost, Before
  <2> QED BY <1>1, <2>1 DEF Ahead, Ticks
<1>10. Completions(d) = {t \in Y \X M \X D : t[3] = 0 \/ IsDay(t)}
  BY DEF Completions
<1>11. D \subseteq Nat /\ (w.days # None => 0 \notin D)
  <2>1. w.days = None => D = {0}
    BY <1>3 DEF SlotValues
  <2>2. w.days # None => D \subseteq 1..31
    BY <1>3 DEF SlotValues
  <2> QED BY <2>1, <2>2
<1> HIDE DEF Y, M, D
<1>12. ASSUME NEW c \in Ticks(w) PROVE Shows(w, c) \in Completions(d)
  <2>1. /\ c[1] \in Nat /\ c[2] \in Nat /\ c[3] \in Nat
        /\ c[1] < w.year_count /\ c[2] < Marks(w.months) /\ c[3] < Marks(w.days)
        /\ w.days = None \/ IsDay(Shows(w, c))
    BY DEF Ticks
  <2>2. year_at(kind, c[1]) \in Y /\ monthAt(c[2]) \in M /\ dayAt(c[3]) \in D
    BY <1>4, <1>5, <1>6, <2>1, Zenon
  <2>3. Shows(w, c)[3] = dayAt(c[3])
    BY <1>7
  <2>4. w.days = None => Shows(w, c)[3] = 0
    BY <2>3 DEF ShownAt
  <2> HIDE DEF monthAt, dayAt
  <2> QED BY <1>7, <1>10, <2>1, <2>2, <2>4
<1>13. ASSUME NEW t \in Completions(d) PROVE \E c \in Ticks(w) : Shows(w, c) = t
  <2>1. t = <<t[1], t[2], t[3]>> /\ t[1] \in Y /\ t[2] \in M /\ t[3] \in D /\ (t[3] = 0 \/ IsDay(t))
    BY <1>10
  <2>2. PICK i \in Nat : i < w.year_count /\ year_at(kind, i) = t[1]
    BY <1>6, <2>1, Zenon
  <2>3. PICK j \in Nat : j < Marks(w.months) /\ monthAt(j) = t[2]
    BY <1>4, <2>1, Zenon
  <2>4. PICK k \in Nat : k < Marks(w.days) /\ dayAt(k) = t[3]
    BY <1>5, <2>1, Zenon
  <2> DEFINE c == <<i, j, k>>
  <2>5. Shows(w, c) = t
    <3>1. Shows(w, c) = <<year_at(kind, i), monthAt(j), dayAt(k)>>
      BY <1>7
    <3> HIDE DEF monthAt, dayAt
    <3> QED BY <2>1, <2>2, <2>3, <2>4, <3>1
  <2>6. w.days = None \/ IsDay(t)
    BY <1>3, <1>11, <2>1
  <2>7. c \in Ticks(w)
    BY <2>2, <2>3, <2>4, <2>5, <2>6 DEF Ticks
  <2> QED BY <2>5, <2>7
<1>14. Remaining(w) = {TickItem(w, c) : c \in Ticks(w)}
  BY <1>1, <1>9, RemainingByKind
<1>15. DateDenotes(d) = {Written(d, t) : t \in Completions(d)}
  BY DEF DateDenotes
<1>16. Remaining(w) = DateDenotes(d)
  <2>1. \A v : v \in Remaining(w) <=> \E c \in Ticks(w) : v = TickItem(w, c)
    BY ONLY <1>14, Zenon
  <2>2. \A v : v \in DateDenotes(d) <=> \E t \in Completions(d) : v = Written(d, t)
    BY ONLY <1>15, Zenon
  <2>3. \A v : v \in Remaining(w) => v \in DateDenotes(d)
    BY ONLY <1>8, <1>12, <2>1, <2>2, Zenon
  <2>4. ASSUME NEW v, v \in DateDenotes(d) PROVE v \in Remaining(w)
    <3>1. PICK t \in Completions(d) : v = Written(d, t)
      BY <2>2, <2>4
    <3>2. PICK c \in Ticks(w) : Shows(w, c) = t
      BY <1>13
    <3>3. v = TickItem(w, c)
      BY <1>8, <3>1, <3>2
    <3> QED BY <2>1, <3>3
  <2> QED BY ONLY <2>3, <2>4, Zenon
<1>17. \A v \in DateDenotes(d) : \E t \in Triples : position(v) = Some(t)
  BY <1>1, <1>14, <1>16, TickShows
<1> QED BY <1>1, <1>16, <1>17 DEF w

-----------------------------------------------------------------------------
(* A walker that starts on the values P: all of P is left to hand out.     *)
InGear(w) == w.walk = "Masked" => Odometer(w)
Starts(w, P) == Remaining(w) = P /\ Placed(P) /\ InGear(w)

(* A date's walker starts on what the date denotes (enumerate.rs           *)
(* date_walker()).                                                         *)
LEMMA DateStarts ==
  ASSUME NEW d, IsDateRecord(d), ValidDate(d), date_error(d) = None
  PROVE  Starts(DateWalker(d), DateDenotes(d))
<1>1. CASE d.year.significant_digits # None
  <2>1. /\ Remaining(DateWalker(d)) = DateDenotes(d)
        /\ Placed(DateDenotes(d))
    BY <1>1, SweepStart DEF Placed
  <2>2. DateWalker(d).walk = "Sweep"
    BY <1>1 DEF DateWalker, SweepWalk
  <2> QED BY <2>1, <2>2 DEF Starts, InGear
<1>2. CASE d.year.significant_digits = None /\ has_unspecified(d)
  <2>1. DateWalker(d) = MaskedWalk(d)
    BY <1>2 DEF DateWalker
  <2> QED BY <1>2, <2>1, MaskedStart DEF Starts, InGear, Placed
<1>3. CASE d.year.significant_digits = None /\ ~has_unspecified(d)
  <2>1. DateWalker(d) = SingletonWalk(DateExpr(d)) /\ DateDenotes(d) = {DateExpr(d)}
    BY <1>3 DEF DateWalker, DateDenotes
  <2>2. DateExpr(d).date = d
    BY DEF DateExpr
  <2>3. SingletonWalk(DateExpr(d)).walk # "Masked"
    BY DEF SingletonWalk
  <2> QED BY <2>1, <2>2, <2>3, SingletonStart DEF Starts, InGear
<1> QED BY <1>1, <1>2, <1>3

(* So does the walker of an element of a set.                              *)
LEMMA ElementStarts ==
  ASSUME NEW e, IsElement(e), parse_set_element(e), range_agrees(e), element_error(e) = None
  PROVE  Starts(ElementWalker(e), ElementDenotes(e))
<1>1. CASE e.kind = "Range"
  <2>1. element_error(e) = IF year_of(e.date.year.kind) = None \/ year_of(e.to.year.kind) = None
                           THEN Some("YearRangeOverflow") ELSE None
    <3>1. e.kind # "Date" /\ e.kind \notin {"OnOrBefore", "OnOrAfter"}
      BY <1>1
    <3> QED BY <1>1, <3>1, Zenon DEF element_error
  <2>2. year_of(e.date.year.kind) # None /\ year_of(e.to.year.kind) # None
    BY <2>1, SomeFacts
  <2>3. ElementWalker(e) = RangeWalker(e.date, e.to) /\ RangeWalker(e.date, e.to).walk = "Range"
    BY <1>1 DEF ElementWalker, RangeWalker
  <2>4. /\ Remaining(RangeWalker(e.date, e.to)) = ElementDenotes(e)
        /\ \A v \in ElementDenotes(e) : \E t \in Triples : position(v) = Some(t)
    BY <1>1, <2>2, RangeStart
  <2> QED BY <2>3, <2>4 DEF Starts, InGear, Placed
<1>2. CASE e.kind # "Range"
  <2>1. e.kind = "Date"
    <3>1. SUFFICES ASSUME e.kind \in {"OnOrBefore", "OnOrAfter"} PROVE FALSE
      BY <1>2 DEF IsElement
    <3>2. e.kind # "Date" /\ e.kind # "Range"
      BY <3>1
    <3>3. element_error(e) = Some("UnboundedSetElement")
      BY <3>1, <3>2, Zenon DEF element_error
    <3> QED BY <3>3, SomeFacts
  <2>2. date_error(e.date) = None
    BY <2>1, Zenon DEF element_error
  <2>3. Starts(DateWalker(e.date), DateDenotes(e.date))
    BY <2>2, DateStarts DEF IsElement, parse_set_element
  <2> QED BY <1>2, <2>3 DEF ElementWalker, ElementDenotes
<1> QED BY <1>1, <1>2

(* The queue of an expression starts, walker by walker, on the sets the    *)
(* expression denotes (enumerate.rs values()).                             *)
QueueStarts(q, P) ==
  /\ Len(q) \in Nat /\ DOMAIN q = 1..Len(q)
  /\ DOMAIN P = 1..Len(q) /\ P = [i \in 1..Len(q) |-> P[i]]
  /\ \A i \in 1..Len(q) : Starts(q[i], P[i])

(* Every walker values() builds starts on what its element denotes.        *)
LEMMA ValuesStart ==
  ASSUME NEW x, IsExpr(x), Accepted(x), Unenumerable(x) = None
  PROVE  QueueStarts(WalkersOf(x), Denotes(x)) /\ (x.type # "Set" => Len(WalkersOf(x)) = 1)
<1>0. ASSUME NEW w, NEW P, Starts(w, P)
      PROVE  QueueStarts(<<w>>, <<P>>) /\ Len(<<w>>) = 1
  <2> DEFINE q == <<w>>
             p == <<P>>
  <2>1. Len(q) = 1 /\ DOMAIN q = 1..1 /\ DOMAIN p = 1..1 /\ p = [i \in 1..1 |-> p[i]] /\ q[1] = w /\ p[1] = P
    OBVIOUS
  <2> HIDE DEF q, p
  <2>2. QueueStarts(q, p)
    BY <1>0, <2>1 DEF QueueStarts
  <2> QED BY <2>1, <2>2 DEF q, p
<1>1. CASE x.type = "DateTime"
  <2>1. WalkersOf(x) = <<SingletonWalk(x)>> /\ Denotes(x) = <<{x}>>
    BY <1>1, Zenon DEF WalkersOf, Denotes
  <2>2. IsDateRecord(x.date) /\ SingletonWalk(x).walk # "Masked"
    BY <1>1 DEF IsExpr, SingletonWalk
  <2>3. Starts(SingletonWalk(x), {x})
    BY <2>2, SingletonStart DEF Starts, InGear
  <2> QED BY <1>0, <2>1, <2>3
<1>2. CASE x.type = "Date"
  <2>1. WalkersOf(x) = <<DateWalker(x.date)>> /\ Denotes(x) = <<DateDenotes(x.date)>>
    <3>1. x.type # "DateTime"
      BY <1>2
    <3> QED BY <1>2, <3>1, Zenon DEF WalkersOf, Denotes
  <2>2. date_error(x.date) = None
    <3>1. x.type # "Interval" /\ x.type # "DateTime"
      BY <1>2
    <3> QED BY <1>2, <3>1, Zenon DEF Unenumerable
  <2>3. IsDateRecord(x.date) /\ ValidDate(x.date)
    <3>1. IsDateRecord(x.date)
      BY <1>2 DEF IsExpr
    <3> QED BY <1>2, <3>1, Zenon DEF Accepted
  <2> QED BY <1>0, <2>1, <2>2, <2>3, DateStarts
<1>3. CASE x.type = "Interval"
  <2>1. Unenumerable(x) = Some("Interval")
    BY <1>3, Zenon DEF Unenumerable
  <2> QED BY <2>1, SomeFacts
<1>4. CASE x.type = "Set"
  <2> DEFINE n == Len(x.elements)
             q == [i \in DOMAIN x.elements |-> ElementWalker(x.elements[i])]
             p == [i \in DOMAIN x.elements |-> ElementDenotes(x.elements[i])]
  <2>0. x.type # "DateTime" /\ x.type # "Date" /\ x.type # "Interval"
    BY <1>4
  <2>1. n \in Nat /\ DOMAIN x.elements = 1..n /\ \A i \in 1..n : IsElement(x.elements[i])
    BY <1>4 DEF IsExpr
  <2>2. WalkersOf(x) = q /\ Denotes(x) = p
    BY <1>4, <2>0, Zenon DEF WalkersOf, Denotes
  <2>3. find_map([i \in DOMAIN x.elements |-> element_error(x.elements[i])]) = None
    BY <1>4, <2>0, Zenon DEF Unenumerable
  <2>4. parse_set(x.elements)
    BY <1>4, <2>0, Zenon DEF Accepted
  <2>5. \A i \in 1..n : Starts(ElementWalker(x.elements[i]), ElementDenotes(x.elements[i]))
    <3> TAKE i \in 1..n
    <3>1. element_error(x.elements[i]) = None
      BY <2>1, <2>3, NoElementError
    <3>2. parse_set_element(x.elements[i]) /\ range_agrees(x.elements[i])
      BY <2>1, <2>4 DEF parse_set, elements_agree
    <3> QED BY <2>1, <3>1, <3>2, ElementStarts
  <2>6. q = [i \in 1..n |-> q[i]] /\ DOMAIN p = 1..n /\ p = [i \in 1..n |-> p[i]] /\ \A i \in 1..n : Starts(q[i], p[i])
    BY <2>1, <2>5
  <2> HIDE DEF q, p
  <2>7. Len(q) = n /\ DOMAIN q = 1..n
    BY <2>1, <2>6
  <2>8. QueueStarts(q, p)
    BY <2>1, <2>6, <2>7 DEF QueueStarts
  <2> QED BY <1>4, <2>2, <2>8
<1> QED BY <1>1, <1>2, <1>3, <1>4 DEF IsExpr

-----------------------------------------------------------------------------
(* The iterator under way: the walkers q stand where the values handed out *)
(* say.  The sets before the k-th are drained, the walkers after the       *)
(* current one have not started, and the current one has left to hand out  *)
(* exactly what its element denotes beyond the last value.                 *)
Midway(w, P, past) ==
  /\ OwedOf(P, past) = Remaining(w) /\ InGear(w)
  /\ past = None \/ \E u \in P : past = Some(position(u))

Course(q, k, P, past) ==
  /\ Len(q) \in Nat /\ DOMAIN q = 1..Len(q) /\ DOMAIN P = 1..Len(q)
  /\ \A i \in 1..Len(q) : Placed(P[i])
  /\ \A i \in 1..Len(q) : i > k + 1 => Starts(q[i], P[i])
  /\ k < Len(q) => Midway(q[k + 1], P[k + 1], past)

(* What the promise still owes, element by element.                        *)
TodoOf(P, k, past) ==
  [i \in DOMAIN P |-> IF i <= k THEN {}
                      ELSE IF i = k + 1 THEN OwedOf(P[i], past)
                      ELSE P[i]]

(* Before the first value all of an element is owed.                       *)
LEMMA NothingPast ==
  ASSUME NEW P
  PROVE  OwedOf(P, None) = P
BY DEF OwedOf

(* A queue fresh from values() is under way, with all of its promise owed. *)
LEMMA CourseBegins ==
  ASSUME NEW q, NEW P, QueueStarts(q, P)
  PROVE  Course(q, 0, P, None) /\ TodoOf(P, 0, None) = P
<1>1. /\ Len(q) \in Nat /\ DOMAIN q = 1..Len(q)
      /\ DOMAIN P = 1..Len(q) /\ P = [i \in 1..Len(q) |-> P[i]]
      /\ \A i \in 1..Len(q) : Starts(q[i], P[i])
  BY DEF QueueStarts
<1>2. 0 < Len(q) => Midway(q[1], P[1], None)
  <2>1. 0 < Len(q) => Starts(q[1], P[1])
    BY <1>1
  <2> QED BY <2>1, NothingPast DEF Midway, Starts
<1>3. Course(q, 0, P, None)
  <2>1. \A i \in 1..Len(q) : Placed(P[i])
    BY <1>1 DEF Starts
  <2> QED BY <1>1, <1>2, <2>1 DEF Course
<1>4. TodoOf(P, 0, None) = P
  <2> DEFINE T == TodoOf(P, 0, None)
  <2>1. T = [i \in 1..Len(q) |-> T[i]]
    BY <1>1 DEF TodoOf
  <2>2. ASSUME NEW i \in 1..Len(q) PROVE T[i] = P[i]
    <3>1. ~(i <= 0)
      BY <1>1
    <3>2. T[i] = IF i = 0 + 1 THEN OwedOf(P[i], None) ELSE P[i]
      BY <1>1, <3>1 DEF TodoOf
    <3> QED BY <3>2, NothingPast
  <2> HIDE DEF T
  <2>3. [i \in 1..Len(q) |-> T[i]] = [i \in 1..Len(q) |-> P[i]]
    BY <2>2
  <2>4. T = P
    BY ONLY <1>1, <2>1, <2>3, Zenon
  <2> QED BY <2>4 DEF T
<1> QED BY <1>3, <1>4

(* One walker moves without a value: nothing changes.                      *)
LEMMA CourseQuiet ==
  ASSUME NEW q, NEW k \in Nat, k < Len(q), NEW P, NEW past, Course(q, k, P, past),
         NEW u, Remaining(u) = Remaining(q[k + 1]), InGear(u),
         NEW r, r = [q EXCEPT ![k + 1] = u], Len(r) = Len(q)
  PROVE  Course(r, k, P, past)
<1>1. /\ Len(q) \in Nat /\ DOMAIN q = 1..Len(q) /\ DOMAIN P = 1..Len(q)
      /\ \A i \in 1..Len(q) : Placed(P[i])
      /\ \A i \in 1..Len(q) : i > k + 1 => Starts(q[i], P[i])
      /\ Midway(q[k + 1], P[k + 1], past)
  BY DEF Course
<1>2. DOMAIN r = 1..Len(q) /\ r[k + 1] = u /\ \A i \in 1..Len(q) : i > k + 1 => r[i] = q[i]
  BY <1>1
<1>3. Midway(r[k + 1], P[k + 1], past)
  BY <1>1, <1>2 DEF Midway
<1> QED BY <1>1, <1>2, <1>3 DEF Course

(* One walker moves and hands out v, the least of the values owed.         *)
Moves(q, r, i, u) == r = [q EXCEPT ![i] = u] /\ Len(r) = Len(q)
Pays(v, S, T, i) == Foremost(v, S[i]) /\ T = [S EXCEPT ![i] = S[i] \ {v}]

(* The iterator stays under way when a walker hands out its least value.   *)
LEMMA CourseGives ==
  ASSUME NEW q, NEW k \in Nat, k < Len(q), NEW P, NEW past, Course(q, k, P, past),
         NEW v, NEW u, Gives(q[k + 1], v, u), InGear(u), NEW r, Moves(q, r, k + 1, u)
  PROVE  /\ Course(r, k, P, Some(position(v)))
         /\ Pays(v, TodoOf(P, k, past), TodoOf(P, k, Some(position(v))), k + 1)
<1>0. r = [q EXCEPT ![k + 1] = u] /\ Len(r) = Len(q)
  BY DEF Moves
<1>1. /\ Len(q) \in Nat /\ DOMAIN q = 1..Len(q) /\ DOMAIN P = 1..Len(q)
      /\ \A i \in 1..Len(q) : Placed(P[i])
      /\ \A i \in 1..Len(q) : i > k + 1 => Starts(q[i], P[i])
      /\ Midway(q[k + 1], P[k + 1], past)
  BY DEF Course
<1>2. DOMAIN r = 1..Len(q) /\ r[k + 1] = u /\ \A i \in 1..Len(q) : i > k + 1 => r[i] = q[i]
  BY <1>0, <1>1
<1>3. /\ Foremost(v, OwedOf(P[k + 1], past))
      /\ OwedOf(P[k + 1], past) = Remaining(q[k + 1])
      /\ Remaining(u) = Remaining(q[k + 1]) \ {v}
      /\ past = None \/ \E x \in P[k + 1] : past = Some(position(x))
  BY <1>1 DEF Midway, Gives
<1>4. OwedOf(P[k + 1], Some(position(v))) = OwedOf(P[k + 1], past) \ {v}
  <2>1. Placed(P[k + 1])
    BY <1>1
  <2> QED BY <1>3, <2>1, OwedAfter
<1>5. v \in P[k + 1]
  BY <1>3 DEF Foremost, OwedOf
<1>6. Midway(r[k + 1], P[k + 1], Some(position(v)))
  BY <1>2, <1>3, <1>4, <1>5 DEF Midway
<1>7. Course(r, k, P, Some(position(v)))
  BY <1>0, <1>1, <1>2, <1>6 DEF Course
<1> DEFINE S == TodoOf(P, k, past)
           T == TodoOf(P, k, Some(position(v)))
<1>8. S = [i \in 1..Len(q) |-> S[i]] /\ T = [i \in 1..Len(q) |-> T[i]]
  BY <1>1 DEF TodoOf
<1>9. k + 1 \in 1..Len(q) /\ ~(k + 1 <= k)
  BY <1>1
<1>10. S[k + 1] = OwedOf(P[k + 1], past) /\ T[k + 1] = OwedOf(P[k + 1], Some(position(v)))
  BY <1>1, <1>9 DEF TodoOf
<1>11. \A i \in 1..Len(q) : i # k + 1 => S[i] = T[i]
  BY <1>1 DEF TodoOf
<1> HIDE DEF S, T
<1>12. T = [S EXCEPT ![k + 1] = S[k + 1] \ {v}]
  <2> DEFINE E == [S EXCEPT ![k + 1] = S[k + 1] \ {v}]
  <2>1. E = [i \in 1..Len(q) |-> E[i]] /\ E[k + 1] = S[k + 1] \ {v}
        /\ \A i \in 1..Len(q) : i # k + 1 => E[i] = S[i]
    BY <1>8, <1>9
  <2> HIDE DEF E
  <2>2. \A i \in 1..Len(q) : E[i] = T[i]
    BY <1>4, <1>10, <1>11, <2>1
  <2>3. [i \in 1..Len(q) |-> E[i]] = [i \in 1..Len(q) |-> T[i]]
    BY <2>2
  <2> QED BY <1>8, <2>1, <2>3 DEF E
<1>13. Foremost(v, S[k + 1])
  BY <1>3, <1>10
<1> QED BY <1>7, <1>12, <1>13 DEF S, T, Pays

(* A drained element gives way to the next: nothing it owed is dropped.    *)
LEMMA CourseMovesOn ==
  ASSUME NEW q, NEW k \in Nat, k < Len(q), NEW P, NEW past, Course(q, k, P, past),
         Remaining(q[k + 1]) = {}
  PROVE  /\ Course(q, k + 1, P, None)
         /\ TodoOf(P, k + 1, None) = TodoOf(P, k, past)
<1>1. /\ Len(q) \in Nat /\ DOMAIN q = 1..Len(q) /\ DOMAIN P = 1..Len(q)
      /\ \A i \in 1..Len(q) : Placed(P[i])
      /\ \A i \in 1..Len(q) : i > k + 1 => Starts(q[i], P[i])
      /\ Midway(q[k + 1], P[k + 1], past)
  BY DEF Course
<1>2. OwedOf(P[k + 1], past) = {}
  BY <1>1 DEF Midway
<1>3. Course(q, k + 1, P, None)
  <2>1. k + 1 < Len(q) => Midway(q[(k + 1) + 1], P[(k + 1) + 1], None)
    <3>1. SUFFICES ASSUME k + 1 < Len(q) PROVE Midway(q[(k + 1) + 1], P[(k + 1) + 1], None)
      OBVIOUS
    <3>2. Starts(q[(k + 1) + 1], P[(k + 1) + 1])
      BY <1>1, <3>1
    <3> QED BY <3>2, NothingPast DEF Midway, Starts
  <2>2. \A i \in 1..Len(q) : i > (k + 1) + 1 => i > k + 1
    BY <1>1
  <2> QED BY <1>1, <2>1, <2>2 DEF Course
<1> DEFINE S == TodoOf(P, k, past)
           T == TodoOf(P, k + 1, None)
<1>4. S = [i \in 1..Len(q) |-> S[i]] /\ T = [i \in 1..Len(q) |-> T[i]]
  BY <1>1 DEF TodoOf
<1>5. ASSUME NEW i \in 1..Len(q) PROVE S[i] = T[i]
  <2>1. S[i] = IF i <= k THEN {} ELSE IF i = k + 1 THEN OwedOf(P[i], past) ELSE P[i]
    BY <1>1 DEF TodoOf
  <2>2. T[i] = IF i <= k + 1 THEN {} ELSE IF i = (k + 1) + 1 THEN OwedOf(P[i], None) ELSE P[i]
    BY <1>1 DEF TodoOf
  <2>3. OwedOf(P[i], None) = P[i]
    BY NothingPast
  <2> HIDE DEF S, T
  <2>4. CASE i <= k
    BY <1>1, <2>1, <2>2, <2>4
  <2>5. CASE i = k + 1
    BY <1>1, <1>2, <2>1, <2>2, <2>5
  <2>6. CASE i > k + 1
    BY <1>1, <2>1, <2>2, <2>3, <2>6
  <2> QED BY <1>1, <2>4, <2>5, <2>6
<1> HIDE DEF S, T
<1>6. [i \in 1..Len(q) |-> S[i]] = [i \in 1..Len(q) |-> T[i]]
  BY <1>5
<1>7. S = T
  BY <1>4, <1>6
<1> QED BY <1>3, <1>7 DEF S, T

(* Past the last element, or in the last one when it is drained, nothing   *)
(* is owed.                                                                *)
LEMMA CourseEnds ==
  ASSUME NEW q, NEW k \in Nat, NEW P, NEW past, Course(q, k, P, past),
         \/ k >= Len(q)
         \/ k + 1 = Len(q) /\ Remaining(q[k + 1]) = {}
  PROVE  \A i \in DOMAIN TodoOf(P, k, past) : TodoOf(P, k, past)[i] = {}
<1>1. Len(q) \in Nat /\ DOMAIN P = 1..Len(q) /\ DOMAIN TodoOf(P, k, past) = 1..Len(q)
  BY DEF Course, TodoOf
<1>2. k + 1 = Len(q) /\ Remaining(q[k + 1]) = {} => OwedOf(P[k + 1], past) = {}
  <2>1. k + 1 = Len(q) => k < Len(q)
    BY <1>1
  <2>2. k < Len(q) => Midway(q[k + 1], P[k + 1], past)
    BY DEF Course
  <2> QED BY <2>1, <2>2, Zenon DEF Midway
<1>3. ASSUME NEW i \in 1..Len(q) PROVE TodoOf(P, k, past)[i] = {}
  <2>1. TodoOf(P, k, past)[i] = IF i <= k THEN {} ELSE IF i = k + 1 THEN OwedOf(P[i], past) ELSE P[i]
    BY <1>1 DEF TodoOf
  <2> QED BY <1>1, <1>2, <2>1
<1> QED BY <1>1, <1>3

-----------------------------------------------------------------------------
(* The invariant of the refinement.                                        *)
RInv ==
  /\ IInv
  /\ promised = PromiseOf(expr)
  /\ pc = "new" => item = NotAsked
  /\ pc \in {"new", "failed"} => last = None
  /\ pc \in {"idle", "running"} =>
       Course(queue, idx, promised, last) /\ (expr.type # "Set" => Len(queue) = 1)

(* What the stream still owes, in the terms of the lemmas above.           *)
LEMMA OwingIs == Owing = TodoOf(promised, idx, last)
BY DEF Owing, TodoOf, OwedOf, StillOwed

(* The steps of the promise that the iterator takes.                       *)
LEMMA StreamYields ==
  ASSUME pc = "running", pc' = "idle", expr' = expr, NEW v, item' = Yielded(v),
         NEW i, i \in DOMAIN Owing, \A j \in 1..(i - 1) : Owing[j] = {},
         Foremost(v, Owing[i]), Owing' = [Owing EXCEPT ![i] = Owing[i] \ {v}]
  PROVE  Stream!Answer
<1>1. v \in Stream!Least(Owing[i]) /\ Owing[i] # {}
  BY DEF Stream!Least, Foremost
<1>2. Answered' = [out |-> "Value", value |-> v]
  BY DEF Answered, Yielded
<1>3. Stream!Yield
  BY <1>1, <1>2 DEF Stream!Yield, Stream!Current
<1> QED BY <1>3 DEF Stream!Answer

(* Answering with the end when nothing is owed is a step of the stream.    *)
LEMMA StreamFinishes ==
  ASSUME pc = "running", pc' = "idle", expr' = expr, item' = End,
         Owing' = Owing, \A i \in DOMAIN Owing : Owing[i] = {}
  PROVE  Stream!Answer
<1>1. Answered' = Stream!Ended
  BY DEF Answered, End, Stream!Ended
<1>2. Stream!Finish
  BY <1>1 DEF Stream!Finish
<1> QED BY <1>2 DEF Stream!Answer

(* A step that shows nothing is no step of the stream.                     *)
LEMMA StreamStays ==
  ASSUME expr' = expr, Owing' = Owing, Answered' = Answered, pc' = "running" <=> pc = "running"
  PROVE  UNCHANGED Stream!streamVars
BY DEF Stream!streamVars

-----------------------------------------------------------------------------
(* A walker hands out a value: the stream yields it.                       *)
LEMMA GivingRefines ==
  ASSUME RInv, IInv', Record, pc = "running", HasElement, expr' = expr, idx' = idx, pc' = "idle",
         \E v, u : /\ Gives(walker, v, u) /\ InGear(u)
                   /\ queue' = [queue EXCEPT ![idx + 1] = u] /\ item' = Yielded(v)
  PROVE  RInv' /\ Stream!Answer
<1> PICK v, u : /\ Gives(walker, v, u) /\ InGear(u)
                /\ queue' = [queue EXCEPT ![idx + 1] = u] /\ item' = Yielded(v)
  OBVIOUS
<1>1. /\ promised' = promised /\ last' = Some(position(v))
  <2>1. item'.out = "Value" /\ item'.value = v
    BY DEF Yielded
  <2> QED BY <2>1 DEF Record, Returned
<1>2. /\ idx \in Nat /\ idx < Len(queue) /\ Len(queue) \in Nat /\ Len(queue') = Len(queue)
      /\ Course(queue, idx, promised, last) /\ promised = PromiseOf(expr)
      /\ expr.type # "Set" => Len(queue) = 1
  <2>1. idx < Len(queue) /\ idx \in 0..Len(queue) /\ IsQueue(queue) /\ IsQueue(queue')
    BY DEF RInv, IInv, HasElement
  <2>2. Len(queue) \in Nat /\ Len(queue') = Len(queue)
    BY <2>1 DEF IsQueue
  <2> QED BY <2>1, <2>2 DEF RInv
<1>3. /\ Course(queue', idx, promised, Some(position(v)))
      /\ Pays(v, TodoOf(promised, idx, last), TodoOf(promised, idx, Some(position(v))), idx + 1)
  <2>1. Gives(queue[idx + 1], v, u)
    BY DEF walker
  <2>2. Moves(queue, queue', idx + 1, u)
    BY <1>2 DEF Moves
  <2> QED BY ONLY <1>2, <2>1, <2>2, InGear(u), CourseGives
<1>4. RInv'
  BY <1>1, <1>2, <1>3 DEF RInv
<1>5. Owing' = TodoOf(promised, idx, Some(position(v)))
  <2>1. Owing' = TodoOf(promised', idx', last')
    BY DEF Owing, TodoOf, OwedOf, StillOwed
  <2> QED BY <1>1, <2>1
<1>6. idx + 1 \in DOMAIN Owing /\ \A j \in 1..((idx + 1) - 1) : Owing[j] = {}
  <2>1. DOMAIN Owing = 1..Len(queue)
    BY <1>2 DEF Course, Owing
  <2>2. \A j \in 1..Len(queue) : j <= idx => Owing[j] = {}
    BY <1>2, <2>1 DEF Owing
  <2> QED BY <1>2, <2>1, <2>2
<1>7. Foremost(v, Owing[idx + 1]) /\ Owing' = [Owing EXCEPT ![idx + 1] = Owing[idx + 1] \ {v}]
  BY <1>3, <1>5, OwingIs DEF Pays
<1>8. Stream!Answer
  BY <1>6, <1>7, StreamYields
<1> QED BY <1>4, <1>8

(* A walker moves without a value: the stream stays.                       *)
LEMMA QuietRefines ==
  ASSUME RInv, IInv', Record, pc = "running", HasElement, Quietly,
         \E u : /\ Remaining(u) = Remaining(walker) /\ InGear(u)
                /\ queue' = [queue EXCEPT ![idx + 1] = u]
  PROVE  RInv' /\ UNCHANGED Stream!streamVars
<1> PICK u : /\ Remaining(u) = Remaining(walker) /\ InGear(u)
             /\ queue' = [queue EXCEPT ![idx + 1] = u]
  OBVIOUS
<1>1. expr' = expr /\ pc' = pc /\ item' = item /\ idx' = idx
  BY DEF Quietly
<1>2. promised' = promised /\ last' = last
  BY <1>1 DEF Record, Returned
<1>3. /\ idx \in Nat /\ idx < Len(queue) /\ Len(queue) \in Nat /\ Len(queue') = Len(queue)
      /\ Course(queue, idx, promised, last) /\ promised = PromiseOf(expr)
      /\ expr.type # "Set" => Len(queue) = 1
  <2>1. idx < Len(queue) /\ idx \in 0..Len(queue) /\ IsQueue(queue) /\ IsQueue(queue')
    BY DEF RInv, IInv, HasElement
  <2>2. Len(queue) \in Nat /\ Len(queue') = Len(queue)
    BY <2>1 DEF IsQueue
  <2> QED BY <2>1, <2>2 DEF RInv
<1>4. Course(queue', idx, promised, last)
  BY <1>3, CourseQuiet DEF walker
<1>5. RInv'
  BY <1>1, <1>2, <1>3, <1>4 DEF RInv
<1>6. Owing' = Owing /\ Answered' = Answered
  BY <1>1, <1>2 DEF Owing, StillOwed, Answered
<1> QED BY <1>1, <1>5, <1>6, StreamStays

(* The current element is drained: a set moves on, and owes what it owed;  *)
(* a lone date has nothing more, and says so.                              *)
LEMMA DrainedRefines ==
  ASSUME RInv, IInv', Record, pc = "running", HasElement, Remaining(walker) = {}, Drained
  PROVE  RInv' /\ (Stream!Answer \/ UNCHANGED Stream!streamVars)
<1>1. /\ idx \in Nat /\ idx < Len(queue) /\ Len(queue) \in Nat
      /\ Course(queue, idx, promised, last) /\ promised = PromiseOf(expr)
      /\ expr.type # "Set" => Len(queue) = 1
  <2>1. idx < Len(queue) /\ idx \in 0..Len(queue) /\ IsQueue(queue)
    BY DEF RInv, IInv, HasElement
  <2> QED BY <2>1 DEF RInv, IsQueue
<1>2. CASE expr.type = "Set"
  <2>1. expr' = expr /\ pc' = pc /\ item' = item /\ queue' = queue /\ idx' = idx + 1
    BY <1>2 DEF Drained
  <2>2. promised' = promised /\ last' = None
    BY <1>1, <2>1 DEF Record, Returned
  <2>3. Course(queue, idx + 1, promised, None) /\ TodoOf(promised, idx + 1, None) = TodoOf(promised, idx, last)
    BY <1>1, CourseMovesOn DEF walker
  <2>4. RInv'
    BY <1>1, <2>1, <2>2, <2>3 DEF RInv
  <2>5. Owing' = Owing
    <3>1. Owing' = TodoOf(promised', idx', last')
      BY DEF Owing, TodoOf, OwedOf, StillOwed
    <3> QED BY <2>1, <2>2, <2>3, <3>1, OwingIs
  <2>6. Answered' = Answered
    BY <2>1 DEF Answered
  <2> QED BY <2>1, <2>4, <2>5, <2>6, StreamStays
<1>3. CASE expr.type # "Set"
  <2>1. expr' = expr /\ pc' = "idle" /\ item' = End /\ queue' = queue /\ idx' = idx
    BY <1>3 DEF Drained, ReturnEnd
  <2>2. promised' = promised /\ last' = last
    BY <2>1 DEF Record, Returned, End
  <2>3. RInv'
    BY <1>1, <2>1, <2>2 DEF RInv
  <2>4. Owing' = Owing
    BY <2>1, <2>2 DEF Owing, StillOwed
  <2>5. \A i \in DOMAIN Owing : Owing[i] = {}
    <3>1. idx + 1 = Len(queue)
      <4>1. Len(queue) = 1
        BY <1>1, <1>3
      <4> QED BY ONLY <1>1, <4>1
    <3> QED BY <1>1, <3>1, CourseEnds, OwingIs DEF walker
  <2> QED BY <2>1, <2>3, <2>4, <2>5, StreamFinishes
<1> QED BY <1>2, <1>3

(* Past its last element a set has nothing more, for ever.                 *)
LEMMA SetEndRefines ==
  ASSUME RInv, IInv', Record, SetEnd
  PROVE  RInv' /\ Stream!Answer
<1>1. /\ pc = "running" /\ expr' = expr /\ pc' = "idle" /\ item' = End /\ queue' = queue /\ idx' = idx
      /\ ~HasElement
  BY DEF SetEnd, ReturnEnd
<1>2. promised' = promised /\ last' = last
  BY <1>1 DEF Record, Returned, End
<1>3. /\ idx \in Nat /\ idx >= Len(queue)
      /\ Course(queue, idx, promised, last) /\ promised = PromiseOf(expr)
      /\ expr.type # "Set" => Len(queue) = 1
  <2>1. ~(idx < Len(queue)) /\ idx \in 0..Len(queue) /\ IsQueue(queue)
    BY <1>1 DEF RInv, IInv, HasElement
  <2>2. Len(queue) \in Nat
    BY <2>1 DEF IsQueue
  <2> QED BY <1>1, <2>1, <2>2 DEF RInv
<1>4. RInv'
  BY <1>1, <1>2, <1>3 DEF RInv
<1>5. Owing' = Owing
  BY <1>1, <1>2 DEF Owing, StillOwed
<1>6. \A i \in DOMAIN Owing : Owing[i] = {}
  BY <1>3, CourseEnds, OwingIs
<1> QED BY <1>1, <1>4, <1>5, <1>6, StreamFinishes

-----------------------------------------------------------------------------
(* Every step of a walker is a step of the stream, or none.                *)
Refined == RInv' /\ (Stream!Answer \/ UNCHANGED Stream!streamVars)

(* A singleton's steps are steps of the stream.                            *)
LEMMA SingletonRefines ==
  ASSUME RInv, IInv', Record, TakeSingleton \/ SingletonSpent
  PROVE  Refined
<1>1. IInv /\ pc = "running" /\ HasElement /\ Keeps(walker) /\ walker.walk = "Singleton"
  BY AtWork DEF RInv, TakeSingleton, SingletonSpent
<1>2. CASE TakeSingleton
  <2> DEFINE w == walker
             u == [w EXCEPT !.left = None]
  <2>1. w.left # None /\ queue' = [queue EXCEPT ![idx + 1] = u] /\ item' = Yielded(Get(w.left))
        /\ expr' = expr /\ idx' = idx /\ pc' = "idle"
    BY <1>2 DEF TakeSingleton, Advance, Return
  <2> HIDE DEF w
  <2>2. Keeps(w) /\ w.walk = "Singleton"
    BY <1>1 DEF w
  <2>3. u.walk = "Singleton"
    BY <2>2, KeptByKind DEF SingletonKeeps, SingletonFields
  <2>4. Gives(w, Get(w.left), u) /\ InGear(u)
    BY <2>1, <2>2, <2>3, SingletonGives DEF InGear
  <2> HIDE DEF u
  <2>5. \E v, x : /\ Gives(w, v, x) /\ InGear(x)
                  /\ queue' = [queue EXCEPT ![idx + 1] = x] /\ item' = Yielded(v)
    BY <2>1, <2>4
  <2> QED BY <1>1, <2>1, <2>5, GivingRefines DEF Refined, w
<1>3. CASE SingletonSpent
  <2>1. Remaining(walker) = {} /\ Drained
    BY <1>1, <1>3, SpentHaveNothing DEF SingletonSpent
  <2> QED BY <1>1, <2>1, DrainedRefines DEF Refined
<1> QED BY <1>2, <1>3

(* A sweep's steps are.                                                    *)
LEMMA SweepRefines ==
  ASSUME RInv, IInv', Record, SweepYear \/ SweepSpent
  PROVE  Refined
<1>1. IInv /\ pc = "running" /\ HasElement /\ Keeps(walker) /\ walker.walk = "Sweep"
  BY AtWork DEF RInv, SweepYear, SweepSpent
<1>2. CASE SweepYear
  <2> DEFINE w == walker
             u == IF w.cur = w.hi THEN [w EXCEPT !.done = TRUE] ELSE [w EXCEPT !.cur = @ + 1]
  <2>1. ~w.done /\ queue' = [queue EXCEPT ![idx + 1] = u] /\ item' = Yielded(SweepItem(w))
        /\ expr' = expr /\ idx' = idx /\ pc' = "idle"
    BY <1>2 DEF SweepYear, Advance, Return
  <2> HIDE DEF w
  <2>2. Keeps(w) /\ w.walk = "Sweep"
    BY <1>1 DEF w
  <2>3. u.walk = "Sweep"
    BY <2>2, KeptByKind DEF SweepKeeps, SweepFields
  <2>4. Gives(w, SweepItem(w), u) /\ InGear(u)
    BY <2>1, <2>2, <2>3, SweepGives DEF InGear
  <2> HIDE DEF u
  <2>5. \E v, x : /\ Gives(w, v, x) /\ InGear(x)
                  /\ queue' = [queue EXCEPT ![idx + 1] = x] /\ item' = Yielded(v)
    BY <2>1, <2>4
  <2> QED BY <1>1, <2>1, <2>5, GivingRefines DEF Refined, w
<1>3. CASE SweepSpent
  <2>1. Remaining(walker) = {} /\ Drained
    BY <1>1, <1>3, SpentHaveNothing DEF SweepSpent
  <2> QED BY <1>1, <2>1, DrainedRefines DEF Refined
<1> QED BY <1>2, <1>3

(* A range walk's steps are.                                               *)
LEMMA RangeRefines ==
  ASSUME RInv, IInv', Record, RangeStep \/ RangeSpent
  PROVE  Refined
<1>1. IInv /\ pc = "running" /\ HasElement /\ Keeps(walker) /\ walker.walk = "Range"
  BY AtWork DEF RInv, RangeStep, RangeSpent
<1>2. CASE RangeStep
  <2> DEFINE w == walker
             u == IF w.cur = w.end THEN [w EXCEPT !.done = TRUE]
                  ELSE [w EXCEPT !.cur = successor(w.precision, w.cur)]
  <2>1. ~w.done /\ queue' = [queue EXCEPT ![idx + 1] = u] /\ item' = Yielded(RangeItem(w))
        /\ expr' = expr /\ idx' = idx /\ pc' = "idle"
    BY <1>2 DEF RangeStep, Advance, Return
  <2> HIDE DEF w
  <2>2. Keeps(w) /\ w.walk = "Range"
    BY <1>1 DEF w
  <2>3. u.walk = "Range"
    BY <2>2, KeptByKind DEF RangeKeeps, RangeFields
  <2>4. Gives(w, RangeItem(w), u) /\ InGear(u)
    BY <2>1, <2>2, <2>3, RangeGives DEF InGear
  <2> HIDE DEF u
  <2>5. \E v, x : /\ Gives(w, v, x) /\ InGear(x)
                  /\ queue' = [queue EXCEPT ![idx + 1] = x] /\ item' = Yielded(v)
    BY <2>1, <2>4
  <2> QED BY <1>1, <2>1, <2>5, GivingRefines DEF Refined, w
<1>3. CASE RangeSpent
  <2>1. Remaining(walker) = {} /\ Drained
    BY <1>1, <1>3, SpentHaveNothing DEF RangeSpent
  <2> QED BY <1>1, <2>1, DrainedRefines DEF Refined
<1> QED BY <1>2, <1>3

(* The odometer's steps, those that hand out a date and those that turn a  *)
(* wheel back or pass a day the calendar lacks.                            *)
LEMMA OdometerAtWork ==
  ASSUME RInv, Running("Masked")
  PROVE  /\ pc = "running" /\ HasElement /\ Keeps(walker) /\ walker.walk = "Masked" /\ Odometer(walker)
<1>1. IInv /\ pc = "running" /\ HasElement /\ Keeps(walker) /\ walker.walk = "Masked"
  BY AtWork DEF RInv
<1>2. Midway(queue[idx + 1], promised[idx + 1], last)
  BY <1>1 DEF RInv, Course, HasElement
<1>3. InGear(walker)
  BY <1>2 DEF Midway, walker
<1> QED BY <1>1, <1>3 DEF InGear

(* The odometer's steps that hand out a date are.                          *)
LEMMA OdometerGives ==
  ASSUME RInv, IInv', Record, MaskedYear \/ MaskedMonth \/ MaskedDay
  PROVE  Refined
<1>1. /\ pc = "running" /\ HasElement /\ Keeps(walker) /\ walker.walk = "Masked" /\ Odometer(walker)
      /\ walker.yi < walker.year_count
  BY OdometerAtWork DEF MaskedYear, MaskedMonth, MaskedDay, OnDay, OnMonth, OnYear
<1> DEFINE w == walker
           y == [w EXCEPT !.yi = @ + 1]
           m == [w EXCEPT !.mi = @ + 1]
           d == [w EXCEPT !.di = @ + 1]
<1>2. item' = Yielded(MaskedItem(w)) /\ expr' = expr /\ idx' = idx /\ pc' = "idle"
  BY DEF MaskedYear, MaskedMonth, MaskedDay, Return
<1>3. /\ MaskedYear => queue' = [queue EXCEPT ![idx + 1] = y] /\ w.months = None
      /\ MaskedMonth => /\ queue' = [queue EXCEPT ![idx + 1] = m]
                        /\ w.months # None /\ w.mi < Len(Get(w.months)) /\ w.days = None
      /\ MaskedDay => /\ queue' = [queue EXCEPT ![idx + 1] = d]
                      /\ w.months # None /\ w.mi < Len(Get(w.months))
                      /\ w.days # None /\ w.di < Len(Get(w.days)) /\ day_exists(w)
  BY DEF MaskedYear, MaskedMonth, MaskedDay, OnDay, OnMonth, Advance
<1>4. /\ Keeps(w) /\ w.walk = "Masked" /\ Odometer(w) /\ w.yi < w.year_count
  BY <1>1
<1> HIDE DEF w
<1>5. MaskedYear => Gives(w, MaskedItem(w), y) /\ Odometer(y)
  BY <1>3, <1>4, YearTurns
<1>6. MaskedMonth => Gives(w, MaskedItem(w), m) /\ Odometer(m)
  BY <1>3, <1>4, MonthTurns
<1>7. MaskedDay => Gives(w, MaskedItem(w), d) /\ Odometer(d)
  BY <1>3, <1>4, DayTurns
<1> HIDE DEF y, m, d
<1>8. \E v, u : /\ Gives(w, v, u) /\ InGear(u)
                /\ queue' = [queue EXCEPT ![idx + 1] = u] /\ item' = Yielded(v)
  BY <1>2, <1>3, <1>5, <1>6, <1>7 DEF InGear
<1> QED BY <1>1, <1>2, <1>8, GivingRefines DEF Refined, w

(* Its other turns show nothing.                                           *)
LEMMA OdometerTurns ==
  ASSUME RInv, IInv', Record, SkipDay \/ NextMonth \/ NextYear
  PROVE  Refined
<1>1. /\ pc = "running" /\ HasElement /\ Keeps(walker) /\ walker.walk = "Masked" /\ Odometer(walker)
      /\ walker.yi < walker.year_count
  BY OdometerAtWork DEF SkipDay, NextMonth, NextYear, OnDay, OnMonth, OnYear
<1> DEFINE w == walker
           y == [w EXCEPT !.mi = 0, !.yi = @ + 1]
           m == [w EXCEPT !.di = 0, !.mi = @ + 1]
           d == [w EXCEPT !.di = @ + 1]
<1>2. Quietly
  BY DEF SkipDay, NextMonth, NextYear
<1>3. /\ NextYear => /\ queue' = [queue EXCEPT ![idx + 1] = y]
                     /\ w.months # None /\ ~(w.mi < Len(Get(w.months)))
      /\ NextMonth => /\ queue' = [queue EXCEPT ![idx + 1] = m]
                      /\ w.months # None /\ w.mi < Len(Get(w.months))
                      /\ w.days # None /\ ~(w.di < Len(Get(w.days)))
      /\ SkipDay => /\ queue' = [queue EXCEPT ![idx + 1] = d]
                    /\ w.months # None /\ w.mi < Len(Get(w.months))
                    /\ w.days # None /\ w.di < Len(Get(w.days)) /\ ~day_exists(w)
  BY DEF SkipDay, NextMonth, NextYear, OnDay, OnMonth, OnYear, Advance
<1>4. /\ Keeps(w) /\ w.walk = "Masked" /\ Odometer(w) /\ w.yi < w.year_count
  BY <1>1
<1> HIDE DEF w
<1>5. NextYear => Remaining(y) = Remaining(w) /\ Odometer(y)
  BY <1>3, <1>4, YearDrained
<1>6. NextMonth => Remaining(m) = Remaining(w) /\ Odometer(m)
  BY <1>3, <1>4, MonthDrained
<1>7. SkipDay => Remaining(d) = Remaining(w) /\ Odometer(d)
  BY <1>3, <1>4, DayTurns
<1> HIDE DEF y, m, d
<1>8. \E u : /\ Remaining(u) = Remaining(w) /\ InGear(u)
             /\ queue' = [queue EXCEPT ![idx + 1] = u]
  BY <1>3, <1>5, <1>6, <1>7 DEF InGear
<1> QED BY <1>1, <1>2, <1>8, QuietRefines DEF Refined, w

(* Its end is a step of the stream, or leads to the next element.          *)
LEMMA OdometerEnds ==
  ASSUME RInv, IInv', Record, MaskedSpent
  PROVE  Refined
<1>1. /\ pc = "running" /\ HasElement /\ Keeps(walker) /\ walker.walk = "Masked" /\ Odometer(walker)
      /\ walker.yi >= walker.year_count /\ Drained
  BY OdometerAtWork DEF MaskedSpent
<1>2. Remaining(walker) = {}
  BY <1>1, OdometerSpent
<1> QED BY <1>1, <1>2, DrainedRefines DEF Refined

(* The calls of the consumer.                                              *)
LEMMA CallsRefine ==
  ASSUME RInv, IInv', Record, Construct \/ Call \/ Retry
  PROVE  RInv' /\ (Stream!Ask \/ UNCHANGED Stream!streamVars)
<1>1. expr' = expr /\ idx' = idx /\ promised' = promised /\ last' = last /\ pc # "running"
  BY DEF Construct, Call, Retry, Record, Returned
<1>2. Owing' = Owing
  BY <1>1 DEF Owing, StillOwed
<1>3. promised = PromiseOf(expr) /\ promised' = PromiseOf(expr')
  BY <1>1 DEF RInv
<1>4. CASE Construct
  <2>1. pc = "new" /\ item = NotAsked /\ last = None /\ idx = 0
    BY <1>4 DEF Construct, RInv, IInv
  <2>2. CASE Unenumerable(expr) = None
    <3>1. pc' = "idle" /\ queue' = WalkersOf(expr) /\ item' = item
      BY <1>4, <2>2 DEF Construct
    <3>2. IsExpr(expr) /\ Accepted(expr)
      BY ExprsAssumption DEF RInv, IInv
    <3>3. QueueStarts(WalkersOf(expr), promised) /\ (expr.type # "Set" => Len(WalkersOf(expr)) = 1)
      BY <1>3, <2>2, <3>2, ValuesStart DEF PromiseOf
    <3>4. Course(queue', idx', promised', last')
      BY <1>1, <2>1, <3>1, <3>3, CourseBegins
    <3>5. RInv'
      BY <1>1, <1>3, <3>1, <3>3, <3>4 DEF RInv
    <3>6. Answered' = Answered
      BY <2>1, <3>1 DEF Answered
    <3> QED BY <1>1, <1>2, <3>1, <3>5, <3>6, StreamStays
  <2>3. CASE Unenumerable(expr) # None
    <3>1. pc' = "failed"
      BY <1>4, <2>3 DEF Construct
    <3>2. RInv'
      BY <1>1, <1>3, <2>1, <3>1 DEF RInv
    <3>3. Answered' = Answered
      BY <2>1, <3>1 DEF Answered
    <3> QED BY <1>1, <1>2, <3>1, <3>2, <3>3, StreamStays
  <2> QED BY <2>2, <2>3
<1>5. CASE Call
  <2>1. pc = "idle" /\ pc' = "running" /\ item' = item /\ queue' = queue
    BY <1>5 DEF Call
  <2>2. RInv'
    BY <1>1, <1>3, <2>1 DEF RInv
  <2>3. Answered' = Answered
    BY <2>1 DEF Answered
  <2>4. Stream!Ask
    BY <1>1, <1>2, <2>1, <2>3 DEF Stream!Ask
  <2> QED BY <2>2, <2>4
<1>6. CASE Retry
  <2>1. pc = "failed" /\ pc' = "new" /\ item' = NotAsked
    BY <1>6 DEF Retry
  <2>2. last = None
    BY <2>1 DEF RInv
  <2>3. RInv'
    BY <1>1, <1>3, <2>1, <2>2 DEF RInv
  <2>4. Answered' = Answered
    BY <2>1 DEF Answered
  <2> QED BY <1>1, <1>2, <2>1, <2>3, <2>4, StreamStays
<1> QED BY <1>4, <1>5, <1>6

(* Before values() is called nothing is handed out and all is owed.        *)
LEMMA StreamInit == TracedInit => RInv /\ Stream!Init
<1> SUFFICES ASSUME TracedInit PROVE RInv /\ Stream!Init
  OBVIOUS
<1>1. /\ expr \in Exprs /\ pc = "new" /\ item = NotAsked /\ idx = 0 /\ Init
      /\ promised = PromiseOf(expr) /\ last = None
  BY DEF TracedInit, Init
<1>2. RInv
  BY <1>1, InitIInv DEF RInv
<1>3. TodoOf(promised, 0, None) = promised
  <2>1. CASE Unenumerable(expr) = None
    <3>1. IsExpr(expr) /\ Accepted(expr)
      BY <1>1, ExprsAssumption
    <3>2. QueueStarts(WalkersOf(expr), promised)
      BY <1>1, <2>1, <3>1, ValuesStart DEF PromiseOf
    <3> QED BY <3>2, CourseBegins
  <2>2. CASE Unenumerable(expr) # None
    <3>1. promised = <<>>
      BY <1>1, <2>2 DEF PromiseOf
    <3> QED BY <3>1 DEF TodoOf
  <2> QED BY <2>1, <2>2
<1>4. Owing = PromiseOf(expr)
  BY <1>1, <1>3, OwingIs
<1>5. Answered = Stream!Unanswered
  BY <1>1 DEF Answered, NotAsked, Stream!Unanswered
<1> QED BY <1>1, <1>2, <1>4, <1>5 DEF Stream!Init

(* Every step of the iterator is a step of the stream, or none.            *)
LEMMA StreamNext ==
  RInv /\ [Next /\ Record]_<<vars, history>> => RInv' /\ [Stream!Next]_(Stream!streamVars)
<1> SUFFICES ASSUME RInv, [Next /\ Record]_<<vars, history>>
             PROVE  RInv' /\ [Stream!Next]_(Stream!streamVars)
  OBVIOUS
<1>1. CASE Next /\ Record
  <2>1. IInv'
    BY <1>1, NextIInv DEF RInv
  <2>2. CASE Step
    <3>1. CASE SetEnd
      BY <1>1, <2>1, <3>1, SetEndRefines DEF Stream!Next
    <3>2. CASE ~SetEnd
      <4>1. Refined
        BY <1>1, <2>1, <2>2, <3>2, SingletonRefines, SweepRefines, RangeRefines,
           OdometerGives, OdometerTurns, OdometerEnds DEF Step
      <4> QED BY <4>1 DEF Refined, Stream!Next
    <3> QED BY <3>1, <3>2
  <2>3. CASE Construct \/ Call \/ Retry
    BY <1>1, <2>1, <2>3, CallsRefine DEF Stream!Next
  <2> QED BY <1>1, <2>2, <2>3 DEF Next
<1>2. CASE UNCHANGED <<vars, history>>
  <2>1. /\ expr' = expr /\ pc' = pc /\ item' = item /\ queue' = queue /\ idx' = idx
        /\ promised' = promised /\ last' = last
    BY <1>2 DEF vars, history
  <2>2. IInv'
    BY <1>2, NextIInv DEF RInv, vars
  <2>3. RInv'
    BY <2>1, <2>2 DEF RInv
  <2>4. Owing' = Owing /\ Answered' = Answered
    BY <2>1 DEF Owing, StillOwed, Answered
  <2> QED BY <2>1, <2>3, <2>4, StreamStays
<1> QED BY <1>1, <1>2

(* The iterator of enumerate.rs implements the stream it promises: asked   *)
(* any number of times, it hands out exactly the values every element      *)
(* denotes, in written order, ascending, each once, and then says it has   *)
(* ended, for ever (decisions D26, D28 and D29).  This is the safety part  *)
(* of ImplementsStream: its fairness, that a call is answered, is not here.*)
THEOREM StreamImplemented == TracedSpec => Stream!Init /\ [][Stream!Next]_(Stream!streamVars)
<1>1. TracedInit => RInv /\ Stream!Init
  BY StreamInit
<1>2. RInv /\ [Next /\ Record]_<<vars, history>> => RInv' /\ [Stream!Next]_(Stream!streamVars)
  BY StreamNext
<1> QED BY <1>1, <1>2, PTL DEF TracedSpec

-----------------------------------------------------------------------------
(* Bounds of what is handed out.  A year or a field written from a number  *)
(* has no mask, and is read back as the number.                            *)
LEMMA YearWritten ==
  ASSUME NEW y \in Int, NEW q
  PROVE  LET year == concrete_year(y, q)
         IN  /\ year.significant_digits = None
             /\ year_of(year.kind) = Some(y) /\ Get(year_of(year.kind)) = y
             /\ y \in SignedYears => year.kind.form = "Standard" /\ ~has_x(year.kind.digits)
             /\ y \notin SignedYears => year.kind.form = "Big"
<1> DEFINE year == concrete_year(y, q)
           mag == Abs(y)
           ds == <<(mag \div 1000) % 10, (mag \div 100) % 10, (mag \div 10) % 10, mag % 10>>
<1>1. /\ year.significant_digits = None
      /\ year.kind = IF y \in -9999..9999 THEN Standard(y < 0, ds) ELSE Big(y)
  BY DEF concrete_year, Year
<1>2. year_of(year.kind) = Some(y) /\ Get(year_of(year.kind)) = y
  BY YearReadBack, SomeFacts
<1> HIDE DEF year, ds
<1>3. CASE y \in -9999..9999
  <2>1. year.kind.form = "Standard"
    BY <1>1, <1>3 DEF Standard
  <2>2. ~has_x(year.kind.digits)
    <3>1. SUFFICES ASSUME has_x(year.kind.digits) PROVE FALSE
      OBVIOUS
    <3>2. year_of(year.kind) = None
      BY <2>1, <3>1, Zenon DEF year_of
    <3> QED BY <1>2, <3>2, SomeFacts
  <2>3. y \in SignedYears
    BY <1>3 DEF SignedYears
  <2>4. /\ year.significant_digits = None
        /\ year_of(year.kind) = Some(y) /\ Get(year_of(year.kind)) = y
        /\ y \in SignedYears => year.kind.form = "Standard" /\ ~has_x(year.kind.digits)
        /\ y \notin SignedYears => year.kind.form = "Big"
    BY <1>1, <1>2, <2>1, <2>2, <2>3
  <2> QED BY <2>4, Zenon DEF year
<1>4. CASE y \notin -9999..9999
  <2>1. year.kind.form = "Big"
    BY <1>1, <1>4 DEF Big
  <2> QED BY <1>1, <1>2, <1>4, <2>1 DEF SignedYears, year
<1> QED BY <1>3, <1>4

(* So is a month or a day.                                                 *)
LEMMA FieldWritten ==
  ASSUME NEW v \in 0..99, NEW q
  PROVE  LET slot == Some(concrete_field(v, q))
         IN  /\ slot # None /\ slot = Some(Get(slot))
             /\ ~has_x(Get(slot).digits) /\ field_value(Get(slot)) = Some(v)
             /\ slot_value(slot) = Some(v) /\ Get(slot_value(slot)) = v
<1> DEFINE slot == Some(concrete_field(v, q))
<1>1. slot_value(slot) = Some(v)
  BY FieldReadBack
<1>2. Get(slot) = concrete_field(v, q)
  BY SomeFacts
<1>3. slot # None
  BY SomeFacts
<1> HIDE DEF slot
<1>4. slot_value(slot) = field_value(Get(slot))
  BY <1>3 DEF slot_value, IsSome
<1>5. ~has_x(Get(slot).digits)
  BY <1>1, <1>4, SomeFacts DEF field_value
<1> QED BY <1>1, <1>2, <1>3, <1>4, <1>5, SomeFacts DEF slot

(* What bounds() says of a date written out from a position is the first   *)
(* and the last day of the position.                                       *)
LEMMA ItemBounds ==
  ASSUME NEW p \in Precisions, NEW t \in Position(p, I64Years), p # "Year" => t[1] \in SignedYears,
         NEW yq, NEW mq, NEW dq
  PROVE  bounds(DateOf(concrete_year(t[1], yq), Slotted(t[2], p # "Year", mq), Slotted(t[3], p = "Day", dq)))
           = PlaceBounds(p, t)
<1> DEFINE d == Date(concrete_year(t[1], yq), Slotted(t[2], p # "Year", mq), Slotted(t[3], p = "Day", dq))
           y == t[1]
<1>1. bounds(DateOf(d.year, d.month, d.day)) = date_bounds(d)
  BY DEF bounds, DateOf, DateExpr, Date
<1>2. /\ d.year = concrete_year(y, yq)
      /\ d.month = Slotted(t[2], p # "Year", mq)
      /\ d.day = Slotted(t[3], p = "Day", dq)
  BY DEF Date
<1>3. bounds(DateOf(concrete_year(t[1], yq), Slotted(t[2], p # "Year", mq), Slotted(t[3], p = "Day", dq)))
        = date_bounds(d)
  BY <1>1, <1>2
<1>4. t = <<t[1], t[2], t[3]>> /\ y \in I64Years /\ y \in Int /\ t[2] \in 0..12 /\ t[3] \in 0..31
  BY Numbers, PositionIsTriple
<1> HIDE DEF d
<1>5. /\ d.year.significant_digits = None
      /\ year_of(d.year.kind) = Some(y) /\ Get(year_of(d.year.kind)) = y
      /\ y \in SignedYears => d.year.kind.form = "Standard" /\ ~has_x(d.year.kind.digits)
      /\ y \notin SignedYears => d.year.kind.form = "Big"
  BY <1>2, <1>4, YearWritten
<1> HIDE DEF y
<1>6. CASE y \notin SignedYears
  <2>1. p = "Year" /\ d.year.kind.form # "Standard"
    BY <1>5, <1>6 DEF y
  <2>2. date_range(d.year) = Some(<<y, y>>)
    BY <1>5 DEF date_range, significant_range, Some, None, Get
  <2>3. date_bounds(d) = WholeYears(y, y)
    BY <2>1, <2>2, SomeFacts DEF date_bounds, year_bounds
  <2>4. FirstDay(p, t) = <<y, 1, 1>> /\ FinalDay(p, t) = <<y, 12, 31>>
    BY <2>1, LastDayBounds DEF FirstDay, FinalDay, y
  <2> QED BY <1>3, <2>3, <2>4 DEF PlaceBounds, WholeYears
<1>7. CASE y \in SignedYears
  <2>1. /\ d.year.kind.form = "Standard" /\ ~has_x(d.year.kind.digits)
    BY <1>5, <1>7
  <2>2. \A ascending \in BOOLEAN : extremum(d, ascending) = extremum_in_year(d, y, ascending)
    BY <1>5, <2>1, OneYear
  <2>3. ~IsSeason(d) =>
           date_bounds(d) = day_bounds(extremum_in_year(d, y, TRUE), extremum_in_year(d, y, FALSE))
    BY <1>5, <2>1, <2>2 DEF date_bounds
  <2>4. CASE p = "Year"
    <3>1. d.month = None /\ d.day = None
      BY <1>2, <2>4 DEF Slotted
    <3>2. slot_value(d.month) = None
      BY <3>1 DEF slot_value, IsSome
    <3>3. ~IsSeason(d)
      BY <3>2, SomeFacts DEF IsSeason
    <3>4. /\ extremum_in_year(d, y, TRUE) = Some(<<y, 1, 1>>)
          /\ extremum_in_year(d, y, FALSE) = Some(<<y, 12, 31>>)
      BY <3>1 DEF extremum_in_year
    <3>5. date_bounds(d) = MkBounds(DayBound(<<y, 1, 1>>), DayBound(<<y, 12, 31>>))
      BY <2>3, <3>3, <3>4, SomeFacts DEF day_bounds
    <3>6. FirstDay(p, t) = <<y, 1, 1>> /\ FinalDay(p, t) = <<y, 12, 31>>
      BY <2>4, LastDayBounds DEF FirstDay, FinalDay, y
    <3> QED BY <1>3, <3>5, <3>6 DEF PlaceBounds
  <2>5. CASE p # "Year"
    <3> DEFINE m == t[2]
               n == t[3]
    <3>1. m \in 1..12 /\ (p = "Day" => n \in 1..last_day(m, is_leap(y)) /\ n \in 0..99)
      <4>1. p = "Day" => IsDay(t)
        BY DEF Position
      <4>2. m \in 1..12
        BY <1>4, <2>5, <4>1 DEF Position, Precisions, IsDay
      <4> QED BY <1>4, <4>1, <4>2 DEF IsDay, y
    <3> HIDE DEF m, n
    <3>2. d.month = Some(concrete_field(m, mq)) /\ m \in 0..99
      BY <1>2, <2>5, <3>1 DEF Slotted, m
    <3>3. /\ d.month # None /\ d.month = Some(Get(d.month))
          /\ ~has_x(Get(d.month).digits) /\ field_value(Get(d.month)) = Some(m)
          /\ slot_value(d.month) = Some(m)
      BY <3>2, FieldWritten
    <3>4. ~IsSeason(d)
      <4>1. \A code \in SeasonCode : Some(m) # Some(code)
        BY <3>1, SomeFacts DEF SeasonCode
      <4> QED BY <3>3, <4>1 DEF IsSeason
    <3>5. CASE p = "Month"
      <4>1. d.day = None
        BY <1>2, <3>5 DEF Slotted
      <4>2. \A ascending \in BOOLEAN : extremum_in_year(d, y, ascending) = month_edge(y, m, ascending)
        BY <3>3, <4>1, OneMonth
      <4>3. date_bounds(d) = day_bounds(month_edge(y, m, TRUE), month_edge(y, m, FALSE))
        BY <2>3, <3>4, <4>2
      <4>4. date_bounds(d) = MkBounds(DayBound(<<y, m, 1>>), DayBound(<<y, m, last_day(m, is_leap(y))>>))
        BY <4>3, SomeFacts DEF day_bounds, month_edge
      <4>5. FirstDay(p, t) = <<y, m, 1>> /\ FinalDay(p, t) = <<y, m, last_day(m, is_leap(y))>>
        BY <3>5 DEF FirstDay, FinalDay, m, y
      <4> QED BY <1>3, <4>4, <4>5 DEF PlaceBounds
    <3>6. CASE p = "Day"
      <4>1. d.day = Some(concrete_field(n, dq))
        BY <1>2, <3>6 DEF Slotted, n
      <4>2. /\ d.day = Some(Get(d.day))
            /\ ~has_x(Get(d.day).digits) /\ field_value(Get(d.day)) = Some(n)
        BY <3>1, <3>6, <4>1, FieldWritten
      <4>3. \A ascending \in BOOLEAN : extremum_in_year(d, y, ascending) = fitting_day(y, m, n)
        BY <3>3, <4>2, OneDay
      <4>4. fitting_day(y, m, n) = Some(<<y, m, n>>)
        <5>1. n <= last_day(m, is_leap(y))
          BY <3>1, <3>6, LastDayBounds
        <5> QED BY <5>1 DEF fitting_day
      <4>5. date_bounds(d) = MkBounds(DayBound(<<y, m, n>>), DayBound(<<y, m, n>>))
        BY <2>3, <3>4, <4>3, <4>4, SomeFacts DEF day_bounds
      <4>6. FirstDay(p, t) = <<y, m, n>> /\ FinalDay(p, t) = <<y, m, n>>
        BY <3>6 DEF FirstDay, FinalDay, m, n, y
      <4> QED BY <1>3, <4>5, <4>6 DEF PlaceBounds
    <3> QED BY <2>5, <3>5, <3>6 DEF Precisions
  <2> QED BY <2>4, <2>5
<1> QED BY <1>6, <1>7

(* The bounds of a season from one year to another. *)
SeasonSpan(code, lo, hi) ==
  span_bounds(season_months(code), lo, hi + (IF season_months(code)[3] THEN 1 ELSE 0))

(* A season written out with its year is the season's months in that year. *)
LEMMA SeasonItemBounds ==
  ASSUME NEW y \in SignedYears, NEW code \in SeasonCode, NEW yq, NEW mq, NEW dq, NEW n
  PROVE  bounds(DateOf(concrete_year(y, yq), Slotted(code, TRUE, mq), Slotted(n, FALSE, dq)))
           = SeasonSpan(code, y, y)
<1> DEFINE d == Date(concrete_year(y, yq), Slotted(code, TRUE, mq), Slotted(n, FALSE, dq))
<1>1. bounds(DateOf(d.year, d.month, d.day)) = date_bounds(d)
  BY DEF bounds, DateOf, DateExpr, Date
<1>2. /\ d.year = concrete_year(y, yq)
      /\ d.month = Slotted(code, TRUE, mq)
      /\ d.day = Slotted(n, FALSE, dq)
  BY DEF Date
<1> HIDE DEF d
<1>3. y \in Int /\ code \in 0..99
  BY DEF SignedYears, SeasonCode
<1>4. /\ d.year.significant_digits = None /\ d.year.kind.form = "Standard"
      /\ year_of(d.year.kind) = Some(y)
  BY <1>2, <1>3, YearWritten
<1>5. slot_value(d.month) = Some(code) /\ Get(slot_value(d.month)) = code
  BY <1>2, <1>3, FieldWritten DEF Slotted
<1>6. IsSeason(d)
  BY <1>5 DEF IsSeason
<1>7. date_bounds(d) = season_bounds(d, code)
  BY <1>4, <1>5, <1>6 DEF date_bounds
<1>8. year_range(d) = <<y, y>>
  BY <1>4, SomeFacts DEF year_range, ends_or_mask
<1>9. season_bounds(d, code) = SeasonSpan(code, y, y)
  BY <1>8 DEF season_bounds, SeasonSpan
<1> QED BY <1>1, <1>2, <1>7, <1>9

-----------------------------------------------------------------------------
(* Elements.  What bounds() says of an element is the join of what it says *)
(* of the values handed out for the element.                               *)
BoundsOf(P) == {bounds(v) : v \in P}

(* Of the years of a sweep.                                                *)
LEMMA SweepJoins ==
  ASSUME NEW d, IsDateRecord(d), ValidDate(d), date_error(d) = None, d.year.significant_digits # None
  PROVE  Joins(date_bounds(d), BoundsOf(DateDenotes(d)))
<1> DEFINE sweep == significant_range(Get(year_of(d.year.kind)), d.year.significant_digits,
                                      big_width(d.year.kind))
           q == d.year.qualifier
           w == DateWalker(d)
<1>1. year_of(d.year.kind) # None /\ sweep # None
  BY SomeFacts DEF date_error
<1>2. date_range(d.year) = sweep
  BY <1>1 DEF date_range
<1>3. PICK lo \in I64Years, hi \in I64Years : lo <= hi /\ sweep = Some(<<lo, hi>>)
  BY <1>1, <1>2, RangeOfDate DEF IsDateRecord
<1>4. lo \in Int /\ hi \in Int
  BY Numbers
<1>5. Get(sweep)[1] = lo /\ Get(sweep)[2] = hi
  BY <1>3, SomeFacts
<1>6. w = SweepWalk(Get(sweep)[1], Get(sweep)[2], q)
  BY DEF DateWalker
<1>7. date_bounds(d) = year_bounds(sweep)
  BY <1>2 DEF date_bounds
<1> HIDE DEF sweep
<1>8. w.walk = "Sweep" /\ ~w.done /\ w.cur = lo /\ w.hi = hi /\ w.qualifier = q
  BY <1>5, <1>6 DEF SweepWalk
<1>9. Remaining(w) = DateDenotes(d)
  BY SweepStart
<1> HIDE DEF w, q
<1>10. DateDenotes(d) = {YearItem(q, y) : y \in lo..hi}
  BY <1>8, <1>9, RemainingByKind
<1>11. date_bounds(d) = WholeYears(lo, hi)
  BY <1>1, <1>5, <1>7 DEF year_bounds
<1> DEFINE At0(y) == <<y, 0, 0>>
           T == {At0(y) : y \in lo..hi}
<1>12. \A y \in lo..hi : y \in I64Years
  BY <1>3, <1>4, Numbers DEF I64Years
<1>13. \A y \in lo..hi : At0(y) \in Position("Year", I64Years) /\ At0(y)[1] = y
  BY <1>12 DEF Position
<1>14. ASSUME NEW y \in lo..hi
       PROVE  bounds(YearItem(q, y)) = PlaceBounds("Year", At0(y))
  <2>1. bounds(DateOf(concrete_year(At0(y)[1], q), Slotted(At0(y)[2], "Year" # "Year", {}),
                      Slotted(At0(y)[3], "Year" = "Day", {}))) = PlaceBounds("Year", At0(y))
    <3> HIDE DEF At0
    <3>1. "Year" \in Precisions
      BY DEF Precisions
    <3> QED BY <1>13, <3>1, ItemBounds
  <2>2. YearItem(q, y) = DateOf(concrete_year(At0(y)[1], q), Slotted(At0(y)[2], "Year" # "Year", {}),
                                Slotted(At0(y)[3], "Year" = "Day", {}))
    BY DEF YearItem, Slotted
  <2> QED BY <2>1, <2>2
<1>15. ASSUME NEW y \in lo..hi
       PROVE  /\ FirstDay("Year", At0(y)) = <<y, 1, 1>> /\ FinalDay("Year", At0(y)) = <<y, 12, 31>>
              /\ AtMost(<<lo, 1, 1>>, <<y, 1, 1>>) /\ AtMost(<<y, 12, 31>>, <<hi, 12, 31>>)
  <2>1. FirstDay("Year", At0(y)) = <<y, 1, 1>> /\ FinalDay("Year", At0(y)) = <<y, 12, 31>>
    BY LastDayBounds DEF FirstDay, FinalDay
  <2>2. AtMost(<<lo, 1, 1>>, <<y, 1, 1>>) /\ AtMost(<<y, 12, 31>>, <<hi, 12, 31>>)
    BY <1>4 DEF AtMost, Before
  <2> QED BY <2>1, <2>2
<1> HIDE DEF At0
<1>16. lo \in lo..hi /\ hi \in lo..hi
  BY <1>3, <1>4
<1>17. \A b : b \in BoundsOf(DateDenotes(d)) <=> \E u \in T : b = PlaceBounds("Year", u)
  BY <1>10, <1>14 DEF BoundsOf
<1>18. T \subseteq Position("Year", I64Years)
  BY <1>13
<1>19. /\ \E a \in T : FirstDay("Year", a) = <<lo, 1, 1>>
       /\ \E z \in T : FinalDay("Year", z) = <<hi, 12, 31>>
       /\ \A u \in T : AtMost(<<lo, 1, 1>>, FirstDay("Year", u)) /\ AtMost(FinalDay("Year", u), <<hi, 12, 31>>)
  BY <1>15, <1>16
<1> HIDE DEF T
<1>20. Joins(MkBounds(DayBound(<<lo, 1, 1>>), DayBound(<<hi, 12, 31>>)), BoundsOf(DateDenotes(d)))
  <2>1. "Year" \in Precisions
    BY DEF Precisions
  <2> QED BY ONLY <1>17, <1>18, <1>19, <2>1, PlacesJoin
<1> QED BY <1>11, <1>20 DEF WholeYears

(* Of a date that is its own one value.                                    *)
LEMMA LoneJoins ==
  ASSUME NEW d, IsDateRecord(d), ValidSlots(d), NEW x, bounds(x) = date_bounds(d)
  PROVE  Joins(date_bounds(d), BoundsOf({x}))
<1>1. WellFormed(date_bounds(d))
  BY DateWellFormed
<1>2. date_bounds(d) = UnknownBounds \/ Dated(date_bounds(d))
  <2>1. CASE date_bounds(d) = UnknownBounds
    BY <2>1
  <2>2. CASE \E s, t : date_bounds(d) = MkBounds(DayBound(s), DayBound(t))
    <3>1. PICK s, t : date_bounds(d) = MkBounds(DayBound(s), DayBound(t))
      BY <2>2
    <3>2. IsBound(DayBound(s), NegInf, I64Years) /\ IsBound(DayBound(t), PosInf, I64Years)
      BY <1>1, <3>1, SidesAreDays DEF WellFormed, IsBounds
    <3>3. s \in CalendarDay /\ t \in CalendarDay
      BY <3>2, SidesAreDays DEF IsBound, CalendarDay
    <3> QED BY <3>1, <3>3 DEF Dated
  <2> QED BY <2>1, <2>2, DaysOrUnknown
<1>3. BoundsOf({x}) = {date_bounds(d)}
  BY DEF BoundsOf
<1> QED BY <1>2, <1>3, JoinOfOne

(* A date with a month is written with four digits.                        *)
LEMMA MonthHasSignedYear ==
  ASSUME NEW d, IsDateRecord(d), ValidDate(d), d.month # None, year_of(d.year.kind) # None
  PROVE  Get(year_of(d.year.kind)) \in SignedYears
<1> DEFINE kind == d.year.kind
<1>1. kind.form = "Standard"
  BY DEF ValidDate, ValidPrefixedYear
<1>2. kind.digits \in [1..4 -> MaskDigit] /\ kind.negative \in BOOLEAN
  BY <1>1 DEF IsDateRecord, IsYearKind
<1>3. ~has_x(kind.digits) /\ year_of(kind) = Some((IF kind.negative THEN -1 ELSE 1) * year_value(kind.digits, 0))
  BY <1>1, Zenon DEF year_of
<1>4. year_value(kind.digits, 0) \in WrittenYears
  BY <1>2, YearValue
<1> QED BY <1>2, <1>3, <1>4, SignedYear, SomeFacts

(* So is a year between two of four digits.                                *)
LEMMA SignedYearsBetween ==
  ASSUME NEW x \in SignedYears, NEW y \in SignedYears, NEW z \in Int, x <= z, z <= y
  PROVE  z \in SignedYears
<1>1. x \in Int /\ y \in Int /\ -9999 <= x /\ y <= 9999
  BY DEF SignedYears
<1>2. CASE z \in 0..9999
  BY <1>2 DEF SignedYears
<1>3. CASE -z \in 1..9999
  BY <1>3 DEF SignedYears
<1> QED BY <1>1, <1>2, <1>3

(* Of the places of a range.                                               *)
LEMMA RangeJoins ==
  ASSUME NEW e, IsElement(e), e.kind = "Range", range_agrees(e), parse_set_element(e),
         year_of(e.date.year.kind) # None, year_of(e.to.year.kind) # None
  PROVE  Joins(element_bounds(e), BoundsOf(ElementDenotes(e)))
<1> DEFINE p == precision(e.date)
           a == PlaceOf(e.date)
           b == PlaceOf(e.to)
           w == RangeWalker(e.date, e.to)
           T == {t \in Position(p, I64Years) : AtMost(a, t) /\ AtMost(t, b)}
<1>1. /\ p \in Precisions /\ a \in Position(p, I64Years) /\ b \in Position(p, I64Years) /\ AtMost(a, b)
  BY RangeInOrder
<1>2. /\ check_range_endpoint(e.date) /\ check_range_endpoint(e.to)
      /\ precision(e.to) = p
      /\ ValidDate(e.date) /\ ValidDate(e.to)
      /\ IsDateRecord(e.date) /\ IsDateRecord(e.to)
  BY DEF range_agrees, parse_set_element, IsElement
<1>3. date_bounds(e.date) = PlaceBounds(p, a) /\ date_bounds(e.to) = PlaceBounds(p, b)
  BY <1>2, PlainDate DEF PlaceBounds
<1>4. element_bounds(e) = MkBounds(DayBound(FirstDay(p, a)), DayBound(FinalDay(p, b)))
  BY <1>3, ElementBoundsByKind, SidesAreDays DEF PlaceBounds
<1>5. p # "Year" => a[1] \in SignedYears /\ b[1] \in SignedYears
  <2>1. p # "Year" => e.date.month # None /\ e.to.month # None
    BY <1>2, EndpointSlots
  <2> QED BY <1>2, <2>1, MonthHasSignedYear DEF PlaceOf
<1>6. w.walk = "Range" /\ ~w.done /\ w.cur = a /\ w.end = b /\ w.precision = p
  BY DEF RangeWalker, PlaceOf, SlotNumber
<1>7. Remaining(w) = ElementDenotes(e)
  BY RangeStart
<1> HIDE DEF w, p, a, b
<1>8. ElementDenotes(e) = {PlaceItem(p, t) : t \in T}
  BY <1>6, <1>7, RemainingByKind
<1>9. ASSUME NEW t \in T
      PROVE  p # "Year" => t[1] \in SignedYears
  <2>1. a[1] \in Int /\ b[1] \in Int /\ t[1] \in Int
    BY <1>1, Numbers, PositionIsTriple
  <2>2. a[1] <= t[1] /\ t[1] <= b[1]
    BY <2>1 DEF AtMost, Before
  <2> QED BY <1>5, <2>1, <2>2, SignedYearsBetween
<1>10. \A t \in T : bounds(PlaceItem(p, t)) = PlaceBounds(p, t)
  BY <1>1, <1>9, ItemBounds DEF PlaceItem
<1>11. \A c : c \in BoundsOf(ElementDenotes(e)) <=> \E u \in T : c = PlaceBounds(p, u)
  BY <1>8, <1>10 DEF BoundsOf
<1>12. a \in T /\ b \in T
  BY <1>1 DEF AtMost
<1>13. \A u \in T : AtMost(FirstDay(p, a), FirstDay(p, u)) /\ AtMost(FinalDay(p, u), FinalDay(p, b))
  BY <1>1, DaysFollowPlaces
<1>14. T \subseteq Position(p, I64Years)
  OBVIOUS
<1> HIDE DEF T
<1>15. (\E u \in T : FirstDay(p, u) = FirstDay(p, a)) /\ (\E z \in T : FinalDay(p, z) = FinalDay(p, b))
  BY <1>12
<1>16. Joins(MkBounds(DayBound(FirstDay(p, a)), DayBound(FinalDay(p, b))), BoundsOf(ElementDenotes(e)))
  BY ONLY <1>1, <1>11, <1>13, <1>14, <1>15, PlacesJoin
<1> QED BY <1>4, <1>16

-----------------------------------------------------------------------------
(* Masks.  The years that the search of bounds.rs goes through are the     *)
(* years the mask may mean.                                                *)
LEMMA YearsAgree ==
  ASSUME NEW kind, IsYearKind(kind), kind.form = "Standard"
  PROVE  \A y : YearTravelled(kind, y) <=> y \in YearsOf(kind)
<1> DEFINE n == YearCount(kind)
           up == years_travelled(kind, TRUE)
<1>1. /\ n \in Nat
      /\ \A i \in 0..(n - 1) : year_at(kind, i) \in YearsOf(kind)
      /\ \A y \in YearsOf(kind) : \E i \in 0..(n - 1) : y = year_at(kind, i)
  BY YearsStopped
<1>2. year_of(kind) = None <=> has_x(kind.digits)
  BY SomeFacts, Zenon DEF year_of
<1>3. DOMAIN up = 0..(n - 1) /\ \A i \in 0..(n - 1) : up[i] = year_at(kind, i)
  <2>1. CASE has_x(kind.digits)
    <3>1. n = completion_count(kind.digits)
      BY <1>2, <2>1 DEF YearCount
    <3>2. up = [i \in 0..(n - 1) |-> completion(kind.digits, i)]
      BY <2>1, <3>1 DEF years_travelled
    <3>3. kind.digits \in [1..4 -> MaskDigit]
      BY DEF IsYearKind
    <3>4. \A i \in Nat : year_at(kind, i) = completion(kind.digits, i)
      BY <1>2, <2>1, <3>3, OdometersAgree DEF year_at
    <3> HIDE DEF n, up
    <3>5. 0..(n - 1) \subseteq Nat
      BY <1>1
    <3> QED BY <3>2, <3>4, <3>5
  <2>2. CASE ~has_x(kind.digits)
    <3>1. n = 1
      BY <1>2, <2>2 DEF YearCount
    <3>2. up = [i \in {0} |-> Get(year_of(kind))]
      BY <2>2 DEF years_travelled
    <3>3. \A i : year_at(kind, i) = Get(year_of(kind))
      BY <1>2, <2>2 DEF year_at
    <3>4. 0..(n - 1) = {0}
      BY <3>1
    <3> HIDE DEF n, up
    <3> QED BY <3>2, <3>3, <3>4
  <2> QED BY <2>1, <2>2
<1> HIDE DEF n, up
<1>4. \A y : (\E i \in DOMAIN up : up[i] = y) <=> y \in YearsOf(kind)
  BY <1>1, <1>3
<1> QED BY <1>4 DEF YearTravelled, up

(* A year of four digits is made of its digits.                            *)
LEMMA DigitsOfYear ==
  ASSUME NEW y \in 0..9999
  PROVE  /\ (y \div 1000) % 10 \in 0..9 /\ (y \div 100) % 10 \in 0..9
         /\ (y \div 10) % 10 \in 0..9 /\ (y % 10) \in 0..9
         /\ y = 1000 * ((y \div 1000) % 10) + 100 * ((y \div 100) % 10) + 10 * ((y \div 10) % 10) + (y % 10)
<1> DEFINE a == y \div 10
           b == a \div 10
           c == b \div 10
<1>1. y = 10 * a + (y % 10) /\ a \in 0..999
  OBVIOUS
<1>2. a = 10 * b + (a % 10) /\ b \in 0..99
  <2> HIDE DEF a
  <2> QED BY <1>1
<1>3. b = 10 * c + (b % 10) /\ c \in 0..9
  <2> HIDE DEF a, b
  <2> QED BY <1>2
<1>4. y \div 100 = b
  BY <1>1
<1>5. y \div 1000 = c
  BY <1>1
<1> QED BY <1>1, <1>2, <1>3, <1>4, <1>5

(* A number of four digits, each taken from a set.                         *)
Composed(A, B, C, E) == {1000 * a + 100 * b + 10 * c + e : a \in A, b \in B, c \in C, e \in E}
Compose(t) == 1000 * t[1] + 100 * t[2] + 10 * t[3] + t[4]

(* What is composed of such digits is such a number. *)
LEMMA ComposedOf ==
  ASSUME NEW t, NEW A, NEW B, NEW C, NEW E, t[1] \in A, t[2] \in B, t[3] \in C, t[4] \in E
  PROVE  Compose(t) \in Composed(A, B, C, E)
BY DEF Composed, Compose

(* The four digits of a year. *)
Decimal(y) == <<(y \div 1000) % 10, (y \div 100) % 10, (y \div 10) % 10, y % 10>>

(* A year is the number made of its four digits.                           *)
LEMMA YearIsComposed ==
  ASSUME NEW y \in WrittenYears
  PROVE  /\ Decimal(y)[1] \in Digit /\ Decimal(y)[2] \in Digit
         /\ Decimal(y)[3] \in Digit /\ Decimal(y)[4] \in Digit
         /\ y = Compose(Decimal(y))
<1> DEFINE t == Decimal(y)
<1>1. /\ t[1] = (y \div 1000) % 10 /\ t[2] = (y \div 100) % 10
      /\ t[3] = (y \div 10) % 10 /\ t[4] = y % 10
  BY DEF Decimal
<1>2. y \in 0..9999
  BY DEF WrittenYears
<1> HIDE DEF t
<1>3. t[1] \in Digit /\ t[2] \in Digit /\ t[3] \in Digit /\ t[4] \in Digit
  BY <1>1, <1>2, DigitsOfYear DEF Digit
<1>4. y = Compose(t)
  BY <1>1, <1>2, DigitsOfYear DEF Compose
<1> QED BY <1>3, <1>4 DEF t

(* A year that fits the mask is one the mask may mean.                     *)
LEMMA MatchIsMeant ==
  ASSUME NEW digits \in [1..4 -> MaskDigit], NEW y \in WrittenYears, year_matches(digits, y)
  PROVE  y \in Composed(FillsOf(digits[1]), FillsOf(digits[2]), FillsOf(digits[3]), FillsOf(digits[4]))
<1> DEFINE t == Decimal(y)
<1>1. /\ t[1] \in Digit /\ t[2] \in Digit /\ t[3] \in Digit /\ t[4] \in Digit
      /\ y = Compose(t)
  BY YearIsComposed
<1>2. matches(digits, t)
  BY DEF year_matches, Decimal
<1> HIDE DEF t
<1>3. \A i \in 1..4 : digits[i] = X \/ digits[i] = t[i]
  BY <1>2 DEF matches
<1>4. \A digit : \A v \in Digit : digit = X \/ digit = v => v \in FillsOf(digit)
  BY DEF FillsOf
<1>5. t[1] \in FillsOf(digits[1]) /\ t[2] \in FillsOf(digits[2])
      /\ t[3] \in FillsOf(digits[3]) /\ t[4] \in FillsOf(digits[4])
  BY <1>1, <1>3, <1>4
<1> QED BY <1>1, <1>5, ComposedOf

(* The years a mask may mean: four-digit years, the first with every X a   *)
(* 0, the last with every X a 9.                                           *)
LEMMA MaskedYears ==
  ASSUME NEW kind, IsYearKind(kind), kind.form = "Standard"
  PROVE  /\ YearsOf(kind) \subseteq SignedYears
         /\ YearsOf(kind) # {}
         /\ has_x(kind.digits) =>
              LET lo == year_value(kind.digits, 0)
                  hi == year_value(kind.digits, 9)
              IN  lo \in YearsOf(kind) /\ hi \in YearsOf(kind) /\ \A y \in YearsOf(kind) : lo <= y /\ y <= hi
         /\ has_x(kind.digits) => \A y \in WrittenYears : year_matches(kind.digits, y) => y \in YearsOf(kind)
<1> DEFINE digits == kind.digits
<1>1. digits \in [1..4 -> MaskDigit] /\ kind.negative \in BOOLEAN
  BY DEF IsYearKind
<1>2. CASE has_x(digits)
  <2>1. year_of(kind) = None
    BY <1>2, Zenon DEF year_of
  <2> DEFINE Y == {1000 * a + 100 * b + 10 * c + e : a \in FillsOf(digits[1]), b \in FillsOf(digits[2]),
                                                     c \in FillsOf(digits[3]), e \in FillsOf(digits[4])}
  <2>2. YearsOf(kind) = Y
    BY <2>1 DEF YearsOf
  <2>3. \A i \in 1..4 : FillsOf(digits[i]) \subseteq 0..9
    BY <1>1 DEF FillsOf, MaskDigit, Digit, X
  <2> DEFINE shown(i, fill) == IF digits[i] = X THEN fill ELSE digits[i]
  <2>4. \A i \in 1..4 : shown(i, 0) \in FillsOf(digits[i]) /\ shown(i, 9) \in FillsOf(digits[i])
    BY DEF FillsOf, Digit
  <2>5. \A i \in 1..4 : \A v \in FillsOf(digits[i]) : shown(i, 0) <= v /\ v <= shown(i, 9)
    BY <2>3 DEF FillsOf, Digit
  <2>6. \A fill : year_value(digits, fill) = 1000 * shown(1, fill) + 100 * shown(2, fill) + 10 * shown(3, fill) + shown(4, fill)
    BY DEF year_value
  <2>7. \A i \in 1..4 : shown(i, 0) \in 0..9 /\ shown(i, 9) \in 0..9
    BY <2>3, <2>4
  <2>8. 1 \in 1..4 /\ 2 \in 1..4 /\ 3 \in 1..4 /\ 4 \in 1..4
    OBVIOUS
  <2> HIDE DEF shown
  <2>9. year_value(digits, 0) \in Y /\ year_value(digits, 9) \in Y
    BY <2>4, <2>6, <2>8
  <2>10. ASSUME NEW y \in Y
         PROVE  y \in SignedYears /\ year_value(digits, 0) <= y /\ y <= year_value(digits, 9)
    <3>1. PICK a \in FillsOf(digits[1]), b \in FillsOf(digits[2]), c \in FillsOf(digits[3]), e \in FillsOf(digits[4]) :
            y = 1000 * a + 100 * b + 10 * c + e
      OBVIOUS
    <3>2. /\ shown(1, 0) <= a /\ a <= shown(1, 9) /\ shown(2, 0) <= b /\ b <= shown(2, 9)
          /\ shown(3, 0) <= c /\ c <= shown(3, 9) /\ shown(4, 0) <= e /\ e <= shown(4, 9)
      BY <2>5, <2>8
    <3>3. a \in 0..9 /\ b \in 0..9 /\ c \in 0..9 /\ e \in 0..9
      BY <2>3, <2>8
    <3>4. y \in 0..9999
      BY <3>1, <3>3
    <3>5. year_value(digits, 0) <= y /\ y <= year_value(digits, 9)
      BY <2>6, <2>7, <2>8, <3>1, <3>2, <3>3
    <3>7. y \in SignedYears
      BY <3>4 DEF SignedYears
    <3> QED BY <3>5, <3>7
  <2>11. ASSUME NEW y \in WrittenYears, year_matches(digits, y)
         PROVE  y \in Y
    <3> HIDE DEF Y
    <3>1. y \in Composed(FillsOf(digits[1]), FillsOf(digits[2]), FillsOf(digits[3]), FillsOf(digits[4]))
      BY <1>1, <2>11, MatchIsMeant
    <3> QED BY <3>1 DEF Composed, Y
  <2> HIDE DEF Y
  <2> QED BY <1>2, <2>2, <2>9, <2>10, <2>11
<1>3. CASE ~has_x(digits)
  <2>1. year_of(kind) = Some((IF kind.negative THEN -1 ELSE 1) * year_value(digits, 0))
    BY <1>3, Zenon DEF year_of
  <2>2. year_value(digits, 0) \in WrittenYears
    BY <1>1, YearValue
  <2>3. (IF kind.negative THEN -1 ELSE 1) * year_value(digits, 0) \in SignedYears
    BY <1>1, <2>2, SignedYear
  <2>4. year_of(kind) # None /\ Get(year_of(kind)) \in SignedYears
    BY <2>1, <2>3, SomeFacts
  <2>5. YearsOf(kind) = {Get(year_of(kind))}
    BY <2>4 DEF YearsOf
  <2> QED BY <1>3, <2>4, <2>5
<1> QED BY <1>2, <1>3

(* What the parser accepted of a slot is what the slot may mean.           *)
LEMMA AcceptedMeant ==
  ASSUME NEW d, IsSlot(d.month), d.month # None
  PROVE  /\ accepted_months(Get(d.month)) \subseteq MaskedMonthSlots(d)
         /\ IsSlot(d.day) /\ d.day # None => accepted_days(Get(d.day)) \subseteq SlotValues(d.day, 1..31)
<1>1. ASSUME NEW f, f.digits \in [1..2 -> MaskDigit], NEW limit \in 1..99, NEW v \in 1..limit,
             IF field_value(f) # None THEN v = Get(field_value(f)) ELSE field_matches(f.digits, v)
      PROVE  field_matches(f.digits, v)
  <2>1. CASE has_x(f.digits)
    <3>1. field_value(f) = None
      BY <2>1 DEF field_value
    <3> QED BY <1>1, <3>1
  <2>2. CASE ~has_x(f.digits)
    <3>1. PICK u \in Nat : field_value(f) = Some(u) /\ Get(field_value(f)) = u /\ field_value(f) # None
      BY <1>1, <2>2, FieldValue
    <3>2. v = u
      BY <1>1, <3>1
    <3>3. v \in 0..99
      OBVIOUS
    <3> QED BY <1>1, <2>2, <3>1, <3>2, <3>3, ValueMatches
  <2> QED BY <2>1, <2>2
<1>2. ASSUME NEW v \in accepted_months(Get(d.month)) PROVE v \in MaskedMonthSlots(d)
  <2> DEFINE f == Get(d.month)
  <2>1. f.digits \in [1..2 -> MaskDigit]
    BY DEF IsSlot
  <2>2. v \in 1..12 /\ (IF field_value(f) # None THEN v = Get(field_value(f)) ELSE field_matches(f.digits, v))
    BY DEF accepted_months
  <2>3. field_matches(f.digits, v)
    BY <1>1, <2>1, <2>2
  <2> QED BY <2>2, <2>3 DEF MaskedMonthSlots, MonthSlots, SlotValues
<1>3. ASSUME IsSlot(d.day), d.day # None, NEW v \in accepted_days(Get(d.day)) PROVE v \in SlotValues(d.day, 1..31)
  <2> DEFINE f == Get(d.day)
  <2>1. f.digits \in [1..2 -> MaskDigit]
    BY <1>3 DEF IsSlot
  <2>2. v \in 1..31 /\ (IF field_value(f) # None THEN v = Get(field_value(f)) ELSE field_matches(f.digits, v))
    BY DEF accepted_days
  <2>3. field_matches(f.digits, v)
    BY <1>1, <2>1, <2>2
  <2> QED BY <1>3, <2>2, <2>3 DEF SlotValues
<1> QED BY <1>2, <1>3

(* Some year the digits fit is a leap year. *)
LeapIn(digits, years) == \E y \in years : year_matches(digits, y) /\ is_leap(y)

(* A year may be a leap year when one of those it may mean is.             *)
LEMMA LeapYearMeant ==
  ASSUME NEW kind, IsYearKind(kind), kind.form = "Standard", year_leap_possible(kind)
  PROVE  \E y \in YearsOf(kind) : is_leap(y)
<1>2. year_leap_possible(kind) = IF year_of(kind) # None THEN is_leap(Get(year_of(kind)))
                                 ELSE LeapIn(kind.digits, WrittenYears)
  BY SMTT(60) DEF year_leap_possible, LeapIn, WrittenYears
<1>3. CASE year_of(kind) # None
  <2>1. is_leap(Get(year_of(kind)))
    BY <1>2, <1>3, Zenon
  <2> QED BY <1>3, <2>1 DEF YearsOf
<1>4. CASE year_of(kind) = None
  <2>1. has_x(kind.digits)
    BY <1>4, SomeFacts, Zenon DEF year_of
  <2>2. LeapIn(kind.digits, WrittenYears)
    BY <1>2, <1>4
  <2>3. \A y \in WrittenYears : year_matches(kind.digits, y) => y \in YearsOf(kind)
    BY <2>1, MaskedYears
  <2> QED BY <2>2, <2>3, Zenon DEF LeapIn
<1> QED BY <1>3, <1>4

(* A mask the parser accepted means some day: it looked for one.           *)
LEMMA MaskMeansSomething ==
  ASSUME NEW d, IsDateRecord(d), ValidDate(d), has_unspecified(d), ~IsSeason(d)
  PROVE  Completions(d) # {}
<1> DEFINE kind == d.year.kind
           Y == YearsOf(kind)
           M == MaskedMonthSlots(d)
           D == SlotValues(d.day, 1..31)
<1>1. /\ kind.form = "Standard" /\ IsYearKind(kind) /\ (d.day # None => d.month # None)
      /\ validate_month_day(kind, d.month, d.day) /\ IsSlot(d.month) /\ IsSlot(d.day)
  BY MaskedIsStandard DEF IsDateRecord
<1>2. Completions(d) = {t \in Y \X M \X D : t[3] = 0 \/ IsDay(t)}
  BY DEF Completions
<1>3. Y \subseteq SignedYears /\ Y # {}
  BY <1>1, MaskedYears
<1>4. d.day = None => D = {0}
  BY DEF SlotValues
<1>5. d.month = None => M = {0}
  BY DEF MaskedMonthSlots, MonthSlots, SlotValues
<1> HIDE DEF Y, M, D
<1>6. CASE d.day = None
  <2>1. M # {}
    <3>1. CASE d.month = None
      BY <1>5, <3>1
    <3>2. CASE d.month # None
      <4> DEFINE f == Get(d.month)
      <4>1. accepted_months(f) # {}
        <5>1. CASE field_value(f) = None
          BY <1>1, <3>2, <5>1 DEF validate_month_day
        <5>2. CASE field_value(f) # None
          <6>1. Get(field_value(f)) \in (1..12) \cup SeasonCode
            BY <1>1, <3>2, <5>2 DEF validate_month_day
          <6>2. slot_value(d.month) = field_value(f) /\ field_value(f) = Some(Get(field_value(f)))
            BY <3>2, <5>2, SomeFacts DEF slot_value, IsSome, field_value
          <6>3. Get(field_value(f)) \in 1..12
            BY <6>1, <6>2 DEF IsSeason
          <6> QED BY <5>2, <6>3 DEF accepted_months
        <5> QED BY <5>1, <5>2
      <4>2. accepted_months(f) \subseteq M
        BY <1>1, <3>2, AcceptedMeant DEF M
      <4> QED BY <4>1, <4>2
    <3> QED BY <3>1, <3>2
  <2>2. PICK y \in Y, m \in M : TRUE
    BY <1>3, <2>1
  <2>3. <<y, m, 0>> \in Completions(d)
    BY <1>2, <1>4, <1>6, <2>2
  <2> QED BY <2>3
<1>7. CASE d.day # None
  <2>1. d.month # None
    BY <1>1, <1>7
  <2>2. day_has_valid_completion(kind, Get(d.month), Get(d.day))
    BY <1>1, <1>7, <2>1 DEF validate_month_day
  <2>3. PICK mm \in accepted_months(Get(d.month)), dd \in accepted_days(Get(d.day)) :
          month_admits_day(mm, dd, kind)
    BY <2>2 DEF day_has_valid_completion
  <2>4. mm \in 1..12 /\ dd \in 1..31
    BY <2>3 DEF accepted_months, accepted_days
  <2>5. mm \in M /\ dd \in D
    BY <1>1, <1>7, <2>1, <2>3, AcceptedMeant DEF M, D
  <2>6. \E y \in Y : dd <= last_day(mm, is_leap(y))
    <3>1. CASE mm = 2 /\ dd > 28
      <4>1. year_leap_possible(kind) /\ dd <= 29
        BY <2>3, <2>4, <3>1 DEF month_admits_day, last_day
      <4>2. PICK y \in Y : is_leap(y)
        BY <1>1, <4>1, LeapYearMeant DEF Y
      <4> QED BY <3>1, <4>1, <4>2 DEF last_day
    <3>2. CASE ~(mm = 2 /\ dd > 28)
      <4>1. PICK y \in Y : TRUE
        BY <1>3
      <4>2. dd <= last_day(mm, is_leap(y))
        BY <2>3, <2>4, <3>2 DEF month_admits_day, last_day
      <4> QED BY <4>2
    <3> QED BY <3>1, <3>2
  <2>7. PICK y \in Y : dd <= last_day(mm, is_leap(y))
    BY <2>6
  <2>8. y \in Int
    <3>1. y \in I64Years
      BY <1>3, SignedYearsFit
    <3> QED BY <3>1, Numbers
  <2>9. IsDay(<<y, mm, dd>>)
    BY <2>4, <2>7, <2>8, LastDayBounds DEF IsDay
  <2>10. <<y, mm, dd>> \in Completions(d)
    BY <1>2, <2>5, <2>9
  <2> QED BY <2>10
<1> QED BY <1>6, <1>7

(* The shape of a masked date, by its slots.                               *)
ShapeOf(d) == IF d.day # None THEN "Day" ELSE IF d.month # None THEN "Month" ELSE "Year"

(* The positions a mask may mean, as places of one precision: the first    *)
(* and the last day of each fit the search, and each day that fits lies in *)
(* one of them.                                                            *)
LEMMA CompletionsArePlaces ==
  ASSUME NEW d, IsDateRecord(d), ValidDate(d), has_unspecified(d), ~IsSeason(d)
  PROVE  LET p == ShapeOf(d)
         IN  /\ p \in Precisions
             /\ p # "Year" <=> d.month # None
             /\ p = "Day" <=> d.day # None
             /\ Completions(d) \subseteq Position(p, I64Years)
             /\ \A t \in Completions(d) : /\ t[1] \in SignedYears
                                          /\ FirstDay(p, t) \in Fitting(d) /\ FinalDay(p, t) \in Fitting(d)
             /\ \A u \in Fitting(d) : \E t \in Completions(d) : AtMost(FirstDay(p, t), u) /\ AtMost(u, FinalDay(p, t))
<1> DEFINE kind == d.year.kind
           p == ShapeOf(d)
           Y == YearsOf(kind)
           M == MaskedMonthSlots(d)
           D == SlotValues(d.day, 1..31)
           T == Completions(d)
<1>1. /\ kind.form = "Standard" /\ IsYearKind(kind) /\ (d.day # None => d.month # None)
      /\ validate_month_day(kind, d.month, d.day) /\ IsSlot(d.month) /\ IsSlot(d.day)
  BY MaskedIsStandard DEF IsDateRecord
<1>2. T = {t \in Y \X M \X D : t[3] = 0 \/ IsDay(t)}
  BY DEF Completions
<1>3. Y \subseteq SignedYears
  BY <1>1, MaskedYears
<1>4. d.day = None => D = {0}
  BY DEF SlotValues
<1>5. d.month = None => M = {0}
  BY DEF MaskedMonthSlots, MonthSlots, SlotValues
<1>6. d.month # None => /\ M \subseteq 1..12
                        /\ \A k : Lists(month_candidates_of(Get(d.month)), k) <=> k \in M
  <2> SUFFICES ASSUME d.month # None
               PROVE  /\ M \subseteq 1..12
                      /\ \A k : Lists(month_candidates_of(Get(d.month)), k) <=> k \in M
    OBVIOUS
  <2>1. \A k : Lists(month_candidates_of(Get(d.month)), k) <=> k \in M
    BY <1>1, MonthsListed
  <2>2. Searchable(d)
    BY <1>1, ValidIsSearchable
  <2>3. \A k : Lists(month_candidates_of(Get(d.month)), k) => k \in 1..12
    BY <2>2 DEF Searchable, Rising, Lists
  <2> QED BY <2>1, <2>3
<1>7. d.day # None => /\ D \subseteq 1..31
                      /\ \A k : Lists(day_candidates_of(Get(d.day)), k) <=> k \in D
  BY <1>1, DaysListed DEF SlotValues
<1>8. \A y : YearTravelled(kind, y) <=> y \in Y
  BY <1>1, YearsAgree
<1>9. p \in Precisions /\ (p # "Year" <=> d.month # None) /\ (p = "Day" <=> d.day # None)
  BY <1>1 DEF ShapeOf, Precisions
<1> HIDE DEF Y, M, D, T, p
<1>10. \A u : u \in Fitting(d) <=> /\ u \in CalendarDay /\ u[1] \in Y
                                   /\ d.month # None => u[2] \in M
                                   /\ d.day # None => u[3] \in D
  BY <1>6, <1>7, <1>8 DEF Fitting, Admits
<1>11. SignedYears \subseteq I64Years
  BY SignedYearsFit
<1>12. ASSUME NEW t \in T
       PROVE  /\ t = <<t[1], t[2], t[3]>> /\ t[1] \in Y /\ t[2] \in M /\ t[3] \in D
              /\ t[1] \in SignedYears /\ t[1] \in I64Years
              /\ t \in Position(p, I64Years)
  <2>1. /\ t = <<t[1], t[2], t[3]>> /\ t[1] \in Y /\ t[2] \in M /\ t[3] \in D
        /\ t[3] = 0 \/ IsDay(t)
    BY <1>2
  <2>2. t[1] \in SignedYears /\ t[1] \in I64Years
    BY <1>3, <1>11, <2>1
  <2>3. t[2] \in 0..12 /\ t[3] \in 0..31
    BY <1>4, <1>5, <1>6, <1>7, <2>1
  <2>4. /\ p = "Year" => t[2] = 0 /\ t[3] = 0
        /\ p = "Month" => t[2] # 0 /\ t[3] = 0
        /\ p = "Day" => IsDay(t)
    BY <1>1, <1>4, <1>5, <1>6, <1>7, <1>9, <2>1
  <2>5. t \in I64Years \X (0..12) \X (0..31)
    BY <2>1, <2>2, <2>3
  <2> QED BY <2>1, <2>2, <2>4, <2>5 DEF Position
<1>13. ASSUME NEW t \in T
       PROVE  FirstDay(p, t) \in Fitting(d) /\ FinalDay(p, t) \in Fitting(d)
  <2>1. FirstDay(p, t) \in CalendarDay /\ FinalDay(p, t) \in CalendarDay
    BY <1>9, <1>12, DaysFollowPlaces
  <2>2. /\ FirstDay(p, t)[1] = t[1] /\ FinalDay(p, t)[1] = t[1]
        /\ p # "Year" => FirstDay(p, t)[2] = t[2] /\ FinalDay(p, t)[2] = t[2]
        /\ p = "Day" => FirstDay(p, t)[3] = t[3] /\ FinalDay(p, t)[3] = t[3]
    BY DEF FirstDay, FinalDay
  <2> QED BY <1>9, <1>10, <1>12, <2>1, <2>2
<1>14. ASSUME NEW u \in Fitting(d)
       PROVE  \E t \in T : AtMost(FirstDay(p, t), u) /\ AtMost(u, FinalDay(p, t))
  <2>1. /\ u \in CalendarDay /\ u[1] \in Y
        /\ d.month # None => u[2] \in M
        /\ d.day # None => u[3] \in D
    BY <1>10
  <2>2. u = <<u[1], u[2], u[3]>> /\ u[1] \in Int /\ u[2] \in 0..12 /\ u[3] \in 0..31 /\ IsDay(u)
    <3>1. u \in Position("Day", I64Years)
      BY <2>1 DEF CalendarDay
    <3>2. IsDay(u)
      BY <3>1 DEF Position
    <3> QED BY <3>1, <3>2, Numbers, PositionIsTriple
  <2>3. u[2] \in 1..12 /\ u[3] \in 1..last_day(u[2], is_leap(u[1])) /\ last_day(u[2], is_leap(u[1])) \in 28..31
        /\ last_day(12, is_leap(u[1])) = 31
    BY <2>2, LastDayBounds DEF IsDay
  <2>4. CASE d.day # None
    <3>1. u \in T
      BY <1>1, <1>2, <2>1, <2>2, <2>4
    <3>2. FirstDay(p, u) = u /\ FinalDay(p, u) = u
      BY <1>9, <2>2, <2>4 DEF FirstDay, FinalDay
    <3> QED BY <3>1, <3>2 DEF AtMost
  <2>5. CASE d.day = None /\ d.month # None
    <3> DEFINE t == <<u[1], u[2], 0>>
    <3>1. t \in T
      BY <1>2, <1>4, <2>1, <2>5
    <3>2. FirstDay(p, t) = <<u[1], u[2], 1>> /\ FinalDay(p, t) = <<u[1], u[2], last_day(u[2], is_leap(u[1]))>>
      BY <1>9, <2>5 DEF FirstDay, FinalDay
    <3>3. AtMost(<<u[1], u[2], 1>>, u) /\ AtMost(u, <<u[1], u[2], last_day(u[2], is_leap(u[1]))>>)
      BY <2>2, <2>3 DEF AtMost, Before
    <3> HIDE DEF t
    <3> QED BY <3>1, <3>2, <3>3
  <2>6. CASE d.month = None
    <3> DEFINE t == <<u[1], 0, 0>>
    <3>1. t \in T
      BY <1>1, <1>2, <1>4, <1>5, <2>1, <2>6
    <3>2. FirstDay(p, t) = <<u[1], 1, 1>> /\ FinalDay(p, t) = <<u[1], 12, 31>>
      BY <1>9, <2>3, <2>6 DEF FirstDay, FinalDay
    <3>3. AtMost(<<u[1], 1, 1>>, u) /\ AtMost(u, <<u[1], 12, 31>>)
      BY <2>2, <2>3 DEF AtMost, Before
    <3> HIDE DEF t
    <3> QED BY <3>1, <3>2, <3>3
  <2> QED BY <1>1, <2>4, <2>5, <2>6
<1> QED BY <1>9, <1>12, <1>13, <1>14 DEF T, p

(* Of the positions of a mask, month and day or less: the two searches of  *)
(* bounds.rs find the first and the last of the days that the odometer of  *)
(* enumerate.rs stops at.                                                  *)
LEMMA MaskJoins ==
  ASSUME NEW d, IsDateRecord(d), ValidDate(d), has_unspecified(d), ~IsSeason(d),
         d.year.significant_digits = None
  PROVE  Joins(date_bounds(d), BoundsOf(DateDenotes(d)))
<1> DEFINE p == ShapeOf(d)
           T == Completions(d)
           B == BoundsOf(DateDenotes(d))
           first == extremum(d, TRUE)
           final == extremum(d, FALSE)
<1>1. /\ p \in Precisions
      /\ p # "Year" <=> d.month # None
      /\ p = "Day" <=> d.day # None
      /\ T \subseteq Position(p, I64Years)
      /\ \A t \in T : /\ t[1] \in SignedYears
                      /\ FirstDay(p, t) \in Fitting(d) /\ FinalDay(p, t) \in Fitting(d)
      /\ \A u \in Fitting(d) : \E t \in T : AtMost(FirstDay(p, t), u) /\ AtMost(u, FinalDay(p, t))
  BY CompletionsArePlaces
<1>2. T # {}
  BY MaskMeansSomething
<1>3. /\ d.year.kind.form = "Standard" /\ IsYearKind(d.year.kind)
      /\ d.day # None => d.month # None
      /\ validate_month_day(d.year.kind, d.month, d.day)
  BY MaskedIsStandard
<1>4. date_bounds(d) = day_bounds(first, final)
  BY <1>3 DEF date_bounds
<1>5. Bracket(first, final, Fitting(d))
  <2>1. Searchable(d) /\ YearsRise(d.year.kind)
    BY <1>3, ValidIsSearchable, YearsSearched
  <2> QED BY <2>1, DaysOfAllYears
<1>6. DateDenotes(d) = {Written(d, t) : t \in T}
  BY DEF DateDenotes
<1> HIDE DEF p, T, first, final
<1>7. ASSUME NEW t \in T PROVE bounds(Written(d, t)) = PlaceBounds(p, t)
  <2>1. t \in Position(p, I64Years) /\ t[1] \in SignedYears
    BY <1>1
  <2>2. Written(d, t) = DateOf(concrete_year(t[1], d.year.qualifier),
                               Slotted(t[2], p # "Year", Get(d.month).qualifier),
                               Slotted(t[3], p = "Day", Get(d.day).qualifier))
    BY <1>1 DEF Written, DateOf, Slotted
  <2>3. \A yq, mq, dq : bounds(DateOf(concrete_year(t[1], yq), Slotted(t[2], p # "Year", mq),
                                      Slotted(t[3], p = "Day", dq))) = PlaceBounds(p, t)
    BY <1>1, <2>1, ItemBounds, Zenon
  <2>4. bounds(DateOf(concrete_year(t[1], d.year.qualifier),
                      Slotted(t[2], p # "Year", Get(d.month).qualifier),
                      Slotted(t[3], p = "Day", Get(d.day).qualifier))) = PlaceBounds(p, t)
    BY <2>3, Zenon
  <2> QED BY <2>2, <2>4
<1>8. \A b : b \in B <=> \E u \in T : b = PlaceBounds(p, u)
  BY <1>6, <1>7 DEF BoundsOf
<1>9. PICK s, t \in Fitting(d) : /\ first = Some(s) /\ final = Some(t)
                                 /\ \A u \in Fitting(d) : AtMost(s, u) /\ AtMost(u, t)
  <2>1. Fitting(d) # {}
    BY <1>1, <1>2
  <2> QED BY <1>5, <2>1 DEF Bracket
<1>10. Fitting(d) \subseteq CalendarDay
  BY DEF Fitting
<1>11. \E a \in T : FirstDay(p, a) = s
  <2>1. PICK a \in T : AtMost(FirstDay(p, a), s)
    BY <1>1
  <2>2. FirstDay(p, a) \in Fitting(d) /\ AtMost(s, FirstDay(p, a))
    BY <1>1, <1>9
  <2>3. FirstDay(p, a) = s
    BY <1>10, <2>1, <2>2, DaysOrdered
  <2> QED BY <2>3
<1>12. \E z \in T : FinalDay(p, z) = t
  <2>1. PICK z \in T : AtMost(t, FinalDay(p, z))
    BY <1>1
  <2>2. FinalDay(p, z) \in Fitting(d) /\ AtMost(FinalDay(p, z), t)
    BY <1>1, <1>9
  <2>3. FinalDay(p, z) = t
    BY <1>10, <2>1, <2>2, DaysOrdered
  <2> QED BY <2>3
<1>13. \A u \in T : AtMost(s, FirstDay(p, u)) /\ AtMost(FinalDay(p, u), t)
  BY <1>1, <1>9
<1>14. Joins(MkBounds(DayBound(s), DayBound(t)), B)
  <2> HIDE DEF B
  <2> QED BY <1>1, <1>8, <1>11, <1>12, <1>13, PlacesJoin
<1>15. date_bounds(d) = MkBounds(DayBound(s), DayBound(t))
  BY <1>4, <1>9, SomeFacts DEF day_bounds
<1> QED BY <1>14, <1>15

(* A season of a year is a stretch of calendar days.                       *)
LEMMA SeasonWellFormed ==
  ASSUME NEW y \in I64Years, y < I64Max, NEW code \in SeasonCode
  PROVE  WellFormed(SeasonSpan(code, y, y))
<1> DEFINE d == [year |-> [kind |-> Big(y)]]
<1>1. year_range(d) = <<y, y>>
  <2>1. d.year.kind.form = "Big" /\ d.year.kind.value = y
    BY DEF Big
  <2> HIDE DEF d
  <2>2. year_of(d.year.kind) = Some(y)
    <3>1. d.year.kind.form # "Standard"
      BY <2>1
    <3> QED BY <2>1, <3>1, Zenon DEF year_of
  <2> QED BY <2>2, SomeFacts DEF year_range, ends_or_mask
<1>2. season_bounds(d, code) = SeasonSpan(code, y, y)
  BY <1>1 DEF season_bounds, SeasonSpan
<1>3. y <= y /\ code \in 21..41
  BY Numbers DEF SeasonCode
<1> HIDE DEF d
<1> QED BY <1>1, <1>2, <1>3, YearsAndSeasons

(* Of a season in a masked year.                                           *)
LEMMA SeasonMaskJoins ==
  ASSUME NEW d, IsDateRecord(d), ValidDate(d), has_unspecified(d), IsSeason(d),
         d.year.significant_digits = None
  PROVE  Joins(date_bounds(d), BoundsOf(DateDenotes(d)))
<1> DEFINE kind == d.year.kind
           Y == YearsOf(kind)
           B == BoundsOf(DateDenotes(d))
           lo == year_value(kind.digits, 0)
           hi == year_value(kind.digits, 9)
<1>1. /\ kind.form = "Standard" /\ IsYearKind(kind)
      /\ d.day # None => d.month # None
      /\ validate_month_day(kind, d.month, d.day) /\ IsSlot(d.month)
  BY MaskedIsStandard DEF IsDateRecord
<1>2. PICK code \in SeasonCode : slot_value(d.month) = Some(code)
  BY DEF IsSeason
<1>3. /\ d.month # None /\ slot_value(d.month) = field_value(Get(d.month))
      /\ field_value(Get(d.month)) = Some(code) /\ Get(field_value(Get(d.month))) = code
      /\ field_value(Get(d.month)) # None /\ Get(slot_value(d.month)) = code
  BY <1>2, SomeFacts DEF slot_value, IsSome
<1>4. ~has_x(Get(d.month).digits) /\ Get(d.month).digits \in [1..2 -> MaskDigit]
  BY <1>1, <1>3 DEF field_value, IsSlot
<1>5. d.day = None
  BY <1>1, <1>3 DEF validate_month_day
<1>6. has_x(kind.digits)
  BY <1>3, <1>4, <1>5 DEF has_unspecified, IsSome
<1>7. year_range(d) = <<lo, hi>>
  <2>1. year_of(kind) = None
    BY <1>1, <1>6, Zenon DEF year_of
  <2> QED BY <2>1 DEF year_range, ends_or_mask
<1>8. date_bounds(d) = SeasonSpan(code, lo, hi)
  <2>1. date_bounds(d) = season_bounds(d, code)
    BY <1>1, <1>3 DEF date_bounds
  <2> QED BY <1>7, <2>1 DEF season_bounds, SeasonSpan
<1>9. /\ Y \subseteq SignedYears /\ lo \in Y /\ hi \in Y
      /\ \A y \in Y : lo <= y /\ y <= hi
  BY <1>1, <1>6, MaskedYears
<1>10. MaskedMonthSlots(d) = {code}
  <2>1. \A w \in 0..99 : field_matches(Get(d.month).digits, w) <=> w = code
    BY <1>3, <1>4, ValueMatches
  <2>2. code \in (1..12) \cup SeasonCode /\ (1..12) \cup SeasonCode \subseteq 0..99
    BY DEF SeasonCode
  <2>3. MonthSlots(d) = {code}
    BY <1>3, <2>1, <2>2 DEF MonthSlots, SlotValues
  <2> QED BY <1>4, <2>3 DEF MaskedMonthSlots
<1>11. \A t : t \in Completions(d) <=> \E y \in Y : t = <<y, code, 0>>
  <2>1. SlotValues(d.day, 1..31) = {0}
    BY <1>5 DEF SlotValues
  <2>2. Completions(d) = {t \in Y \X {code} \X {0} : t[3] = 0 \/ IsDay(t)}
    BY <1>10, <2>1 DEF Completions
  <2> HIDE DEF Y
  <2> QED BY <2>2
<1>12. DateDenotes(d) = {Written(d, t) : t \in Completions(d)}
  BY DEF DateDenotes
<1> HIDE DEF Y, lo, hi
<1>13. ASSUME NEW y \in Y PROVE bounds(Written(d, <<y, code, 0>>)) = SeasonSpan(code, y, y)
  <2>1. Written(d, <<y, code, 0>>) = DateOf(concrete_year(y, d.year.qualifier),
                                            Slotted(code, TRUE, Get(d.month).qualifier),
                                            Slotted(0, FALSE, {}))
    BY <1>3, <1>5 DEF Written, DateOf, Slotted
  <2>2. y \in SignedYears
    BY <1>9
  <2>3. \A yq, mq, dq, n : bounds(DateOf(concrete_year(y, yq), Slotted(code, TRUE, mq),
                                         Slotted(n, FALSE, dq))) = SeasonSpan(code, y, y)
    BY <2>2, SeasonItemBounds, Zenon
  <2> QED BY <2>1, <2>3, Zenon
<1>14. \A b : b \in B <=> \E y \in Y : b = SeasonSpan(code, y, y)
  <2>1. \A b : b \in B <=> \E t \in Completions(d) : b = bounds(Written(d, t))
    BY <1>12 DEF BoundsOf
  <2>2. ASSUME NEW b \in B PROVE \E y \in Y : b = SeasonSpan(code, y, y)
    <3>1. PICK t \in Completions(d) : b = bounds(Written(d, t))
      BY <2>1
    <3>2. PICK y \in Y : t = <<y, code, 0>>
      BY <1>11, <3>1
    <3> QED BY <1>13, <3>1, <3>2
  <2>3. ASSUME NEW y \in Y PROVE SeasonSpan(code, y, y) \in B
    BY <1>11, <1>13, <2>1
  <2> QED BY <2>2, <2>3
<1> HIDE DEF B
<1> DEFINE span == season_months(code)
           over == IF span[3] THEN 1 ELSE 0
           begin(y) == <<y, span[1], 1>>
           stop(y) == <<y + over, span[2], last_day(span[2], is_leap(y + over))>>
<1>15. \A x, y : SeasonSpan(code, x, y) = MkBounds(DayBound(begin(x)), DayBound(stop(y)))
  BY DEF SeasonSpan, span_bounds
<1>16. over \in {0, 1}
  OBVIOUS
<1>17. ASSUME NEW y \in Y PROVE begin(y) \in CalendarDay /\ stop(y) \in CalendarDay
  <2>1. y \in I64Years /\ y <= y /\ y < I64Max
    BY <1>9, SignedYearsFit
  <2>2. WellFormed(MkBounds(DayBound(begin(y)), DayBound(stop(y))))
    <3>1. SeasonSpan(code, y, y) = MkBounds(DayBound(begin(y)), DayBound(stop(y)))
      BY <1>15
    <3> HIDE DEF begin, stop
    <3>2. WellFormed(SeasonSpan(code, y, y))
      BY <2>1, SeasonWellFormed
    <3> QED BY <3>1, <3>2
  <2> HIDE DEF begin, stop
  <2>3. IsBound(DayBound(begin(y)), NegInf, I64Years) /\ IsBound(DayBound(stop(y)), PosInf, I64Years)
    BY <2>2, SidesAreDays DEF WellFormed, IsBounds
  <2> QED BY <2>3, SidesAreDays DEF IsBound, CalendarDay
<1>18. ASSUME NEW y \in Y PROVE AtMost(begin(lo), begin(y)) /\ AtMost(stop(y), stop(hi))
  <2>1. lo <= y /\ y <= hi
    BY <1>9
  <2>2. lo \in Int /\ y \in Int /\ hi \in Int
    <3>1. \A x \in SignedYears : x \in I64Years
      BY SignedYearsFit
    <3>2. lo \in I64Years /\ y \in I64Years /\ hi \in I64Years
      BY <1>9, <3>1
    <3> QED BY <3>2, Numbers
  <2>3. AtMost(begin(lo), begin(y))
    BY <2>1, <2>2 DEF AtMost, Before
  <2>4. y + over <= hi + over /\ y + over \in Int /\ hi + over \in Int /\ (y + over = hi + over => y = hi)
    <3> HIDE DEF over
    <3> QED BY <1>16, <2>1, <2>2
  <2>5. AtMost(stop(y), stop(hi))
    <3> HIDE DEF over
    <3> QED BY <2>4 DEF AtMost, Before
  <2> QED BY <2>3, <2>5
<1> HIDE DEF begin, stop
<1>19. ASSUME NEW b \in B PROVE LiesIn(b, begin(lo), stop(hi))
  <2>1. PICK y \in Y : b = SeasonSpan(code, y, y)
    BY <1>14
  <2> QED BY <1>15, <1>17, <1>18, <2>1 DEF LiesIn
<1>20. \E b \in B : b.earliest = DayBound(begin(lo))
  <2>1. SeasonSpan(code, lo, lo) \in B
    BY <1>9, <1>14
  <2> QED BY <1>15, <2>1, SidesAreDays
<1>21. \E b \in B : b.latest = DayBound(stop(hi))
  <2>1. SeasonSpan(code, hi, hi) \in B
    BY <1>9, <1>14
  <2> QED BY <1>15, <2>1, SidesAreDays
<1>22. date_bounds(d) = MkBounds(DayBound(begin(lo)), DayBound(stop(hi)))
  BY <1>8, <1>15
<1> QED BY <1>9, <1>17, <1>19, <1>20, <1>21, <1>22 DEF Joins, Spans, B

(* Of a date, whatever its walker.                                         *)
LEMMA DateJoins ==
  ASSUME NEW d, IsDateRecord(d), ValidDate(d), date_error(d) = None
  PROVE  Joins(date_bounds(d), BoundsOf(DateDenotes(d)))
<1>1. CASE d.year.significant_digits # None
  BY <1>1, SweepJoins
<1>2. CASE d.year.significant_digits = None /\ has_unspecified(d)
  BY <1>2, MaskJoins, SeasonMaskJoins
<1>3. CASE d.year.significant_digits = None /\ ~has_unspecified(d)
  <2>1. DateDenotes(d) = {DateExpr(d)}
    BY <1>3 DEF DateDenotes
  <2>2. bounds(DateExpr(d)) = date_bounds(d)
    BY DEF bounds, DateExpr
  <2> QED BY <2>1, <2>2, ValidDateSlots, LoneJoins
<1> QED BY <1>1, <1>2, <1>3

(* What bounds() says of an element that can be enumerated is the join of  *)
(* what it says of its values.                                             *)
LEMMA ElementJoins ==
  ASSUME NEW e, IsElement(e), parse_set_element(e), range_agrees(e), element_error(e) = None
  PROVE  Joins(element_bounds(e), BoundsOf(ElementDenotes(e)))
<1>1. CASE e.kind = "Range"
  <2>1. element_error(e) = IF year_of(e.date.year.kind) = None \/ year_of(e.to.year.kind) = None
                           THEN Some("YearRangeOverflow") ELSE None
    <3>1. e.kind # "Date" /\ e.kind \notin {"OnOrBefore", "OnOrAfter"}
      BY <1>1
    <3> QED BY <1>1, <3>1, Zenon DEF element_error
  <2>2. year_of(e.date.year.kind) # None /\ year_of(e.to.year.kind) # None
    BY <2>1, SomeFacts
  <2> QED BY <1>1, <2>2, RangeJoins
<1>2. CASE e.kind = "Date"
  <2>1. date_error(e.date) = None
    BY <1>2, Zenon DEF element_error
  <2>2. element_bounds(e) = MkBounds(date_bounds(e.date).earliest, date_bounds(e.date).latest)
    BY <1>2, ElementBoundsByKind
  <2>3. element_bounds(e) = date_bounds(e.date)
    BY <2>2, DaysOrUnknown, SidesAreDays DEF UnknownBounds
  <2>4. ElementDenotes(e) = DateDenotes(e.date)
    BY <1>2 DEF ElementDenotes
  <2> QED BY <2>1, <2>3, <2>4, DateJoins DEF IsElement, parse_set_element
<1>3. CASE e.kind \in {"OnOrBefore", "OnOrAfter"}
  <2>1. element_error(e) = Some("UnboundedSetElement")
    <3>1. e.kind # "Date" /\ e.kind # "Range"
      BY <1>3
    <3> QED BY <1>3, <3>1, Zenon DEF element_error
  <2> QED BY <2>1, SomeFacts
<1> QED BY <1>1, <1>2, <1>3 DEF IsElement

-----------------------------------------------------------------------------
(* What an expression that can be enumerated denotes, all its elements     *)
(* together.                                                               *)
Everything(x) == UNION {Denotes(x)[i] : i \in DOMAIN Denotes(x)}

(* What bounds() says of an expression is the join of what it says of the  *)
(* values of the expression: bounds.rs and enumerate.rs agree.             *)
LEMMA BoundsJoin ==
  ASSUME NEW x, IsExpr(x), Accepted(x), Unenumerable(x) = None
  PROVE  Joins(bounds(x), BoundsOf(Everything(x)))
<1>0. ASSUME NEW P, Denotes(x) = <<P>> PROVE Everything(x) = P
  <2> DEFINE one == <<P>>
  <2>1. DOMAIN one = {1} /\ one[1] = P
    OBVIOUS
  <2> HIDE DEF one
  <2>2. UNION {one[i] : i \in DOMAIN one} = P
    BY <2>1
  <2> QED BY <1>0, <2>2 DEF Everything, one
<1>1. CASE x.type = "DateTime"
  <2>1. Everything(x) = {x}
    <3>1. Denotes(x) = <<{x}>>
      BY <1>1, Zenon DEF Denotes
    <3> QED BY <1>0, <3>1
  <2>2. bounds(x) = date_bounds(x.date) /\ parse_plain_complete_date(x.date)
    BY <1>1, Zenon DEF bounds, Accepted
  <2>3. IsDateRecord(x.date)
    BY <1>1 DEF IsExpr
  <2> QED BY <2>1, <2>2, <2>3, PlainDateSlots, LoneJoins
<1>2. CASE x.type = "Date"
  <2>0. x.type # "DateTime" /\ x.type # "Interval"
    BY <1>2
  <2>1. Everything(x) = DateDenotes(x.date)
    <3>1. Denotes(x) = <<DateDenotes(x.date)>>
      BY <1>2, <2>0, Zenon DEF Denotes
    <3> QED BY <1>0, <3>1
  <2>2. bounds(x) = date_bounds(x.date) /\ ValidDate(x.date)
    BY <1>2, Zenon DEF bounds, Accepted
  <2>3. IsDateRecord(x.date)
    BY <1>2 DEF IsExpr
  <2>4. date_error(x.date) = None
    BY <1>2, <2>0, Zenon DEF Unenumerable
  <2> QED BY <2>1, <2>2, <2>3, <2>4, DateJoins
<1>3. CASE x.type = "Interval"
  <2>1. Unenumerable(x) = Some("Interval")
    BY <1>3, Zenon DEF Unenumerable
  <2> QED BY <2>1, SomeFacts
<1>4. CASE x.type = "Set"
  <2> DEFINE elements == x.elements
             n == Len(elements)
             B == [i \in 1..n |-> BoundsOf(ElementDenotes(elements[i]))]
  <2>0. x.type # "DateTime" /\ x.type # "Date" /\ x.type # "Interval"
    BY <1>4
  <2>1. n \in Nat /\ DOMAIN elements = 1..n /\ \A i \in 1..n : IsElement(elements[i])
    BY <1>4 DEF IsExpr
  <2>2. Denotes(x) = [i \in DOMAIN elements |-> ElementDenotes(elements[i])]
    BY <1>4, <2>0, Zenon DEF Denotes
  <2>3. find_map([i \in DOMAIN elements |-> element_error(elements[i])]) = None
    BY <1>4, <2>0, Zenon DEF Unenumerable
  <2>4. bounds(x) = set_bounds(elements) /\ parse_set(elements)
    <3>1. bounds(x) = set_bounds(elements)
      BY <1>4, <2>0, Zenon DEF bounds
    <3>2. parse_set(elements)
      BY <1>4, <2>0, Zenon DEF Accepted
    <3> QED BY <3>1, <3>2
  <2> HIDE DEF elements
  <2>5. elements # <<>> /\ \A i \in 1..n : parse_set_element(elements[i]) /\ range_agrees(elements[i])
    BY <2>1, <2>4 DEF parse_set, elements_agree
  <2>6. \A i \in 1..n : element_error(elements[i]) = None
    BY <2>1, <2>3, NoElementError
  <2>7. \A i \in 1..n : WellFormed(element_bounds(elements[i]))
    BY <2>1, <2>5, ElementWellFormed
  <2>8. \A i \in 1..n : Joins(element_bounds(elements[i]), B[i])
    BY <2>1, <2>5, <2>6, ElementJoins
  <2>9. BoundsOf(Everything(x)) = UNION {B[i] : i \in 1..n}
    <3>1. DOMAIN Denotes(x) = 1..n /\ \A i \in 1..n : Denotes(x)[i] = ElementDenotes(elements[i])
      BY <2>1, <2>2
    <3>2. \A i \in 1..n : B[i] = BoundsOf(Denotes(x)[i])
      BY <3>1
    <3>3. \A b : b \in BoundsOf(Everything(x)) <=> \E i \in 1..n : b \in BoundsOf(Denotes(x)[i])
      BY <3>1 DEF BoundsOf, Everything
    <3> HIDE DEF B
    <3>4. \A b : b \in BoundsOf(Everything(x)) <=> b \in UNION {B[i] : i \in 1..n}
      BY <3>2, <3>3
    <3> QED BY <3>4
  <2> HIDE DEF B, n
  <2>10. Joins(set_bounds(elements), UNION {B[i] : i \in 1..Len(elements)})
    BY ONLY <2>1, <2>5, <2>7, <2>8, SetJoins DEF n
  <2> QED BY <2>4, <2>9, <2>10 DEF n
<1> QED BY <1>1, <1>2, <1>3, <1>4 DEF IsExpr

-----------------------------------------------------------------------------
(* The hull.  The values handed out so far are the ones the promise no     *)
(* longer owes, and the hull is the join of their bounds; once the end has *)
(* been told nothing is owed.                                              *)
Given == UNION {promised[i] \ Owing[i] : i \in DOMAIN promised}

HullOfGiven == \/ Given = {} /\ hull = None
               \/ \E r : hull = Some(r) /\ Joins(r, BoundsOf(Given))

HInv == /\ RInv
        /\ HullOfGiven
        /\ item = End => \A i \in DOMAIN Owing : Owing[i] = {}

(* The stream owes nothing it did not promise.                             *)
LEMMA OwedIsPromised ==
  /\ DOMAIN Owing = DOMAIN promised
  /\ \A i \in DOMAIN promised : Owing[i] \subseteq promised[i]
BY DEF Owing

(* An iterator that runs, or has told the end, was built on an expression  *)
(* that can be enumerated.                                                 *)
LEMMA AtWorkEnumerates ==
  ASSUME RInv, pc \in {"idle", "running"}
  PROVE  /\ promised = Denotes(expr)
         /\ Joins(bounds(expr), BoundsOf(Everything(expr)))
<1>1. Unenumerable(expr) = None /\ IsExpr(expr) /\ Accepted(expr) /\ promised = PromiseOf(expr)
  BY ExprsAssumption DEF RInv, IInv
<1> QED BY <1>1, BoundsJoin DEF PromiseOf

(* What the consumer sees as an answer, the iterator holds.                *)
LEMMA AnswersTell ==
  ASSUME NEW p, NEW it, NEW x, NEW a, p \in {"new", "failed", "idle", "running"},
         p = "new" => it = NotAsked, p = "failed" => it = Failed(x),
         a = IF p = "failed" THEN NotAsked ELSE it
  PROVE  /\ it = End => p \in {"idle", "running"}
         /\ a = End <=> it = End
         /\ \A v : a = Yielded(v) => it = Yielded(v) /\ p \in {"idle", "running"}
<1>1. End.out = "End" /\ NotAsked.out = "NotAsked" /\ (\A v : Yielded(v).out = "Value")
  BY DEF End, NotAsked, Yielded
<1>2. Failed(x).out = "Failed"
  BY DEF Failed
<1> QED BY <1>1, <1>2

(* So before a step, and so after it.                                      *)
LEMMA AnswersHold ==
  ASSUME RInv
  PROVE  /\ item = End => pc \in {"idle", "running"}
         /\ Answered = End <=> item = End
         /\ \A v : Answered = Yielded(v) => item = Yielded(v) /\ pc \in {"idle", "running"}
<1>1. /\ pc \in {"new", "failed", "idle", "running"}
      /\ pc = "new" => item = NotAsked
      /\ pc = "failed" => item = Failed(Get(Unenumerable(expr)))
  BY DEF RInv, IInv
<1>2. Answered = IF pc = "failed" THEN NotAsked ELSE item
  BY DEF Answered
<1> QED BY <1>1, <1>2, AnswersTell

(* The second of the two.                                                  *)
LEMMA AnswersHoldNext ==
  ASSUME RInv'
  PROVE  /\ item' = End => pc' \in {"idle", "running"}
         /\ Answered' = End <=> item' = End
         /\ \A v : Answered' = Yielded(v) => item' = Yielded(v) /\ pc' \in {"idle", "running"}
<1>1. /\ pc' \in {"new", "failed", "idle", "running"}
      /\ pc' = "new" => item' = NotAsked
      /\ pc' = "failed" => item' = Failed(Get(Unenumerable(expr)))'
  BY DEF RInv, IInv, NotAsked
<1>2. Answered' = IF pc' = "failed" THEN NotAsked ELSE item'
  BY DEF Answered, NotAsked
<1>3. \E x : pc' = "failed" => item' = Failed(x)
  BY <1>1 DEF Failed
<1> QED BY <1>1, <1>2, <1>3, AnswersTell

(* Handing out one more value widens the hull by its bounds.               *)
LEMMA HullGrows ==
  ASSUME NEW B, NEW h, NEW b, b = UnknownBounds \/ Dated(b),
         (B = {} /\ h = None) \/ (\E r : h = Some(r) /\ Joins(r, B))
  PROVE  Joins(Joined(h, b), B \cup {b})
<1>1. Joins(b, {b})
  BY JoinOfOne
<1>2. CASE B = {} /\ h = None
  <2>1. Joined(h, b) = b /\ B \cup {b} = {b}
    BY <1>2 DEF Joined
  <2> QED BY <1>1, <2>1
<1>3. CASE \E r : h = Some(r) /\ Joins(r, B)
  <2>1. PICK r : h = Some(r) /\ Joins(r, B)
    BY <1>3
  <2>2. Joined(h, b) = widened(r, b)
    BY <2>1, SomeFacts DEF Joined
  <2> QED BY <1>1, <2>1, <2>2, JoinOfUnion
<1> QED BY <1>2, <1>3

(* The stream yields: what was given grows by the value.                   *)
LEMMA YieldKeepsHull ==
  ASSUME HInv, RInv', Record, pc = "running", ~(pc' = "running"), Stream!Yield
  PROVE  HInv'
<1> DEFINE G == Given
           H == Given'
<1>1. PICK i, v :
           i \in DOMAIN Owing /\ v \in Owing[i] /\ Answered' = Yielded(v) /\ Owing' = [Owing EXCEPT ![i] = Owing[i] \ {v}]
  BY DEF Stream!Yield, Stream!Least, Yielded
<1>2. item' = Yielded(v) /\ pc' = "idle"
  BY <1>1, AnswersHoldNext
<1>3. Yielded(v).out = "Value" /\ Yielded(v).value = v /\ Yielded(v) # End
  BY DEF Yielded, End
<1>4. promised' = promised /\ hull' = Some(Joined(hull, bounds(v)))
  BY <1>2, <1>3 DEF Record, Returned
<1>5. i \in DOMAIN promised /\ v \in promised[i] /\ DOMAIN Owing = DOMAIN promised
  BY <1>1, OwedIsPromised
<1>6. H = G \cup {v}
  <2>1. H = UNION {promised[j] \ Owing'[j] : j \in DOMAIN promised}
    BY <1>4 DEF Given
  <2>2. \A j \in DOMAIN promised : Owing'[j] = IF j = i THEN Owing[i] \ {v} ELSE Owing[j]
    BY <1>1, <1>5
  <2>3. \A u : u \in H <=> \E j \in DOMAIN promised : u \in promised[j] \ Owing'[j]
    BY <2>1
  <2>4. \A u : u \in G <=> \E j \in DOMAIN promised : u \in promised[j] \ Owing[j]
    BY DEF Given
  <2> HIDE DEF H, G
  <2>5. \A u : u \in H <=> u \in G \cup {v}
    BY <1>1, <1>5, <2>2, <2>3, <2>4
  <2> QED BY <2>5
<1>7. bounds(v) = UnknownBounds \/ Dated(bounds(v))
  <2>1. promised = Denotes(expr) /\ Joins(bounds(expr), BoundsOf(Everything(expr)))
    BY AtWorkEnumerates DEF HInv
  <2>2. v \in Everything(expr)
    BY <1>5, <2>1 DEF Everything
  <2>3. bounds(v) \in BoundsOf(Everything(expr))
    BY <2>2 DEF BoundsOf
  <2> QED BY <2>1, <2>3, JoinIsDated
<1>8. BoundsOf(H) = BoundsOf(G) \cup {bounds(v)}
  <2> HIDE DEF H, G
  <2> QED BY <1>6 DEF BoundsOf
<1>9. (BoundsOf(G) = {} /\ hull = None) \/ (\E r : hull = Some(r) /\ Joins(r, BoundsOf(G)))
  BY DEF HInv, HullOfGiven, BoundsOf
<1>10. Joins(Joined(hull, bounds(v)), BoundsOf(H))
  <2> HIDE DEF H, G
  <2> QED BY <1>7, <1>8, <1>9, HullGrows
<1>11. HullOfGiven'
  <2>1. BoundsOf(H) = BoundsOf(Given)'
    BY DEF BoundsOf
  <2>2. \E r : hull' = Some(r) /\ Joins(r, BoundsOf(H))
    <3> HIDE DEF H
    <3> QED BY <1>4, <1>10
  <2> QED BY <2>1, <2>2 DEF HullOfGiven
<1>12. item' # End
  BY <1>2, <1>3
<1> QED BY <1>11, <1>12 DEF HInv, End

(* Anything else leaves what is owed and the hull.                         *)
LEMMA QuietKeepsHull ==
  ASSUME HInv, RInv', promised' = promised, hull' = hull, Owing' = Owing,
         item' = End => item = End \/ \A i \in DOMAIN Owing : Owing[i] = {}
  PROVE  HInv'
<1>1. Given' = Given
  BY DEF Given
<1>2. HullOfGiven'
  <2>1. BoundsOf(Given)' = BoundsOf(Given)
    BY <1>1 DEF BoundsOf
  <2> QED BY <1>1, <2>1 DEF HInv, HullOfGiven
<1>3. (item = End => \A i \in DOMAIN Owing : Owing[i] = {})'
  BY DEF HInv, End
<1> QED BY <1>2, <1>3 DEF HInv

(* Every step of the iterator keeps the hull.                              *)
LEMMA HullNext == HInv /\ [Next /\ Record]_<<vars, history>> => HInv'
<1> SUFFICES ASSUME HInv, [Next /\ Record]_<<vars, history>> PROVE HInv'
  OBVIOUS
<1>1. RInv /\ RInv' /\ [Stream!Next]_(Stream!streamVars)
  BY StreamNext DEF HInv
<1>2. CASE UNCHANGED <<vars, history>>
  <2>1. /\ expr' = expr /\ pc' = pc /\ item' = item /\ queue' = queue /\ idx' = idx
        /\ promised' = promised /\ last' = last /\ hull' = hull
    BY <1>2 DEF vars, history
  <2>2. Owing' = Owing
    BY <2>1 DEF Owing, StillOwed
  <2> QED BY <1>1, <2>1, <2>2, QuietKeepsHull
<1>3. CASE Record
  <2>0. promised' = promised /\ (~Returned => hull' = hull)
    BY <1>3 DEF Record
  <2>1. CASE UNCHANGED Stream!streamVars
    <3>1. Owing' = Owing /\ Answered' = Answered /\ (pc' = "running" <=> pc = "running")
      BY <2>1 DEF Stream!streamVars
    <3>2. item' = End => item = End
      BY <1>1, <3>1, AnswersHold, AnswersHoldNext
    <3>3. hull' = hull
      BY <2>0, <3>1 DEF Returned
    <3> QED BY <1>1, <2>0, <3>1, <3>2, <3>3, QuietKeepsHull
  <2>2. CASE Stream!Ask
    <3>1. Owing' = Owing /\ Answered' = Answered /\ ~(pc = "running")
      BY <2>2 DEF Stream!Ask
    <3>2. item' = End => item = End
      BY <1>1, <3>1, AnswersHold, AnswersHoldNext
    <3>3. hull' = hull
      BY <2>0, <3>1 DEF Returned
    <3> QED BY <1>1, <2>0, <3>1, <3>2, <3>3, QuietKeepsHull
  <2>3. CASE Stream!Answer
    <3>1. pc = "running" /\ ~(pc' = "running")
      BY <2>3 DEF Stream!Answer
    <3>2. CASE Stream!Yield
      BY <1>1, <1>3, <3>1, <3>2, YieldKeepsHull
    <3>3. CASE Stream!Finish
      <4>1. Owing' = Owing /\ Answered' = End /\ \A i \in DOMAIN Owing : Owing[i] = {}
        BY <3>3 DEF Stream!Finish, Stream!Ended, End
      <4>2. item' = End
        BY <1>1, <4>1, AnswersHoldNext
      <4>3. ~Returned
        BY <4>2 DEF Returned, End
      <4> QED BY <1>1, <2>0, <4>1, <4>3, QuietKeepsHull
    <3> QED BY <2>3, <3>2, <3>3 DEF Stream!Answer
  <2> QED BY <1>1, <2>1, <2>2, <2>3 DEF Stream!Next
<1> QED BY <1>2, <1>3

(* Before the first value there is no hull.                                *)
LEMMA HullInit == TracedInit => HInv
<1> SUFFICES ASSUME TracedInit PROVE HInv
  OBVIOUS
<1>1. RInv /\ Stream!Init /\ promised = PromiseOf(expr) /\ hull = None /\ item = NotAsked
  BY StreamInit DEF TracedInit, Init
<1>2. Owing = promised
  BY <1>1 DEF Stream!Init
<1>3. Given = {}
  BY <1>2 DEF Given
<1>4. item # End
  BY <1>1 DEF NotAsked, End
<1> QED BY <1>1, <1>3, <1>4 DEF HInv, HullOfGiven

(* Once the end is told everything was given.                              *)
LEMMA HullAtEnd == HInv => HullIsBounds
<1> SUFFICES ASSUME HInv, item = End PROVE hull = Some(bounds(expr))
  BY DEF HullIsBounds
<1>1. /\ promised = Denotes(expr)
      /\ Joins(bounds(expr), BoundsOf(Everything(expr)))
  BY AnswersHold, AtWorkEnumerates DEF HInv
<1>2. Given = Everything(expr)
  <2>1. \A i \in DOMAIN promised : Owing[i] = {}
    BY OwedIsPromised DEF HInv
  <2> QED BY <1>1, <2>1 DEF Given, Everything
<1>3. BoundsOf(Everything(expr)) # {}
  BY <1>1, JoinIsDated
<1>4. Given # {}
  BY <1>2, <1>3 DEF BoundsOf
<1>5. PICK r : hull = Some(r) /\ Joins(r, BoundsOf(Given))
  BY <1>4 DEF HInv, HullOfGiven
<1>6. r = bounds(expr)
  BY <1>1, <1>2, <1>5, JoinIsOne
<1> QED BY <1>5, <1>6

(* Two separate codes, one answer: once a consumer has taken every value   *)
(* of an expression, the join of the values' bounds is what bounds() said  *)
(* of the expression (the odometers, sweeps and walks of enumerate.rs      *)
(* against the extremum search and the formulas of bounds.rs).             *)
THEOREM HullAlways == TracedSpec => []HullIsBounds
BY HullInit, HullNext, HullAtEnd, PTL DEF TracedSpec
-----------------------------------------------------------------------------
(* RangeWalk, for every i64 width and every set of ranges the parser's     *)
(* check lets through.                                                     *)

(* A place of a walk is a position whose year the walk may visit.          *)
LEMMA PlaceIsTriple ==
  ASSUME NEW p, NEW t \in Place(p)
  PROVE  /\ t \in Triples
         /\ t = <<t[1], t[2], t[3]>>
         /\ t[1] \in Int /\ t[2] \in 0..12 /\ t[3] \in 0..31
         /\ t[1] \in MinYear..MaxYear
         /\ t \in Position(p, Int)
BY RangesAssumption DEF Place, Position, WalkYears, Triples

(* The successor of a position before the end is again a position, later,  *)
(* and not past the end: in particular its year still fits.                *)
LEMMA SuccessorInPlace ==
  ASSUME NEW p \in Precisions, NEW c \in Place(p), NEW e \in Place(p), Before(c, e)
  PROVE  /\ successor(p, c) \in Place(p)
         /\ Before(c, successor(p, c))
         /\ AtMost(successor(p, c), e)
BY SuccessorWithin, RangesAssumption DEF Place, WalkYears

(* What the parser's check is worth: it compares the first day of the      *)
(* start with the last day of the end, and that puts the start's position  *)
(* at or before the end's, because both have one precision.                *)
LEMMA AcceptedInOrder ==
  ASSUME NEW r \in Ranges
  PROVE  /\ r.precision \in Precisions
         /\ r.from \in Place(r.precision) /\ r.to \in Place(r.precision)
         /\ AtMost(r.from, r.to)
<1> DEFINE p == r.precision
           a == r.from
           b == r.to
<1>1. p \in Precisions /\ a \in Place(p) /\ b \in Place(p)
  BY RangesAssumption DEF AcceptedRange, Precisions
<1>2. ~Before(final_day(p, b), first_day(p, a))
  BY RangesAssumption DEF AcceptedRange
<1> HIDE DEF p, a, b
<1>3. ~Before(FinalDay(p, b), FirstDay(p, a))
  BY <1>2 DEF first_day, final_day, FirstDay, FinalDay
<1>4. AtMost(a, b)
  BY <1>1, <1>3, PlaceIsTriple, PlacesInOrder
<1> QED BY <1>1, <1>4 DEF p, a, b

-----------------------------------------------------------------------------
(* The inductive invariant: none of its parts is inductive alone.  The     *)
(* walk stays in the calendar only because it never passes its end, and it *)
(* hands out exactly its range only because every step is the successor.   *)
WalkIInv == WalkTypeOK /\ NeverPast /\ Exactly

(* A walk built from an accepted range starts inside it. *)
LEMMA WalkInitIInv == WalkInit => WalkIInv
<1> SUFFICES ASSUME WalkInit PROVE WalkIInv
  OBVIOUS
<1>1. PICK r \in Ranges : prec = r.precision /\ cur = r.from /\ end = r.to
  BY DEF WalkInit
<1>2. /\ prec \in Precisions /\ cur \in Place(prec) /\ end \in Place(prec)
      /\ AtMost(cur, end)
  BY <1>1, AcceptedInOrder
<1>3. done = FALSE /\ start = cur /\ yielded = {}
  BY DEF WalkInit
<1>4. \A t \in Place(prec) : ~(AtMost(start, t) /\ Before(t, cur))
  BY <1>2, <1>3, PlaceIsTriple, OrderTotal DEF AtMost
<1>5. WalkTypeOK
  BY <1>2, <1>3 DEF WalkTypeOK, Precisions
<1>6. NeverPast
  BY <1>2, <1>3 DEF NeverPast, AtMost
<1>7. Exactly
  BY <1>3, <1>4 DEF Exactly
<1> QED BY <1>5, <1>6, <1>7 DEF WalkIInv

(* A call of next() keeps the invariant. *)
LEMMA YieldIInv == WalkIInv /\ Yield => WalkIInv'
<1> SUFFICES ASSUME WalkIInv, Yield PROVE WalkIInv'
  OBVIOUS
<1> USE DEF WalkIInv
<1>1. /\ prec \in Precisions /\ prec' = prec
      /\ cur \in Place(prec) /\ end \in Place(prec) /\ start \in Place(prec)
      /\ end' = end /\ start' = start /\ Place(prec)' = Place(prec)
      /\ ~done /\ yielded' = yielded \cup {cur}
  BY DEF WalkTypeOK, Yield, Precisions, Place, WalkYears
<1>2. /\ AtMost(start, cur) /\ AtMost(cur, end)
      /\ cur \in Triples /\ end \in Triples /\ start \in Triples
  BY <1>1, PlaceIsTriple DEF NeverPast
<1>3. CASE cur = end
  <2>1. done' = TRUE /\ cur' = cur
    BY <1>3 DEF Yield
  <2>2. WalkTypeOK'
    BY <1>1, <2>1 DEF WalkTypeOK
  <2>3. NeverPast'
    BY <1>1, <1>2, <1>3, <2>1 DEF NeverPast
  <2>4. Exactly'
    BY <1>1, <1>2, <2>1 DEF Exactly
  <2> QED BY <2>2, <2>3, <2>4
<1>4. CASE cur # end
  <2>1. done' = done /\ cur' = successor(prec, cur)
    BY <1>4 DEF Yield
  <2>2. Before(cur, end)
    BY <1>2, <1>4 DEF AtMost
  <2>3. /\ cur' \in Place(prec) /\ cur' \in Triples
        /\ Before(cur, cur') /\ AtMost(cur', end)
    BY <1>1, <2>1, <2>2, SuccessorInPlace, PlaceIsTriple
  <2>4. WalkTypeOK'
    BY <1>1, <2>1, <2>3 DEF WalkTypeOK
  <2>5. NeverPast'
    BY <1>1, <1>2, <2>1, <2>3, OrderTransitive DEF NeverPast, AtMost
  <2>6. \A t \in Place(prec) : Before(t, cur') <=> Before(t, cur) \/ t = cur
    BY <1>1, <2>1, PlaceIsTriple, SuccessorIsNext DEF AtMost
  <2>7. Exactly'
    BY <1>1, <1>2, <2>1, <2>6 DEF Exactly
  <2> QED BY <2>4, <2>5, <2>7
<1> QED BY <1>3, <1>4

(* So does every step. *)
LEMMA WalkNextIInv == WalkIInv /\ [WalkNext]_walk => WalkIInv'
<1> SUFFICES ASSUME WalkIInv, [WalkNext]_walk PROVE WalkIInv'
  OBVIOUS
<1>1. CASE Yield
  BY <1>1, YieldIInv
<1>2. CASE UNCHANGED walk
  BY <1>2 DEF WalkIInv, WalkTypeOK, NeverPast, Exactly, Place, WalkYears, walk
<1> QED BY <1>1, <1>2 DEF WalkNext, Spent

(* The invariant holds throughout every walk. *)
THEOREM WalkIInvAlways == WalkSpec => []WalkIInv
BY WalkInitIInv, WalkNextIInv, PTL DEF WalkSpec

(* Every range the parser accepts is walked inside the calendar: the year  *)
(* never leaves i64, so y + 1 never overflows, and no month or day is out  *)
(* of range.                                                               *)
THEOREM WalkStaysTyped == WalkSpec => []WalkTypeOK
<1>1. WalkIInv => WalkTypeOK
  BY DEF WalkIInv
<1> QED BY <1>1, WalkIInvAlways, PTL

(* The equality test is enough to stop the walk: it never passes its end.  *)
THEOREM StaysInRange == WalkSpec => []NeverPast
<1>1. WalkIInv => NeverPast
  BY DEF WalkIInv
<1> QED BY <1>1, WalkIInvAlways, PTL

(* Whatever has been handed out is the range from its start to here: no    *)
(* position skipped, none invented, for every pair of endpoints.           *)
THEOREM YieldsExactly == WalkSpec => []Exactly
<1>1. WalkIInv => Exactly
  BY DEF WalkIInv
<1> QED BY <1>1, WalkIInvAlways, PTL
=============================================================================
