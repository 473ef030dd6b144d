----------------------------- MODULE ValuesCorrect -----------------------------
(***************************************************************************)
(* The properties of the iterator Values, against what expressions denote  *)
(* (Denotation) and against the bounds computed by separate code (Bounds). *)
(***************************************************************************)
EXTENDS Values, Denotation

VARIABLES promised,   \* history: what expr denotes, one set per element
          last,       \* history: position of the current element's last value
          hull        \* history: join of the bounds of every value yielded

history == <<promised, last, hull>>

(* The calendar position of a concrete value: unused slots are 0; a year   *)
(* beyond i64 has none.                                                    *)
position(v) ==
  LET slot(o) == IF slot_value(o) = None THEN 0 ELSE Get(slot_value(o))
      y == year_of(v.date.year.kind)
  IN  IF y = None THEN None ELSE Some(<<Get(y), slot(v.date.month), slot(v.date.day)>>)

PromiseOf(x) == IF Unenumerable(x) = None THEN Denotes(x) ELSE <<>>

Returned == pc = "running" /\ pc' = "idle" /\ item'.out = "Value"

Joined(region, b) == IF region = None THEN b ELSE widened(Get(region), b)

Record ==
  /\ UNCHANGED promised
  /\ last' = IF Returned THEN Some(position(item'.value))
             ELSE IF idx' # idx THEN None ELSE last
  /\ hull' = IF ~Returned THEN hull
             ELSE Some(Joined(hull, bounds(item'.value)))

TracedInit == Init /\ promised = PromiseOf(expr) /\ last = None /\ hull = None

TracedSpec == TracedInit /\ [][Next /\ Record]_<<vars, history>> /\ Fairness

-----------------------------------------------------------------------------
(* v comes after the value yielded last by the current element. *)
StillOwed(v) ==
  \/ last = None
  \/ /\ Get(last) # None /\ position(v) # None
     /\ Before(Get(Get(last)), Get(position(v)))

(* What the promise still owes, element by element, and the last answer as *)
(* the consumer of a stream sees it: a failed construction gave no stream. *)
Owing == [i \in DOMAIN promised |->
            IF i <= idx THEN {}
            ELSE IF i = idx + 1 THEN {v \in promised[i] : StillOwed(v)}
            ELSE promised[i]]
Answered == IF pc = "failed" THEN NotAsked ELSE item

Stream == INSTANCE ValueStream WITH
  Sources <- Exprs,
  Denoted <- PromiseOf,
  Precedes <- LAMBDA v, w : Before(Get(position(v)), Get(position(w))),
  source <- expr,
  todo   <- Owing,
  asked  <- pc = "running",
  answer <- Answered

(* Decisions D26, D28 and D29: the walkers of enumerate.rs, with their     *)
(* nested loops, resets and successors, hand out exactly what each element *)
(* denotes: in written order, ascending, nothing twice, nothing missed,    *)
(* qualifiers copied, and None for ever after the last.                    *)
ImplementsStream == Stream!Spec

(* The calendar extent of what was yielded is what bounds() says of the    *)
(* whole expression: the odometers of enumerate.rs and the extremum search *)
(* of bounds.rs are separate code for the same set of days.                *)
HullIsBounds == item = End => hull = Some(bounds(expr))

ElementsOf(x) ==
  CASE x.type = "Set" -> {x.elements[i] : i \in DOMAIN x.elements}
    [] x.type = "Date" -> {At(x.date)}
    [] OTHER -> {}

Swept(e) == e.kind = "Range" \/ e.date.year.significant_digits # None
Touches(b, at) == b.earliest.at \in at \/ b.latest.at \in at

(* enumerate.rs:107-109: construction fails with YearRangeOverflow on a    *)
(* sweep or range element exactly where that element's bounds are Unknown, *)
(* and an unbounded element is one whose bounds hold an infinity.          *)
ErrorsAgreeWithBounds ==
  /\ pc \in {"idle", "running"} =>
       \A e \in ElementsOf(expr) :
         /\ ~Touches(element_bounds(e), {"NegInf", "PosInf"})
         /\ Swept(e) => ~Touches(element_bounds(e), {"Unknown"})
  /\ pc = "failed" =>
       CASE item.error = "YearRangeOverflow" ->
              \E e \in ElementsOf(expr) : Swept(e) /\ Touches(element_bounds(e), {"Unknown"})
         [] item.error = "UnboundedSetElement" ->
              Touches(bounds(expr), {"NegInf", "PosInf"})
         [] item.error = "Interval" -> expr.type = "Interval"

(* No call spins in a loop of next(), and a consumer that keeps calling    *)
(* next() is told the end: every walker runs dry.                          *)
Drains == ([]<>(pc = "running")) => <>(item = End)
=============================================================================
