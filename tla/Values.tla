-------------------------------- MODULE Values --------------------------------
(***************************************************************************)
(* The lazy iterator Edtf::values returns (enumerate.rs).  A consumer      *)
(* builds it once and then calls next(); a call runs the walker of the     *)
(* current element step by step - one loop iteration of the code is one    *)
(* action - until it returns a value or the end.                           *)
(***************************************************************************)
EXTENDS Walkers, Validate

CONSTANT Exprs      \* the expressions a consumer may enumerate

ASSUME ExprsAssumption == \A x \in Exprs : IsExpr(x) /\ Accepted(x)

VARIABLES expr,     \* the expression this iterator was built from
          pc,       \* "new", "failed", "idle" (between calls) or "running"
          item,     \* what the last call returned
          queue,    \* one walker per element, in written order
          idx       \* the element being drained, from 0

vars == <<expr, pc, item, queue, idx>>

NotAsked == [out |-> "NotAsked"]
End      == [out |-> "End"]
Yielded(v) == [out |-> "Value", value |-> v]
Failed(e)  == [out |-> "Failed", error |-> e]

-----------------------------------------------------------------------------
Init == /\ expr \in Exprs
        /\ pc = "new" /\ item = NotAsked
        /\ queue = <<>> /\ idx = 0

(* values(): every element's walker is built, or the call fails. *)
Construct ==
  /\ pc = "new"
  /\ IF Unenumerable(expr) = None
     THEN /\ pc' = "idle" /\ queue' = WalkersOf(expr) /\ UNCHANGED item
     ELSE /\ pc' = "failed" /\ item' = Failed(Get(Unenumerable(expr))) /\ UNCHANGED queue
  /\ UNCHANGED <<expr, idx>>

(* The consumer asks for the next value, or, after a failure, tries again. *)
Call  == pc = "idle" /\ pc' = "running" /\ UNCHANGED <<expr, item, queue, idx>>
Retry == /\ pc = "failed" /\ pc' = "new" /\ item' = NotAsked
         /\ UNCHANGED <<expr, queue, idx>>

-----------------------------------------------------------------------------
HasElement == idx < Len(queue)
walker == queue[idx + 1]
Running(kind) == pc = "running" /\ HasElement /\ walker.walk = kind

Advance(w) == queue' = [queue EXCEPT ![idx + 1] = w]

Return(v) == item' = Yielded(v) /\ pc' = "idle" /\ UNCHANGED <<expr, idx>>

ReturnEnd == item' = End /\ pc' = "idle" /\ UNCHANGED <<expr, queue, idx>>

(* Mutant of Drained: the end of one element is told as the end of the set. *)
DrainedEndsCall ==
  \/ /\ expr.type = "Set"
     /\ idx' = idx + 1 /\ item' = End /\ pc' = "idle" /\ UNCHANGED <<expr, queue>>
  \/ expr.type # "Set" /\ ReturnEnd

(* The current element is drained: a set moves on to its next element      *)
(* within the same call, a lone date ends.                                 *)
Drained ==
  \/ /\ expr.type = "Set"
     /\ idx' = idx + 1 /\ UNCHANGED <<expr, pc, item, queue>>
  \/ expr.type # "Set" /\ ReturnEnd

(* A set past its last element. *)
SetEnd == pc = "running" /\ ~HasElement /\ ReturnEnd

-----------------------------------------------------------------------------
(* Mutant of TakeSingleton: the value is cloned, not taken.                *)
TakeSingletonKept == /\ Running("Singleton") /\ walker.left # None
                     /\ Advance(walker) /\ Return(Get(walker.left))

TakeSingleton == /\ Running("Singleton") /\ walker.left # None
                 /\ Advance([walker EXCEPT !.left = None]) /\ Return(Get(walker.left))

SingletonSpent == Running("Singleton") /\ walker.left = None /\ Drained

(* Mutant of SweepYear: the year is advanced before it is compared.        *)
SweepYearPast == /\ Running("Sweep") /\ ~walker.done
                 /\ Advance([walker EXCEPT !.cur = @ + 1, !.done = (walker.cur = walker.hi)])
                 /\ Return(SweepItem(walker))

SweepYear == /\ Running("Sweep") /\ ~walker.done
             /\ Advance(IF walker.cur = walker.hi THEN [walker EXCEPT !.done = TRUE]
                        ELSE [walker EXCEPT !.cur = @ + 1])
             /\ Return(SweepItem(walker))

SweepSpent == Running("Sweep") /\ walker.done /\ Drained

RangeStep == /\ Running("Range") /\ ~walker.done
             /\ Advance(IF walker.cur = walker.end THEN [walker EXCEPT !.done = TRUE]
                        ELSE [walker EXCEPT !.cur = successor(walker.precision, walker.cur)])
             /\ Return(RangeItem(walker))

RangeSpent == Running("Range") /\ walker.done /\ Drained

-----------------------------------------------------------------------------
(* The odometer.  The three loops of Masked::next, the day innermost.      *)
OnYear  == Running("Masked") /\ walker.yi < walker.year_count
OnMonth == OnYear /\ walker.months # None /\ walker.mi < Len(Get(walker.months))
OnDay   == OnMonth /\ walker.days # None /\ walker.di < Len(Get(walker.days))

MaskedYear == /\ OnYear /\ walker.months = None
              /\ Advance([walker EXCEPT !.yi = @ + 1]) /\ Return(MaskedItem(walker))

MaskedMonth == /\ OnMonth /\ walker.days = None
               /\ Advance([walker EXCEPT !.mi = @ + 1]) /\ Return(MaskedItem(walker))

MaskedDay == /\ OnDay /\ day_exists(walker)
             /\ Advance([walker EXCEPT !.di = @ + 1]) /\ Return(MaskedItem(walker))

Quietly == UNCHANGED <<expr, pc, item, idx>>

SkipDay == /\ OnDay /\ ~day_exists(walker)
           /\ Advance([walker EXCEPT !.di = @ + 1]) /\ Quietly

(* Mutants of NextMonth and NextYear: the day counter is not reset; the    *)
(* year counter does not move.                                             *)
NextMonthNoReset == /\ OnMonth /\ walker.days # None /\ ~OnDay
                    /\ Advance([walker EXCEPT !.mi = @ + 1]) /\ Quietly

NextYearStays == /\ OnYear /\ walker.months # None /\ ~OnMonth
                 /\ Advance([walker EXCEPT !.mi = 0]) /\ Quietly

NextMonth == /\ OnMonth /\ walker.days # None /\ ~OnDay
             /\ Advance([walker EXCEPT !.di = 0, !.mi = @ + 1]) /\ Quietly

NextYear == /\ OnYear /\ walker.months # None /\ ~OnMonth
            /\ Advance([walker EXCEPT !.mi = 0, !.yi = @ + 1]) /\ Quietly

MaskedSpent == Running("Masked") /\ walker.yi >= walker.year_count /\ Drained

-----------------------------------------------------------------------------
(* The iterator's own steps, as opposed to the consumer's. *)
Step == \/ TakeSingleton \/ SingletonSpent
        \/ SweepYear \/ SweepSpent
        \/ RangeStep \/ RangeSpent
        \/ MaskedYear \/ MaskedMonth \/ MaskedDay
        \/ SkipDay \/ NextMonth \/ NextYear \/ MaskedSpent
        \/ SetEnd

Next == Construct \/ Call \/ Retry \/ Step

(* A call that was made keeps running; a consumer need never call again. *)
Fairness == WF_vars(Step) /\ WF_vars(Construct)

Spec == Init /\ [][Next]_vars /\ Fairness

-----------------------------------------------------------------------------
(* Every variable keeps its type; in particular no year counter of a sweep *)
(* or of a range ever leaves i64, and no odometer counter its lists.       *)
WalkerOK(w) ==
  CASE w.walk = "Singleton" -> Len(w.left) <= 1
    [] w.walk = "Sweep" -> w.cur \in I64Min..I64Max /\ w.hi \in I64Min..I64Max /\ w.cur <= w.hi
    [] w.walk = "Range" -> /\ w.cur \in Position(w.precision, I64Min..I64Max)
                           /\ AtMost(w.cur, w.end)
    [] w.walk = "Masked" ->
         /\ w.yi \in 0..w.year_count
         /\ w.mi \in 0..(IF w.months = None THEN 0 ELSE Len(Get(w.months)))
         /\ w.di \in 0..(IF w.days = None THEN 0 ELSE Len(Get(w.days)))

TypeOK ==
  /\ expr.type \in {"Date", "DateTime", "Interval", "Set"}
  /\ pc \in {"new", "failed", "idle", "running"}
  /\ item.out \in {"NotAsked", "End", "Value", "Failed"}
  /\ \A i \in DOMAIN queue : WalkerOK(queue[i])
  /\ idx \in 0..Len(queue)
=============================================================================
