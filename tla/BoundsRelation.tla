---------------------------- MODULE BoundsRelation ----------------------------
(***************************************************************************)
(* Edtf::relation (relation.rs): which of the six coarsened Allen          *)
(* relations two bounds regions allow.  A consumer asks about two regions  *)
(* and may ask again with the two exchanged.                               *)
(***************************************************************************)
EXTENDS DayLine

CONSTANTS MinYear, MaxYear,     \* i64::MIN and i64::MAX
          Questions,            \* the pairs of regions a consumer may ask about
          Timeline              \* the days completions are made of

Years == MinYear..MaxYear

ASSUME QuestionsAssumption ==
  /\ MinYear \in Int /\ MaxYear \in Int
  /\ \A q \in Questions : IsBounds(q[1], Years) /\ IsBounds(q[2], Years)

RelationNames == {"Before", "After", "Overlaps", "Contains", "Within", "Equal"}

(* Mutant of converse: containment is its own converse.                    *)
converse_of_order(r) == CASE r = "Before" -> "After" [] r = "After" -> "Before" [] OTHER -> r

converse(r) == CASE r = "Before" -> "After"
                 [] r = "After" -> "Before"
                 [] r = "Contains" -> "Within"
                 [] r = "Within" -> "Contains"
                 [] OTHER -> r

-----------------------------------------------------------------------------
(* The neighbouring days; beyond the years an i64 holds lies the infinity. *)
succ(e) ==
  LET y == e.day[1]
      m == e.day[2]
      d == e.day[3]
  IN  IF e.at # "Day" THEN e
      ELSE IF d < last_day(m, is_leap(y)) THEN DayBound(<<y, m, d + 1>>)
      ELSE IF m < 12 THEN DayBound(<<y, m + 1, 1>>)
      ELSE IF y = MaxYear THEN PosInf ELSE DayBound(<<y + 1, 1, 1>>)

pred(e) ==
  LET y == e.day[1]
      m == e.day[2]
      d == e.day[3]
  IN  IF e.at # "Day" THEN e
      ELSE IF d > 1 THEN DayBound(<<y, m, d - 1>>)
      ELSE IF m > 1 THEN DayBound(<<y, m - 1, last_day(m - 1, is_leap(y))>>)
      ELSE IF y = MinYear THEN NegInf ELSE DayBound(<<y - 1, 12, 31>>)

(* Mutant of half_overlap: a completion may overlap without starting       *)
(* earlier.                                                                *)
half_overlap_shared_start(lo_a, hi_a, lo_b, hi_b) ==
  NotAbove(LaterOf(lo_a, lo_b), EarlierOf(hi_a, pred(hi_b)))

half_overlap(lo_a, hi_a, lo_b, hi_b) ==
  NotAbove(LaterOf(succ(lo_a), lo_b), EarlierOf(hi_a, pred(hi_b)))

intersects(a, b) == NotAbove(a.earliest, b.latest) /\ NotAbove(b.earliest, a.latest)

(* Mutant of feasible: the regions are compared as if they were the        *)
(* intervals themselves.                                                   *)
feasible_regions(r, a, b) ==
  \/ r = "Before" /\ Below(a.latest, b.earliest)
  \/ r = "After" /\ Below(b.latest, a.earliest)
  \/ r = "Overlaps" /\ \/ half_overlap(a.earliest, a.latest, b.earliest, b.latest)
                       \/ half_overlap(b.earliest, b.latest, a.earliest, a.latest)
  \/ r = "Contains" /\ intersects(a, b) /\ Below(a.earliest, a.latest)
  \/ r = "Within" /\ intersects(a, b) /\ Below(b.earliest, b.latest)
  \/ r = "Equal" /\ a = b

feasible(r, a, b) ==
  \/ r = "Before" /\ Below(a.earliest, b.latest)
  \/ r = "After" /\ Below(b.earliest, a.latest)
  \/ r = "Overlaps" /\ \/ half_overlap(a.earliest, a.latest, b.earliest, b.latest)
                       \/ half_overlap(b.earliest, b.latest, a.earliest, a.latest)
  \/ r = "Contains" /\ intersects(a, b) /\ Below(a.earliest, a.latest)
  \/ r = "Within" /\ intersects(a, b) /\ Below(b.earliest, b.latest)
  \/ r = "Equal" /\ intersects(a, b)

(* Mutant of from_possible: equality is left out of the answer.            *)
from_possible_five(P) ==
  [r \in RelationNames \ {"Equal"} |-> IF r \notin P THEN "Impossible"
                                      ELSE IF P = {r} THEN "Definite" ELSE "Possible"]

(* A lone possible relation is definite. *)
from_possible(P) ==
  [r \in RelationNames |-> IF r \notin P THEN "Impossible"
                           ELSE IF P = {r} THEN "Definite" ELSE "Possible"]

AllPossible == [r \in RelationNames |-> "Possible"]

Known(a) == a.earliest # Unknown /\ a.latest # Unknown

relation(a, b) ==
  IF Known(a) /\ Known(b) THEN from_possible({r \in RelationNames : feasible(r, a, b)})
  ELSE AllPossible

-----------------------------------------------------------------------------
VARIABLES a, b,     \* the regions asked about
          answer    \* the modality of each relation, once asked

vars == <<a, b, answer>>

NoAnswer == [r \in RelationNames |-> "NotAsked"]

Init == /\ \E q \in Questions : a = q[1] /\ b = q[2]
        /\ answer = NoAnswer

Relate == answer' = relation(a, b) /\ UNCHANGED <<a, b>>
Exchange == a' = b /\ b' = a /\ answer' = NoAnswer

Next == Relate \/ Exchange

Spec == Init /\ [][Next]_vars

-----------------------------------------------------------------------------
(* What the answer means (D23): an expression stands for some non-empty    *)
(* interval of days, from..to, inside its bounds.                          *)
Completions(r) ==
  {c \in [from : Timeline, to : Timeline] :
     /\ AtMost(c.from, c.to)
     /\ NotAbove(r.earliest, DayBound(c.from)) /\ NotAbove(DayBound(c.to), r.latest)}

Holds(r, c, d) ==
  \/ r = "Before" /\ Before(c.to, d.from)
  \/ r = "After" /\ Before(d.to, c.from)
  \/ r = "Overlaps" /\ \/ Before(c.from, d.from) /\ AtMost(d.from, c.to) /\ Before(c.to, d.to)
                       \/ Before(d.from, c.from) /\ AtMost(c.from, d.to) /\ Before(d.to, c.to)
  \/ r = "Contains" /\ c # d /\ AtMost(c.from, d.from) /\ AtMost(d.to, c.to)
  \/ r = "Within" /\ c # d /\ AtMost(d.from, c.from) /\ AtMost(c.to, d.to)
  \/ r = "Equal" /\ c = d

(* The regions stay bounds of i64 days, and every relation has one modality. *)
TypeOK == /\ IsBounds(a, Years) /\ IsBounds(b, Years)
          /\ answer \in [RelationNames -> {"NotAsked", "Impossible", "Possible", "Definite"}]

Answered == answer # NoAnswer

(* D23: a relation is impossible when no pair of completions has it and    *)
(* definite when every pair does, the infinities and the first and last    *)
(* representable days included.                                            *)
Honest ==
  Answered /\ Known(a) /\ Known(b) =>
    \A r \in RelationNames :
      /\ answer[r] # "Impossible" <=>
           \E c \in Completions(a), d \in Completions(b) : Holds(r, c, d)
      /\ answer[r] = "Definite" <=>
           \A c \in Completions(a), d \in Completions(b) : Holds(r, c, d)

(* relation.rs:19-21: only before, after and equal are ever definite.      *)
NeverForced == Answered => \A r \in {"Overlaps", "Contains", "Within"} : answer[r] # "Definite"

(* Asking with the two exchanged gives the converse of every relation.     *)
Mirrored == Answered => \A r \in RelationNames : answer[r] = relation(b, a)[converse(r)]
=============================================================================
