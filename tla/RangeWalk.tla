------------------------------- MODULE RangeWalk -------------------------------
(***************************************************************************)
(* One range element a..b of a set, walked by calendar successor at the    *)
(* precision its endpoints share (enumerate.rs RangeWalk).  The walker has *)
(* no test for having gone too far: it stops because it meets b exactly,   *)
(* and that rests on the check the parser made when it accepted the range, *)
(* which compares days and not positions.  Here the two meet: a walk       *)
(* starts from any range the parser's check lets through.                  *)
(***************************************************************************)
EXTENDS EdtfCalendar

CONSTANTS MinYear, MaxYear,     \* i64::MIN and i64::MAX
          Ranges                \* the ranges a walk may be built from

WalkYears == MinYear..MaxYear
Place(p) == Position(p, WalkYears)

(* The days a concrete date's bounds name: its first and its last.         *)
first_day(p, t) == <<t[1], IF p = "Year" THEN 1 ELSE t[2], IF p = "Day" THEN t[3] ELSE 1>>
final_day(p, t) ==
  LET m == IF p = "Year" THEN 12 ELSE t[2]
  IN  <<t[1], m, IF p = "Day" THEN t[3] ELSE last_day(m, is_leap(t[1]))>>

(* What the parser requires of a range element: endpoints of one precision *)
(* and an end whose latest day does not precede the start's earliest.      *)
AcceptedRange(r) ==
  /\ r.precision \in {"Year", "Month", "Day"}
  /\ r.from \in Place(r.precision) /\ r.to \in Place(r.precision)
  /\ ~Before(final_day(r.precision, r.to), first_day(r.precision, r.from))

ASSUME RangesAssumption == /\ MinYear \in Int /\ MaxYear \in Int
                           /\ \A r \in Ranges : AcceptedRange(r)

VARIABLES prec, cur, end, done,
          start,      \* history: where the walk began
          yielded     \* history: the positions handed out

walk == <<prec, cur, end, done, start, yielded>>

-----------------------------------------------------------------------------
WalkInit == /\ \E r \in Ranges : prec = r.precision /\ cur = r.from /\ end = r.to
            /\ done = FALSE
            /\ start = cur /\ yielded = {}

(* Mutants of Yield: the walk moves before it hands out its position; the  *)
(* end is never marked as done.                                            *)
YieldAfterStep == /\ ~done
                  /\ IF cur = end THEN done' = TRUE /\ UNCHANGED cur
                     ELSE cur' = successor(prec, cur) /\ UNCHANGED done
                  /\ yielded' = yielded \cup {cur'}
                  /\ UNCHANGED <<prec, end, start>>

YieldNeverDone == /\ ~done /\ UNCHANGED done
                  /\ cur' = IF cur = end THEN cur ELSE successor(prec, cur)
                  /\ yielded' = yielded \cup {cur}
                  /\ UNCHANGED <<prec, end, start>>

(* One call of next() that returns a date. *)
Yield == /\ ~done
         /\ IF cur = end THEN done' = TRUE /\ UNCHANGED cur
            ELSE cur' = successor(prec, cur) /\ UNCHANGED done
         /\ yielded' = yielded \cup {cur}
         /\ UNCHANGED <<prec, end, start>>

(* Every call after the last date returns None and changes nothing. *)
Spent == done /\ UNCHANGED walk

WalkNext == Yield \/ Spent

(* The consumer keeps asking. *)
WalkSpec == WalkInit /\ [][WalkNext]_walk /\ WF_walk(Yield)

-----------------------------------------------------------------------------
(* The walk stands on a calendar position whose year fits an i64: the      *)
(* additions y + 1 never overflow and no day 31 of a short month appears.  *)
WalkTypeOK == /\ prec \in {"Year", "Month", "Day"}
              /\ cur \in Place(prec) /\ end \in Place(prec) /\ start \in Place(prec)
              /\ done \in BOOLEAN
              /\ yielded \subseteq Place(prec)

(* The walk never steps past its end, and has stopped only on it.          *)
NeverPast == AtMost(start, cur) /\ AtMost(cur, end) /\ (done => cur = end)

(* At every moment exactly the positions from the start up to the current  *)
(* one have been handed out: none skipped, none invented (D26).            *)
Exactly == yielded = {t \in Place(prec) :
                        /\ AtMost(start, t)
                        /\ Before(t, cur) \/ (done /\ t = cur)}

(* enumerate.rs:488-489: the walk terminates by reaching b exactly.        *)
ReachesEnd == <>(done /\ cur = end)
=============================================================================
