------------------------------ MODULE MCRangeWalk ------------------------------
(* Ranges at the limits of a small i64: every pair of years, months and    *)
(* days around the ends of months, of leap years and of the integer range. *)
EXTENDS RangeWalk

MCMinYear == -1
MCMaxYear == 1

Edges == {<<-1,1,1>>, <<-1,12,31>>, <<0,1,1>>, <<0,2,28>>, <<0,2,29>>, <<0,3,1>>,
          <<0,4,30>>, <<0,12,30>>, <<0,12,31>>, <<1,1,1>>, <<1,2,28>>, <<1,12,31>>}

Every(p, places) == {[precision |-> p, from |-> a, to |-> b] : a \in places, b \in places}

MCRanges == {r \in Every("Year", Position("Year", MCMinYear..MCMaxYear))
                     \cup Every("Month", Position("Month", MCMinYear..MCMaxYear))
                     \cup {s \in Every("Day", Edges) : s.to[1] - s.from[1] <= 1} :
               ~Before(final_day(r.precision, r.to), first_day(r.precision, r.from))}
=============================================================================
