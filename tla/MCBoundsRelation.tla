--------------------------- MODULE MCBoundsRelation ---------------------------
(* Regions around the end of a leap February and around the last and the   *)
(* first representable day; the years run from 0 to 3 in place of i64.     *)
EXTENDS BoundsRelation

MCMinYear == 0
MCMaxYear == 3

February == {<<0,2,28>>, <<0,2,29>>, <<0,3,1>>}
LastDays == {<<3,12,29>>, <<3,12,30>>, <<3,12,31>>}
FirstDays == {<<0,1,1>>, <<0,1,2>>}

RegionsOver(days) ==
  {r \in {MkBounds(e, l) : e \in {NegInf, Unknown} \cup {DayBound(t) : t \in days},
                           l \in {PosInf, Unknown} \cup {DayBound(t) : t \in days}} :
     NotAbove(r.earliest, r.latest)}

MCQuestions == UNION {RegionsOver(days) \X RegionsOver(days) :
                        days \in {February, LastDays, FirstDays \cup {<<3,12,31>>}}}

(* Each edge with a day or two to spare on either side, some of them       *)
(* outside the representable years.                                        *)
MCTimeline == {<<-1,12,30>>, <<-1,12,31>>, <<0,1,3>>, <<0,2,27>>, <<0,3,2>>,
               <<3,12,28>>, <<4,1,1>>, <<4,1,2>>} \cup February \cup LastDays \cup FirstDays
=============================================================================
