---------------------------- MODULE MCExprRelation ----------------------------
(* Expressions of every kind, chosen so that neighbouring, overlapping,    *)
(* nested, unbounded, unknown and uncomputable regions all meet.           *)
EXTENDS Postgres, MCExprs

MCI64Min == -9223373

MCDates ==
  {YearDate(Y4(<<1,9,8,5>>)), YearDate(Y4(<<1,9,8,X>>)), YearDate(YS(<<1,9,8,6>>, 3)),
   YearDate(Neg(<<0,0,0,1>>)), YearDate(Y4(<<0,0,0,0>>)),
   YearMonth(Y4(<<1,9,8,5>>), <<1,2>>), YearMonth(Y4(<<1,9,8,5>>), <<2,4>>),
   YearMonth(Y4(<<1,9,8,6>>), <<0,2>>), YearMonth(Y4(<<1,9,8,5>>), <<X,X>>),
   FullDate(Y4(<<1,9,8,6>>), <<0,2>>, <<2,8>>), FullDate(Y4(<<1,9,8,6>>), <<0,3>>, <<0,1>>),
   FullDate(Y4(<<1,9,8,X>>), <<0,2>>, <<2,9>>), FullDate(Y4(<<1,9,8,5>>), <<0,X>>, <<3,1>>),
   BigYear(I64Max), BigYear(-I64Max), BigYear(-10000), BigYearS(I64Max, 6), ExpYear(1, 7), ExpYear(2, 5)}

MCIntervals ==
  {IntervalExpr(At(YearDate(Y4(<<1,9,8,5>>))), e) :
     e \in {OpenEnd, UnknownEnd, OnOrAfter(YearDate(Y4(<<1,9,8,6>>))),
            At(YearMonth(Y4(<<1,9,8,6>>), <<0,2>>)), At(YearDate(Y4(<<1,9,8,4>>)))}}
  \cup {IntervalExpr(s, At(YearDate(Y4(<<1,9,8,5>>)))) :
     s \in {OpenEnd, OnOrBefore(YearDate(Y4(<<1,9,8,6>>))),
            At(YearMonth(Y4(<<1,9,8,6>>), <<0,2>>)), At(ExpYear(1, 7))}}

MCSetExprs ==
  {SetExpr("OneMember", <<RangeOf(YearDate(Y4(<<1,9,8,6>>)), YearDate(Y4(<<1,9,9,0>>))), At(BigYear(-I64Max))>>),
   SetExpr("OneMember", <<OnOrBefore(YearDate(Y4(<<1,9,8,5>>))), At(ExpYear(1, 7))>>),
   SetExpr("AllMembers", <<At(YearDate(Y4(<<1,9,8,5>>))), OnOrAfter(YearMonth(Y4(<<1,9,8,5>>), <<0,2>>))>>)}

MCMixed == AcceptedOf({DateExpr(d) : d \in MCDates} \cup MCIntervals \cup MCSetExprs
                        \cup {DateTimeExpr(Plain1985, "noon")})

MCIntervalsOnly == AcceptedOf(MCIntervals)
=============================================================================
