-------------------------------- MODULE MCExprs --------------------------------
(***************************************************************************)
(* Expressions for the model-checking runs.  Each set below keeps only     *)
(* what the parser accepts (Validate!Accepted).                            *)
(***************************************************************************)
EXTENDS Validate

Plain == {}
Y4(digits) == Year(Standard(FALSE, digits), None, Plain)
Neg(digits) == Year(Standard(TRUE, digits), None, Plain)
YS(digits, s) == Year(Standard(FALSE, digits), Some(s), Plain)
F(digits) == Field(digits, Plain)
YearDate(y) == Date(y, None, None)
YearMonth(y, m) == Date(y, Some(F(m)), None)
FullDate(y, m, d) == Date(y, Some(F(m)), Some(F(d)))
BigYear(v) == YearDate(Year(Big(v), None, Plain))
BigYearS(v, s) == YearDate(Year(Big(v), Some(s), Plain))
ExpYear(s, e) == YearDate(Year(Exponential(s, e), None, Plain))
ExpYearS(s, e, sig) == YearDate(Year(Exponential(s, e), Some(sig), Plain))

(* Written as a union so that TLC builds the set at once. *)
AcceptedOf(S) == UNION {IF Accepted(x) THEN {x} ELSE {} : x \in S}

-----------------------------------------------------------------------------
(* Masked dates.  A leap and a common year meet every kind of masked month *)
(* and day; masked years meet the slots that exist in some of them only;   *)
(* the masked centuries meet February 29.                                  *)
MaskMonths == {<<0,2>>, <<0,X>>, <<X,2>>, <<1,X>>, <<X,X>>, <<2,4>>, <<3,6>>}
MaskDays == {<<3,X>>, <<X,9>>, <<2,9>>, <<3,1>>}

MaskedDates ==
  LET y(digits) == Year(Standard(FALSE, digits), None, {"uncertain"})
      m(digits) == Some(Field(digits, {"approximate"}))
      fixed == {<<1,9,0,4>>, <<1,9,0,0>>}
      decade == <<2,0,0,X>>
      century == {<<X,0,0,0>>, <<1,X,0,X>>}
  IN  {Date(y(w), m(f), None) : w \in fixed, f \in MaskMonths}
        \cup {Date(y(w), m(f), Some(F(g))) : w \in fixed, f \in MaskMonths, g \in MaskDays}
        \cup {Date(y(decade), None, None), Date(y(<<X,0,0,0>>), None, None)}
        \cup {Date(y(decade), m(f), None) : f \in {<<X,2>>, <<2,4>>}}
        \cup {Date(y(decade), m(f), Some(F(g))) : f \in {<<0,2>>, <<X,2>>}, g \in MaskDays \ {<<X,9>>}}
        \cup {Date(y(w), m(<<0,2>>), Some(F(<<2,9>>))) : w \in century}

MCMasked == AcceptedOf({DateExpr(d) : d \in MaskedDates})

-----------------------------------------------------------------------------
(* Set elements of every kind: walks over the ends of a month, of a year   *)
(* and of the four-digit years, sweeps, years too large to compute with.   *)
Elements ==
  {At(YearDate(Y4(<<1,9,8,5>>))),
   At(YearDate(YS(<<1,9,5,3>>, 3))),
   At(FullDate(Y4(<<2,0,0,X>>), <<0,2>>, <<2,9>>)),
   At(BigYearS(-12345, 4)),
   At(ExpYear(1, 30)),
   At(ExpYearS(9, 6, 1)),
   RangeOf(BigYear(-10001), YearDate(Neg(<<9,9,9,8>>))),
   RangeOf(YearMonth(Neg(<<0,0,0,1>>), <<1,1>>), YearMonth(Y4(<<0,0,0,0>>), <<0,2>>)),
   RangeOf(FullDate(Y4(<<2,0,0,4>>), <<0,2>>, <<2,7>>), FullDate(Y4(<<2,0,0,4>>), <<0,3>>, <<0,2>>)),
   RangeOf(FullDate(Y4(<<1,9,9,9>>), <<1,2>>, <<3,0>>), FullDate(Y4(<<2,0,0,0>>), <<0,1>>, <<0,1>>)),
   RangeOf(ExpYear(1, 30), ExpYear(2, 30)),
   OnOrBefore(YearDate(Y4(<<1,9,8,5>>))),
   OnOrAfter(YearMonth(Y4(<<2,0,X,X>>), <<0,2>>))}

MCSets == AcceptedOf({SetExpr("AllMembers", <<e>>) : e \in Elements}
                       \cup {SetExpr("OneMember", <<e, f>>) : e \in Elements, f \in Elements})

Plain1985 == FullDate(Y4(<<1,9,8,5>>), <<0,4>>, <<1,2>>)

MCOther == AcceptedOf(
  {DateTimeExpr(Plain1985, "noon"),
   IntervalExpr(At(Plain1985), OpenEnd),
   DateExpr(ExpYear(1, 30)), DateExpr(ExpYearS(9, 6, 1)), DateExpr(ExpYearS(123, 2, 3)),
   DateExpr(BigYearS(I64Max - 3, 6)), DateExpr(BigYearS(I64Max, 6)), DateExpr(BigYearS(-I64Max, 7)),
   DateExpr(YearDate(Year(Standard(TRUE, <<0,0,9,9>>), Some(3), {"approximate"}))),
   SetExpr("AllMembers", <<At(Plain1985), At(YearDate(Y4(<<1,9,8,5>>))), At(Plain1985)>>)})
=============================================================================
