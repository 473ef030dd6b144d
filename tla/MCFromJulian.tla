------------------------------ MODULE MCFromJulian ------------------------------
(* Julian dates of every precision: years around the signs, the centuries  *)
(* that are leap years in one calendar only, the last four-digit years,    *)
(* the years that convert to the first i64, the last i64 and one beyond    *)
(* it; months and days at the edges of the calendar; inputs of another     *)
(* shape.                                                                  *)
EXTENDS FromJulian

MCI64Min == -I64Max - 1
NoTexts == {}

Hyphen == <<Sym("-")>>
Number(digits) == <<Group(digits)>>

YearNumbers == {<<0>>, <<4>>, <<0,0,0,1>>, <<1,5,8,2>>, <<1,9,0,0>>, <<1,9,1,7>>, <<9,9,9,8>>,
                <<9,9,9,9>>, <<1,0,0,0,0>>, <<1,0,0,0,0,4>>, <<1,0,0,0,0,5>>, <<1,0,0,0,0,6>>,
            <<1,0,0,0,0,7>>}
Months == {<<0,1>>, <<0,2>>, <<1,2>>, <<0,0>>, <<1,3>>, <<1>>, <<0,X>>}
MonthDays == {<<0,1>>, <<2,8>>, <<2,9>>, <<3,1>>, <<3,2>>, <<1,0,0>>}

Parts == {<<>>} \cup {Hyphen \o Number(m) : m \in Months}
           \cup {Hyphen \o Number(m) \o Hyphen \o Number(d) : m \in Months, d \in MonthDays}

MCJulianInputs ==
  {sign \o Number(y) \o p : sign \in {<<>>, Hyphen}, y \in YearNumbers, p \in Parts}
    \cup {<<>>, Hyphen, Hyphen \o Hyphen \o Number(<<1>>), Number(<<1,9,1,X>>),
          Number(<<1,9,1,7>>) \o Hyphen, Number(<<1,9,1,7>>) \o <<Sym("~")>>,
          Number(<<1>>) \o Hyphen \o Number(<<0,1>>) \o Hyphen \o Number(<<0,1>>) \o Hyphen \o Number(<<0,1>>)}
=============================================================================
