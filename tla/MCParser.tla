-------------------------------- MODULE MCParser --------------------------------
(***************************************************************************)
(* Texts for the runs of ParserCorrect.                                    *)
(***************************************************************************)
EXTENDS ParserCorrect, MCExprs
LOCAL INSTANCE SequencesExt

MCI64Min == -I64Max - 1

Dash == <<Sym("-")>>
G(digits) == <<Group(digits)>>
Dots == <<Sym("..")>>
OptionalMarks == {<<>>} \cup {<<m>> : m \in Markers}

-----------------------------------------------------------------------------
(* Every placement of markers around the components of a date. *)
Y2004 == G(<<2,0,0,4>>)
Marked(body) == {m \o body \o n : m \in OptionalMarks, n \in OptionalMarks}
MarkedYears == Marked(Y2004)
MarkedMonths == {y \o Dash \o f : y \in MarkedYears, f \in Marked(G(<<0,6>>))}
MarkedDays == {ym \o Dash \o f : ym \in MarkedMonths, f \in Marked(G(<<1,1>>))}

MarkTexts == MarkedYears \cup MarkedMonths \cup MarkedDays

-----------------------------------------------------------------------------
(* Four-digit years with signs, masks and significant digits; months and   *)
(* days at the edges of the calendar.                                      *)
SuffixS(ns) == {<<>>} \cup {<<Sym("S"), Group(n)>> : n \in ns}

YearTexts ==
  {sign \o G(y) \o s \o end :
     sign \in {<<>>, Dash},
     y \in {<<2,0,0,4>>, <<0,0,0,0>>, <<2,0,0,X>>, <<2,0,X,X>>, <<X,0,0,4>>, <<1,9,9>>},
     s \in SuffixS({<<0>>, <<1>>, <<4>>, <<0,4>>, <<5>>}),
     end \in {<<>>, <<Sym("~")>>, <<Sym("~"), Sym("?")>>, <<Sym("-"), Group(<<0,6>>)>>}}

MonthDayTexts ==
  {y \o Dash \o G(m) \o d :
     y \in {Y2004, Dash \o Y2004, G(<<1,9,0,0>>), G(<<X,X,0,0>>)},
     m \in {<<0,2>>, <<0,0>>, <<1,3>>, <<2,1>>, <<2,5>>, <<4,1>>, <<4,2>>, <<X,X>>, <<2,X>>, <<1,X>>, <<1>>},
     d \in {<<>>} \cup {Dash \o G(n) : n \in {<<2,9>>, <<3,0>>, <<X,X>>, <<0,0>>, <<3,X>>}}}

(* Prefixed years: the smallest beyond four digits, leading zeros, the     *)
(* last i64 and one beyond it.                                             *)
PrefixedTexts ==
  {<<Sym("Y")>> \o sign \o G(n) \o e \o s :
     sign \in {<<>>, Dash},
     n \in {<<1>>, <<0>>, <<9,9,9,9>>, <<1,0,0,0,0>>, <<0,1,2,3,4,5>>,
            <<9,2,2,3,3,7,2>>, <<9,2,2,3,3,7,3>>, <<1,2,X,4,5>>},
     e \in {<<>>} \cup {<<Sym("E"), Group(x)>> : x \in {<<0>>, <<3>>, <<0,4>>, <<3,0>>, <<1,0,0,0,0,1>>}},
     s \in SuffixS({<<0>>, <<1>>, <<5>>, <<6>>, <<7>>})}

-----------------------------------------------------------------------------
(* Endpoints and elements: dated, open, unknown, ranges in and out of      *)
(* order, a year too large to compare, masked, qualified.                  *)
Dates2 == {Y2004, G(<<2,0,0,3>>), G(<<2,0,0,X>>) \o <<Sym("~")>>, Y2004 \o Dash \o G(<<2,5>>),
           <<Sym("Y"), Group(<<1>>), Sym("E"), Group(<<3,0>>)>>}
SomeEnds == {<<>>, Dots} \cup Dates2 \cup {Dots \o d : d \in Dates2} \cup {d \o Dots : d \in Dates2}
Ranges == {a \o Dots \o b : a \in Dates2, b \in Dates2}

IntervalTexts == {a \o <<Sym("/")>> \o b : a \in SomeEnds, b \in SomeEnds}
                   \cup {Y2004 \o <<Sym("/")>> \o r : r \in Ranges}

SetTexts ==
  {<<Sym("{")>> \o a \o <<Sym(close)>> : a \in SomeEnds \cup Ranges, close \in {"}", "]"}}
    \cup {<<Sym("["), Group(<<1,9,9,9>>), Sym(",")>> \o a \o <<Sym("]")>> : a \in SomeEnds \cup Ranges}

-----------------------------------------------------------------------------
(* Date-times: the first and last of each field, and one beyond. *)
Colon == <<Sym(":")>>
TimesOfDay == {G(h) \o Colon \o G(m) \o Colon \o G(s) :
                 h \in {<<0,0>>, <<2,3>>, <<2,4>>}, m \in {<<5,9>>, <<6,0>>}, s \in {<<6,0>>, <<6,1>>}}
Shifts == {<<>>, <<Sym("Z")>>, <<Sym("Z"), Sym("Z")>>}
            \cup {<<Sym(sign)>> \o G(h) \o m : sign \in {"+", "-"},
                    h \in {<<0,0>>, <<0,5>>, <<1,4>>, <<1,5>>},
                    m \in {<<>>} \cup {Colon \o G(n) : n \in {<<0,0>>, <<0,1>>, <<6,0>>}}}

DateTimeTexts ==
  {d \o <<Sym("T")>> \o t \o s :
     d \in {Y2004 \o Dash \o G(<<0,2>>) \o Dash \o G(<<2,9>>)}, t \in TimesOfDay, s \in Shifts}
    \cup {y \o Dash \o G(m) \o Dash \o G(d) \o <<Sym("T"), Group(<<1,2>>)>> \o Colon \o G(<<0,0>>) \o Colon \o G(<<0,0>>) :
            y \in {G(<<1,9,0,0>>), G(<<2,0,0,X>>), Dash \o Y2004}, m \in {<<0,2>>, <<2,1>>}, d \in {<<2,8>>, <<2,9>>}}

-----------------------------------------------------------------------------
(* Dots without an interval or a set. *)
DotTexts == (SomeEnds \ ({<<>>} \cup Dates2)) \cup Ranges

(* Texts with a token too few, or one twice, or one of no meaning. *)
Whole == {<<>>,
          <<Sym("[")>> \o Y2004 \o Dash \o G(<<0,6>>) \o Dots \o Y2004 \o Dash \o G(<<0,7>>)
            \o <<Sym(",")>> \o Dots \o Y2004 \o <<Sym("]")>>,
          Y2004 \o <<Sym("?")>> \o Dash \o G(<<0,6>>) \o <<Sym("/")>> \o Y2004 \o Dash \o G(<<1,1>>) \o Dash \o <<Sym("~")>> \o G(<<0,1>>)}

Damaged == UNION {{t} \cup {RemoveAt(t, i) : i \in DOMAIN t} \cup {InsertAt(t, i, t[i]) : i \in DOMAIN t}
                           \cup {InsertAt(t, i, Sym("other")) : i \in DOMAIN t} : t \in Whole}

-----------------------------------------------------------------------------
(* The rendered texts of the expressions the other runs enumerate.         *)
NoKnown == {}
MCKnown == {x \in MCMasked \cup {SetExpr("OneMember", <<e>>) : e \in Elements} \cup MCOther : x.type # "DateTime"}

FormTexts == YearTexts \cup MonthDayTexts \cup PrefixedTexts \cup IntervalTexts \cup SetTexts
               \cup DateTimeTexts \cup DotTexts \cup Damaged \cup {display(x) : x \in MCKnown}

AllTexts == MarkTexts \cup FormTexts
=============================================================================
