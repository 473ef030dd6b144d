---------------------------- MODULE Parser_proof ----------------------------
(* Proofs about the parser and the display, for every text of the grammar.  *)
(*                                                                          *)
(* TypeCorrect rests on the inductive invariant IInv: at every stage of the *)
(* scan, what is known of the date in hand (DateInv), of the part it        *)
(* belongs to (PartInv) and of the parts already read (EndsInv); and that   *)
(* what a first parse gave is accepted and is what is rendered (FirstInv).  *)
(*                                                                          *)
(* ReadsItsOwnText says that the text of every accepted expression is       *)
(* parsed to that expression again. The invariant it rests on is Tracks:    *)
(* while the text of x is read, the parts read and to read are those of x,  *)
(* and, within a date D of x, the scan has read what it should have of D    *)
(* and has the rest of D's text before it (Reading). The lemmas come in the *)
(* order of the parser: texts and their tokens, the scan of a date, the     *)
(* parts of an expression; then how display writes each, and that the parts *)
(* of a written text are those it was written from.                         *)
EXTENDS ParserCorrect, Bounds_proof, SequenceTheorems

-----------------------------------------------------------------------------
(* Tokens and texts. *)

(* A symbol is no group.                                                   *)
LEMMA Symbol ==
  ASSUME NEW s \in Symbols
  PROVE  Sym(s) \in Token /\ ~IsGroup(Sym(s)) /\ \A t : Sym(t) = Sym(s) => t = s
BY DEF Sym, Token, IsGroup

(* A group of digits is a token, and no symbol.                            *)
LEMMA GroupOf ==
  ASSUME NEW g \in Seq(MaskDigit), g # <<>>
  PROVE  /\ Group(g) \in Token /\ IsGroup(Group(g)) /\ Group(g).digits = g
         /\ \A s : Sym(s) # Group(g)
BY DEF Sym, Group, Token, IsGroup

(* Every group of a text is of that kind.                                  *)
LEMMA OfGroup ==
  ASSUME NEW t \in Token, IsGroup(t)
  PROVE  t = Group(t.digits) /\ t.digits \in Seq(MaskDigit) /\ t.digits # <<>>
BY DEF Sym, Group, Token, IsGroup

(* A token before a text.                                                  *)
LEMMA Before1 ==
  ASSUME NEW t \in Token, NEW r \in TokenText
  PROVE  /\ <<t>> \o r \in TokenText /\ <<t>> \o r # <<>>
         /\ Head(<<t>> \o r) = t /\ Tail(<<t>> \o r) = r
         /\ Len(<<t>> \o r) = Len(r) + 1
BY DEF TokenText

(* What is left of a text is a text.                                       *)
LEMMA Left ==
  ASSUME NEW r \in TokenText, r # <<>>
  PROVE  Head(r) \in Token /\ Tail(r) \in TokenText
BY DEF TokenText

(* The markers, and the flags they raise.                                  *)
LEMMA MarkerSet ==
  /\ Markers = {Sym("?"), Sym("~"), Sym("%")} /\ Markers \subseteq Token
  /\ \A m \in Markers : flags_of(m) \in Qualifier /\ flags_of(m) # {} /\ ~IsGroup(m)
  /\ \A q \in Qualifier : q # {} => \E m \in Markers : flags_of(m) = q
  /\ \A m \in Markers : \A s \in Symbols \ MarkerSymbols : m # Sym(s)
<1>1. Markers = {Sym("?"), Sym("~"), Sym("%")}
  BY DEF Markers, MarkerSymbols
<1>2. /\ flags_of(Sym("?")) = {"uncertain"} /\ flags_of(Sym("~")) = {"approximate"}
      /\ flags_of(Sym("%")) = {"uncertain", "approximate"}
  BY DEF flags_of, Sym
<1>3. \A s \in {"?", "~", "%"} : Sym(s) \in Token /\ ~IsGroup(Sym(s))
  BY Symbol DEF Symbols
<1>4. \A q \in Qualifier : q = {} \/ q = {"uncertain"} \/ q = {"approximate"} \/ q = {"uncertain", "approximate"}
  BY DEF Qualifier
<1>5. {"uncertain"} \in Qualifier /\ {"approximate"} \in Qualifier /\ {"uncertain", "approximate"} \in Qualifier
  BY DEF Qualifier
<1>6. \A m \in Markers : \A s \in Symbols \ MarkerSymbols : m # Sym(s)
  BY Symbol DEF Markers, MarkerSymbols
<1>7. \A q \in Qualifier : q # {} => \E m \in Markers : flags_of(m) = q
  BY <1>1, <1>2, <1>4
<1> QED BY <1>1, <1>2, <1>3, <1>5, <1>6, <1>7

(* A qualifier's marker.                                                   *)
LEMMA QualSymbol ==
  ASSUME NEW q \in Qualifier
  PROVE  \/ q = {} /\ qual_symbol(q) = <<>>
         \/ q # {} /\ \E m \in Markers : flags_of(m) = q /\ qual_symbol(q) = <<m>>
BY MarkerSet DEF qual_symbol

-----------------------------------------------------------------------------
(* The cursor. *)

(* The cursor's helpers leave texts.                                       *)
LEMMA CursorTypes ==
  ASSUME NEW r \in TokenText
  PROVE  /\ \A s : eat(r, s) \in TokenText
         /\ take_qualifier(r) \in Qualifier
         /\ after_qualifier(r) \in TokenText
BY Left, MarkerSet DEF eat, starts, take_qualifier, after_qualifier, Qualifier

(* A marker ahead is taken; anything else is left.                         *)
LEMMA TakesQualifier ==
  ASSUME NEW q \in Qualifier, NEW r \in TokenText, r = <<>> \/ Head(r) \notin Markers
  PROVE  /\ take_qualifier(qual_symbol(q) \o r) = q
         /\ after_qualifier(qual_symbol(q) \o r) = r
         /\ qual_symbol(q) \o r \in TokenText
<1>1. CASE q = {}
  <2>1. qual_symbol(q) = <<>>
    BY <1>1, QualSymbol
  <2>2. qual_symbol(q) \o r = r
    BY <2>1 DEF TokenText
  <2> QED BY <1>1, <2>2 DEF take_qualifier, after_qualifier
<1>2. CASE q # {}
  <2>1. PICK m \in Markers : flags_of(m) = q /\ qual_symbol(q) = <<m>>
    BY <1>2, QualSymbol
  <2>2. m \in Token
    BY MarkerSet
  <2> QED BY <1>2, <2>1, <2>2, Before1 DEF take_qualifier, after_qualifier
<1> QED BY <1>1, <1>2

-----------------------------------------------------------------------------
(* Numbers. *)

(* A number is built up digit by digit.                                    *)
LEMMA NumberBuilt ==
  ASSUME NEW g \in Seq(Digit)
  PROVE  \E u \in [0..Len(g) -> Nat] : /\ u[0] = 0 /\ number(g) = u[Len(g)]
                                       /\ \A k \in 1..Len(g) : u[k] = 10 * u[k - 1] + g[k]
<1> DEFINE n == Len(g)
           F == [i \in 1..n |-> [s \in Nat |-> 10 * s + g[i]]]
           Built(h) == h = [k \in 0..n |-> IF k = 0 THEN 0 ELSE 10 * h[k - 1] + g[k]]
           u == CHOOSE h : Built(h)
<1>0. n \in Nat /\ \A k \in 1..n : g[k] \in 0..9
  BY DEF Digit
<1>1. F \in [1..n -> [Nat -> Nat]]
  <2>1. \A i \in 1..n, s \in Nat : 10 * s + g[i] \in Nat
    BY <1>0
  <2> QED BY <2>1
<1>2. PICK h \in [0..n -> Nat] : h[0] = 0 /\ \A i \in 1..n : h[i] = F[i][h[i - 1]]
  <2> HIDE DEF F, n
  <2>1. Iterated(n, Nat, 0, F)
    BY <1>0, <1>1, Stepwise
  <2> QED BY <2>1 DEF Iterated
<1>3. ASSUME NEW i \in 1..n PROVE h[i] = 10 * h[i - 1] + g[i]
  <2>1. h[i - 1] \in Nat
    BY <1>0
  <2>2. h[i] = F[i][h[i - 1]]
    BY <1>2
  <2> QED BY <2>1, <2>2
<1>4. Built(h)
  <2>1. \A k \in 0..n : k # 0 => k \in 1..n
    OBVIOUS
  <2>2. \A k \in 0..n : h[k] = IF k = 0 THEN 0 ELSE 10 * h[k - 1] + g[k]
    BY <1>2, <1>3, <2>1, Zenon
  <2> QED BY <2>2
<1>5. Built(u)
  <2> HIDE DEF Built
  <2> QED BY <1>4
<1>6. number(g) = u[n]
  BY DEF number
<1> HIDE DEF u
<1>7. u[0] = 0 /\ \A k \in 1..n : u[k] = 10 * u[k - 1] + g[k]
  BY <1>0, <1>5
<1>8. \A k \in 0..n : u[k] \in Nat
  <2> DEFINE H == {k \in 0..n : u[k] \in Nat}
  <2>1. 0 \in H
    BY <1>0, <1>7
  <2>2. ASSUME NEW k \in 1..n, k - 1 \in H PROVE k \in H
    <3>1. u[k - 1] \in Nat /\ g[k] \in 0..9
      BY <1>0, <2>2
    <3>2. u[k] = 10 * u[k - 1] + g[k]
      BY <1>7
    <3>3. u[k] \in Nat
      BY <3>1, <3>2
    <3> QED BY <3>3
  <2>3. 0..n \subseteq H
    <3> HIDE DEF H
    <3> QED BY <1>0, <2>1, <2>2, Climb
  <2> QED BY <2>3
<1>9. DOMAIN u = 0..n /\ u = [k \in 0..n |-> u[k]]
  BY <1>5
<1> QED BY <1>6, <1>7, <1>8, <1>9

(* Powers of ten, as far as an i64's digits go.                            *)
LEMMA TenTimes ==
  ASSUME NEW e \in 0..MaxPow10
  PROVE  10^e \in Nat \ {0} /\ 10^(e + 1) = 10 * 10^e /\ 10^(e + 1) \in Nat \ {0}
BY I64Assumption

(* Dividing by ten drops a digit.                                          *)
LEMMA DropsDigit ==
  ASSUME NEW n \in Nat, NEW a \in Nat, a > 0
  PROVE  n \div a = 10 * (n \div (10 * a)) + ((n \div a) % 10)
<1> DEFINE q == n \div a
           p == q \div 10
           r == n % a
           s == q % 10
<1>1. q \in Nat /\ r \in 0..(a - 1) /\ n = a * q + r
  OBVIOUS
<1>2. p \in Nat /\ s \in 0..9 /\ q = 10 * p + s
  BY <1>1
<1>3. n = (10 * a) * p + (a * s + r)
  <2> HIDE DEF q, p, r, s
  <2>1. a * q = a * (10 * p) + a * s
    BY <1>1, <1>2
  <2>2. a * (10 * p) = (10 * a) * p
    BY <1>2
  <2> QED BY <1>1, <1>2, <2>1, <2>2
<1>4. a * s + r \in 0..(10 * a - 1)
  <2> HIDE DEF q, p, r, s
  <2>1. a * s <= 9 * a /\ a * s >= 0 /\ a * s \in Int
    BY <1>2
  <2> QED BY <1>1, <2>1
<1>5. n \div (10 * a) = p
  <2> HIDE DEF q, p, r, s
  <2> DEFINE b == 10 * a
             c == a * s + r
  <2>1. b \in Nat /\ b > 0 /\ c \in 0..(b - 1) /\ n = b * p + c
    BY <1>2, <1>3, <1>4
  <2> HIDE DEF b, c
  <2>2. n \div b = p
    BY <1>2, <2>1
  <2> QED BY <2>2 DEF b
<1> QED BY <1>2, <1>5

(* The digits a number is written with.                                    *)
LEMMA DigitsWritten ==
  ASSUME NEW n \in 0..I64Max
  PROVE  \E g \in Seq(Digit) : /\ NumberText(n) = <<Group(g)>> /\ g # <<>>
                                /\ Len(g) = decimal_digits(n) /\ number(g) = n /\ ~has_x(g)
<1> DEFINE w == decimal_digits(n)
           g == [i \in 1..w |-> (n \div 10^(w - i)) % 10]
<1>1. w \in 1..(MaxPow10 + 1) /\ n < 10^w
  BY DigitsCounted, Numbers
<1> HIDE DEF w
<1>2. \A i \in 1..w : w - i \in 0..MaxPow10 /\ 10^(w - i) \in Nat \ {0}
  BY <1>1, TenTimes, Numbers
<1>3. \A i \in 1..w : (n \div 10^(w - i)) % 10 \in Digit
  BY <1>2, Numbers DEF Digit
<1>4. g \in Seq(Digit) /\ Len(g) = w
  BY <1>1, <1>3, Numbers
<1>5. PICK u \in [0..Len(g) -> Nat] : /\ u[0] = 0 /\ number(g) = u[Len(g)]
                                       /\ \A k \in 1..Len(g) : u[k] = 10 * u[k - 1] + g[k]
  <2> HIDE DEF g
  <2> QED BY <1>4, NumberBuilt
<1> DEFINE H == {k \in 0..w : u[k] = n \div 10^(w - k)}
<1>6. 0 \in H
  <2>1. n \div 10^w = 0
    <3>1. 10^w \in Nat \ {0}
      <4>1. w - 1 \in 0..MaxPow10 /\ (w - 1) + 1 = w
        BY <1>1, Numbers
      <4> QED BY <4>1, TenTimes
    <3> DEFINE b == 10^w
    <3>2. b \in Nat \ {0} /\ n < b /\ n \in Nat
      BY <1>1, <3>1, Numbers
    <3> HIDE DEF b
    <3>3. n \div b = 0
      BY <3>2
    <3> QED BY <3>3 DEF b
  <2>2. w - 0 = w /\ 0 \in 0..w
    BY <1>1, Numbers
  <2> QED BY <1>5, <2>1, <2>2
<1>7. ASSUME NEW k \in 1..w, k - 1 \in H
      PROVE  k \in H
  <2>1. w - k \in 0..MaxPow10 /\ 10^(w - k) \in Nat \ {0} /\ w - (k - 1) = (w - k) + 1
    BY <1>1, <1>2
  <2>2. 10^(w - (k - 1)) = 10 * 10^(w - k)
    BY <2>1, TenTimes
  <2>3. u[k - 1] = n \div (10 * 10^(w - k))
    BY <1>7, <2>2
  <2>4. u[k] = 10 * u[k - 1] + ((n \div 10^(w - k)) % 10)
    BY <1>4, <1>5
  <2>5. n \div 10^(w - k) = 10 * (n \div (10 * 10^(w - k))) + ((n \div 10^(w - k)) % 10)
    <3> DEFINE a == 10^(w - k)
    <3>1. a \in Nat /\ a > 0 /\ n \in Nat
      BY <2>1, Numbers
    <3> HIDE DEF a
    <3>2. n \div a = 10 * (n \div (10 * a)) + ((n \div a) % 10)
      BY <3>1, DropsDigit
    <3> QED BY <3>2 DEF a
  <2> QED BY <2>3, <2>4, <2>5
<1>8. 0..w \subseteq H
  <2>1. w \in Nat
    BY <1>1, Numbers
  <2> HIDE DEF H
  <2> QED BY <2>1, <1>6, <1>7, Climb
<1>9. number(g) = n
  <2>1. w \in H /\ w - w = 0
    <3>1. w \in 0..w /\ w - w = 0
      BY <1>1, Numbers
    <3> HIDE DEF H
    <3> QED BY <1>8, <3>1
  <2>2. u[w] = n \div 10^0
    BY <2>1
  <2>3. n \div 1 = n
    BY Numbers
  <2> QED BY <1>4, <1>5, <2>2, <2>3, Powers
<1>10. NumberText(n) = <<Group(g)>>
  BY DEF NumberText, w
<1>11. ~has_x(g) /\ g # <<>>
  <2>1. \A i \in DOMAIN g : g[i] \in Digit /\ g[i] # X
    BY <1>3 DEF X, Digit
  <2>2. Len(g) # 0
    BY <1>1, <1>4, Numbers
  <2> HIDE DEF g
  <2> QED BY <1>4, <2>1, <2>2 DEF has_x
<1> HIDE DEF g
<1> QED BY <1>4, <1>9, <1>10, <1>11 DEF w

-----------------------------------------------------------------------------
(* Records. *)

(* An option holds nothing, or a member of its set.                        *)
LEMMA Options ==
  ASSUME NEW S
  PROVE  /\ None \in Option(S)
         /\ \A v \in S : Some(v) \in Option(S) /\ IsSome(Some(v)) /\ Get(Some(v)) = v
         /\ \A o \in Option(S) : o = None \/ (IsSome(o) /\ Get(o) \in S /\ o = Some(Get(o)))
<1>1. None \in Option(S)
  BY DEF None, Option
<1>2. ASSUME NEW v \in S PROVE Some(v) \in Option(S) /\ IsSome(Some(v)) /\ Get(Some(v)) = v
  BY DEF Some, Option, IsSome, None, Get
<1>3. ASSUME NEW o \in Option(S) PROVE o = None \/ (IsSome(o) /\ Get(o) \in S /\ o = Some(Get(o)))
  <2>1. o \in Seq(S) /\ Len(o) <= 1
    BY DEF Option
  <2>2. CASE Len(o) = 0
    BY <2>1, <2>2 DEF None
  <2>3. CASE Len(o) = 1
    <3>1. o[1] \in S /\ o = <<o[1]>> /\ o # <<>>
      BY <2>1, <2>3
    <3> QED BY <3>1 DEF IsSome, None, Get, Some
  <2>4. Len(o) = 0 \/ Len(o) = 1
    <3>1. Len(o) \in Nat
      BY <2>1, LenProperties
    <3>2. \A n \in Nat : n <= 1 => n = 0 \/ n = 1
      OBVIOUS
    <3> QED BY <2>1, <3>1, <3>2
  <2> QED BY <2>2, <2>3, <2>4
<1> QED BY <1>1, <1>2, <1>3

(* The forms of a year.                                                    *)
LEMMA KindForms ==
  /\ \A k \in YearKinds :
       \/ k.form = "Standard" /\ k.negative \in BOOLEAN /\ k.digits \in [1..4 -> MaskDigit]
                              /\ k = Standard(k.negative, k.digits)
       \/ k.form = "Big" /\ k.value \in -I64Max..I64Max /\ k = Big(k.value)
       \/ k.form = "Exponential" /\ k.significand \in -I64Max..I64Max /\ k.exponent \in Nat
                                 /\ k = Exponential(k.significand, k.exponent)
  /\ \A b \in BOOLEAN, g \in [1..4 -> MaskDigit] : Standard(b, g) \in YearKinds
  /\ \A v \in -I64Max..I64Max : Big(v) \in YearKinds
  /\ \A v \in -I64Max..I64Max, e \in Nat : Exponential(v, e) \in YearKinds
<1>1. ASSUME NEW k \in YearKinds
      PROVE  \/ k.form = "Standard" /\ k.negative \in BOOLEAN /\ k.digits \in [1..4 -> MaskDigit]
                              /\ k = Standard(k.negative, k.digits)
             \/ k.form = "Big" /\ k.value \in -I64Max..I64Max /\ k = Big(k.value)
             \/ k.form = "Exponential" /\ k.significand \in -I64Max..I64Max /\ k.exponent \in Nat
                                 /\ k = Exponential(k.significand, k.exponent)
  <2>1. CASE k \in [form : {"Standard"}, negative : BOOLEAN, digits : [1..4 -> MaskDigit]]
    BY <2>1 DEF Standard
  <2>2. CASE k \in [form : {"Big"}, value : -I64Max..I64Max]
    BY <2>2 DEF Big
  <2>3. CASE k \in [form : {"Exponential"}, significand : -I64Max..I64Max, exponent : Nat]
    BY <2>3 DEF Exponential
  <2> QED BY <2>1, <2>2, <2>3 DEF YearKinds
<1> QED BY <1>1 DEF YearKinds, Standard, Big, Exponential

(* The parts of a date record, and the record of its parts.                *)
LEMMA DateParts ==
  /\ \A d \in Dates :
       /\ d = Date(d.year, d.month, d.day)
       /\ d.year = Year(d.year.kind, d.year.significant_digits, d.year.qualifier)
       /\ d.year.kind \in YearKinds /\ d.year.significant_digits \in Option(Nat)
       /\ d.year.qualifier \in Qualifier
       /\ d.month \in Option(Fields) /\ d.day \in Option(Fields)
  /\ \A k \in YearKinds, s \in Option(Nat), q \in Qualifier, m \in Option(Fields), f \in Option(Fields) :
       Date(Year(k, s, q), m, f) \in Dates
BY DEF Dates, Years, Date, Year

(* The parts of a field.                                                   *)
LEMMA FieldParts ==
  /\ \A f \in Fields : /\ f.digits \in [1..2 -> MaskDigit] /\ f.qualifier \in Qualifier
                       /\ f = Field(f.digits, f.qualifier)
  /\ \A g \in [1..2 -> MaskDigit], q \in Qualifier : Field(g, q) \in Fields
BY DEF Fields, Field

(* A group of a text, when it has n digits.                                *)
LEMMA GroupDigits ==
  ASSUME NEW r \in TokenText, NEW n \in Nat, group_ahead(r, n)
  PROVE  /\ Head(r).digits \in [1..n -> MaskDigit]
         /\ Tail(r) \in TokenText /\ r # <<>>
<1>1. r # <<>> /\ IsGroup(Head(r)) /\ Len(Head(r).digits) = n
  BY DEF group_ahead
<1>2. Head(r) \in Token /\ Tail(r) \in TokenText
  BY <1>1, Left
<1>3. Head(r).digits \in Seq(MaskDigit)
  BY <1>1, <1>2, OfGroup
<1> QED BY <1>1, <1>2, <1>3

(* A number that is read fits an i64.                                      *)
LEMMA NumberTaken ==
  ASSUME NEW r \in TokenText
  PROVE  \/ take_number(r) = None
         \/ /\ take_number(r) # None /\ take_number(r) = Some(Get(take_number(r)))
            /\ Get(take_number(r)) \in 0..I64Max
            /\ r # <<>> /\ Tail(r) \in TokenText /\ Len(Head(r).digits) \in Nat
<1>1. CASE r # <<>> /\ IsGroup(Head(r)) /\ ~has_x(Head(r).digits)
  <2> DEFINE g == Head(r).digits
  <2>1. Head(r) \in Token /\ Tail(r) \in TokenText
    BY <1>1, Left
  <2>2. g \in Seq(MaskDigit)
    BY <1>1, <2>1, OfGroup
  <2>3. \A i \in 1..Len(g) : g[i] \in Digit
    BY <1>1, <2>2 DEF has_x, MaskDigit, X
  <2>4. g \in Seq(Digit)
    <3> HIDE DEF g
    <3>1. g = [i \in 1..Len(g) |-> g[i]] /\ Len(g) \in Nat
      BY <2>2
    <3> QED BY <2>3, <3>1
  <2>5. number(g) \in Nat
    <3> HIDE DEF g
    <3> QED BY <2>4, NumberBuilt
  <2>6. take_number(r) = fitting_number(number(g))
    BY <1>1 DEF take_number
  <2>7. Len(g) \in Nat
    BY <2>2
  <2> HIDE DEF g
  <2> QED BY <1>1, <2>1, <2>5, <2>6, <2>7, SomeFacts, Numbers DEF fitting_number, g
<1>2. CASE ~(r # <<>> /\ IsGroup(Head(r)) /\ ~has_x(Head(r).digits))
  BY <1>2 DEF take_number
<1> QED BY <1>1, <1>2

(* A letter and its number.                                                *)
LEMMA SuffixTaken ==
  ASSUME NEW r \in TokenText, NEW s \in Symbols, suffix_ahead(r, s)
  PROVE  /\ suffix(r, s) \in Option(0..I64Max) /\ after_suffix(r, s) \in TokenText
         /\ starts(r, s) => IsSome(suffix(r, s))
         /\ ~starts(r, s) => suffix(r, s) = None
<1>1. CASE starts(r, s)
  <2>1. r # <<>> /\ Tail(r) \in TokenText
    BY <1>1, Left DEF starts
  <2>2. take_number(Tail(r)) # None
    BY <1>1 DEF suffix_ahead
  <2>3. /\ take_number(Tail(r)) = Some(Get(take_number(Tail(r))))
        /\ Get(take_number(Tail(r))) \in 0..I64Max /\ Tail(Tail(r)) \in TokenText
    BY <2>1, <2>2, NumberTaken
  <2>4. take_number(Tail(r)) \in Option(0..I64Max)
    BY <2>3, Options
  <2> QED BY <1>1, <2>2, <2>3, <2>4 DEF suffix, after_suffix, IsSome
<1>2. CASE ~starts(r, s)
  BY <1>2, Options DEF suffix, after_suffix
<1> QED BY <1>1, <1>2

(* Marking the components of a date.                                       *)
LEMMA Marks ==
  ASSUME NEW d \in Dates, NEW q \in Qualifier
  PROVE  /\ marked(d, q) \in Dates
         /\ marked(d, q).year.kind = d.year.kind
         /\ marked(d, q).year.significant_digits = d.year.significant_digits
         /\ marked(d, q).year.qualifier = d.year.qualifier \cup q
         /\ marked(d, q).month = mark_field(d.month, q)
         /\ marked(d, q).day = mark_field(d.day, q)
         /\ d.month = None <=> marked(d, q).month = None
         /\ d.day = None <=> marked(d, q).day = None
<1>1. ASSUME NEW o \in Option(Fields)
      PROVE  mark_field(o, q) \in Option(Fields) /\ (o = None <=> mark_field(o, q) = None)
  <2>1. CASE o = None
    BY <2>1, Options DEF mark_field
  <2>2. CASE o # None
    <3>1. Get(o) \in Fields
      BY <2>2, Options
    <3>2. Field(Get(o).digits, Get(o).qualifier \cup q) \in Fields
      BY <3>1, FieldParts DEF Qualifier
    <3> QED BY <2>2, <3>2, Options DEF mark_field, IsSome
  <2> QED BY <2>1, <2>2
<1>2. /\ d.year.qualifier \in Qualifier /\ d.month \in Option(Fields) /\ d.day \in Option(Fields)
      /\ d.year.kind \in YearKinds /\ d.year.significant_digits \in Option(Nat)
      /\ d = Date(d.year, d.month, d.day)
      /\ d.year = Year(d.year.kind, d.year.significant_digits, d.year.qualifier)
  BY DateParts
<1>3. d.year.qualifier \cup q \in Qualifier
  BY <1>2 DEF Qualifier
<1>4. marked(d, q) = Date(Year(d.year.kind, d.year.significant_digits, d.year.qualifier \cup q),
                          mark_field(d.month, q), mark_field(d.day, q))
  <2>1. ASSUME NEW k, NEW s, NEW p
        PROVE  [Year(k, s, p) EXCEPT !.qualifier = @ \cup q] = Year(k, s, p \cup q)
    <3>1. \A z : [Year(k, s, p) EXCEPT !.qualifier = z] = Year(k, s, z)
      BY DEF Year
    <3>2. Year(k, s, p).qualifier = p
      BY DEF Year
    <3> QED BY <3>1, <3>2
  <2>2. [d.year EXCEPT !.qualifier = @ \cup q]
          = Year(d.year.kind, d.year.significant_digits, d.year.qualifier \cup q)
    <3> DEFINE y == d.year
    <3>1. y = Year(y.kind, y.significant_digits, y.qualifier)
      BY <1>2, Zenon
    <3>2. [Year(y.kind, y.significant_digits, y.qualifier) EXCEPT !.qualifier = @ \cup q]
            = Year(y.kind, y.significant_digits, y.qualifier \cup q)
      BY <2>1
    <3>3. y.qualifier = d.year.qualifier
      OBVIOUS
    <3> HIDE DEF y
    <3>4. [y EXCEPT !.qualifier = @ \cup q] = Year(y.kind, y.significant_digits, y.qualifier \cup q)
      BY <3>1, <3>2
    <3> QED BY <3>4 DEF y
  <2> QED BY <2>2 DEF marked
<1>5. marked(d, q) \in Dates
  BY <1>1, <1>2, <1>3, <1>4, DateParts
<1> QED BY <1>1, <1>2, <1>4, <1>5 DEF Date, Year

-----------------------------------------------------------------------------
(* The inductive invariant: what is known of the date in hand, of the part *)
(* it belongs to, of the parts that are read, and of the outcome.          *)
NoSlots(d) == d.month = None /\ d.day = None
Unsuffixed(d) == d.year.significant_digits = None
FourDigits(kind) ==
  kind.form = "Standard" /\ (kind.negative => ~has_x(kind.digits) /\ kind.digits # <<0, 0, 0, 0>>)

(* A date whose text is read, before its month and day are validated.      *)
Complete(d) ==
  IF d.year.kind.form = "Standard"
  THEN /\ FourDigits(d.year.kind)
       /\ d.year.significant_digits # None =>
            ~has_x(d.year.kind.digits) /\ Get(d.year.significant_digits) \in 1..4 /\ d.month = None
       /\ d.day # None => d.month # None
  ELSE ValidPrefixedYear(d)

(* What each stage of the scan has established.                            *)
Prefixed(d, w) == /\ Unsuffixed(d) /\ NoSlots(d) /\ d.year.kind.form # "Standard"
                  /\ ValidPrefixedYear(d) /\ w = digit_count(d.year.kind)

StageInv(stage, d, w) ==
  /\ stage = "significant" => FourDigits(d.year.kind) /\ Unsuffixed(d) /\ NoSlots(d)
  /\ stage = "year end" => Complete(d) /\ d.year.kind.form = "Standard" /\ NoSlots(d)
  /\ stage = "month" => FourDigits(d.year.kind) /\ Unsuffixed(d) /\ NoSlots(d)
  /\ stage = "day" => FourDigits(d.year.kind) /\ Unsuffixed(d) /\ IsSome(d.month) /\ d.day = None
  /\ stage = "exponent" =>
       /\ d.year.kind.form = "Big" /\ Unsuffixed(d) /\ NoSlots(d)
       /\ d.year.kind.value # 0 => w = decimal_digits(Abs(d.year.kind.value))
  /\ stage = "digits" => Prefixed(d, w)
  /\ stage = "finish" => Complete(d)

DateInv == pc \in Scanning \ {"date"} => date \in Dates /\ StageInv(pc, date, width)

(* The dates of a part that are read, in hand, and not begun.              *)
DateCount(kind) == IF kind \in {"Unknown", "Open"} THEN 0 ELSE IF kind = "Range" THEN 2 ELSE 1

PartInv ==
  pc \in {"next"} \cup Scanning =>
    /\ Len(dates) + Len(slices) + (IF pc \in Scanning THEN 1 ELSE 0) = DateCount(part)
    /\ shape(text) = "Date" => part = "Date"

(* The parts that are read.                                                *)
ValidEnd(e) == /\ is_dated(e) => ValidDate(e.date)
               /\ e.kind = "Range" => ValidDate(e.to)

ShapedEnd(t, e) == /\ shape(t) = "Date" => e.kind = "Date"
                   /\ shape(t) = "Set" => is_dated(e) /\ range_agrees(e)

EndsInv ==
  pc \in {"part", "next"} \cup Scanning =>
    /\ shape(text) \in {"Date", "Interval", "Set"}
    /\ \A i \in DOMAIN ends : ValidEnd(ends[i]) /\ ShapedEnd(text, ends[i])
    /\ pc = "part" /\ later = None => ends # <<>>

StartInv == pc = "start" => ends = <<>>

Kinds == {"Unknown", "Open", "OnOrBefore", "OnOrAfter", "Range", "Date"}

(* What the first parse gave is what is rendered.                          *)
FirstInv == IsSome(first) => Accepted(Get(first)) /\ text = display(Get(first))

IInv == TypeOK /\ part \in Kinds /\ width \in Nat /\ DateInv /\ PartInv /\ EndsInv /\ StartInv /\ FirstInv

-----------------------------------------------------------------------------
(* The selectors of a date. *)

(* What a date's, a year's and a field's parts are.                        *)
LEMMA Selectors ==
  ASSUME NEW k, NEW s, NEW q, NEW m, NEW f, NEW y, NEW g
  PROVE  /\ Date(y, m, f).year = y /\ Date(y, m, f).month = m /\ Date(y, m, f).day = f
         /\ Year(k, s, q).kind = k /\ Year(k, s, q).significant_digits = s /\ Year(k, s, q).qualifier = q
         /\ Field(g, q).digits = g /\ Field(g, q).qualifier = q
BY DEF Date, Year, Field

(* A date with a part of it replaced.                                      *)
LEMMA Updates ==
  ASSUME NEW d \in Dates
  PROVE  /\ \A y : [d EXCEPT !.year = y] = Date(y, d.month, d.day)
         /\ \A m : [d EXCEPT !.month = m] = Date(d.year, m, d.day)
         /\ \A f : [d EXCEPT !.day = f] = Date(d.year, d.month, f)
         /\ \A s : [d EXCEPT !.year.significant_digits = s]
                     = Date(Year(d.year.kind, s, d.year.qualifier), d.month, d.day)
         /\ \A k : [d EXCEPT !.year.kind = k]
                     = Date(Year(k, d.year.significant_digits, d.year.qualifier), d.month, d.day)
<1>1. /\ d = Date(d.year, d.month, d.day)
      /\ d.year = Year(d.year.kind, d.year.significant_digits, d.year.qualifier)
  BY DateParts
<1>2. \A y, m, f, z : /\ [Date(y, m, f) EXCEPT !.year = z] = Date(z, m, f)
                      /\ [Date(y, m, f) EXCEPT !.month = z] = Date(y, z, f)
                      /\ [Date(y, m, f) EXCEPT !.day = z] = Date(y, m, z)
  BY DEF Date
<1>3. \A k, s, q, z : /\ [Year(k, s, q) EXCEPT !.significant_digits = z] = Year(k, z, q)
                      /\ [Year(k, s, q) EXCEPT !.kind = z] = Year(z, s, q)
  BY DEF Year
<1>4. \A y : [d EXCEPT !.year = y] = Date(y, d.month, d.day)
  BY <1>1, <1>2
<1>5. \A m : [d EXCEPT !.month = m] = Date(d.year, m, d.day)
  BY <1>1, <1>2
<1>8. \A f : [d EXCEPT !.day = f] = Date(d.year, d.month, f)
  BY <1>1, <1>2
<1>6. \A s : [d EXCEPT !.year.significant_digits = s]
                     = Date(Year(d.year.kind, s, d.year.qualifier), d.month, d.day)
  <2> TAKE s
  <2>1. [d EXCEPT !.year.significant_digits = s] = [d EXCEPT !.year = [d.year EXCEPT !.significant_digits = s]]
    OBVIOUS
  <2>2. [d.year EXCEPT !.significant_digits = s] = Year(d.year.kind, s, d.year.qualifier)
    BY <1>1, <1>3
  <2> QED BY <1>4, <2>1, <2>2
<1>7. \A k : [d EXCEPT !.year.kind = k]
                     = Date(Year(k, d.year.significant_digits, d.year.qualifier), d.month, d.day)
  <2> TAKE k
  <2>1. [d EXCEPT !.year.kind = k] = [d EXCEPT !.year = [d.year EXCEPT !.kind = k]]
    OBVIOUS
  <2>2. [d.year EXCEPT !.kind = k] = Year(k, d.year.significant_digits, d.year.qualifier)
    BY <1>1, <1>3
  <2> QED BY <1>4, <2>1, <2>2
<1> QED BY <1>4, <1>5, <1>6, <1>7, <1>8

-----------------------------------------------------------------------------
(* The scan of one date. *)

(* A step of the scan disturbs the date in hand alone.                     *)
LEMMA ScanStep ==
  ASSUME IInv, pc \in Scanning, SameDate, pc' \in Scanning \ {"date"},
         rest' \in TokenText, width' \in Nat, date' \in Dates, StageInv(pc', date', width')
  PROVE  IInv'
<1>1. pc \notin {"start", "part", "next", "parsed", "rejected"} /\ pc' \notin {"start", "part", "next", "parsed", "rejected"}
      /\ pc' \in Scanning
  BY DEF Scanning
<1> USE DEF IInv, SameDate, SamePart, SameText
<1>2. TypeOK'
  BY <1>1 DEF TypeOK
<1>3. part' \in Kinds /\ width' \in Nat
  OBVIOUS
<1>4. DateInv'
  BY DEF DateInv
<1>5. PartInv'
  BY <1>1 DEF PartInv
<1>6. EndsInv'
  BY <1>1 DEF EndsInv
<1>7. StartInv' /\ FirstInv'
  BY <1>1 DEF StartInv, FirstInv
<1> QED BY <1>2, <1>3, <1>4, <1>5, <1>6, <1>7

(* A four-digit year.                                                      *)
LEMMA ReadYearIInv == IInv /\ ReadYear => IInv'
<1> SUFFICES ASSUME IInv, ReadYear PROVE IInv'
  OBVIOUS
<1> DEFINE signed == after_qualifier(rest)
           r == eat(signed, "-")
           k == Standard(starts(signed, "-"), Head(r).digits)
<1>1. rest \in TokenText
  BY DEF IInv, TypeOK
<1>2. signed \in TokenText /\ r \in TokenText /\ take_qualifier(rest) \in Qualifier
  BY <1>1, CursorTypes
<1>3. pc = "date" /\ group_ahead(r, 4) /\ (starts(signed, "-") => year_may_be_negative(year_at(rest).kind.digits))
  BY DEF ReadYear, year_ahead
<1>4. Head(r).digits \in [1..4 -> MaskDigit] /\ Tail(r) \in TokenText
  BY <1>2, <1>3, GroupDigits
<1>5. k \in YearKinds /\ k.form = "Standard" /\ k.digits = Head(r).digits /\ k.negative = starts(signed, "-")
  <2>1. starts(signed, "-") \in BOOLEAN
    BY DEF starts
  <2> QED BY <1>4, <2>1, KindForms DEF Standard
<1>6. year_at(rest) = Year(k, None, take_qualifier(rest)) /\ after_year(rest) = Tail(r)
  BY DEF year_at, after_year
<1>7. date' = Date(Year(k, None, take_qualifier(rest)), None, None)
  BY <1>6 DEF ReadYear
<1> HIDE DEF k, r, signed
<1>8. date' \in Dates
  BY <1>2, <1>5, <1>7, DateParts, Options
<1>9. StageInv("significant", date', width')
  <2>1. FourDigits(k)
    BY <1>3, <1>5, <1>6, Selectors DEF FourDigits, year_may_be_negative
  <2> QED BY <1>7, <2>1, Selectors DEF StageInv, Unsuffixed, NoSlots
<1>10. pc' = "significant" /\ rest' = Tail(r) /\ SameDate /\ width' = width /\ width \in Nat
  BY <1>6 DEF ReadYear, SameYear, IInv
<1> QED BY <1>3, <1>4, <1>8, <1>9, <1>10, ScanStep DEF Scanning

(* Its S suffix.                                                           *)
LEMMA ReadSignificantIInv == IInv /\ ReadSignificant => IInv'
<1> SUFFICES ASSUME IInv, ReadSignificant PROVE IInv'
  OBVIOUS
<1> DEFINE s == suffix(rest, "S")
<1>1. rest \in TokenText /\ pc = "significant" /\ date \in Dates /\ StageInv("significant", date, width)
  BY DEF IInv, TypeOK, ReadSignificant, significant_ahead, DateInv, Scanning
<1>2. suffix_ahead(rest, "S") /\ (starts(rest, "S") => ~has_x(date.year.kind.digits) /\ Get(s) \in 1..4)
  BY DEF ReadSignificant, significant_ahead
<1>3. s \in Option(0..I64Max) /\ after_suffix(rest, "S") \in TokenText /\ (~starts(rest, "S") => s = None)
  BY <1>1, <1>2, SuffixTaken DEF Symbols
<1>4. s \in Option(Nat)
  <2>1. 0..I64Max \subseteq Nat
    BY Numbers
  <2> QED BY <1>3, <2>1, Options
<1>5. date' = Date(Year(date.year.kind, s, date.year.qualifier), date.month, date.day)
  BY <1>1, Updates DEF ReadSignificant
<1>6. date' \in Dates
  BY <1>1, <1>4, <1>5, DateParts
<1>7. StageInv("year end", date', width')
  BY <1>1, <1>2, <1>3, <1>5, Selectors DEF StageInv, Complete, FourDigits, NoSlots
<1>8. pc' = "year end" /\ rest' = after_suffix(rest, "S") /\ SameDate /\ width' = width /\ width \in Nat
  BY DEF ReadSignificant, SameYear, IInv
<1> QED BY <1>1, <1>3, <1>6, <1>7, <1>8, ScanStep DEF Scanning

(* What follows a component is a text.                                     *)
LEMMA Continues ==
  ASSUME NEW r \in TokenText, NEW next, Continue(r, next)
  PROVE  rest' \in TokenText /\ pc' \in {"finish", next} /\ (r = <<>> => pc' = "finish")
BY CursorTypes DEF Continue

(* The year's end.                                                         *)
LEMMA EndYearIInv == IInv /\ EndYear => IInv'
<1> SUFFICES ASSUME IInv, EndYear PROVE IInv'
  OBVIOUS
<1> DEFINE q == take_qualifier(rest)
           r == after_qualifier(rest)
<1>1. rest \in TokenText /\ pc = "year end" /\ date \in Dates /\ StageInv("year end", date, width)
  BY DEF IInv, TypeOK, EndYear, year_end_ahead, DateInv, Scanning
<1>2. q \in Qualifier /\ r \in TokenText
  BY <1>1, CursorTypes
<1>3. rest' \in TokenText /\ pc' \in {"finish", "month"} /\ (r = <<>> => pc' = "finish")
  BY <1>2, Continues DEF EndYear
<1>4. IsSome(date.year.significant_digits) => r = <<>>
  BY DEF EndYear, year_end_ahead
<1>5. date' = marked(date, q) /\ SameDate /\ width' = width /\ width \in Nat
  BY DEF EndYear, SameYear, IInv
<1>6. /\ date' \in Dates /\ date'.year.kind = date.year.kind
      /\ date'.year.significant_digits = date.year.significant_digits
      /\ date'.month = None /\ date'.day = None
  <2>1. date.month = None /\ date.day = None
    BY <1>1 DEF StageInv, NoSlots
  <2> QED BY <1>1, <1>2, <1>5, <2>1, Marks
<1>7. StageInv(pc', date', width')
  BY <1>1, <1>3, <1>4, <1>6 DEF StageInv, Complete, Unsuffixed, NoSlots, IsSome
<1> QED BY <1>1, <1>3, <1>5, <1>6, <1>7, ScanStep DEF Scanning

(* A field of two digits and what follows it.                              *)
LEMMA FieldAt ==
  ASSUME NEW r \in TokenText, group_ahead(after_qualifier(r), 2)
  PROVE  /\ field_at(r) \in Fields /\ after_field(r) \in TokenText
         /\ take_qualifier(after_field(r)) \in Qualifier
         /\ after_qualifier(after_field(r)) \in TokenText
<1>1. after_qualifier(r) \in TokenText /\ take_qualifier(r) \in Qualifier
  BY CursorTypes
<1>2. Head(after_qualifier(r)).digits \in [1..2 -> MaskDigit] /\ Tail(after_qualifier(r)) \in TokenText
  BY <1>1, GroupDigits
<1> QED BY <1>1, <1>2, FieldParts, CursorTypes DEF field_at, after_field

(* A month.                                                                *)
LEMMA ReadMonthIInv == IInv /\ ReadMonth => IInv'
<1> SUFFICES ASSUME IInv, ReadMonth PROVE IInv'
  OBVIOUS
<1> DEFINE f == field_at(rest)
           q == take_qualifier(after_field(rest))
           r == after_qualifier(after_field(rest))
           d == [date EXCEPT !.month = Some(f)]
<1>1. rest \in TokenText /\ pc = "month" /\ date \in Dates /\ StageInv("month", date, width)
  BY DEF IInv, TypeOK, ReadMonth, month_ahead, DateInv, Scanning
<1>2. f \in Fields /\ q \in Qualifier /\ r \in TokenText
  BY <1>1, FieldAt DEF ReadMonth, month_ahead
<1>3. rest' \in TokenText /\ pc' \in {"finish", "day"}
  BY <1>2, Continues DEF ReadMonth
<1>4. date' = marked(d, q) /\ SameDate /\ width' = width /\ width \in Nat
  BY DEF ReadMonth, SameYear, IInv
<1>5. d = Date(Year(date.year.kind, date.year.significant_digits, date.year.qualifier), Some(f), date.day)
  BY <1>1, Updates, DateParts
<1> HIDE DEF d, f, q, r
<1>6. d \in Dates
  <2>1. Some(f) \in Option(Fields)
    BY <1>2, Options
  <2> QED BY <1>1, <1>5, <2>1, DateParts
<1>7. /\ d.year.kind = date.year.kind /\ d.year.significant_digits = date.year.significant_digits
      /\ d.month # None /\ d.day = date.day
  <2>1. Some(f) # None
    BY DEF Some, None
  <2> QED BY <1>5, <2>1, Selectors
<1>8. /\ date' \in Dates /\ date'.year.kind = date.year.kind
      /\ date'.year.significant_digits = date.year.significant_digits
      /\ date'.month # None /\ (date'.day = None <=> date.day = None)
  BY <1>2, <1>4, <1>6, <1>7, Marks
<1>9. StageInv(pc', date', width')
  BY <1>1, <1>3, <1>8 DEF StageInv, Complete, Unsuffixed, NoSlots, IsSome, FourDigits
<1> QED BY <1>1, <1>3, <1>4, <1>8, <1>9, ScanStep DEF Scanning

(* A day.                                                                  *)
LEMMA ReadDayIInv == IInv /\ ReadDay => IInv'
<1> SUFFICES ASSUME IInv, ReadDay PROVE IInv'
  OBVIOUS
<1> DEFINE f == field_at(rest)
           q == take_qualifier(after_field(rest))
           d == [date EXCEPT !.day = Some(f)]
<1>1. rest \in TokenText /\ pc = "day" /\ date \in Dates /\ StageInv("day", date, width)
  BY DEF IInv, TypeOK, ReadDay, day_ahead, DateInv, Scanning
<1>2. f \in Fields /\ q \in Qualifier
  BY <1>1, FieldAt DEF ReadDay, day_ahead
<1>3. rest' = <<>> /\ <<>> \in TokenText /\ pc' = "finish"
  BY DEF ReadDay, TokenText
<1>4. date' = marked(d, q) /\ SameDate /\ width' = width /\ width \in Nat
  BY DEF ReadDay, SameYear, IInv
<1>5. d = Date(Year(date.year.kind, date.year.significant_digits, date.year.qualifier), date.month, Some(f))
  <2>1. d = Date(date.year, date.month, Some(f))
    BY <1>1, Updates
  <2>2. date.year = Year(date.year.kind, date.year.significant_digits, date.year.qualifier)
    BY <1>1, DateParts
  <2> QED BY <2>1, <2>2
<1> HIDE DEF d, f, q
<1>6. d \in Dates
  <2>1. Some(f) \in Option(Fields)
    BY <1>2, Options
  <2> QED BY <1>1, <1>5, <2>1, DateParts
<1>7. /\ d.year.kind = date.year.kind /\ d.year.significant_digits = date.year.significant_digits
      /\ d.month = date.month
  BY <1>5, Selectors
<1>8. /\ date' \in Dates /\ date'.year.kind = date.year.kind
      /\ date'.year.significant_digits = date.year.significant_digits
      /\ (date'.month = None <=> date.month = None)
  BY <1>2, <1>4, <1>6, <1>7, Marks
<1>9. StageInv("finish", date', width')
  BY <1>1, <1>8 DEF StageInv, Complete, Unsuffixed, IsSome, FourDigits
<1> QED BY <1>1, <1>3, <1>4, <1>8, <1>9, ScanStep DEF Scanning

(* The sign of a mantissa.                                                 *)
LEMMA Signed ==
  ASSUME NEW n \in 0..I64Max, NEW s \in {-1, 1}
  PROVE  s * n \in -I64Max..I64Max /\ Abs(s * n) = n /\ (s * n = 0 <=> n = 0)
BY Numbers DEF Abs

(* A mantissa that is ahead.                                               *)
LEMMA MantissaAhead ==
  ASSUME NEW r \in TokenText, is_mantissa(r)
  PROVE  /\ Get(take_number(r)) \in 0..I64Max /\ Tail(r) \in TokenText /\ r # <<>>
         /\ Len(Head(r).digits) \in Nat
         /\ Get(take_number(r)) # 0 => Len(Head(r).digits) = decimal_digits(Get(take_number(r)))
<1>1. take_number(r) # None
  BY DEF is_mantissa
<1>2. /\ take_number(r) = Some(Get(take_number(r)))
      /\ Get(take_number(r)) \in 0..I64Max /\ r # <<>> /\ Tail(r) \in TokenText
      /\ Len(Head(r).digits) \in Nat
  BY <1>1, NumberTaken
<1>3. Some(Get(take_number(r))) = Some(0) => Get(take_number(r)) = 0
  BY DEF Some
<1>4. Get(take_number(r)) # 0 => Len(Head(r).digits) = decimal_digits(Get(take_number(r)))
  BY <1>2, <1>3 DEF is_mantissa
<1> QED BY <1>2, <1>4

(* A prefixed year's mantissa.                                             *)
LEMMA ReadMantissaIInv == IInv /\ ReadMantissa => IInv'
<1> SUFFICES ASSUME IInv, ReadMantissa PROVE IInv'
  OBVIOUS
<1> DEFINE digits == eat(Tail(rest), "-")
           sign == IF starts(Tail(rest), "-") THEN -1 ELSE 1
           n == Get(take_number(digits))
           w == Len(Head(digits).digits)
<1>1. rest \in TokenText /\ pc = "date" /\ starts(rest, "Y") /\ is_mantissa(digits)
  BY DEF IInv, TypeOK, ReadMantissa, mantissa_ahead
<1>2. digits \in TokenText
  <2>1. Tail(rest) \in TokenText
    BY <1>1, Left DEF starts
  <2> QED BY <2>1, CursorTypes
<1>3. n \in 0..I64Max /\ Tail(digits) \in TokenText /\ w \in Nat /\ (n # 0 => w = decimal_digits(n))
  BY <1>1, <1>2, MantissaAhead
<1>4. date' = Date(Year(Big(sign * n), None, {}), None, None) /\ width' = w /\ rest' = Tail(digits)
  BY DEF ReadMantissa
<1>5. sign \in {-1, 1}
  OBVIOUS
<1>6. pc' = "exponent" /\ SameDate
  BY DEF ReadMantissa
<1> HIDE DEF digits, sign, n, w
<1>7. sign * n \in -I64Max..I64Max /\ Abs(sign * n) = n /\ (sign * n = 0 <=> n = 0)
  BY <1>3, <1>5, Signed
<1>8. date' \in Dates
  <2>1. {} \in Qualifier /\ Big(sign * n) \in YearKinds
    BY <1>7, KindForms DEF Qualifier
  <2> QED BY <1>4, <2>1, DateParts, Options
<1>9. StageInv("exponent", date', width')
  <2> DEFINE v == sign * n
  <2>1. v # 0 => w = decimal_digits(Abs(v))
    BY <1>3, <1>7
  <2>2. date' = Date(Year(Big(v), None, {}), None, None) /\ width' = w
    BY <1>4
  <2> HIDE DEF v
  <2>3. Big(v).form = "Big" /\ Big(v).value = v
    BY DEF Big
  <2> QED BY <2>1, <2>2, <2>3, Selectors DEF StageInv, Unsuffixed, NoSlots
<1>10. width' \in Nat /\ rest' \in TokenText
  BY <1>3, <1>4
<1> QED BY <1>1, <1>6, <1>8, <1>9, <1>10, ScanStep DEF Scanning

(* A year of more than four digits, in an i64.                             *)
LEMMA BeyondFour ==
  ASSUME NEW v \in -I64Max..I64Max, v > 9999 \/ v < -9999
  PROVE  Abs(v) \in 10000..I64Max
BY Numbers DEF Abs

(* No exponent.                                                            *)
LEMMA NoExponentIInv == IInv /\ NoExponent => IInv'
<1> SUFFICES ASSUME IInv, NoExponent PROVE IInv'
  OBVIOUS
<1> DEFINE k == date.year.kind
<1>1. rest \in TokenText /\ pc = "exponent" /\ date \in Dates /\ StageInv("exponent", date, width)
  BY DEF IInv, TypeOK, NoExponent, no_exponent_ahead, DateInv, Scanning
<1>2. k \in YearKinds /\ k.form = "Big"
  BY <1>1, DateParts DEF StageInv
<1>3. k.value \in -I64Max..I64Max
  BY <1>2, KindForms
<1>4. year_of(k) = Some(k.value)
  BY <1>2 DEF year_of
<1>5. Abs(k.value) > 9999
  BY <1>4 DEF NoExponent, no_exponent_ahead, beyond_four_digits, Some, None, Get
<1>6. Abs(k.value) \in 10000..I64Max /\ k.value # 0
  BY <1>3, <1>5, Numbers DEF Abs
<1>7. /\ pc' = "digits" /\ SameDate /\ width' = width /\ width \in Nat
      /\ rest' = rest /\ date' = date
  BY DEF NoExponent, SameYear, IInv
<1>8. Prefixed(date, width)
  BY <1>1, <1>2, <1>6 DEF Prefixed, StageInv, Unsuffixed, NoSlots, ValidPrefixedYear, digit_count
<1>9. StageInv("digits", date', width')
  BY <1>7, <1>8 DEF StageInv
<1> QED BY <1>1, <1>7, <1>9, ScanStep DEF Scanning

(* An exponent.                                                            *)
LEMMA ReadExponentIInv == IInv /\ ReadExponent => IInv'
<1> SUFFICES ASSUME IInv, ReadExponent PROVE IInv'
  OBVIOUS
<1> DEFINE v == date.year.kind.value
           e == Get(suffix(rest, "E"))
           k == Exponential(v, e)
<1>1. rest \in TokenText /\ pc = "exponent" /\ date \in Dates /\ StageInv("exponent", date, width) /\ width \in Nat
  BY DEF IInv, TypeOK, ReadExponent, exponent_ahead, DateInv, Scanning
<1>2. date.year.kind \in YearKinds /\ date.year.kind.form = "Big" /\ Unsuffixed(date) /\ NoSlots(date)
  BY <1>1, DateParts DEF StageInv
<1>3. v \in -I64Max..I64Max /\ v # 0
  BY <1>2, KindForms DEF ReadExponent, exponent_ahead
<1>4. starts(rest, "E") /\ suffix_ahead(rest, "E") /\ e <= MaxExponent /\ beyond_four_digits(k)
  BY DEF ReadExponent, exponent_ahead, exponential_at
<1>5. suffix(rest, "E") \in Option(0..I64Max) /\ IsSome(suffix(rest, "E")) /\ after_suffix(rest, "E") \in TokenText
  BY <1>1, <1>4, SuffixTaken DEF Symbols
<1>6. e \in 0..I64Max
  BY <1>5, Options DEF IsSome
<1>7. e \in Nat /\ e \in 0..MaxExponent
  <2>1. e <= MaxExponent
    BY <1>4
  <2> HIDE DEF e
  <2> QED BY <1>6, <2>1, Numbers DEF MaxExponent
<1>8. date' = Date(Year(k, date.year.significant_digits, date.year.qualifier), date.month, date.day)
  <2>1. date' = [date EXCEPT !.year.kind = exponential_at(date.year.kind.value, rest)]
    BY DEF ReadExponent
  <2>2. exponential_at(date.year.kind.value, rest) = k
    BY DEF exponential_at
  <2> QED BY <1>1, <2>1, <2>2, Updates
<1>9. width' = width + e /\ pc' = "digits" /\ rest' = after_suffix(rest, "E") /\ SameDate
  BY DEF ReadExponent
<1>10. k.form = "Exponential" /\ k.significand = v /\ k.exponent = e /\ k \in YearKinds
  BY <1>3, <1>7, KindForms DEF Exponential
<1> HIDE DEF k, e, v
<1>11. date' \in Dates
  BY <1>1, <1>8, <1>10, DateParts
<1>12. date'.year.kind = k /\ Unsuffixed(date') /\ NoSlots(date')
  BY <1>2, <1>8, Selectors DEF Unsuffixed, NoSlots
<1>13. Abs(v) \in 1..I64Max
  BY <1>3, Numbers DEF Abs
<1>14. width = decimal_digits(Abs(v))
  BY <1>1, <1>3 DEF StageInv, v
<1>15. Prefixed(date', width')
  BY <1>4, <1>7, <1>9, <1>10, <1>12, <1>13, <1>14
     DEF Prefixed, Unsuffixed, NoSlots, ValidPrefixedYear, digit_count, beyond_four_digits
<1>16. StageInv("digits", date', width')
  BY <1>15 DEF StageInv
<1>17. width' \in Nat
  BY <1>1, <1>7, <1>9
<1> QED BY <1>1, <1>5, <1>9, <1>11, <1>16, <1>17, ScanStep DEF Scanning

(* A prefixed year's significant digits and qualifier.                     *)
LEMMA ReadPrefixedEndIInv == IInv /\ ReadPrefixedEnd => IInv'
<1> SUFFICES ASSUME IInv, ReadPrefixedEnd PROVE IInv'
  OBVIOUS
<1> DEFINE s == suffix(rest, "S")
           q == take_qualifier(after_suffix(rest, "S"))
           y == Year(date.year.kind, s, q)
<1>1. rest \in TokenText /\ pc = "digits" /\ date \in Dates /\ Prefixed(date, width)
  BY DEF IInv, TypeOK, ReadPrefixedEnd, prefixed_end_ahead, DateInv, Scanning, StageInv
<1>2. suffix_ahead(rest, "S") /\ (starts(rest, "S") => Get(s) \in 1..width)
  BY DEF ReadPrefixedEnd, prefixed_end_ahead
<1>3. s \in Option(0..I64Max) /\ (~starts(rest, "S") => s = None) /\ after_suffix(rest, "S") \in TokenText
  BY <1>1, <1>2, SuffixTaken DEF Symbols
<1>4. s \in Option(Nat) /\ q \in Qualifier
  <2>1. 0..I64Max \subseteq Nat
    BY Numbers
  <2> QED BY <1>3, <2>1, Options, CursorTypes
<1>5. date' = Date(y, date.month, date.day)
  <2>1. date' = [date EXCEPT !.year = y]
    BY DEF ReadPrefixedEnd
  <2> QED BY <1>1, <2>1, Updates
<1>6. pc' = "finish" /\ rest' = <<>> /\ width' = 0 /\ SameDate /\ <<>> \in TokenText
  BY DEF ReadPrefixedEnd, TokenText
<1> HIDE DEF s, q
<1>7. date' \in Dates
  BY <1>1, <1>4, <1>5, DateParts
<1>8. /\ date'.year.kind = date.year.kind /\ date'.year.significant_digits = s
      /\ date'.month = date.month /\ date'.day = date.day
  BY <1>5, Selectors
<1>9. s # None => Get(s) \in 1..digit_count(date.year.kind)
  BY <1>1, <1>2, <1>3 DEF Prefixed
<1>10. ValidPrefixedYear(date') /\ date'.year.kind.form # "Standard"
  <2>1. ValidPrefixedYear(date')
    BY <1>1, <1>8, <1>9 DEF Prefixed, ValidPrefixedYear
  <2>2. date.year.kind.form # "Standard"
    BY <1>1 DEF Prefixed
  <2> QED BY <1>8, <2>1, <2>2
<1>11. StageInv("finish", date', width')
  BY <1>10 DEF StageInv, Complete
<1> QED BY <1>1, <1>6, <1>7, <1>11, ScanStep DEF Scanning

-----------------------------------------------------------------------------
(* Cutting a text. *)

(* A text that holds a symbol has a first place of it.                     *)
LEMMA FirstPlace ==
  ASSUME NEW t \in TokenText, NEW s, holds(t, s)
  PROVE  /\ first_place(t, s) \in 1..Len(t) /\ t[first_place(t, s)] = Sym(s)
         /\ \A j \in 1..(first_place(t, s) - 1) : t[j] # Sym(s)
<1> DEFINE P == {i \in 1..Len(t) : t[i] = Sym(s)}
<1>1. DOMAIN t = 1..Len(t) /\ Len(t) \in Nat
  BY DEF TokenText
<1>2. P # {} /\ P \subseteq Nat
  BY <1>1 DEF holds
<1>3. PICK least \in P : \A k \in P : least <= k
  BY <1>2, Least
<1>4. \A j \in 1..(least - 1) : t[j] # Sym(s)
  BY <1>1, <1>3
<1> QED BY <1>1, <1>3, <1>4 DEF first_place

(* What is cut are texts.                                                  *)
LEMMA CutTypes ==
  ASSUME NEW t \in TokenText, NEW s
  PROVE  /\ before(t, s) \in TokenText /\ after(t, s) \in Option(TokenText)
         /\ holds(t, s) => Get(after(t, s)) \in TokenText
<1>1. CASE holds(t, s)
  <2> DEFINE i == first_place(t, s)
             a == SubSeq(t, 1, i - 1)
             b == SubSeq(t, i + 1, Len(t))
  <2>1. i \in 1..Len(t) /\ Len(t) \in Nat /\ \A k \in 1..Len(t) : t[k] \in Token
    BY <1>1, FirstPlace, LenProperties DEF TokenText
  <2>2. before(t, s) = a /\ after(t, s) = Some(b)
    BY <1>1 DEF before, after
  <2> HIDE DEF i
  <2>3. a \in TokenText /\ b \in TokenText
    <3>1. /\ 1 \in Int /\ i - 1 \in Int /\ (\A k \in 1..(i - 1) : t[k] \in Token)
          /\ i + 1 \in Int /\ Len(t) \in Int /\ (\A k \in (i + 1)..Len(t) : t[k] \in Token)
      BY <2>1
    <3> QED BY <3>1, SubSeqProperties DEF TokenText
  <2>4. Some(b) \in Option(TokenText) /\ Get(Some(b)) = b
    BY <2>3, Options
  <2> QED BY <2>2, <2>3, <2>4
<1>2. CASE ~holds(t, s)
  <2>1. before(t, s) = t /\ after(t, s) = None
    BY <1>2 DEF before, after
  <2> QED BY <1>2, <2>1, Options
<1> QED BY <1>1, <1>2

(* A text of one text is one text.                                         *)
LEMMA SliceCounts ==
  ASSUME NEW a \in TokenText, NEW b \in TokenText
  PROVE  /\ <<>> \in Seq(TokenText) /\ Len(<<>>) = 0
         /\ <<a>> \in Seq(TokenText) /\ Len(<<a>>) = 1
         /\ <<a, b>> \in Seq(TokenText) /\ Len(<<a, b>>) = 2
OBVIOUS

(* A part of a text: its kind, and the texts of as many dates.             *)
LEMMA PartSlices ==
  ASSUME NEW p \in TokenText, NEW k, k = kind_of(p) \/ k = "Date"
  PROVE  /\ k \in Kinds /\ date_slices(k, p) \in Seq(TokenText)
         /\ Len(date_slices(k, p)) = DateCount(k)
<1>1. CASE k = "Unknown" \/ k = "Open"
  <2>1. date_slices(k, p) = <<>>
    BY <1>1 DEF date_slices
  <2> QED BY <1>1, <2>1, SliceCounts DEF Kinds, DateCount
<1>2. CASE k = "Date"
  <2>1. date_slices(k, p) = <<p>>
    BY <1>2 DEF date_slices
  <2> QED BY <1>2, <2>1, SliceCounts DEF Kinds, DateCount
<1>3. CASE k # "Unknown" /\ k # "Open" /\ k # "Date"
  <2>1. k = kind_of(p) /\ p # <<>>
    BY <1>3 DEF kind_of
  <2>2. CASE k = "OnOrBefore"
    <3>1. date_slices(k, p) = <<Tail(p)>> /\ Tail(p) \in TokenText
      BY <2>1, <2>2, Left DEF date_slices
    <3> QED BY <2>2, <3>1, SliceCounts DEF Kinds, DateCount
  <2>3. CASE k = "OnOrAfter"
    <3>1. date_slices(k, p) = <<SubSeq(p, 1, Len(p) - 1)>>
      BY <2>3 DEF date_slices
    <3>2. SubSeq(p, 1, Len(p) - 1) \in TokenText
      <4>1. Len(p) \in Nat /\ \A i \in 1..Len(p) : p[i] \in Token
        BY LenProperties DEF TokenText
      <4>2. 1 \in Int /\ Len(p) - 1 \in Int /\ \A i \in 1..(Len(p) - 1) : p[i] \in Token
        BY <4>1
      <4> QED BY <4>2, SubSeqProperties DEF TokenText
    <3> QED BY <2>3, <3>1, <3>2, SliceCounts DEF Kinds, DateCount
  <2>4. CASE k = "Range"
    <3>1. holds(p, "..")
      BY <1>3, <2>1, <2>4 DEF kind_of
    <3>2. date_slices(k, p) = <<before(p, ".."), Get(after(p, ".."))>>
      BY <2>4 DEF date_slices
    <3> QED BY <2>4, <3>1, <3>2, CutTypes, SliceCounts DEF Kinds, DateCount
  <2>5. k \in {"OnOrBefore", "OnOrAfter", "Range"}
    BY <1>3, <2>1 DEF kind_of
  <2> QED BY <2>2, <2>3, <2>4, <2>5
<1> QED BY <1>1, <1>2, <1>3

(* What dates make with a part's dots.                                     *)
LEMMA Endpoints ==
  ASSUME NEW k \in Kinds, NEW ds \in Seq(Dates), Len(ds) = DateCount(k),
         \A i \in DOMAIN ds : ValidDate(ds[i])
  PROVE  endpoint(k, ds) \in Ends /\ ValidEnd(endpoint(k, ds)) /\ endpoint(k, ds).kind = k
<1> USE DEF endpoint, Ends, ValidEnd, is_dated
<1>1. CASE k = "Unknown"
  BY <1>1 DEF UnknownEnd
<1>2. CASE k = "Open"
  BY <1>2 DEF OpenEnd
<1>3. CASE k \in {"OnOrBefore", "OnOrAfter", "Date"}
  <2>1. Len(ds) = 1
    BY <1>3 DEF DateCount
  <2>2. ds[1] \in Dates /\ ValidDate(ds[1])
    BY <2>1
  <2> QED BY <1>3, <2>2 DEF OnOrBefore, OnOrAfter, At
<1>4. CASE k = "Range"
  <2>1. Len(ds) = 2
    BY <1>4 DEF DateCount
  <2>2. ds[1] \in Dates /\ ValidDate(ds[1]) /\ ds[2] \in Dates /\ ValidDate(ds[2])
    <3>1. DOMAIN ds = 1..2
      BY <2>1, LenProperties
    <3>2. 1 \in 1..2 /\ 2 \in 1..2
      OBVIOUS
    <3> QED BY <2>1, <3>1, <3>2, ElementOfSeq
  <2> QED BY <1>4, <2>2 DEF RangeOf
<1> QED BY <1>1, <1>2, <1>3, <1>4 DEF Kinds

-----------------------------------------------------------------------------
(* The parse from part to part. *)

(* A text that is not a date-time is read part by part.                    *)
LEMMA DispatchIInv == IInv /\ Dispatch => IInv'
<1> SUFFICES ASSUME IInv, Dispatch PROVE IInv'
  OBVIOUS
<1>1. /\ pc = "start" /\ pc' = "part" /\ later' = Some(undivided(text))
      /\ UNCHANGED <<text, part, slices, dates, rest, date, width, ends, value, first>>
      /\ shape(text) # "DateTime"
  BY DEF Dispatch, text_ahead, SameText
<1>2. text \in TokenText /\ Len(text) \in Nat
  BY LenProperties DEF IInv, TypeOK, TokenText
<1>3. undivided(text) \in TokenText
  <2>1. \A i \in 2..(Len(text) - 1) : text[i] \in Token
    BY <1>2, ElementOfSeq DEF TokenText
  <2>2. SubSeq(text, 2, Len(text) - 1) \in TokenText
    <3>1. 2 \in Int /\ Len(text) - 1 \in Int
      BY <1>2
    <3> QED BY <2>1, <3>1, SubSeqProperties DEF TokenText
  <2> QED BY <1>2, <2>2 DEF undivided
<1>4. later' \in Option(TokenText) /\ later' # None
  BY <1>1, <1>3, Options, SomeFacts
<1>5. shape(text) \in {"Date", "Interval", "Set"}
  BY <1>1 DEF shape
<1>6. ends = <<>>
  BY <1>1 DEF IInv, StartInv
<1>7. TypeOK'
  BY <1>1, <1>4 DEF IInv, TypeOK, Scanning
<1>8. part' \in Kinds /\ width' \in Nat /\ DateInv' /\ PartInv' /\ StartInv'
  BY <1>1 DEF IInv, DateInv, PartInv, StartInv, Scanning
<1>9. EndsInv'
  BY <1>1, <1>4, <1>5, <1>6 DEF EndsInv
<1>10. FirstInv'
  BY <1>1 DEF IInv, FirstInv
<1> QED BY <1>7, <1>8, <1>9, <1>10 DEF IInv

(* The next part.                                                          *)
LEMMA NextPartIInv == IInv /\ NextPart => IInv'
<1> SUFFICES ASSUME IInv, NextPart PROVE IInv'
  OBVIOUS
<1> DEFINE p == before(Get(later), separator(text))
           k == part_kind(text, p)
<1>1. /\ pc = "part" /\ pc' = "next" /\ part' = k /\ slices' = date_slices(k, p)
      /\ later' = after(Get(later), separator(text)) /\ dates' = <<>>
      /\ UNCHANGED <<text, rest, date, width, ends, value, first>>
  BY DEF NextPart, part_ahead, SameText
<1>2. Get(later) \in TokenText
  BY Options DEF IInv, TypeOK, NextPart, part_ahead, IsSome
<1>3. p \in TokenText /\ later' \in Option(TokenText)
  BY <1>1, <1>2, CutTypes
<1>4. k = kind_of(p) \/ k = "Date"
  BY DEF part_kind
<1>5. k \in Kinds /\ slices' \in Seq(TokenText) /\ Len(slices') = DateCount(k)
  BY <1>1, <1>3, <1>4, PartSlices
<1>6. shape(text) = "Date" => k = "Date"
  BY DEF part_kind
<1> HIDE DEF p, k
<1>7. TypeOK'
  BY <1>1, <1>3, <1>5 DEF IInv, TypeOK, Scanning
<1>8. part' \in Kinds /\ width' \in Nat /\ DateInv' /\ StartInv'
  BY <1>1, <1>5 DEF IInv, DateInv, StartInv, Scanning
<1>9. PartInv'
  <2>1. Len(dates') + Len(slices') + 0 = DateCount(k)
    <3>1. DateCount(k) \in Nat
      BY DEF DateCount
    <3>2. Len(dates') = 0
      BY <1>1
    <3> QED BY <1>5, <3>1, <3>2
  <2> QED BY <1>1, <1>6, <2>1 DEF PartInv, Scanning
<1>10. EndsInv' /\ FirstInv'
  BY <1>1 DEF IInv, EndsInv, FirstInv
<1> QED BY <1>7, <1>8, <1>9, <1>10 DEF IInv

(* The next date of a part.                                                *)
LEMMA NextDateIInv == IInv /\ NextDate => IInv'
<1> SUFFICES ASSUME IInv, NextDate PROVE IInv'
  OBVIOUS
<1>1. /\ pc = "next" /\ slices # <<>> /\ pc' = "date" /\ rest' = Head(slices) /\ slices' = Tail(slices)
      /\ UNCHANGED <<text, value, first, later, part, ends, dates, date, width>>
  BY DEF NextDate, date_ahead, SamePart, SameText
<1>2. slices \in Seq(TokenText)
  BY DEF IInv, TypeOK
<1>3. rest' \in TokenText /\ slices' \in Seq(TokenText) /\ Len(slices') = Len(slices) - 1 /\ Len(slices) \in Nat
  BY <1>1, <1>2, HeadTailProperties, LenProperties
<1>4. TypeOK'
  BY <1>1, <1>3 DEF IInv, TypeOK, Scanning
<1>5. part' \in Kinds /\ width' \in Nat /\ DateInv' /\ StartInv' /\ EndsInv' /\ FirstInv'
  BY <1>1 DEF IInv, DateInv, StartInv, Scanning, EndsInv, FirstInv
<1>6. PartInv'
  <2>1. Len(dates) + Len(slices) + 0 = DateCount(part) /\ (shape(text) = "Date" => part = "Date")
    BY <1>1 DEF IInv, PartInv, Scanning
  <2>2. Len(dates) \in Nat /\ DateCount(part) \in Nat
    BY LenProperties DEF IInv, TypeOK, DateCount
  <2>3. Len(dates') + Len(slices') + 1 = DateCount(part)
    BY <1>1, <1>3, <2>1, <2>2
  <2> QED BY <1>1, <2>1, <2>3 DEF PartInv, Scanning
<1> QED BY <1>4, <1>5, <1>6 DEF IInv

(* A date is read.                                                         *)
LEMMA FinishDateIInv == IInv /\ FinishDate => IInv'
<1> SUFFICES ASSUME IInv, FinishDate PROVE IInv'
  OBVIOUS
<1>1. /\ pc = "finish" /\ pc' = "next" /\ dates' = Append(dates, date)
      /\ validate_month_day(date.year.kind, date.month, date.day)
      /\ UNCHANGED <<text, value, first, later, part, ends, slices, rest, date, width>>
  BY DEF FinishDate, whole_date_ahead, SamePart, SameText
<1>2. date \in Dates /\ Complete(date) /\ dates \in Seq(Dates) /\ \A i \in DOMAIN dates : ValidDate(dates[i])
  BY <1>1 DEF IInv, TypeOK, DateInv, Scanning, StageInv
<1>3. ValidDate(date)
  BY <1>1, <1>2 DEF Complete, FourDigits, ValidDate, ValidStandardDate
<1>4. /\ dates' \in Seq(Dates) /\ Len(dates') = Len(dates) + 1 /\ Len(dates) \in Nat
      /\ \A i \in DOMAIN dates' : ValidDate(dates'[i])
  <2>1. /\ Append(dates, date) \in Seq(Dates) /\ Len(Append(dates, date)) = Len(dates) + 1
        /\ \A i \in 1..Len(dates) : Append(dates, date)[i] = dates[i]
        /\ Append(dates, date)[Len(dates) + 1] = date
    BY <1>2, AppendProperties
  <2>2. Len(dates) \in Nat /\ DOMAIN dates = 1..Len(dates) /\ DOMAIN Append(dates, date) = 1..(Len(dates) + 1)
    BY <1>2, <2>1, LenProperties
  <2>3. ASSUME NEW i \in DOMAIN Append(dates, date) PROVE ValidDate(Append(dates, date)[i])
    <3>1. i = Len(dates) + 1 \/ i \in 1..Len(dates)
      BY <2>2
    <3> QED BY <1>2, <1>3, <2>1, <2>2, <3>1
  <2> QED BY <1>1, <2>1, <2>2, <2>3
<1>5. TypeOK'
  BY <1>1, <1>4 DEF IInv, TypeOK, Scanning
<1>6. part' \in Kinds /\ width' \in Nat /\ DateInv' /\ StartInv' /\ EndsInv' /\ FirstInv'
  BY <1>1 DEF IInv, DateInv, StartInv, Scanning, EndsInv, FirstInv
<1>7. PartInv'
  <2>1. Len(dates) + Len(slices) + 1 = DateCount(part) /\ (shape(text) = "Date" => part = "Date")
    BY <1>1 DEF IInv, PartInv, Scanning
  <2>2. Len(slices) \in Nat /\ DateCount(part) \in Nat
    BY LenProperties DEF IInv, TypeOK, DateCount
  <2>3. Len(dates') + Len(slices') + 0 = DateCount(part)
    BY <1>1, <1>4, <2>1, <2>2
  <2> QED BY <1>1, <2>1, <2>3 DEF PartInv, Scanning
<1> QED BY <1>5, <1>6, <1>7 DEF IInv

(* A part is read.                                                         *)
LEMMA EndPartIInv == IInv /\ EndPart => IInv'
<1> SUFFICES ASSUME IInv, EndPart PROVE IInv'
  OBVIOUS
<1> DEFINE e == endpoint(part, dates)
<1>1. /\ pc = "next" /\ slices = <<>> /\ pc' = "part" /\ ends' = Append(ends, e)
      /\ shape(text) = "Set" => is_dated(e) /\ range_agrees(e)
      /\ UNCHANGED <<text, value, first, later, part, slices, dates, rest, date, width>>
  BY DEF EndPart, part_end_ahead, SameText
<1>2. part \in Kinds /\ dates \in Seq(Dates) /\ ends \in Seq(Ends) /\ \A i \in DOMAIN dates : ValidDate(dates[i])
  BY DEF IInv, TypeOK
<1>3. Len(dates) = DateCount(part) /\ (shape(text) = "Date" => part = "Date")
  <2>1. Len(dates) + Len(slices) + 0 = DateCount(part) /\ (shape(text) = "Date" => part = "Date")
    BY <1>1 DEF IInv, PartInv, Scanning
  <2>2. Len(slices) = 0 /\ Len(dates) \in Nat
    BY <1>1, <1>2, LenProperties
  <2> QED BY <2>1, <2>2
<1>4. e \in Ends /\ ValidEnd(e) /\ e.kind = part
  BY <1>2, <1>3, Endpoints
<1> HIDE DEF e
<1>5. /\ shape(text) \in {"Date", "Interval", "Set"}
      /\ \A i \in DOMAIN ends : ValidEnd(ends[i]) /\ ShapedEnd(text, ends[i])
  BY <1>1 DEF IInv, EndsInv
<1>6. ShapedEnd(text, e)
  BY <1>1, <1>3, <1>4 DEF ShapedEnd
<1>7. /\ ends' \in Seq(Ends) /\ ends' # <<>>
      /\ \A i \in DOMAIN ends' : ValidEnd(ends'[i]) /\ ShapedEnd(text, ends'[i])
  <2>1. /\ Append(ends, e) \in Seq(Ends) /\ Len(Append(ends, e)) = Len(ends) + 1 /\ Append(ends, e) # <<>>
        /\ \A i \in 1..Len(ends) : Append(ends, e)[i] = ends[i]
        /\ Append(ends, e)[Len(ends) + 1] = e
    BY <1>2, <1>4, AppendProperties
  <2>2. Len(ends) \in Nat /\ DOMAIN ends = 1..Len(ends) /\ DOMAIN Append(ends, e) = 1..(Len(ends) + 1)
    BY <1>2, <2>1, LenProperties
  <2>3. ASSUME NEW i \in DOMAIN Append(ends, e)
        PROVE  ValidEnd(Append(ends, e)[i]) /\ ShapedEnd(text, Append(ends, e)[i])
    <3>1. i = Len(ends) + 1 \/ i \in 1..Len(ends)
      BY <2>2
    <3> QED BY <1>4, <1>5, <1>6, <2>1, <2>2, <3>1
  <2> QED BY <1>1, <2>1, <2>3
<1>8. TypeOK'
  BY <1>1, <1>7 DEF IInv, TypeOK, Scanning
<1>9. part' \in Kinds /\ width' \in Nat /\ DateInv' /\ StartInv' /\ PartInv' /\ FirstInv'
  BY <1>1 DEF IInv, DateInv, StartInv, Scanning, PartInv, FirstInv
<1>10. EndsInv'
  BY <1>1, <1>5, <1>7 DEF EndsInv
<1> QED BY <1>8, <1>9, <1>10 DEF IInv

-----------------------------------------------------------------------------
(* Pieces of text with a symbol between them.                              *)

(* Texts in a row, in either grouping.                                     *)
Regrouped(a, b, c) == (a \o b) \o c = a \o (b \o c)

(* Concatenation associates. *)
LEMMA Regroup ==
  ASSUME NEW T, NEW a \in Seq(T), NEW b \in Seq(T), NEW c \in Seq(T)
  PROVE  Regrouped(a, b, c)
BY ConcatAssociative DEF Regrouped

(* Separated pieces are built from the last.                               *)
FromLast(T, ps, s) ==
  \E f \in [1..Len(ps) -> Seq(T)] :
     /\ separated(ps, s) = f[1] /\ f[Len(ps)] = ps[Len(ps)]
     /\ \A i \in 1..(Len(ps) - 1) : f[i] = ps[i] \o (<<Sym(s)>> \o f[i + 1])

(* Separated pieces are so built. *)
LEMMA Separated ==
  ASSUME NEW T, NEW ps \in Seq(Seq(T)), ps # <<>>, NEW s, Sym(s) \in T
  PROVE  FromLast(T, ps, s)
<1> DEFINE n == Len(ps)
           F == [i \in 1..(n - 1) |-> [t \in Seq(T) |-> ps[n - i] \o <<Sym(s)>> \o t]]
           Built(f) == f = [i \in DOMAIN ps |-> IF i = Len(ps) THEN ps[i]
                                                ELSE ps[i] \o <<Sym(s)>> \o f[i + 1]]
           u == CHOOSE f : Built(f)
<1>1. n \in Nat \ {0} /\ DOMAIN ps = 1..n /\ \A i \in 1..n : ps[i] \in Seq(T)
  BY LenProperties, EmptySeq
<1>2. separated(ps, s) = u[1]
  BY DEF separated
<1>3. \A i \in 1..n : \A t \in Seq(T) : ps[i] \o <<Sym(s)>> \o t \in Seq(T)
  BY <1>1
<1>4. PICK h \in [0..(n - 1) -> Seq(T)] : h[0] = ps[n] /\ \A i \in 1..(n - 1) : h[i] = F[i][h[i - 1]]
  <2>1. F \in [1..(n - 1) -> [Seq(T) -> Seq(T)]]
    <3>1. \A i \in 1..(n - 1) : n - i \in 1..n
      BY <1>1
    <3> QED BY <1>3, <3>1
  <2>2. n - 1 \in Nat /\ ps[n] \in Seq(T)
    BY <1>1
  <2> HIDE DEF F, n
  <2>3. Iterated(n - 1, Seq(T), ps[n], F)
    BY <2>1, <2>2, Stepwise
  <2> QED BY <2>3 DEF Iterated
<1> DEFINE g == [i \in 1..n |-> h[n - i]]
<1>5. \A i \in 1..n : n - i \in 0..(n - 1)
  BY <1>1
<1>6. g \in [1..n -> Seq(T)]
  BY <1>4, <1>5
<1>7. g[n] = ps[n]
  BY <1>1, <1>4
<1>8. ASSUME NEW i \in 1..n, i # n PROVE g[i] = ps[i] \o <<Sym(s)>> \o g[i + 1]
  <2>1. n - i \in 1..(n - 1) /\ i + 1 \in 1..n /\ n - (n - i) = i /\ (n - i) - 1 = n - (i + 1)
    <3> HIDE DEF n
    <3> QED BY <1>1, <1>8
  <2>2. h[n - i] = F[n - i][h[(n - i) - 1]]
    BY <1>4, <2>1
  <2>3. h[(n - i) - 1] \in Seq(T)
    <3>1. (n - i) - 1 \in 0..(n - 1)
      BY <2>1
    <3> QED BY <1>4, <3>1
  <2>4. F[n - i][h[(n - i) - 1]] = ps[n - (n - i)] \o <<Sym(s)>> \o h[(n - i) - 1]
    BY <2>1, <2>3
  <2> QED BY <2>1, <2>2, <2>4
<1>9. Built(g)
  <2>1. g = [i \in 1..n |-> g[i]]
    OBVIOUS
  <2> HIDE DEF g
  <2>2. [i \in 1..n |-> g[i]] = [i \in 1..n |-> IF i = n THEN ps[i] ELSE ps[i] \o <<Sym(s)>> \o g[i + 1]]
    BY <1>7, <1>8
  <2> QED BY <1>1, <2>1, <2>2
<1>10. Built(u)
  <2> HIDE DEF Built
  <2> QED BY <1>9
<1> HIDE DEF u
<1>11. DOMAIN u = 1..n /\ u = [i \in 1..n |-> u[i]]
  BY <1>1, <1>10
<1>12. /\ u[n] = ps[n]
       /\ \A i \in 1..(n - 1) : u[i] = ps[i] \o <<Sym(s)>> \o u[i + 1]
  <2>1. \A i \in 1..n : u[i] = IF i = n THEN ps[i] ELSE ps[i] \o <<Sym(s)>> \o u[i + 1]
    BY <1>1, <1>10
  <2>2. n \in 1..n /\ \A i \in 1..(n - 1) : i \in 1..n /\ i # n
    <3> HIDE DEF n
    <3> QED BY <1>1
  <2> QED BY <2>1, <2>2
<1> DEFINE H == {k \in 0..(n - 1) : u[n - k] \in Seq(T)}
<1>13. 0 \in H
  BY <1>1, <1>12
<1>14. ASSUME NEW k \in 1..(n - 1), k - 1 \in H PROVE k \in H
  <2>1. n - k \in 1..(n - 1) /\ n - (k - 1) = (n - k) + 1 /\ k \in 0..(n - 1) /\ n - k \in 1..n
    <3> HIDE DEF n
    <3> QED BY <1>1
  <2>2. u[n - k] = ps[n - k] \o <<Sym(s)>> \o u[(n - k) + 1] /\ u[(n - k) + 1] \in Seq(T)
    BY <1>12, <1>14, <2>1
  <2>3. u[n - k] \in Seq(T)
    BY <1>3, <2>1, <2>2
  <2> QED BY <2>1, <2>3
<1>15. 0..(n - 1) \subseteq H
  <2>1. n - 1 \in Nat
    BY <1>1
  <2> HIDE DEF H
  <2> QED BY <1>13, <1>14, <2>1, Climb
<1>16. \A i \in 1..n : u[i] \in Seq(T)
  <2> TAKE i \in 1..n
  <2>1. n - i \in 0..(n - 1) /\ n - (n - i) = i
    BY <1>1
  <2>2. n - i \in H
    <3> HIDE DEF H
    <3> QED BY <1>15, <2>1
  <2> QED BY <2>1, <2>2
<1>17. u \in [1..n -> Seq(T)]
  BY <1>11, <1>16
<1>18. \A i \in 1..(n - 1) : u[i] = ps[i] \o (<<Sym(s)>> \o u[i + 1])
  <2> TAKE i \in 1..(n - 1)
  <2>1. i \in 1..n /\ i + 1 \in 1..n
    <3> HIDE DEF n
    <3> QED BY <1>1
  <2>2. ps[i] \in Seq(T) /\ <<Sym(s)>> \in Seq(T) /\ u[i + 1] \in Seq(T)
    BY <1>1, <1>16, <2>1
  <2>3. (ps[i] \o <<Sym(s)>>) \o u[i + 1] = ps[i] \o (<<Sym(s)>> \o u[i + 1])
    <3>1. Regrouped(ps[i], <<Sym(s)>>, u[i + 1])
      BY <2>2, Regroup
    <3> QED BY <3>1 DEF Regrouped
  <2>4. u[i] = ps[i] \o <<Sym(s)>> \o u[i + 1]
    BY <1>12
  <2> QED BY <2>3, <2>4
<1> QED BY <1>2, <1>12, <1>17, <1>18 DEF FromLast

(* Separated pieces are the first one, and behind the symbol the others.   *)
LEMMA SeparatedHead ==
  ASSUME NEW T, NEW ps \in Seq(Seq(T)), ps # <<>>, NEW s, Sym(s) \in T
  PROVE  /\ separated(ps, s) \in Seq(T)
         /\ Len(ps) = 1 => separated(ps, s) = ps[1]
         /\ Len(ps) > 1 => separated(ps, s) = ps[1] \o (<<Sym(s)>> \o separated(Tail(ps), s))
<1> DEFINE n == Len(ps)
<1>1. n \in Nat \ {0}
  BY LenProperties, EmptySeq
<1>2. PICK f \in [1..n -> Seq(T)] :
           /\ separated(ps, s) = f[1] /\ f[n] = ps[n]
           /\ \A i \in 1..(n - 1) : f[i] = ps[i] \o (<<Sym(s)>> \o f[i + 1])
  <2>1. FromLast(T, ps, s)
    BY Separated
  <2> QED BY <2>1 DEF FromLast
<1>3. separated(ps, s) \in Seq(T) /\ (n = 1 => separated(ps, s) = ps[1])
  BY <1>1, <1>2
<1>4. ASSUME n > 1
      PROVE  separated(ps, s) = ps[1] \o (<<Sym(s)>> \o separated(Tail(ps), s))
  <2> DEFINE qs == Tail(ps)
             m == n - 1
  <2>1. qs \in Seq(Seq(T)) /\ Len(qs) = m /\ m \in Nat \ {0} /\ \A i \in 1..m : qs[i] = ps[i + 1]
    <3>1. qs \in Seq(Seq(T)) /\ Len(qs) = m /\ \A i \in 1..Len(qs) : qs[i] = ps[i + 1]
      BY HeadTailProperties
    <3>2. m \in Nat \ {0}
      <4> HIDE DEF n
      <4> QED BY <1>1, <1>4
    <3> QED BY <3>1, <3>2
  <2>2. PICK g \in [1..m -> Seq(T)] :
           /\ separated(qs, s) = g[1] /\ g[m] = qs[m]
           /\ \A i \in 1..(m - 1) : g[i] = qs[i] \o (<<Sym(s)>> \o g[i + 1])
    <3>1. qs # <<>>
      BY <2>1, EmptySeq
    <3> HIDE DEF qs
    <3>2. \E g \in [1..Len(qs) -> Seq(T)] :
           /\ separated(qs, s) = g[1] /\ g[Len(qs)] = qs[Len(qs)]
           /\ \A i \in 1..(Len(qs) - 1) : g[i] = qs[i] \o (<<Sym(s)>> \o g[i + 1])
      <4>1. FromLast(T, qs, s)
        BY <2>1, <3>1, Separated
      <4> QED BY <4>1 DEF FromLast
    <3> QED BY <2>1, <3>2
  <2> HIDE DEF qs
  <2> DEFINE H == {k \in 0..(m - 1) : g[m - k] = f[(m - k) + 1]}
  <2>3. 0 \in H
    <3>1. m - 0 = m /\ m \in 1..m /\ m + 1 = n /\ 0 \in 0..(m - 1)
      BY <1>1, <2>1
    <3> QED BY <1>2, <2>1, <2>2, <3>1
  <2>4. ASSUME NEW k \in 1..(m - 1), k - 1 \in H PROVE k \in H
    <3>1. /\ m - k \in 1..(m - 1) /\ m - k \in 1..m /\ (m - k) + 1 \in 1..(n - 1)
          /\ m - (k - 1) = (m - k) + 1 /\ k \in 0..(m - 1)
      <4> HIDE DEF n
      <4> QED BY <1>1, <2>1
    <3>2. g[(m - k) + 1] = f[((m - k) + 1) + 1]
      BY <2>4, <3>1
    <3>3. g[m - k] = qs[m - k] \o (<<Sym(s)>> \o g[(m - k) + 1])
      BY <2>2, <3>1
    <3>4. f[(m - k) + 1] = ps[(m - k) + 1] \o (<<Sym(s)>> \o f[((m - k) + 1) + 1])
      BY <1>2, <3>1
    <3>5. qs[m - k] = ps[(m - k) + 1]
      BY <2>1, <3>1
    <3>6. g[m - k] = f[(m - k) + 1]
      BY <3>2, <3>3, <3>4, <3>5
    <3> QED BY <3>1, <3>6
  <2>5. 0..(m - 1) \subseteq H
    <3>1. m - 1 \in Nat
      BY <2>1
    <3> HIDE DEF H, m
    <3> QED BY <2>3, <2>4, <3>1, Climb
  <2>6. g[1] = f[2]
    <3>1. m - 1 \in 0..(m - 1) /\ m - (m - 1) = 1 /\ 1 + 1 = 2
      BY <2>1
    <3>2. m - 1 \in H
      <4> HIDE DEF H
      <4> QED BY <2>5, <3>1
    <3>3. g[m - (m - 1)] = f[(m - (m - 1)) + 1]
      BY <3>2
    <3> QED BY <3>1, <3>3
  <2>7. f[1] = ps[1] \o (<<Sym(s)>> \o f[2])
    <3>1. 1 \in 1..(n - 1) /\ 1 + 1 = 2
      BY <1>1, <1>4
    <3>2. f[1] = ps[1] \o (<<Sym(s)>> \o f[1 + 1])
      BY <1>2, <3>1
    <3> QED BY <3>1, <3>2
  <2> QED BY <1>2, <2>2, <2>6, <2>7 DEF qs
<1> QED BY <1>3, <1>4

-----------------------------------------------------------------------------
(* The tokens a date is written with. *)
DateSymbols == {"-", "?", "~", "%", "Y", "E", "S"}
DateTokens == [digits : Seq(MaskDigit) \ {<<>>}] \cup {Sym(s) : s \in DateSymbols}

(* They are tokens, and no other symbol is among them.                     *)
LEMMA DateTokenFacts ==
  /\ DateTokens \subseteq Token /\ Seq(DateTokens) \subseteq TokenText
  /\ \A g \in Seq(MaskDigit) : g # <<>> => Group(g) \in DateTokens
  /\ \A s \in DateSymbols : Sym(s) \in DateTokens
  /\ \A s \in Symbols \ DateSymbols : Sym(s) \notin DateTokens
  /\ Markers \subseteq DateTokens
<1>1. DateTokens \subseteq Token
  <2>1. \A s \in DateSymbols : Sym(s) \in Token
    BY Symbol DEF DateSymbols, Symbols
  <2> QED BY <2>1 DEF DateTokens, Token
<1>2. Seq(DateTokens) \subseteq TokenText
  BY <1>1, SeqMonotonic DEF TokenText
<1>3. \A g \in Seq(MaskDigit) : g # <<>> => Group(g) \in DateTokens
  BY DEF DateTokens, Group
<1>4. \A s \in DateSymbols : Sym(s) \in DateTokens
  BY DEF DateTokens
<1>5. \A s \in Symbols \ DateSymbols : Sym(s) \notin DateTokens
  BY DEF DateTokens, Sym
<1>6. Markers \subseteq DateTokens
  BY <1>4, MarkerSet DEF DateSymbols
<1> QED BY <1>1, <1>2, <1>3, <1>4, <1>5, <1>6

(* A marker is written as a date's text.                                   *)
LEMMA MarkText ==
  ASSUME NEW q \in Qualifier
  PROVE  qual_symbol(q) \in Seq(DateTokens) /\ (q = {} => qual_symbol(q) = <<>>)
<1>1. CASE q = {}
  <2>1. qual_symbol(q) = <<>>
    BY <1>1 DEF qual_symbol
  <2> QED BY <2>1
<1>2. CASE q # {}
  <2>1. PICK m \in Markers : qual_symbol(q) = <<m>>
    BY <1>2, QualSymbol
  <2>2. m \in DateTokens
    BY DateTokenFacts
  <2> QED BY <1>2, <2>1, <2>2
<1> QED BY <1>1, <1>2

(* A written number is read back, and what follows it is left.             *)
LEMMA NumberRead ==
  ASSUME NEW n \in 0..I64Max, NEW r \in TokenText
  PROVE  /\ NumberText(n) \in Seq(DateTokens) /\ NumberText(n) # <<>>
         /\ NumberText(n) \o r \in TokenText /\ NumberText(n) \o r # <<>>
         /\ take_number(NumberText(n) \o r) = Some(n) /\ is_mantissa(NumberText(n) \o r)
         /\ Tail(NumberText(n) \o r) = r
         /\ Len(Head(NumberText(n) \o r).digits) = decimal_digits(n)
         /\ \A s : ~starts(NumberText(n) \o r, s)
<1>1. PICK g \in Seq(Digit) : /\ NumberText(n) = <<Group(g)>> /\ g # <<>>
                                /\ Len(g) = decimal_digits(n) /\ number(g) = n /\ ~has_x(g)
  BY DigitsWritten
<1>2. g \in Seq(MaskDigit)
  <2>1. Digit \subseteq MaskDigit
    BY DEF MaskDigit
  <2> QED BY <2>1, SeqMonotonic
<1>3. /\ Group(g) \in Token /\ IsGroup(Group(g)) /\ Group(g).digits = g /\ \A s : Sym(s) # Group(g)
      /\ Group(g) \in DateTokens
  BY <1>1, <1>2, GroupOf, DateTokenFacts
<1>4. /\ NumberText(n) \in Seq(DateTokens) /\ NumberText(n) # <<>>
  BY <1>1, <1>3
<1>5. /\ NumberText(n) \o r \in TokenText /\ NumberText(n) \o r # <<>>
      /\ Head(NumberText(n) \o r) = Group(g) /\ Tail(NumberText(n) \o r) = r
  BY <1>1, <1>3, Before1
<1>6. take_number(NumberText(n) \o r) = Some(n)
  <2>1. n <= I64Max
    BY Numbers
  <2>2. fitting_number(n) = Some(n)
    BY <2>1, Numbers DEF fitting_number
  <2>3. take_number(NumberText(n) \o r) = fitting_number(number(g))
    BY <1>1, <1>3, <1>5 DEF take_number
  <2> QED BY <1>1, <2>2, <2>3
<1>7. is_mantissa(NumberText(n) \o r)
  BY <1>1, <1>3, <1>5, <1>6, SomeFacts DEF is_mantissa
<1> QED BY <1>1, <1>3, <1>4, <1>5, <1>6, <1>7 DEF starts

(* A written letter and number are read back.                              *)
LEMMA SuffixRead ==
  ASSUME NEW s \in {"E", "S"}, NEW o \in Option(0..I64Max), NEW r \in TokenText, ~starts(r, s)
  PROVE  /\ SuffixText(s, o) \in Seq(DateTokens) /\ SuffixText(s, o) \o r \in TokenText
         /\ suffix_ahead(SuffixText(s, o) \o r, s)
         /\ suffix(SuffixText(s, o) \o r, s) = o
         /\ after_suffix(SuffixText(s, o) \o r, s) = r
         /\ starts(SuffixText(s, o) \o r, s) <=> o # None
<1>1. CASE o = None
  <2>1. SuffixText(s, o) = <<>> /\ <<>> \o r = r
    BY <1>1 DEF SuffixText, TokenText
  <2>2. <<>> \in Seq(DateTokens)
    OBVIOUS
  <2> QED BY <1>1, <2>1, <2>2 DEF suffix_ahead, suffix, after_suffix
<1>2. CASE o # None
  <2> DEFINE n == Get(o)
             t == NumberText(n)
             u == SuffixText(s, o) \o r
  <2>1. n \in 0..I64Max /\ o = Some(n)
    BY <1>2, Options
  <2>2. SuffixText(s, o) = <<Sym(s)>> \o t
    BY <1>2 DEF SuffixText
  <2>3. /\ t \in Seq(DateTokens) /\ t \o r \in TokenText /\ t \o r # <<>>
        /\ take_number(t \o r) = Some(n) /\ Tail(t \o r) = r
    BY <2>1, NumberRead
  <2>4. Sym(s) \in DateTokens /\ Sym(s) \in Token /\ Seq(DateTokens) \subseteq TokenText
    BY DateTokenFacts DEF DateSymbols
  <2> HIDE DEF n, t
  <2>5. <<Sym(s)>> \o t \in Seq(DateTokens)
    BY <2>3, <2>4
  <2>6. u = <<Sym(s)>> \o (t \o r)
    <3>1. <<Sym(s)>> \in TokenText /\ t \in TokenText
      BY <2>3, <2>4 DEF TokenText
    <3>2. Regrouped(<<Sym(s)>>, t, r)
      BY <3>1, Regroup DEF TokenText
    <3> QED BY <2>2, <3>2 DEF Regrouped
  <2>7. u \in TokenText /\ u # <<>> /\ Head(u) = Sym(s) /\ Tail(u) = t \o r
    BY <2>3, <2>4, <2>6, Before1
  <2> HIDE DEF u
  <2>8. starts(u, s) /\ suffix_ahead(u, s) /\ suffix(u, s) = o /\ after_suffix(u, s) = r
    BY <2>1, <2>3, <2>7, SomeFacts DEF starts, suffix_ahead, suffix, after_suffix
  <2> QED BY <1>2, <2>2, <2>5, <2>7, <2>8 DEF u
<1> QED BY <1>1, <1>2

(* A written sign and number: the sign is read, then the number.           *)
LEMMA SignedRead ==
  ASSUME NEW v \in -I64Max..I64Max, NEW r \in TokenText
  PROVE  /\ SignedText(v) \in Seq(DateTokens) /\ SignedText(v) \o r \in TokenText
         /\ starts(SignedText(v) \o r, "-") <=> v < 0
         /\ eat(SignedText(v) \o r, "-") = NumberText(Abs(v)) \o r
         /\ Abs(v) \in 0..I64Max
<1> DEFINE t == NumberText(Abs(v))
           u == SignedText(v) \o r
<1>1. Abs(v) \in 0..I64Max
  BY Numbers DEF Abs
<1>2. /\ t \in Seq(DateTokens) /\ t \o r \in TokenText /\ \A s : ~starts(t \o r, s)
  BY <1>1, NumberRead
<1>3. Sym("-") \in DateTokens /\ Sym("-") \in Token /\ Seq(DateTokens) \subseteq TokenText
  BY DateTokenFacts DEF DateSymbols
<1>4. SignedText(v) = (IF v < 0 THEN <<Sym("-")>> ELSE <<>>) \o t
  BY DEF SignedText
<1> HIDE DEF t
<1>5. CASE v < 0
  <2>1. SignedText(v) = <<Sym("-")>> \o t
    BY <1>4, <1>5
  <2>2. SignedText(v) \in Seq(DateTokens)
    BY <1>2, <1>3, <2>1
  <2>3. u = <<Sym("-")>> \o (t \o r)
    <3>1. <<Sym("-")>> \in TokenText /\ t \in TokenText
      BY <1>2, <1>3 DEF TokenText
    <3>2. Regrouped(<<Sym("-")>>, t, r)
      BY <3>1, Regroup DEF TokenText
    <3> QED BY <2>1, <3>2 DEF Regrouped
  <2>4. u \in TokenText /\ u # <<>> /\ Head(u) = Sym("-") /\ Tail(u) = t \o r
    BY <1>2, <1>3, <2>3, Before1
  <2> HIDE DEF u
  <2>5. starts(u, "-") /\ eat(u, "-") = t \o r
    BY <2>4 DEF starts, eat
  <2> QED BY <1>1, <1>5, <2>2, <2>4, <2>5 DEF u, t
<1>6. CASE ~(v < 0)
  <2>1. SignedText(v) = t
    BY <1>2, <1>4, <1>6
  <2>2. u = t \o r
    BY <2>1
  <2>3. ~starts(u, "-") /\ eat(u, "-") = t \o r
    BY <1>2, <2>2 DEF eat
  <2> QED BY <1>1, <1>2, <1>6, <2>1, <2>2, <2>3 DEF t
<1> QED BY <1>5, <1>6

-----------------------------------------------------------------------------
(* A date's text, from its end. *)
Slotted(d) == d.month = None => d.day = None

group_end(d) == qualified_prefix_end(date_parts(d))

Opening(d, i, q) == IF i > group_end(d) THEN qual_symbol(q) ELSE <<>>
Closing(d, i) == IF i = group_end(d) THEN qual_symbol(d.year.qualifier) ELSE <<>>

FieldText(d, i, f, after_it) ==
  Opening(d, i, f.qualifier) \o (<<Group(f.digits)>> \o (Closing(d, i) \o after_it))

TextOfDay(d) == IF d.day = None THEN <<>> ELSE <<Sym("-")>> \o FieldText(d, 3, Get(d.day), <<>>)
MonthText(d) ==
  IF d.month = None THEN <<>> ELSE <<Sym("-")>> \o FieldText(d, 2, Get(d.month), TextOfDay(d))
YearEndText(d) == Closing(d, 1) \o MonthText(d)

(* One, two or three parts in a row.                                       *)
LEMMA InARow ==
  ASSUME NEW a, NEW b, NEW c
  PROVE  /\ <<a>> \o <<>> \o <<>> = <<a>> /\ <<a>> \o <<b>> \o <<>> = <<a, b>>
         /\ <<a>> \o <<b>> \o <<c>> = <<a, b, c>>
<1>1. <<a>> \o <<>> = <<a>>
  OBVIOUS
<1>2. <<a>> \o <<b>> = <<a, b>>
  <2> DEFINE S == {a, b}
             x == <<a>> \o <<b>>
             z == <<a, b>>
  <2>1. <<a>> \in Seq(S) /\ <<b>> \in Seq(S) /\ Len(<<a>>) = 1 /\ Len(<<b>>) = 1
    OBVIOUS
  <2>2. x \in Seq(S) /\ Len(x) = 2 /\ x[1] = a /\ x[2] = b
    <3> HIDE DEF S
    <3> QED BY <2>1, ConcatProperties
  <2>3. z \in Seq(S) /\ Len(z) = 2 /\ z[1] = a /\ z[2] = b
    OBVIOUS
  <2> HIDE DEF x, z, S
  <2>4. x = z
    <3>1. \A i \in 1..2 : i = 1 \/ i = 2
      OBVIOUS
    <3> QED BY <2>2, <2>3, <3>1, SeqEqual
  <2> QED BY <2>4 DEF x, z
<1>3. <<a, b>> \o <<>> = <<a, b>>
  OBVIOUS
<1>4. <<a, b>> \o <<c>> = <<a, b, c>>
  <2> DEFINE S == {a, b, c}
             x == <<a, b>> \o <<c>>
             z == <<a, b, c>>
  <2>1. <<a, b>> \in Seq(S) /\ <<c>> \in Seq(S) /\ Len(<<a, b>>) = 2 /\ Len(<<c>>) = 1
    OBVIOUS
  <2>2. x \in Seq(S) /\ Len(x) = 3 /\ x[1] = a /\ x[2] = b /\ x[3] = c
    <3> HIDE DEF S
    <3> QED BY <2>1, ConcatProperties
  <2>3. z \in Seq(S) /\ Len(z) = 3 /\ z[1] = a /\ z[2] = b /\ z[3] = c
    OBVIOUS
  <2> HIDE DEF x, z, S
  <2>4. x = z
    <3>1. \A i \in 1..3 : i = 1 \/ i = 2 \/ i = 3
      OBVIOUS
    <3> QED BY <2>2, <2>3, <3>1, SeqEqual
  <2> QED BY <2>4 DEF x, z
<1> QED BY <1>1, <1>2, <1>3, <1>4

(* The parts of a date.                                                    *)
LEMMA PartsOfDate ==
  ASSUME NEW d \in Dates, Slotted(d)
  PROVE  LET y == Part(year_body(d.year), d.year.qualifier)
             m == Part(<<Group(Get(d.month).digits)>>, Get(d.month).qualifier)
             f == Part(<<Group(Get(d.day).digits)>>, Get(d.day).qualifier)
         IN  \/ d.month = None /\ d.day = None /\ date_parts(d) = <<y>>
             \/ d.month # None /\ d.day = None /\ date_parts(d) = <<y, m>>
             \/ d.month # None /\ d.day # None /\ date_parts(d) = <<y, m, f>>
<1> DEFINE y == Part(year_body(d.year), d.year.qualifier)
           m == Part(<<Group(Get(d.month).digits)>>, Get(d.month).qualifier)
           f == Part(<<Group(Get(d.day).digits)>>, Get(d.day).qualifier)
<1>1. date_parts(d) = <<y>> \o (IF d.month = None THEN <<>> ELSE <<m>>)
                            \o (IF d.day = None THEN <<>> ELSE <<f>>)
  BY DEF date_parts, field_parts
<1> HIDE DEF y, m, f
<1>2. CASE d.month = None
  <2>1. d.day = None
    BY <1>2 DEF Slotted
  <2> QED BY <1>1, <1>2, <2>1, InARow DEF y
<1>3. CASE d.month # None /\ d.day = None
  BY <1>1, <1>3, InARow DEF y, m
<1>4. CASE d.month # None /\ d.day # None
  BY <1>1, <1>4, InARow DEF y, m, f
<1> QED BY <1>2, <1>3, <1>4

SameAsYear(parts, end) == /\ \A i \in 1..end : parts[i].q = parts[1].q
                          /\ end < Len(parts) => parts[end + 1].q # parts[1].q

(* The group of parts that one marker reaches: their qualifier is the      *)
(* year's.                                                                 *)
LEMMA PrefixEnd ==
  ASSUME NEW parts, NEW n \in 1..3, DOMAIN parts = 1..n, Len(parts) = n
  PROVE  /\ parts[1].q = {} => qualified_prefix_end(parts) = 0
         /\ parts[1].q # {} => /\ qualified_prefix_end(parts) \in 1..n
                               /\ \A i \in 1..qualified_prefix_end(parts) : parts[i].q = parts[1].q
<1> DEFINE K == {k \in 1..n : k < n => parts[k + 1].q # parts[1].q}
<1>1. n \in K /\ K \subseteq Nat
  OBVIOUS
<1>2. PICK least \in K : \A k \in K : least <= k
  <2> HIDE DEF K
  <2> QED BY <1>1, Least
<1>3. \A i \in 1..least : parts[i].q = parts[1].q
  <2> TAKE i \in 1..least
  <2>1. CASE i = 1
    BY <2>1
  <2>2. CASE i # 1
    <3>1. i - 1 \in 1..n /\ i - 1 < least /\ i - 1 < n /\ (i - 1) + 1 = i
      BY <1>2, <2>2
    <3>2. i - 1 \notin K
      BY <1>2, <3>1
    <3> QED BY <3>1, <3>2
  <2> QED BY <2>1, <2>2
<1>4. least \in DOMAIN parts /\ (least < Len(parts) => parts[least + 1].q # parts[1].q)
  BY <1>2
<1>5. CASE parts[1].q = {}
  BY <1>5 DEF qualified_prefix_end
<1>6. CASE parts[1].q # {}
  <2> DEFINE c == CHOOSE end \in DOMAIN parts : SameAsYear(parts, end)
  <2>1. qualified_prefix_end(parts) = c
    BY <1>6 DEF qualified_prefix_end, SameAsYear
  <2>2. least \in DOMAIN parts /\ SameAsYear(parts, least)
    BY <1>3, <1>4 DEF SameAsYear
  <2>3. c \in DOMAIN parts /\ SameAsYear(parts, c)
    BY <2>2
  <2> HIDE DEF c
  <2>4. c \in 1..n /\ \A i \in 1..c : parts[i].q = parts[1].q
    BY <2>3 DEF SameAsYear
  <2> QED BY <1>6, <2>1, <2>4
<1> QED BY <1>5, <1>6

(* The last component that the year's marker reaches.                      *)
LEMMA GroupEnd ==
  ASSUME NEW d \in Dates, Slotted(d)
  PROVE  /\ group_end(d) \in 0..3
         /\ group_end(d) = 0 => d.year.qualifier = {}
         /\ d.month = None => group_end(d) \in 0..1
         /\ d.day = None => group_end(d) \in 0..2
         /\ group_end(d) >= 2 => Get(d.month).qualifier = d.year.qualifier
         /\ group_end(d) >= 3 => Get(d.day).qualifier = d.year.qualifier
<1> DEFINE y == Part(year_body(d.year), d.year.qualifier)
           m == Part(<<Group(Get(d.month).digits)>>, Get(d.month).qualifier)
           f == Part(<<Group(Get(d.day).digits)>>, Get(d.day).qualifier)
           e == group_end(d)
           parts == date_parts(d)
<1>1. y.q = d.year.qualifier /\ m.q = Get(d.month).qualifier /\ f.q = Get(d.day).qualifier
  BY DEF Part
<1>2. \/ d.month = None /\ d.day = None /\ parts = <<y>>
      \/ d.month # None /\ d.day = None /\ parts = <<y, m>>
      \/ d.month # None /\ d.day # None /\ parts = <<y, m, f>>
  BY PartsOfDate
<1>3. e = qualified_prefix_end(parts)
  BY DEF group_end
<1> HIDE DEF y, m, f, e, parts
<1>4. CASE d.month = None /\ d.day = None /\ parts = <<y>>
  <2>1. DOMAIN parts = 1..1 /\ Len(parts) = 1 /\ parts[1] = y /\ 1 \in 1..3
    BY <1>4
  <2>2. /\ y.q = {} => e = 0
        /\ y.q # {} => e \in 1..1
    BY <1>3, <2>1, PrefixEnd
  <2> QED BY <1>1, <1>4, <2>2 DEF e
<1>5. CASE d.month # None /\ d.day = None /\ parts = <<y, m>>
  <2>1. DOMAIN parts = 1..2 /\ Len(parts) = 2 /\ parts[1] = y /\ parts[2] = m /\ 2 \in 1..3
    BY <1>5
  <2>2. /\ y.q = {} => e = 0
        /\ y.q # {} => e \in 1..2 /\ \A i \in 1..e : parts[i].q = y.q
    BY <1>3, <2>1, PrefixEnd
  <2>3. e >= 2 => m.q = y.q
    BY <2>1, <2>2
  <2> QED BY <1>1, <1>5, <2>2, <2>3 DEF e
<1>6. CASE d.month # None /\ d.day # None /\ parts = <<y, m, f>>
  <2>1. DOMAIN parts = 1..3 /\ Len(parts) = 3 /\ parts[1] = y /\ parts[2] = m /\ parts[3] = f /\ 3 \in 1..3
    BY <1>6
  <2>2. /\ y.q = {} => e = 0
        /\ y.q # {} => e \in 1..3 /\ \A i \in 1..e : parts[i].q = y.q
    BY <1>3, <2>1, PrefixEnd
  <2>3. (e >= 2 => m.q = y.q) /\ (e >= 3 => f.q = y.q)
    BY <2>1, <2>2
  <2> QED BY <1>1, <1>6, <2>2, <2>3 DEF e
<1> QED BY <1>2, <1>4, <1>5, <1>6

(* One separated piece.                                                    *)
LEMMA OneSeparated ==
  ASSUME NEW T, NEW x \in Seq(T), NEW s, Sym(s) \in T
  PROVE  separated(<<x>>, s) = x
<1>1. <<x>> \in Seq(Seq(T)) /\ <<x>> # <<>> /\ Len(<<x>>) = 1 /\ <<x>>[1] = x
  OBVIOUS
<1> QED BY <1>1, SeparatedHead

(* Two of them.                                                            *)
LEMMA TwoSeparated ==
  ASSUME NEW T, NEW x \in Seq(T), NEW y \in Seq(T), NEW s, Sym(s) \in T
  PROVE  separated(<<x, y>>, s) = x \o (<<Sym(s)>> \o y)
<1>1. /\ <<x, y>> \in Seq(Seq(T)) /\ <<x, y>> # <<>> /\ Len(<<x, y>>) > 1 /\ <<x, y>>[1] = x
      /\ Tail(<<x, y>>) = <<y>>
  OBVIOUS
<1>2. separated(<<x, y>>, s) = <<x, y>>[1] \o (<<Sym(s)>> \o separated(Tail(<<x, y>>), s))
  BY <1>1, SeparatedHead
<1>3. separated(<<y>>, s) = y
  BY OneSeparated
<1> QED BY <1>1, <1>2, <1>3

(* Three of them.                                                          *)
InThree(s, x, y, z) ==
  separated(<<x, y, z>>, s) = x \o (<<Sym(s)>> \o (y \o (<<Sym(s)>> \o z)))

(* Three separated pieces. *)
LEMMA ThreeSeparated ==
  ASSUME NEW T, NEW x \in Seq(T), NEW y \in Seq(T), NEW z \in Seq(T), NEW s, Sym(s) \in T
  PROVE  InThree(s, x, y, z)
<1>1. /\ <<x, y, z>> \in Seq(Seq(T)) /\ <<x, y, z>> # <<>> /\ Len(<<x, y, z>>) > 1
      /\ <<x, y, z>>[1] = x /\ Tail(<<x, y, z>>) = <<y, z>>
  OBVIOUS
<1>2. separated(<<x, y, z>>, s) = <<x, y, z>>[1] \o (<<Sym(s)>> \o separated(Tail(<<x, y, z>>), s))
  BY <1>1, SeparatedHead
<1>3. separated(<<y, z>>, s) = y \o (<<Sym(s)>> \o z)
  BY TwoSeparated
<1> QED BY <1>1, <1>2, <1>3 DEF InThree

(* A function on one, two or three numbers is a tuple.                     *)
LEMMA Tuples ==
  ASSUME NEW f, NEW n \in 1..3, f = [i \in 1..n |-> f[i]]
  PROVE  /\ n = 1 => f = <<f[1]>>
         /\ n = 2 => f = <<f[1], f[2]>>
         /\ n = 3 => f = <<f[1], f[2], f[3]>>
OBVIOUS

(* A group's digits.                                                       *)
LEMMA DigitGroup ==
  ASSUME NEW n \in 1..4, NEW g \in [1..n -> MaskDigit]
  PROVE  g \in Seq(MaskDigit) /\ g # <<>> /\ Len(g) = n
<1>1. g \in Seq(MaskDigit) /\ Len(g) = n
  OBVIOUS
<1>2. g # <<>>
  BY <1>1
<1> QED BY <1>1, <1>2

(* A field's group is written as a date's text.                            *)
LEMMA FieldGroup ==
  ASSUME NEW f \in Fields
  PROVE  <<Group(f.digits)>> \in Seq(DateTokens)
<1>1. f.digits \in Seq(MaskDigit) /\ f.digits # <<>>
  BY FieldParts, DigitGroup
<1>2. Group(f.digits) \in DateTokens
  BY <1>1, DateTokenFacts
<1> QED BY <1>2

(* What is written of a date beyond its year's body.                       *)
LEMMA DateTails ==
  ASSUME NEW d \in Dates
  PROVE  /\ \A i : Closing(d, i) \in Seq(DateTokens)
         /\ \A i, q : q \in Qualifier => Opening(d, i, q) \in Seq(DateTokens)
         /\ \A i, f, r : f \in Fields /\ r \in Seq(DateTokens) => FieldText(d, i, f, r) \in Seq(DateTokens)
         /\ TextOfDay(d) \in Seq(DateTokens) /\ MonthText(d) \in Seq(DateTokens)
         /\ YearEndText(d) \in Seq(DateTokens)
<1>1. <<>> \in Seq(DateTokens) /\ <<Sym("-")>> \in Seq(DateTokens)
  <2>1. Sym("-") \in DateTokens
    BY DateTokenFacts DEF DateSymbols
  <2> QED BY <2>1
<1>2. ASSUME NEW i PROVE Closing(d, i) \in Seq(DateTokens)
  <2>1. qual_symbol(d.year.qualifier) \in Seq(DateTokens)
    BY DateParts, MarkText
  <2> QED BY <1>1, <2>1 DEF Closing
<1>3. ASSUME NEW i, NEW q \in Qualifier PROVE Opening(d, i, q) \in Seq(DateTokens)
  BY <1>1, MarkText DEF Opening
<1>4. ASSUME NEW i, NEW f \in Fields, NEW r \in Seq(DateTokens)
      PROVE  FieldText(d, i, f, r) \in Seq(DateTokens)
  <2> DEFINE o == Opening(d, i, f.qualifier)
             g == <<Group(f.digits)>>
             c == Closing(d, i)
  <2>1. o \in Seq(DateTokens) /\ g \in Seq(DateTokens) /\ c \in Seq(DateTokens)
    BY <1>2, <1>3, FieldParts, FieldGroup
  <2>2. FieldText(d, i, f, r) = o \o (g \o (c \o r))
    BY DEF FieldText
  <2> HIDE DEF o, g, c
  <2> QED BY <2>1, <2>2
<1>5. TextOfDay(d) \in Seq(DateTokens)
  <2>1. CASE d.day # None
    <3> DEFINE t == FieldText(d, 3, Get(d.day), <<>>)
    <3>1. t \in Seq(DateTokens)
      BY <1>1, <1>4, <2>1, DateParts, Options
    <3>2. TextOfDay(d) = <<Sym("-")>> \o t
      BY <2>1 DEF TextOfDay
    <3> HIDE DEF t
    <3> QED BY <1>1, <3>1, <3>2
  <2> QED BY <1>1, <2>1 DEF TextOfDay
<1>6. MonthText(d) \in Seq(DateTokens)
  <2>1. CASE d.month # None
    <3> DEFINE t == FieldText(d, 2, Get(d.month), TextOfDay(d))
    <3>1. t \in Seq(DateTokens)
      BY <1>4, <1>5, <2>1, DateParts, Options
    <3>2. MonthText(d) = <<Sym("-")>> \o t
      BY <2>1 DEF MonthText
    <3> HIDE DEF t
    <3> QED BY <1>1, <3>1, <3>2
  <2> QED BY <1>1, <2>1 DEF MonthText
<1>7. YearEndText(d) \in Seq(DateTokens)
  BY <1>2, <1>6 DEF YearEndText
<1> QED BY <1>2, <1>3, <1>4, <1>5, <1>6, <1>7

(* The text of a date is its year's body and what follows it.              *)
LEMMA DateTextIs ==
  ASSUME NEW d \in Dates, Slotted(d), year_body(d.year) \in Seq(DateTokens)
  PROVE  DateText(d) = year_body(d.year) \o YearEndText(d)
<1> DEFINE T == DateTokens
           body == year_body(d.year)
           y == Part(body, d.year.qualifier)
           mg == <<Group(Get(d.month).digits)>>
           fg == <<Group(Get(d.day).digits)>>
           m == Part(mg, Get(d.month).qualifier)
           f == Part(fg, Get(d.day).qualifier)
           parts == date_parts(d)
           e == group_end(d)
           pieces == [i \in DOMAIN parts |-> PartText(parts, i, e)]
           c1 == Closing(d, 1)
           c2 == Closing(d, 2)
           c3 == Closing(d, 3)
           o2 == Opening(d, 2, Get(d.month).qualifier)
           o3 == Opening(d, 3, Get(d.day).qualifier)
           dash == <<Sym("-")>>
<1>1. DateText(d) = separated(pieces, "-")
  BY DEF DateText, PartsText, group_end
<1>2. \/ d.month = None /\ d.day = None /\ parts = <<y>>
      \/ d.month # None /\ d.day = None /\ parts = <<y, m>>
      \/ d.month # None /\ d.day # None /\ parts = <<y, m, f>>
  BY PartsOfDate
<1>3. /\ body \in Seq(T) /\ dash \in Seq(T) /\ <<>> \in Seq(T) /\ Sym("-") \in T
      /\ c1 \in Seq(T) /\ c2 \in Seq(T) /\ c3 \in Seq(T)
  <2>1. Sym("-") \in DateTokens
    BY DateTokenFacts DEF DateSymbols
  <2> QED BY <2>1, DateTails
<1>4. d.month # None => o2 \in Seq(T) /\ mg \in Seq(T)
  <2> SUFFICES ASSUME d.month # None PROVE o2 \in Seq(T) /\ mg \in Seq(T)
    OBVIOUS
  <2>1. Get(d.month) \in Fields
    BY DateParts, Options
  <2> QED BY <2>1, FieldParts, FieldGroup, DateTails
<1>5. d.day # None => o3 \in Seq(T) /\ fg \in Seq(T)
  <2> SUFFICES ASSUME d.day # None PROVE o3 \in Seq(T) /\ fg \in Seq(T)
    OBVIOUS
  <2>1. Get(d.day) \in Fields
    BY DateParts, Options
  <2> QED BY <2>1, FieldParts, FieldGroup, DateTails
<1>6. y.body = body /\ m.body = mg /\ f.body = fg
      /\ y.q = d.year.qualifier /\ m.q = Get(d.month).qualifier /\ f.q = Get(d.day).qualifier
  BY DEF Part
<1>7. ASSUME parts[1] = y PROVE PartText(parts, 1, e) = body \o c1
  <2> DEFINE o1 == IF 1 > e THEN qual_symbol(d.year.qualifier) ELSE <<>>
  <2>1. o1 = <<>>
    <3>1. 1 > e => e = 0
      BY GroupEnd
    <3>2. 1 > e => qual_symbol(d.year.qualifier) = <<>>
      BY <3>1, GroupEnd DEF qual_symbol
    <3> QED BY <3>2
  <2>2. PartText(parts, 1, e) = (o1 \o body) \o c1
    BY <1>6, <1>7 DEF PartText, Closing
  <2> HIDE DEF c1, body, o1
  <2>3. o1 \o body = body
    BY <1>3, <2>1
  <2> QED BY <2>2, <2>3
<1>8. ASSUME parts[1] = y, parts[2] = m PROVE PartText(parts, 2, e) = (o2 \o mg) \o c2
  BY <1>6, <1>8 DEF PartText, Closing, Opening
<1>9. ASSUME parts[1] = y, parts[3] = f PROVE PartText(parts, 3, e) = (o3 \o fg) \o c3
  BY <1>6, <1>9 DEF PartText, Closing, Opening
<1>10. /\ TextOfDay(d) = IF d.day = None THEN <<>> ELSE dash \o (o3 \o (fg \o (c3 \o <<>>)))
       /\ MonthText(d) = IF d.month = None THEN <<>> ELSE dash \o (o2 \o (mg \o (c2 \o TextOfDay(d))))
       /\ YearEndText(d) = c1 \o MonthText(d)
  BY DEF TextOfDay, MonthText, YearEndText, FieldText
<1> HIDE DEF y, m, f, body, mg, fg, parts, e, c1, c2, c3, o2, o3, dash, T
<1>11. CASE d.month = None /\ d.day = None /\ parts = <<y>>
  <2>1. pieces = <<body \o c1>>
    <3>1. DOMAIN parts = 1..1 /\ parts[1] = y
      BY <1>11
    <3>2. pieces = [i \in 1..1 |-> pieces[i]] /\ pieces[1] = PartText(parts, 1, e)
      BY <3>1
    <3> HIDE DEF pieces
    <3> QED BY <1>7, <3>1, <3>2, Tuples
  <2> HIDE DEF pieces
  <2>2. body \o c1 \in Seq(T)
    BY <1>3
  <2>3. DateText(d) = body \o c1
    BY <1>1, <1>3, <2>1, <2>2, OneSeparated
  <2>4. c1 \o <<>> = c1
    BY <1>3
  <2> QED BY <1>10, <1>11, <2>3, <2>4 DEF body
<1>12. CASE d.month # None /\ d.day = None /\ parts = <<y, m>>
  <2> DEFINE p1 == body \o c1
             p2 == (o2 \o mg) \o c2
  <2>1. pieces = <<p1, p2>>
    <3>1. DOMAIN parts = 1..2 /\ parts[1] = y /\ parts[2] = m
      BY <1>12
    <3>2. /\ pieces = [i \in 1..2 |-> pieces[i]]
          /\ pieces[1] = PartText(parts, 1, e) /\ pieces[2] = PartText(parts, 2, e)
      BY <3>1
    <3>3. pieces[1] = p1 /\ pieces[2] = p2
      BY <1>7, <1>8, <3>1, <3>2
    <3> HIDE DEF pieces, p1, p2
    <3>4. pieces = <<pieces[1], pieces[2]>>
      BY <3>2, Tuples
    <3> QED BY <3>3, <3>4
  <2> HIDE DEF pieces
  <2>2. body \o c1 \in Seq(T) /\ o2 \in Seq(T) /\ mg \in Seq(T) /\ o2 \o mg \in Seq(T) /\ (o2 \o mg) \o c2 \in Seq(T)
    BY <1>3, <1>4, <1>12
  <2>3. DateText(d) = (body \o c1) \o (dash \o ((o2 \o mg) \o c2))
    <3>1. p1 \in Seq(T) /\ p2 \in Seq(T)
      BY <2>2
    <3> HIDE DEF p1, p2
    <3>2. separated(<<p1, p2>>, "-") = p1 \o (<<Sym("-")>> \o p2)
      BY <1>3, <3>1, TwoSeparated
    <3>3. DateText(d) = p1 \o (dash \o p2)
      BY <1>1, <2>1, <3>2 DEF dash
    <3> QED BY <3>3 DEF p1, p2
  <2>4. (o2 \o mg) \o c2 = o2 \o (mg \o c2) /\ c2 \o <<>> = c2
    <3>1. Regrouped(o2, mg, c2)
      BY <1>3, <2>2, Regroup
    <3>2. c2 \o <<>> = c2
      BY <1>3
    <3> QED BY <3>1, <3>2 DEF Regrouped
  <2>5. dash \o (o2 \o (mg \o c2)) \in Seq(T)
    BY <1>3, <2>2
  <2> DEFINE z == dash \o (o2 \o (mg \o c2))
  <2>6. (body \o c1) \o z = body \o (c1 \o z)
    <3>1. Regrouped(body, c1, z)
      BY <1>3, <2>5, Regroup
    <3> QED BY <3>1 DEF Regrouped
  <2> QED BY <1>10, <1>12, <2>3, <2>4, <2>6 DEF body
<1>13. CASE d.month # None /\ d.day # None /\ parts = <<y, m, f>>
  <2> DEFINE p1 == body \o c1
             p2 == (o2 \o mg) \o c2
             p3 == (o3 \o fg) \o c3
  <2>1. pieces = <<p1, p2, p3>>
    <3>1. DOMAIN parts = 1..3 /\ parts[1] = y /\ parts[2] = m /\ parts[3] = f
      BY <1>13
    <3>2. /\ pieces = [i \in 1..3 |-> pieces[i]] /\ pieces[1] = PartText(parts, 1, e)
          /\ pieces[2] = PartText(parts, 2, e) /\ pieces[3] = PartText(parts, 3, e)
      BY <3>1
    <3>3. pieces[1] = p1 /\ pieces[2] = p2 /\ pieces[3] = p3
      BY <1>7, <1>8, <1>9, <3>1, <3>2
    <3> HIDE DEF pieces, p1, p2, p3
    <3>4. pieces = <<pieces[1], pieces[2], pieces[3]>>
      BY <3>2, Tuples
    <3> QED BY <3>3, <3>4
  <2> HIDE DEF pieces
  <2>2. /\ p1 \in Seq(T) /\ o2 \in Seq(T) /\ mg \in Seq(T) /\ o2 \o mg \in Seq(T) /\ p2 \in Seq(T)
        /\ o3 \in Seq(T) /\ fg \in Seq(T) /\ p3 \in Seq(T)
    BY <1>3, <1>4, <1>5, <1>13
  <2>3. DateText(d) = p1 \o (dash \o (p2 \o (dash \o p3)))
    <3>0. p1 \in Seq(T) /\ p2 \in Seq(T) /\ p3 \in Seq(T)
      BY <2>2
    <3> HIDE DEF p1, p2, p3
    <3>1. InThree("-", p1, p2, p3)
      BY <1>3, <3>0, ThreeSeparated
    <3>2. separated(<<p1, p2, p3>>, "-") = p1 \o (dash \o (p2 \o (dash \o p3)))
      BY <3>1 DEF InThree, dash
    <3> QED BY <1>1, <2>1, <3>2
  <2>4. p3 = o3 \o (fg \o (c3 \o <<>>)) /\ dash \o p3 = TextOfDay(d)
    <3>1. c3 \o <<>> = c3
      BY <1>3
    <3>2. Regrouped(o3, fg, c3)
      BY <1>3, <2>2, Regroup
    <3> QED BY <1>10, <1>13, <3>1, <3>2 DEF Regrouped
  <2>5. TextOfDay(d) \in Seq(T)
    BY DateTails DEF T
  <2>6. p2 \o TextOfDay(d) = o2 \o (mg \o (c2 \o TextOfDay(d)))
    <3>1. Regrouped(o2 \o mg, c2, TextOfDay(d))
      BY <1>3, <2>2, <2>5, Regroup
    <3>2. c2 \o TextOfDay(d) \in Seq(T)
      BY <1>3, <2>5
    <3>3. Regrouped(o2, mg, c2 \o TextOfDay(d))
      BY <2>2, <3>2, Regroup
    <3> QED BY <3>1, <3>3 DEF Regrouped
  <2>7. MonthText(d) = dash \o (p2 \o TextOfDay(d)) /\ MonthText(d) \in Seq(T)
    BY <1>10, <1>13, <2>6, DateTails DEF T
  <2>8. DateText(d) = (body \o c1) \o MonthText(d)
    BY <2>3, <2>4, <2>7
  <2>9. Regrouped(body, c1, MonthText(d))
    BY <1>3, <2>7, Regroup
  <2> QED BY <1>10, <2>8, <2>9 DEF body, Regrouped
<1> QED BY <1>2, <1>11, <1>12, <1>13

(* What a date's text can be written from.                                 *)
Written(d) ==
  /\ d \in Dates /\ Slotted(d)
  /\ d.year.significant_digits \in Option(0..I64Max)
  /\ d.year.kind.form = "Exponential" => d.year.kind.exponent \in 0..I64Max

mantissa_of(kind) == IF kind.form = "Big" THEN kind.value ELSE kind.significand
exponent_of(kind) == IF kind.form = "Big" THEN None ELSE Some(kind.exponent)

SignText(negative) == IF negative THEN <<Sym("-")>> ELSE <<>>
SuffixedText(d) == SuffixText("S", d.year.significant_digits) \o YearEndText(d)

(* A mantissa's digits and an exponent are counted in an i64.              *)
LEMMA DigitsInAll ==
  ASSUME NEW w \in 1..(MaxPow10 + 1), NEW e \in 0..MaxExponent
  PROVE  w + e \in 0..I64Max /\ e \in 0..I64Max
<1> DEFINE x == MaxExponent
<1>1. I64Max > x + MaxPow10 /\ MaxPow10 \in Nat /\ I64Max \in Nat /\ x \in Nat
  <2>1. I64Max > 100000 + MaxPow10
    BY I64Assumption, SMT
  <2> QED BY <2>1, Numbers, SMT DEF MaxExponent
<1> HIDE DEF x
<1>2. e \in 0..x
  BY DEF x
<1> QED BY <1>1, <1>2, SMT

(* A date that validates is written.                                       *)
LEMMA ValidIsWritten ==
  ASSUME NEW d \in Dates, ValidDate(d)
  PROVE  Written(d)
<1> DEFINE k == d.year.kind
           s == d.year.significant_digits
<1>1. k \in YearKinds /\ s \in Option(Nat)
  BY DateParts
<1>2. s = None \/ (Get(s) \in Nat /\ s = Some(Get(s)))
  BY <1>1, Options
<1>3. ASSUME Get(s) \in 0..I64Max PROVE s \in Option(0..I64Max)
  <2>1. None \in Option(0..I64Max) /\ Some(Get(s)) \in Option(0..I64Max)
    BY <1>3, Options
  <2> QED BY <1>2, <2>1
<1>4. CASE k.form = "Standard"
  <2>1. /\ s # None => Get(s) \in 1..4
        /\ d.day # None => d.month # None
    BY <1>4 DEF ValidDate, ValidStandardDate
  <2>2. s # None => Get(s) \in 0..I64Max
    <3>1. 1..4 \subseteq 0..I64Max
      BY Numbers
    <3> QED BY <2>1, <3>1
  <2>3. s \in Option(0..I64Max)
    BY <1>3, <2>2, Options
  <2> QED BY <1>4, <2>1, <2>3 DEF Written, Slotted
<1>5. CASE k.form = "Big"
  <2>1. k.value \in -I64Max..I64Max
    BY <1>1, <1>5, KindForms
  <2>2. /\ s # None => Get(s) \in 1..decimal_digits(Abs(k.value))
        /\ d.month = None /\ d.day = None
    BY <1>5 DEF ValidDate, ValidPrefixedYear, digit_count
  <2>3. decimal_digits(Abs(k.value)) \in 1..(MaxPow10 + 1)
    <3> DEFINE v == k.value
    <3>1. Abs(v) \in 0..(I64Max + 1)
      <4> HIDE DEF v
      <4> QED BY <2>1, Numbers DEF Abs, v
    <3> QED BY <3>1, DigitsCounted
  <2>4. s # None => Get(s) \in 0..I64Max
    <3> DEFINE w == decimal_digits(Abs(k.value))
    <3>1. w \in 1..(MaxPow10 + 1) /\ (s # None => Get(s) \in 1..w)
      BY <2>2, <2>3
    <3> HIDE DEF w, s
    <3> QED BY <3>1, Numbers, I64Assumption
  <2>5. s \in Option(0..I64Max)
    BY <1>3, <2>4, Options
  <2> QED BY <1>5, <2>2, <2>5 DEF Written, Slotted
<1>6. CASE k.form = "Exponential"
  <2>1. k.significand \in -I64Max..I64Max
    BY <1>1, <1>6, KindForms
  <2>2. /\ s # None => Get(s) \in 1..(decimal_digits(Abs(k.significand)) + k.exponent)
        /\ d.month = None /\ d.day = None /\ k.exponent \in 0..MaxExponent
    <3>1. ValidPrefixedYear(d)
      BY <1>6 DEF ValidDate
    <3>2. digit_count(k) = decimal_digits(Abs(k.significand)) + k.exponent
      BY <1>6 DEF digit_count
    <3>3. k.exponent \in 0..MaxExponent
      BY <1>6, <3>1 DEF ValidPrefixedYear
    <3>4. (s # None => Get(s) \in 1..digit_count(k)) /\ d.month = None /\ d.day = None
      BY <3>1 DEF ValidPrefixedYear
    <3> QED BY <3>2, <3>3, <3>4
  <2>3. decimal_digits(Abs(k.significand)) \in 1..(MaxPow10 + 1)
    <3> DEFINE v == k.significand
    <3>1. Abs(v) \in 0..(I64Max + 1)
      <4> HIDE DEF v
      <4> QED BY <2>1, Numbers DEF Abs, v
    <3> QED BY <3>1, DigitsCounted
  <2>4. (s # None => Get(s) \in 0..I64Max) /\ k.exponent \in 0..I64Max
    <3> DEFINE w == decimal_digits(Abs(k.significand))
               e == k.exponent
               n == Get(s)
    <3>1. w \in 1..(MaxPow10 + 1) /\ e \in 0..MaxExponent /\ (s # None => n \in 1..(w + e))
      BY <2>2, <2>3
    <3> HIDE DEF w, e, n
    <3>2. w + e \in 0..I64Max /\ e \in 0..I64Max
      BY <3>1, DigitsInAll
    <3>3. s # None => n \in 0..I64Max
      BY <3>1, <3>2, Numbers
    <3> QED BY <3>2, <3>3 DEF e, n
  <2>5. s \in Option(0..I64Max)
    BY <1>3, <2>4, Options
  <2> QED BY <1>6, <2>2, <2>4, <2>5 DEF Written, Slotted
<1> QED BY <1>1, <1>4, <1>5, <1>6, KindForms

(* So is a plain complete date.                                            *)
LEMMA PlainIsWritten ==
  ASSUME NEW d \in Dates, parse_plain_complete_date(d)
  PROVE  Written(d)
<1>1. d.year.kind.form = "Standard" /\ d.year.significant_digits = None /\ d.month # None
  BY DEF parse_plain_complete_date
<1>2. None \in Option(0..I64Max)
  BY Options
<1> QED BY <1>1, <1>2 DEF Written, Slotted

(* What follows a year is a text.                                          *)
LEMMA SuffixedIsText ==
  ASSUME NEW d, Written(d)
  PROVE  /\ SuffixedText(d) \in Seq(DateTokens) /\ YearEndText(d) \in Seq(DateTokens)
         /\ SuffixText("S", d.year.significant_digits) \in Seq(DateTokens)
<1>1. YearEndText(d) \in Seq(DateTokens)
  BY DateTails DEF Written
<1>2. SuffixText("S", d.year.significant_digits) \in Seq(DateTokens)
  <2>1. <<>> \in TokenText /\ ~starts(<<>>, "S")
    BY DEF TokenText, starts
  <2> QED BY <2>1, SuffixRead DEF Written
<1> QED BY <1>1, <1>2 DEF SuffixedText

(* A written number, with a letter or none before it, is a text.           *)
LEMMA WrittenNumbers ==
  ASSUME NEW v \in -I64Max..I64Max, NEW o \in Option(0..I64Max), NEW s \in {"E", "S"}
  PROVE  SignedText(v) \in Seq(DateTokens) /\ SignedText(v) # <<>> /\ SuffixText(s, o) \in Seq(DateTokens)
<1>1. <<>> \in TokenText /\ ~starts(<<>>, s)
  BY DEF TokenText, starts
<1>2. SignedText(v) \in Seq(DateTokens) /\ SuffixText(s, o) \in Seq(DateTokens)
  BY <1>1, SignedRead, SuffixRead
<1>3. NumberText(Abs(v)) # <<>> /\ NumberText(Abs(v)) \in Seq(DateTokens)
  BY <1>1, SignedRead, NumberRead
<1>4. SignedText(v) # <<>>
  <2> DEFINE t == NumberText(Abs(v))
             a == IF v < 0 THEN <<Sym("-")>> ELSE <<>>
  <2>1. SignedText(v) = a \o t
    BY DEF SignedText
  <2>2. a \in Seq(DateTokens) /\ t \in Seq(DateTokens) /\ t # <<>>
    BY <1>3, DateTokenFacts DEF DateSymbols
  <2> HIDE DEF a, t
  <2> QED BY <2>1, <2>2
<1> QED BY <1>2, <1>4

(* The text of a four-digit year's date.                                   *)
LEMMA StandardText ==
  ASSUME NEW d, Written(d), d.year.kind.form = "Standard"
  PROVE  /\ year_body(d.year) \in Seq(DateTokens)
         /\ DateText(d) = SignText(d.year.kind.negative)
                            \o (<<Group(d.year.kind.digits)>> \o SuffixedText(d))
         /\ <<Group(d.year.kind.digits)>> \o SuffixedText(d) \in Seq(DateTokens)
         /\ DateText(d) \in Seq(DateTokens) /\ DateText(d) # <<>>
<1> DEFINE a == SignText(d.year.kind.negative)
           g == <<Group(d.year.kind.digits)>>
           s == SuffixText("S", d.year.significant_digits)
           t == YearEndText(d)
<1>1. a \in Seq(DateTokens) /\ g \in Seq(DateTokens) /\ s \in Seq(DateTokens) /\ t \in Seq(DateTokens)
  <2>1. Sym("-") \in DateTokens
    BY DateTokenFacts DEF DateSymbols
  <2>2. a \in Seq(DateTokens)
    BY <2>1 DEF SignText
  <2>3. d.year.kind.digits \in [1..4 -> MaskDigit]
    BY DateParts, KindForms DEF Written
  <2>4. d.year.kind.digits \in Seq(MaskDigit) /\ d.year.kind.digits # <<>>
    BY <2>3, DigitGroup
  <2>5. Group(d.year.kind.digits) \in DateTokens
    BY <2>4, DateTokenFacts
  <2> QED BY <2>2, <2>5, SuffixedIsText
<1>2. year_body(d.year) = (a \o g) \o s /\ SuffixedText(d) = s \o t
  BY DEF year_body, SignText, SuffixedText
<1>3. d \in Dates /\ Slotted(d)
  BY DEF Written
<1> HIDE DEF a, g, s, t
<1>4. (a \o g) \o s \in Seq(DateTokens)
  BY <1>1
<1>5. DateText(d) = ((a \o g) \o s) \o t
  BY <1>2, <1>3, <1>4, DateTextIs DEF t
<1>6. ((a \o g) \o s) \o t = a \o (g \o (s \o t))
  <2>1. a \o g \in Seq(DateTokens) /\ s \o t \in Seq(DateTokens)
    BY <1>1
  <2>2. Regrouped(a \o g, s, t)
    BY <1>1, <2>1, Regroup
  <2>3. Regrouped(a, g, s \o t)
    BY <1>1, <2>1, Regroup
  <2> QED BY <2>2, <2>3 DEF Regrouped
<1>7. g \o (s \o t) \in Seq(DateTokens) /\ a \o (g \o (s \o t)) \in Seq(DateTokens)
  <2>1. s \o t \in Seq(DateTokens)
    BY <1>1
  <2> DEFINE z == s \o t
  <2> HIDE DEF z
  <2>2. z \in Seq(DateTokens)
    BY <2>1 DEF z
  <2>3. g \o z \in Seq(DateTokens)
    BY <1>1, <2>2
  <2>4. a \o (g \o z) \in Seq(DateTokens)
    BY <1>1, <2>3
  <2> QED BY <2>3, <2>4 DEF z
<1>8. a \o (g \o (s \o t)) # <<>>
  <2>1. g # <<>>
    BY DEF g
  <2> DEFINE z == s \o t
  <2>2. z \in Seq(DateTokens)
    BY <1>1
  <2> HIDE DEF z
  <2>3. g \o z # <<>> /\ g \o z \in Seq(DateTokens)
    BY <1>1, <2>1, <2>2
  <2>4. a \o (g \o z) # <<>>
    BY <1>1, <2>3
  <2> QED BY <2>4 DEF z
<1> QED BY <1>2, <1>4, <1>5, <1>6, <1>7, <1>8 DEF a, g

(* The text of a prefixed year's date.                                     *)
LEMMA PrefixedText ==
  ASSUME NEW d, Written(d), d.year.kind.form # "Standard"
  PROVE  /\ year_body(d.year) \in Seq(DateTokens)
         /\ mantissa_of(d.year.kind) \in -I64Max..I64Max
         /\ exponent_of(d.year.kind) \in Option(0..I64Max)
         /\ DateText(d) = <<Sym("Y")>> \o (SignedText(mantissa_of(d.year.kind))
                            \o (SuffixText("E", exponent_of(d.year.kind)) \o SuffixedText(d)))
         /\ DateText(d) \in Seq(DateTokens) /\ DateText(d) # <<>>
<1> DEFINE k == d.year.kind
           y == <<Sym("Y")>>
           m == SignedText(mantissa_of(k))
           e == SuffixText("E", exponent_of(k))
           s == SuffixText("S", d.year.significant_digits)
           t == YearEndText(d)
<1>1. k.form = "Big" \/ k.form = "Exponential"
  BY DateParts, KindForms DEF Written
<1>2. mantissa_of(k) \in -I64Max..I64Max /\ exponent_of(k) \in Option(0..I64Max)
  <2>1. CASE k.form = "Big"
    BY <2>1, DateParts, KindForms, Options DEF Written, mantissa_of, exponent_of
  <2>2. CASE k.form = "Exponential"
    <3>1. k.significand \in -I64Max..I64Max
      BY <2>2, DateParts, KindForms DEF Written
    <3>2. Some(k.exponent) \in Option(0..I64Max)
      BY <2>2, Options DEF Written
    <3> QED BY <2>2, <3>1, <3>2 DEF mantissa_of, exponent_of
  <2> QED BY <1>1, <2>1, <2>2
<1>3. /\ y \in Seq(DateTokens) /\ m \in Seq(DateTokens) /\ e \in Seq(DateTokens)
      /\ s \in Seq(DateTokens) /\ t \in Seq(DateTokens)
  <2>1. Sym("Y") \in DateTokens
    BY DateTokenFacts DEF DateSymbols
  <2>2. m \in Seq(DateTokens) /\ e \in Seq(DateTokens)
    BY <1>2, WrittenNumbers
  <2> QED BY <2>1, <2>2, SuffixedIsText
<1>4. /\ k.form = "Big" => year_body(d.year) = (y \o m) \o s
      /\ k.form = "Exponential" => year_body(d.year) = ((y \o m) \o e) \o s
      /\ k.form = "Big" => e = <<>>
  BY DEF year_body, mantissa_of, exponent_of, SuffixText
<1>5. SuffixedText(d) = s \o t /\ d \in Dates /\ Slotted(d)
  BY DEF SuffixedText, Written
<1> HIDE DEF y, m, e, s, t
<1>6. year_body(d.year) = ((y \o m) \o e) \o s
  <2>1. k.form = "Big" => (y \o m) \o e = y \o m
    BY <1>3, <1>4
  <2> QED BY <1>1, <1>4, <2>1
<1>7. y \o m \in Seq(DateTokens) /\ s \o t \in Seq(DateTokens) /\ (y \o m) \o e \in Seq(DateTokens)
  BY <1>3
<1>8. ((y \o m) \o e) \o s \in Seq(DateTokens) /\ e \o (s \o t) \in Seq(DateTokens)
  BY <1>3, <1>7
<1>9. DateText(d) = (((y \o m) \o e) \o s) \o t
  BY <1>5, <1>6, <1>8, DateTextIs DEF t
<1>10. (((y \o m) \o e) \o s) \o t = y \o (m \o (e \o (s \o t)))
  <2>1. Regrouped((y \o m) \o e, s, t)
    BY <1>3, <1>7, Regroup
  <2>2. Regrouped(y \o m, e, s \o t)
    BY <1>3, <1>7, Regroup
  <2>3. Regrouped(y, m, e \o (s \o t))
    BY <1>3, <1>8, Regroup
  <2> QED BY <2>1, <2>2, <2>3 DEF Regrouped
<1>11. y \o (m \o (e \o (s \o t))) \in Seq(DateTokens) /\ y \o (m \o (e \o (s \o t))) # <<>>
  <2> DEFINE z == e \o (s \o t)
  <2>1. z \in Seq(DateTokens)
    BY <1>8
  <2> HIDE DEF z
  <2>2. m \o z \in Seq(DateTokens) /\ y # <<>>
    BY <1>3, <2>1 DEF y
  <2>3. y \o (m \o z) \in Seq(DateTokens) /\ y \o (m \o z) # <<>>
    BY <1>3, <2>2
  <2> QED BY <2>3 DEF z
<1> QED BY <1>2, <1>5, <1>6, <1>8, <1>9, <1>10, <1>11 DEF y, m, e

-----------------------------------------------------------------------------
(* Expressions are written as texts. *)

(* Any symbol is a text by itself, and texts in a row are one.             *)
LEMMA OneSymbol ==
  /\ \A s \in Symbols : <<Sym(s)>> \in TokenText
  /\ <<>> \in TokenText
  /\ \A a, b \in TokenText : a \o b \in TokenText
<1>1. \A s \in Symbols : <<Sym(s)>> \in TokenText
  BY Symbol DEF TokenText
<1> QED BY <1>1 DEF TokenText

(* A valid date is.                                                        *)
LEMMA DateWritten ==
  ASSUME NEW d, Written(d)
  PROVE  DateText(d) \in Seq(DateTokens) /\ DateText(d) # <<>> /\ DateText(d) \in TokenText
BY StandardText, PrefixedText, DateTokenFacts

(* The members of the kinds of endpoints.                                  *)
LEMMA EndForms ==
  ASSUME NEW e \in Ends
  PROVE  \/ e = OpenEnd /\ e.kind = "Open"
         \/ e = UnknownEnd /\ e.kind = "Unknown"
         \/ e.kind \in {"Date", "OnOrBefore", "OnOrAfter"} /\ e.date \in Dates /\ is_dated(e)
              /\ e = [kind |-> e.kind, date |-> e.date]
         \/ e.kind = "Range" /\ e.date \in Dates /\ e.to \in Dates /\ is_dated(e)
              /\ e = RangeOf(e.date, e.to)
BY DEF Ends, OpenEnd, UnknownEnd, is_dated, RangeOf

(* So is a valid endpoint or element.                                      *)
LEMMA EndWritten ==
  ASSUME NEW e \in Ends, ValidEnd(e)
  PROVE  EndText(e) \in TokenText
<1>1. <<>> \in TokenText /\ <<Sym("..")>> \in TokenText
  BY OneSymbol DEF Symbols
<1>2. ASSUME NEW d \in Dates, ValidDate(d)
      PROVE  DateText(d) \in TokenText
  BY <1>2, ValidIsWritten, DateWritten
<1>3. \A a, b \in TokenText : a \o b \in TokenText
  BY DEF TokenText
<1>4. CASE e.kind = "Open" \/ e.kind = "Unknown"
  BY <1>1, <1>4 DEF EndText
<1>5. CASE e.kind \in {"Date", "OnOrBefore", "OnOrAfter"}
  <2>1. DateText(e.date) \in TokenText
    BY <1>2, <1>5, EndForms DEF ValidEnd
  <2> QED BY <1>1, <1>3, <1>5, <2>1 DEF EndText
<1>6. CASE e.kind = "Range"
  <2>1. DateText(e.date) \in TokenText /\ DateText(e.to) \in TokenText
    BY <1>2, <1>6, EndForms DEF ValidEnd
  <2>2. EndText(e) = DateText(e.date) \o <<Sym("..")>> \o DateText(e.to)
    BY <1>6 DEF EndText
  <2>3. DateText(e.date) \o <<Sym("..")>> \in TokenText
    BY <1>1, <1>3, <2>1
  <2> QED BY <1>3, <2>1, <2>2, <2>3
<1> QED BY <1>4, <1>5, <1>6, EndForms

(* Two digits.                                                             *)
LEMMA TwoWritten ==
  ASSUME NEW n \in 0..99
  PROVE  /\ TwoDigits(n) = <<Group(<<n \div 10, n % 10>>)>> /\ TwoDigits(n) \in TokenText
         /\ Group(<<n \div 10, n % 10>>) \in Token
         /\ plain_group(Group(<<n \div 10, n % 10>>), 2) /\ two(Group(<<n \div 10, n % 10>>)) = n
<1> DEFINE a == n \div 10
           b == n % 10
           g == <<a, b>>
<1>1. a \in Digit /\ b \in Digit /\ 10 * a + b = n
  BY DEF Digit
<1> HIDE DEF a, b
<1>2. g \in Seq(Digit) /\ g \in Seq(MaskDigit) /\ g # <<>> /\ Len(g) = 2 /\ g[1] = a /\ g[2] = b
  BY <1>1 DEF MaskDigit
<1>3. ~has_x(g)
  <2>1. \A k \in Digit : k # X
    BY DEF Digit, X
  <2>2. DOMAIN g = 1..2
    BY <1>2
  <2> QED BY <1>1, <1>2, <2>1, <2>2 DEF has_x
<1> HIDE DEF g
<1>4. Group(g) \in Token /\ IsGroup(Group(g)) /\ Group(g).digits = g
  BY <1>2, GroupOf
<1>5. plain_group(Group(g), 2) /\ two(Group(g)) = n
  BY <1>1, <1>2, <1>3, <1>4 DEF plain_group, two
<1>6. <<Group(g)>> \in TokenText
  BY <1>4 DEF TokenText
<1> QED BY <1>4, <1>5, <1>6 DEF TwoDigits, a, b, g

(* A shift.                                                                *)
LEMMA ShiftForms ==
  /\ \A s \in TimeShifts :
       \/ s = Utc
       \/ /\ s # Utc /\ s.minutes \in -840..840 /\ s.hours_only \in BOOLEAN
          /\ s = Offset(s.minutes, s.hours_only)
          /\ s.hours_only => s.minutes % 60 = 0
  /\ \A m \in -840..840, b \in BOOLEAN : (b => m % 60 = 0) => Offset(m, b) \in TimeShifts
<1> DEFINE M == -840..840
           Whole(m) == m % 60 = 0
           R == [shift : {"Offset"}, minutes : M, hours_only : BOOLEAN]
<1>1. TimeShifts = {Utc} \cup {o \in R : o.hours_only => Whole(o.minutes)}
  BY DEF TimeShifts
<1> HIDE DEF M, Whole
<1>2. ASSUME NEW s \in R
      PROVE  s # Utc /\ s.minutes \in M /\ s.hours_only \in BOOLEAN /\ s = Offset(s.minutes, s.hours_only)
  <2>1. s.shift = "Offset" /\ s.minutes \in M /\ s.hours_only \in BOOLEAN /\ s = Offset(s.minutes, s.hours_only)
    BY DEF Offset
  <2> QED BY <2>1 DEF Utc
<1>3. ASSUME NEW m \in M, NEW b \in BOOLEAN
      PROVE  Offset(m, b) \in R /\ Offset(m, b).minutes = m /\ Offset(m, b).hours_only = b
  BY DEF Offset
<1> HIDE DEF R
<1>4. ASSUME NEW s \in TimeShifts, s # Utc
      PROVE  /\ s \in R
             /\ s.hours_only => Whole(s.minutes)
  BY <1>1, <1>4, Zenon
<1>5. ASSUME NEW m \in M, NEW b \in BOOLEAN, b => Whole(m)
      PROVE  Offset(m, b) \in TimeShifts
  BY <1>1, <1>3, <1>5, Zenon
<1>6. ASSUME NEW s \in TimeShifts, s # Utc
      PROVE  /\ s # Utc /\ s.minutes \in M /\ s.hours_only \in BOOLEAN
             /\ s = Offset(s.minutes, s.hours_only)
             /\ s.hours_only => Whole(s.minutes)
  BY <1>2, <1>4, <1>6, Zenon
<1> QED BY <1>5, <1>6, Zenon DEF M, Whole

(* Neither a shift nor a time of day is written with a slash.              *)
NoSlashes == Token \ {Sym("/")}

(* What a time is written with holds no slash. *)
LEMMA ClockTokens ==
  /\ NoSlashes \subseteq Token /\ Sym("/") \notin NoSlashes /\ <<>> \in Seq(NoSlashes)
  /\ \A s \in {":", "Z", "+", "-"} : <<Sym(s)>> \in Seq(NoSlashes)
  /\ \A n \in 0..99 : TwoDigits(n) \in Seq(NoSlashes)
  /\ \A a, b \in Seq(NoSlashes) : a \o b \in Seq(NoSlashes)
<1>1. \A s \in {":", "Z", "+", "-"} : Sym(s) \in NoSlashes
  BY Symbol DEF Symbols, Sym, NoSlashes
<1>2. \A n \in 0..99 : TwoDigits(n) \in Seq(NoSlashes)
  <2> TAKE n \in 0..99
  <2> DEFINE g == Group(<<n \div 10, n % 10>>)
  <2>1. TwoDigits(n) = <<g>> /\ g \in Token
    BY TwoWritten
  <2>2. g # Sym("/")
    BY DEF Group, Sym
  <2> HIDE DEF g
  <2> QED BY <2>1, <2>2 DEF NoSlashes
<1>3. NoSlashes \subseteq Token /\ Sym("/") \notin NoSlashes
  BY DEF NoSlashes
<1> HIDE DEF NoSlashes
<1>4. /\ <<>> \in Seq(NoSlashes) /\ \A s \in {":", "Z", "+", "-"} : <<Sym(s)>> \in Seq(NoSlashes)
      /\ \A a, b \in Seq(NoSlashes) : a \o b \in Seq(NoSlashes)
  BY <1>1
<1> QED BY <1>2, <1>3, <1>4

(* A shift is written as a text.                                           *)
LEMMA ShiftWritten ==
  ASSUME NEW o \in Option(TimeShifts)
  PROVE  ShiftText(o) \in Seq(NoSlashes)
<1>1. CASE o = None
  <2>1. ShiftText(o) = <<>>
    BY <1>1 DEF ShiftText, Some, None
  <2> QED BY <2>1, ClockTokens
<1>2. CASE o = Some(Utc)
  <2>1. ShiftText(o) = <<Sym("Z")>>
    BY <1>2 DEF ShiftText, Some, None
  <2> QED BY <2>1, ClockTokens
<1>3. CASE o # None /\ o # Some(Utc)
  <2> DEFINE m == Abs(Get(o).minutes)
             sign == <<Sym(IF Get(o).minutes < 0 THEN "-" ELSE "+")>>
             tail == IF Get(o).hours_only /\ m % 60 = 0 THEN <<>> ELSE <<Sym(":")>> \o TwoDigits(m % 60)
  <2>1. Get(o).minutes \in -840..840
    BY <1>3, Options, ShiftForms
  <2>2. m \div 60 \in 0..99 /\ m % 60 \in 0..99
    <3> DEFINE v == Get(o).minutes
    <3>1. v \in -840..840
      BY <2>1
    <3> HIDE DEF v
    <3>2. Abs(v) \in 0..840
      BY <3>1 DEF Abs
    <3>3. Abs(v) \div 60 \in 0..99 /\ Abs(v) % 60 \in 0..99
      BY <3>2
    <3> QED BY <3>3 DEF v
  <2>3. TwoDigits(m \div 60) \in Seq(NoSlashes) /\ TwoDigits(m % 60) \in Seq(NoSlashes)
    BY <2>2, ClockTokens
  <2>4. sign \in Seq(NoSlashes) /\ tail \in Seq(NoSlashes)
    BY <2>3, ClockTokens
  <2>5. ShiftText(o) = sign \o TwoDigits(m \div 60) \o tail
    BY <1>3 DEF ShiftText
  <2> HIDE DEF m, sign, tail
  <2>6. sign \o TwoDigits(m \div 60) \in Seq(NoSlashes)
    BY <2>3, <2>4, ClockTokens
  <2> QED BY <2>4, <2>5, <2>6, ClockTokens
<1> QED BY <1>1, <1>2, <1>3

(* So is a time of day.                                                    *)
LEMMA TimeWritten ==
  ASSUME NEW t \in Times
  PROVE  TimeText(t) \in Seq(NoSlashes) /\ TimeText(t) \in TokenText
<1> DEFINE h == TwoDigits(t.hour)
           m == TwoDigits(t.minute)
           s == TwoDigits(t.second)
           z == ShiftText(t.shift)
           c == <<Sym(":")>>
<1>1. t.hour \in 0..99 /\ t.minute \in 0..99 /\ t.second \in 0..99 /\ t.shift \in Option(TimeShifts)
  BY DEF Times
<1>2. h \in Seq(NoSlashes) /\ m \in Seq(NoSlashes) /\ s \in Seq(NoSlashes) /\ z \in Seq(NoSlashes) /\ c \in Seq(NoSlashes)
  BY <1>1, ClockTokens, ShiftWritten
<1>3. TimeText(t) = h \o c \o m \o c \o s \o z
  BY DEF TimeText
<1> HIDE DEF h, m, s, z, c
<1>4. h \o c \o m \in Seq(NoSlashes)
  BY <1>2, ClockTokens
<1>5. h \o c \o m \o c \o s \in Seq(NoSlashes)
  BY <1>2, <1>4, ClockTokens
<1>6. TimeText(t) \in Seq(NoSlashes)
  BY <1>2, <1>3, <1>5, ClockTokens
<1> QED BY <1>6, ClockTokens, SeqMonotonic DEF TokenText

(* What the expressions consist of.                                        *)
LEMMA ExpressionForms ==
  ASSUME NEW x \in Expressions
  PROVE  \/ x.type = "Date" /\ x.date \in Dates /\ x = DateExpr(x.date)
         \/ x.type = "DateTime" /\ x.date \in Dates /\ x.time \in Times /\ x = DateTimeExpr(x.date, x.time)
         \/ x.type = "Interval" /\ x.start \in Ends /\ x.end \in Ends /\ x = IntervalExpr(x.start, x.end)
         \/ x.type = "Set" /\ x.kind \in {"AllMembers", "OneMember"} /\ x.elements \in Seq(Ends)
              /\ x = SetExpr(x.kind, x.elements)
BY DEF Expressions, DateExpr, DateTimeExpr, IntervalExpr, SetExpr

(* The brackets of a set.                                                  *)
LEMMA BracketSymbols ==
  ASSUME NEW k \in {"AllMembers", "OneMember"}
  PROVE  /\ Brackets(k)[1] \in Token /\ Brackets(k)[2] \in Token
         /\ k = "AllMembers" => Brackets(k)[1] = Sym("{") /\ Brackets(k)[2] = Sym("}")
         /\ k = "OneMember" => Brackets(k)[1] = Sym("[") /\ Brackets(k)[2] = Sym("]")
<1>1. k = "AllMembers" => Brackets(k)[1] = Sym("{") /\ Brackets(k)[2] = Sym("}")
  BY DEF Brackets
<1>2. k = "OneMember" => Brackets(k)[1] = Sym("[") /\ Brackets(k)[2] = Sym("]")
  BY DEF Brackets
<1> QED BY <1>1, <1>2, Symbol DEF Symbols

(* The texts of a set's elements.                                          *)
ElementTexts(es) == [i \in DOMAIN es |-> EndText(es[i])]

(* They are texts, and so are they separated. *)
LEMMA ElementsWritten ==
  ASSUME NEW es \in Seq(Ends), es # <<>>, \A i \in DOMAIN es : ValidEnd(es[i])
  PROVE  /\ ElementTexts(es) \in Seq(Seq(Token)) /\ ElementTexts(es) # <<>>
         /\ Len(ElementTexts(es)) = Len(es) /\ DOMAIN ElementTexts(es) = DOMAIN es
         /\ separated(ElementTexts(es), ",") \in TokenText
<1>1. Len(es) \in Nat /\ DOMAIN es = 1..Len(es) /\ Len(es) # 0
  BY LenProperties, EmptySeq
<1>2. \A i \in 1..Len(es) : EndText(es[i]) \in TokenText
  BY <1>1, EndWritten
<1>3. /\ ElementTexts(es) \in Seq(TokenText) /\ Len(ElementTexts(es)) = Len(es)
      /\ DOMAIN ElementTexts(es) = DOMAIN es
  BY <1>1, <1>2 DEF ElementTexts
<1>4. ElementTexts(es) # <<>>
  BY <1>1, <1>3
<1>5. Sym(",") \in Token
  BY Symbol DEF Symbols
<1>6. separated(ElementTexts(es), ",") \in Seq(Token)
  BY <1>3, <1>4, <1>5, SeparatedHead DEF TokenText
<1> QED BY <1>3, <1>4, <1>6 DEF TokenText

(* The parts of an accepted interval or set are valid.                     *)
LEMMA AcceptedEnds ==
  ASSUME NEW x \in Expressions, Accepted(x)
  PROVE  /\ x.type = "Interval" => ValidEnd(x.start) /\ ValidEnd(x.end)
         /\ x.type = "Set" => x.elements # <<>> /\ \A i \in DOMAIN x.elements : ValidEnd(x.elements[i])
<1>1. ASSUME x.type = "Interval" PROVE ValidEnd(x.start) /\ ValidEnd(x.end)
  <2>1. parse_interval(x.start, x.end)
    BY <1>1 DEF Accepted
  <2>2. x.start.kind # "Range" /\ x.end.kind # "Range"
    BY <2>1 DEF parse_interval, ends_agree
  <2> QED BY <2>1, <2>2 DEF parse_interval, ValidEnd
<1>2. ASSUME x.type = "Set"
      PROVE  x.elements # <<>> /\ \A i \in DOMAIN x.elements : ValidEnd(x.elements[i])
  <2>1. parse_set(x.elements)
    BY <1>2 DEF Accepted
  <2> QED BY <2>1 DEF parse_set, elements_agree, parse_set_element, ValidEnd
<1> QED BY <1>1, <1>2

(* An accepted expression is written as a text.                            *)
LEMMA DisplayIsText ==
  ASSUME NEW x \in Expressions, Accepted(x)
  PROVE  display(x) \in TokenText
<1>1. \A a, b \in TokenText : a \o b \in TokenText
  BY DEF TokenText
<1>2. \A s \in Symbols : <<Sym(s)>> \in TokenText
  BY Symbol DEF TokenText
<1>3. CASE x.type = "Date"
  <2>1. x.date \in Dates /\ ValidDate(x.date)
    BY <1>3, ExpressionForms DEF Accepted
  <2> QED BY <1>3, <2>1, ValidIsWritten, DateWritten DEF display
<1>4. CASE x.type = "DateTime"
  <2>1. x.date \in Dates /\ parse_plain_complete_date(x.date) /\ x.time \in Times
    BY <1>4, ExpressionForms DEF Accepted
  <2>2. DateText(x.date) \in TokenText /\ TimeText(x.time) \in TokenText
    BY <2>1, PlainIsWritten, DateWritten, TimeWritten
  <2>3. DateText(x.date) \o <<Sym("T")>> \in TokenText
    BY <1>1, <1>2, <2>2 DEF Symbols
  <2> QED BY <1>1, <1>4, <2>2, <2>3 DEF display
<1>5. CASE x.type = "Interval"
  <2>1. EndText(x.start) \in TokenText /\ EndText(x.end) \in TokenText
    BY <1>5, ExpressionForms, AcceptedEnds, EndWritten
  <2>2. EndText(x.start) \o <<Sym("/")>> \in TokenText
    BY <1>1, <1>2, <2>1 DEF Symbols
  <2> QED BY <1>1, <1>5, <2>1, <2>2 DEF display
<1>6. CASE x.type = "Set"
  <2> DEFINE b == Brackets(x.kind)
             t == separated(ElementTexts(x.elements), ",")
  <2>1. x.elements \in Seq(Ends) /\ x.elements # <<>> /\ \A i \in DOMAIN x.elements : ValidEnd(x.elements[i])
    BY <1>6, ExpressionForms, AcceptedEnds
  <2>2. t \in TokenText
    BY <2>1, ElementsWritten
  <2>3. <<b[1]>> \in TokenText /\ <<b[2]>> \in TokenText
    <3>1. b[1] \in Token /\ b[2] \in Token
      BY <1>6, ExpressionForms, BracketSymbols
    <3> QED BY <3>1 DEF TokenText
  <2>4. display(x) = <<b[1]>> \o t \o <<b[2]>>
    BY <1>6 DEF display, SetText, ElementTexts
  <2> HIDE DEF b, t
  <2>5. <<b[1]>> \o t \in TokenText
    BY <1>1, <2>2, <2>3
  <2> QED BY <1>1, <2>3, <2>4, <2>5
<1> QED BY <1>3, <1>4, <1>5, <1>6, ExpressionForms

-----------------------------------------------------------------------------
(* A date-time is read. *)

(* A group of two digits is a number.                                      *)
LEMMA TwoRead ==
  ASSUME NEW t \in Token, plain_group(t, 2)
  PROVE  two(t) \in 0..99
<1> DEFINE g == t.digits
<1>1. g \in Seq(MaskDigit) /\ Len(g) = 2 /\ ~has_x(g)
  BY OfGroup DEF plain_group
<1>2. g[1] \in Digit /\ g[2] \in Digit
  <2> HIDE DEF g
  <2>1. DOMAIN g = 1..2 /\ 1 \in 1..2 /\ 2 \in 1..2
    BY <1>1
  <2>2. g[1] \in MaskDigit /\ g[2] \in MaskDigit /\ g[1] # X /\ g[2] # X
    BY <1>1, <2>1 DEF has_x
  <2> QED BY <2>2 DEF MaskDigit, X
<1>3. two(t) = 10 * g[1] + g[2]
  BY DEF two
<1> HIDE DEF g
<1> QED BY <1>2, <1>3 DEF Digit

(* A group of n digits is a tuple of them.                                 *)
LEMMA PlainDigits ==
  ASSUME NEW t \in Token, NEW n \in Nat, plain_group(t, n)
  PROVE  t.digits \in [1..n -> MaskDigit]
<1> DEFINE g == t.digits
<1>1. g \in Seq(MaskDigit) /\ Len(g) = n
  BY OfGroup DEF plain_group
<1> HIDE DEF g
<1>2. g \in [1..n -> MaskDigit]
  BY <1>1
<1> QED BY <1>2 DEF g

(* The date of a date-time.                                                *)
LEMMA PlainDateRead ==
  ASSUME NEW r \in TokenText, plain_date_ahead(r)
  PROVE  plain_date(r) \in Dates
<1>1. Len(r) = 5 /\ plain_group(r[1], 4) /\ plain_group(r[3], 2) /\ plain_group(r[5], 2)
  BY DEF plain_date_ahead
<1>2. r[1] \in Token /\ r[3] \in Token /\ r[5] \in Token
  <2>1. \A i \in 1..5 : r[i] \in Token
    BY <1>1, ElementOfSeq DEF TokenText
  <2> QED BY <2>1
<1>3. r[1].digits \in [1..4 -> MaskDigit] /\ r[3].digits \in [1..2 -> MaskDigit] /\ r[5].digits \in [1..2 -> MaskDigit]
  BY <1>1, <1>2, PlainDigits
<1>4. {} \in Qualifier
  BY DEF Qualifier
<1>5. Standard(FALSE, r[1].digits) \in YearKinds
  BY <1>3, KindForms
<1>6. Field(r[3].digits, {}) \in Fields /\ Field(r[5].digits, {}) \in Fields
  BY <1>3, <1>4, FieldParts
<1>7. Some(Field(r[3].digits, {})) \in Option(Fields) /\ Some(Field(r[5].digits, {})) \in Option(Fields)
  BY <1>6, Options
<1>8. None \in Option(Nat)
  BY Options
<1> QED BY <1>4, <1>5, <1>7, <1>8, DateParts DEF plain_date

(* Its shift.                                                              *)
LEMMA ShiftRead ==
  ASSUME NEW r \in TokenText, shift_ahead(r)
  PROVE  parse_shift(r) \in Option(TimeShifts)
<1>1. CASE r = <<>>
  BY <1>1, Options DEF parse_shift
<1>2. CASE r = <<Sym("Z")>>
  <2>1. parse_shift(r) = Some(Utc)
    BY <1>2 DEF parse_shift
  <2>2. Utc \in TimeShifts
    BY DEF TimeShifts
  <2> QED BY <2>1, <2>2, Options
<1>3. CASE r # <<>> /\ r # <<Sym("Z")>>
  <2> DEFINE h == two(r[2])
             n == two(r[4])
             m == shift_minutes(r)
             v == IF Head(r) = Sym("-") THEN -m ELSE m
             b == Len(r) = 2
  <2>1. /\ Len(r) \in {2, 4} /\ plain_group(r[2], 2) /\ m <= 14 * 60
        /\ Len(r) = 4 => plain_group(r[4], 2) /\ n <= 59
    BY <1>3 DEF shift_ahead
  <2>2. \A i \in 1..Len(r) : r[i] \in Token
    BY ElementOfSeq DEF TokenText
  <2>3. h \in 0..99
    <3>1. r[2] \in Token
      <4>1. 2 \in 1..Len(r)
        BY <2>1
      <4> QED BY <2>2, <4>1
    <3> QED BY <2>1, <3>1, TwoRead
  <2>4. Len(r) = 4 => n \in 0..59
    <3>1. ASSUME Len(r) = 4 PROVE n \in 0..99 /\ n <= 59
      BY <2>1, <2>2, <3>1, TwoRead
    <3> HIDE DEF n
    <3> QED BY <3>1
  <2>5. m = 60 * h + (IF Len(r) = 4 THEN n ELSE 0)
    BY DEF shift_minutes
  <2>6. m \in 0..840 /\ (b => m = 60 * h)
    <3> HIDE DEF h, n, m
    <3> QED BY <2>1, <2>3, <2>4, <2>5
  <2>7. v \in -840..840 /\ (b => v % 60 = 0)
    <3>1. v = m \/ v = -m
      OBVIOUS
    <3> HIDE DEF h, m, v, b
    <3>2. v \in -840..840
      BY <2>6, <3>1
    <3>3. ASSUME b PROVE v % 60 = 0
      <4>1. v = 60 * h \/ v = 60 * (-h)
        BY <2>3, <2>6, <3>1, <3>3
      <4> QED BY <2>3, <4>1
    <3> QED BY <3>2, <3>3
  <2>8. parse_shift(r) = Some(Offset(v, b))
    <3>1. Len(r) > 1
      BY <2>1
    <3> QED BY <1>3, <3>1 DEF parse_shift
  <2>9. b \in BOOLEAN
    OBVIOUS
  <2> HIDE DEF v, b
  <2>10. Offset(v, b) \in TimeShifts
    BY <2>7, <2>9, ShiftForms
  <2> QED BY <2>8, <2>10, Options
<1> QED BY <1>1, <1>2, <1>3

(* Its time of day.                                                        *)
LEMMA TimeRead ==
  ASSUME NEW r \in TokenText, time_ahead(r)
  PROVE  parse_time(r) \in Times
<1>1. Len(r) \in Nat /\ \A i \in 1..Len(r) : r[i] \in Token
  BY ElementOfSeq, LenProperties DEF TokenText
<1>2. /\ Len(r) >= 5 /\ plain_group(r[1], 2) /\ plain_group(r[3], 2) /\ plain_group(r[5], 2)
      /\ two(r[1]) <= 23 /\ two(r[3]) <= 59 /\ two(r[5]) <= 60
      /\ shift_ahead(SubSeq(r, 6, Len(r)))
  BY DEF time_ahead
<1>3. two(r[1]) \in 0..99 /\ two(r[3]) \in 0..99 /\ two(r[5]) \in 0..99
  <2>1. r[1] \in Token /\ r[3] \in Token /\ r[5] \in Token
    BY <1>1, <1>2
  <2> QED BY <1>2, <2>1, TwoRead
<1>4. two(r[1]) \in 0..23 /\ two(r[3]) \in 0..59 /\ two(r[5]) \in 0..60
  <2> DEFINE h == two(r[1])
             m == two(r[3])
             s == two(r[5])
  <2>1. /\ h \in 0..99 /\ m \in 0..99 /\ s \in 0..99
        /\ h <= 23 /\ m <= 59 /\ s <= 60
    BY <1>2, <1>3
  <2> HIDE DEF h, m, s
  <2>2. h \in 0..23 /\ m \in 0..59 /\ s \in 0..60
    BY <2>1
  <2> QED BY <2>2 DEF h, m, s
<1>5. SubSeq(r, 6, Len(r)) \in TokenText
  <2>1. 6 \in Int /\ Len(r) \in Int /\ \A i \in 6..Len(r) : r[i] \in Token
    BY <1>1
  <2> QED BY <2>1, SubSeqProperties DEF TokenText
<1>6. parse_shift(SubSeq(r, 6, Len(r))) \in Option(TimeShifts)
  BY <1>2, <1>5, ShiftRead
<1> QED BY <1>4, <1>6 DEF parse_time, Time, Times

-----------------------------------------------------------------------------
(* The outcomes. *)

(* A date-time that is read is an accepted expression.                     *)
LEMMA ReadDateTimeIInv == IInv /\ ReadDateTime => IInv'
<1> SUFFICES ASSUME IInv, ReadDateTime PROVE IInv'
  OBVIOUS
<1> DEFINE b == before(text, "T")
           a == Get(after(text, "T"))
           x == DateTimeExpr(plain_date(b), parse_time(a))
<1>1. /\ pc = "start" /\ pc' = "parsed" /\ value' = Some(x)
      /\ UNCHANGED <<text, later, part, slices, dates, rest, date, width, ends, first>>
      /\ shape(text) = "DateTime" /\ text # <<>> /\ plain_date_ahead(b) /\ time_ahead(a)
  BY DEF ReadDateTime, date_time_ahead
<1>2. text \in TokenText /\ holds(text, "T")
  BY <1>1 DEF IInv, TypeOK, shape
<1>3. b \in TokenText /\ a \in TokenText
  BY <1>2, CutTypes
<1>4. plain_date(b) \in Dates /\ parse_plain_complete_date(plain_date(b)) /\ parse_time(a) \in Times
  BY <1>1, <1>3, PlainDateRead, TimeRead DEF plain_date_ahead
<1>5. x \in Expressions /\ Accepted(x)
  BY <1>4 DEF Expressions, DateTimeExpr, Accepted
<1> HIDE DEF a, b, x
<1>6. value' \in Option(Expressions) /\ IsSome(value') /\ Get(value') = x
  BY <1>1, <1>5, Options
<1>7. TypeOK'
  BY <1>1, <1>5, <1>6 DEF IInv, TypeOK, Scanning
<1>8. part' \in Kinds /\ width' \in Nat /\ DateInv' /\ PartInv' /\ EndsInv' /\ StartInv'
  BY <1>1 DEF IInv, DateInv, PartInv, EndsInv, StartInv, Scanning
<1>9. FirstInv'
  BY <1>1 DEF IInv, FirstInv
<1> QED BY <1>7, <1>8, <1>9 DEF IInv

(* The parts that are read make an accepted expression.                    *)
LEMMA PutTogether ==
  ASSUME NEW t \in TokenText, NEW es \in Seq(Ends), es # <<>>,
         shape(t) \in {"Date", "Interval", "Set"},
         \A i \in DOMAIN es : ValidEnd(es[i]) /\ ShapedEnd(t, es[i]),
         shape(t) = "Interval" => Len(es) = 2 /\ ends_agree(es[1], es[2])
  PROVE  put_together(t, es) \in Expressions /\ Accepted(put_together(t, es))
<1>1. Len(es) \in Nat \ {0} /\ DOMAIN es = 1..Len(es) /\ es[1] \in Ends
  <2>1. Len(es) \in Nat /\ DOMAIN es = 1..Len(es) /\ Len(es) # 0
    BY LenProperties, EmptySeq
  <2>2. 1 \in 1..Len(es)
    BY <2>1
  <2> QED BY <2>1, <2>2, ElementOfSeq
<1>2. CASE shape(t) = "Date"
  <2>1. ValidEnd(es[1]) /\ es[1].kind = "Date"
    <3>1. 1 \in DOMAIN es
      BY <1>1
    <3> QED BY <1>2, <3>1 DEF ShapedEnd
  <2>2. es[1].date \in Dates /\ ValidDate(es[1].date)
    BY <1>1, <2>1, EndForms DEF ValidEnd, is_dated
  <2>3. put_together(t, es) = DateExpr(es[1].date)
    BY <1>2 DEF put_together
  <2> QED BY <2>2, <2>3 DEF DateExpr, Expressions, Accepted
<1>3. CASE shape(t) = "Interval"
  <2>1. es[2] \in Ends /\ ValidEnd(es[1]) /\ ValidEnd(es[2]) /\ ends_agree(es[1], es[2])
    <3>1. 2 \in 1..Len(es) /\ 1 \in 1..Len(es)
      BY <1>3
    <3> QED BY <1>1, <1>3, <3>1, ElementOfSeq
  <2>2. put_together(t, es) = IntervalExpr(es[1], es[2])
    BY <1>3 DEF put_together
  <2>3. parse_interval(es[1], es[2])
    BY <2>1 DEF parse_interval, ValidEnd
  <2> QED BY <1>1, <2>1, <2>2, <2>3 DEF IntervalExpr, Expressions, Accepted
<1>4. CASE shape(t) = "Set"
  <2>1. put_together(t, es) = SetExpr(set_kind(t), es)
    BY <1>4 DEF put_together
  <2>2. parse_set(es)
    BY <1>4 DEF parse_set, elements_agree, parse_set_element, ValidEnd, ShapedEnd
  <2>3. set_kind(t) \in {"AllMembers", "OneMember"}
    BY DEF set_kind
  <2> QED BY <2>1, <2>2, <2>3 DEF SetExpr, Expressions, Accepted
<1> QED BY <1>2, <1>3, <1>4

(* They are put together.                                                  *)
LEMMA AssembleIInv == IInv /\ Assemble => IInv'
<1> SUFFICES ASSUME IInv, Assemble PROVE IInv'
  OBVIOUS
<1> DEFINE x == put_together(text, ends)
<1>1. /\ pc = "part" /\ pc' = "parsed" /\ later = None /\ value' = Some(x)
      /\ UNCHANGED <<text, later, part, slices, dates, rest, date, width, ends, first>>
      /\ shape(text) = "Interval" => Len(ends) = 2 /\ ends_agree(ends[1], ends[2])
  BY DEF Assemble, end_ahead
<1>2. /\ text \in TokenText /\ ends \in Seq(Ends) /\ ends # <<>> /\ shape(text) \in {"Date", "Interval", "Set"}
      /\ \A i \in DOMAIN ends : ValidEnd(ends[i]) /\ ShapedEnd(text, ends[i])
  BY <1>1 DEF IInv, TypeOK, EndsInv
<1>3. x \in Expressions /\ Accepted(x)
  BY <1>1, <1>2, PutTogether
<1> HIDE DEF x
<1>4. value' \in Option(Expressions) /\ IsSome(value') /\ Get(value') = x
  BY <1>1, <1>3, Options
<1>5. TypeOK'
  BY <1>1, <1>3, <1>4 DEF IInv, TypeOK, Scanning
<1>6. part' \in Kinds /\ width' \in Nat /\ DateInv' /\ PartInv' /\ EndsInv' /\ StartInv'
  BY <1>1 DEF IInv, DateInv, PartInv, EndsInv, StartInv, Scanning
<1>7. FirstInv'
  BY <1>1 DEF IInv, FirstInv
<1> QED BY <1>5, <1>6, <1>7 DEF IInv

(* A text is rejected.                                                     *)
LEMMA RejectIInv == IInv /\ Reject => IInv'
<1> SUFFICES ASSUME IInv, Reject PROVE IInv'
  OBVIOUS
<1>1. /\ pc # "parsed" /\ pc' = "rejected"
      /\ UNCHANGED <<text, later, part, slices, dates, rest, date, width, ends, value, first>>
  BY DEF Reject, Ended
<1>2. TypeOK'
  BY <1>1 DEF IInv, TypeOK
<1>3. part' \in Kinds /\ width' \in Nat /\ DateInv' /\ PartInv' /\ EndsInv' /\ StartInv'
  BY <1>1 DEF IInv, DateInv, PartInv, EndsInv, StartInv, Scanning
<1>4. FirstInv'
  BY <1>1 DEF IInv, FirstInv
<1> QED BY <1>2, <1>3, <1>4 DEF IInv

(* What was parsed is rendered.                                            *)
LEMMA RenderIInv == IInv /\ Render => IInv'
<1> SUFFICES ASSUME IInv, Render PROVE IInv'
  OBVIOUS
<1>1. /\ pc = "parsed" /\ pc' = "start" /\ first' = value /\ text' = display(Get(value)) /\ value' = None
      /\ later' = None /\ part' = "Date" /\ slices' = <<>> /\ dates' = <<>>
      /\ rest' = <<>> /\ date' = None /\ width' = 0 /\ ends' = <<>>
  BY DEF Render
<1>2. value \in Option(Expressions) /\ value # None /\ Accepted(Get(value))
  BY <1>1 DEF IInv, TypeOK, IsSome
<1>3. Get(value) \in Expressions
  BY <1>2, Options
<1>4. text' \in TokenText
  BY <1>1, <1>2, <1>3, DisplayIsText
<1>5. TypeOK'
  <2>1. later' \in Option(TokenText) /\ value' \in Option(Expressions) /\ first' \in Option(Expressions)
    BY <1>1, <1>2, Options
  <2>2. rest' \in TokenText /\ slices' \in Seq(TokenText) /\ dates' \in Seq(Dates) /\ ends' \in Seq(Ends)
        /\ DOMAIN dates' = {}
    BY <1>1 DEF TokenText
  <2> QED BY <1>1, <1>4, <2>1, <2>2 DEF TypeOK, IsSome
<1>6. part' \in Kinds /\ width' \in Nat /\ DateInv' /\ PartInv' /\ EndsInv' /\ StartInv'
  BY <1>1 DEF DateInv, PartInv, EndsInv, StartInv, Scanning, Kinds
<1>7. FirstInv'
  BY <1>1, <1>2 DEF FirstInv
<1> QED BY <1>5, <1>6, <1>7 DEF IInv

(* The first texts are texts.                                              *)
LEMMA InitIInv == Init => IInv
<1> SUFFICES ASSUME Init PROVE IInv
  OBVIOUS
<1>1. /\ text \in TokenText /\ pc = "start" /\ value = None /\ first = None
      /\ later = None /\ part = "Date" /\ slices = <<>> /\ dates = <<>>
      /\ rest = <<>> /\ date = None /\ width = 0 /\ ends = <<>>
  BY TextsAssumption DEF Init, NothingRead
<1>2. TypeOK
  <2>1. later \in Option(TokenText) /\ value \in Option(Expressions) /\ first \in Option(Expressions)
    BY <1>1, Options
  <2>2. rest \in TokenText /\ slices \in Seq(TokenText) /\ dates \in Seq(Dates) /\ ends \in Seq(Ends)
        /\ DOMAIN dates = {}
    BY <1>1 DEF TokenText
  <2> QED BY <1>1, <2>1, <2>2 DEF TypeOK, IsSome
<1>3. part \in Kinds /\ width \in Nat /\ DateInv /\ PartInv /\ EndsInv /\ StartInv /\ FirstInv
  BY <1>1 DEF DateInv, PartInv, EndsInv, StartInv, FirstInv, Scanning, Kinds, IsSome
<1> QED BY <1>2, <1>3 DEF IInv

(* Every step keeps the invariant.                                         *)
LEMMA NextIInv == IInv /\ [Next]_vars => IInv'
<1> SUFFICES ASSUME IInv, [Next]_vars PROVE IInv'
  OBVIOUS
<1>1. CASE Read
  BY <1>1, DispatchIInv, ReadDateTimeIInv, NextPartIInv, NextDateIInv, ReadYearIInv,
     ReadSignificantIInv, EndYearIInv, ReadMonthIInv, ReadDayIInv, ReadMantissaIInv,
     NoExponentIInv, ReadExponentIInv, ReadPrefixedEndIInv, FinishDateIInv, EndPartIInv,
     AssembleIInv DEF Read
<1>2. CASE Reject
  BY <1>2, RejectIInv
<1>3. CASE Render
  BY <1>3, RenderIInv
<1>4. CASE UNCHANGED vars \/ Done
  <2>1. UNCHANGED vars
    BY <1>4 DEF Done
  <2> QED BY <2>1 DEF vars, IInv, TypeOK, DateInv, PartInv, EndsInv, StartInv, FirstInv
<1> QED BY <1>1, <1>2, <1>3, <1>4 DEF Next

(* What is read is text, and what is parsed is what the rules accept.      *)
THEOREM InvariantHolds == Spec => []IInv
BY InitIInv, NextIInv, PTL DEF Spec

(* The parser keeps its types: what it reads is text, what it parses is an
   expression that the rules of Validate accept. *)
THEOREM TypeCorrect == Spec => []TypeOK
<1>1. IInv => TypeOK
  BY DEF IInv
<1> QED BY <1>1, InvariantHolds, PTL

-----------------------------------------------------------------------------
(* Places in a text. *)

(* A text holds a symbol where one of its halves does.                     *)
LEMMA HoldsIn ==
  ASSUME NEW a \in TokenText, NEW b \in TokenText, NEW s
  PROVE  holds(a \o b, s) <=> holds(a, s) \/ holds(b, s)
<1> DEFINE t == a \o b
           m == Len(a)
           n == Len(b)
<1>1. /\ m \in Nat /\ n \in Nat /\ DOMAIN a = 1..m /\ DOMAIN b = 1..n
      /\ t \in TokenText /\ Len(t) = m + n /\ DOMAIN t = 1..(m + n)
      /\ \A i \in 1..(m + n) : t[i] = IF i <= m THEN a[i] ELSE b[i - m]
  BY ConcatProperties, LenProperties DEF TokenText
<1> HIDE DEF t, m, n
<1>2. ASSUME holds(t, s) PROVE holds(a, s) \/ holds(b, s)
  <2>1. PICK i \in 1..(m + n) : t[i] = Sym(s)
    BY <1>1, <1>2 DEF holds
  <2>2. CASE i <= m
    <3>1. i \in DOMAIN a /\ a[i] = Sym(s)
      BY <1>1, <2>1, <2>2
    <3> QED BY <3>1 DEF holds
  <2>3. CASE ~(i <= m)
    <3>1. i - m \in 1..n /\ b[i - m] = Sym(s)
      BY <1>1, <2>1, <2>3
    <3> QED BY <1>1, <3>1 DEF holds
  <2> QED BY <2>2, <2>3
<1>3. ASSUME holds(a, s) PROVE holds(t, s)
  <2>1. PICK i \in 1..m : a[i] = Sym(s)
    BY <1>1, <1>3 DEF holds
  <2>2. i \in 1..(m + n) /\ t[i] = Sym(s)
    BY <1>1, <2>1
  <2> QED BY <1>1, <2>2 DEF holds
<1>4. ASSUME holds(b, s) PROVE holds(t, s)
  <2>1. PICK i \in 1..n : b[i] = Sym(s)
    BY <1>1, <1>4 DEF holds
  <2>2. i + m \in 1..(m + n) /\ (i + m) - m = i /\ ~(i + m <= m)
    BY <1>1
  <2>3. t[i + m] = Sym(s)
    BY <1>1, <2>1, <2>2
  <2> QED BY <1>1, <2>2, <2>3 DEF holds
<1> QED BY <1>2, <1>3, <1>4 DEF t

(* A text of other tokens does not hold it.                                *)
LEMMA HoldsNot ==
  ASSUME NEW T, NEW t \in Seq(T), NEW s, Sym(s) \notin T
  PROVE  ~holds(t, s)
<1>1. \A i \in DOMAIN t : t[i] \in T
  BY ElementOfSeq, LenProperties
<1> QED BY <1>1 DEF holds

(* The halves of a text are what they were.                                *)
LEMMA Halves ==
  ASSUME NEW T, NEW a \in Seq(T), NEW b \in Seq(T)
  PROVE  /\ SubSeq(a \o b, 1, Len(a)) = a
         /\ SubSeq(a \o b, Len(a) + 1, Len(a) + Len(b)) = b
<1> DEFINE t == a \o b
           m == Len(a)
           n == Len(b)
           u == SubSeq(t, 1, m)
           v == SubSeq(t, m + 1, m + n)
<1>1. /\ m \in Nat /\ n \in Nat /\ t \in Seq(T) /\ Len(t) = m + n
      /\ \A i \in 1..(m + n) : t[i] = IF i <= m THEN a[i] ELSE b[i - m]
  BY ConcatProperties, LenProperties
<1> HIDE DEF t, m, n
<1>2. \A i \in 1..(m + n) : t[i] \in T
  BY <1>1, ElementOfSeq
<1>3. u \in Seq(T) /\ Len(u) = m /\ \A i \in 1..m : u[i] = t[i]
  <2>1. 1 \in Int /\ m \in Int /\ (\A i \in 1..m : t[i] \in T) /\ (m < 1 <=> m = 0)
    BY <1>1, <1>2
  <2>2. u \in Seq(T)
    BY <2>1, SubSeqProperties
  <2>3. Len(u) = IF 1 <= m THEN m - 1 + 1 ELSE 0
    BY <2>1, SubSeqProperties
  <2>4. Len(u) = m
    BY <1>1, <2>3
  <2>5. \A i \in 1..(m - 1 + 1) : u[i] = t[1 + i - 1]
    BY <2>1, SubSeqProperties
  <2>6. \A i \in 1..m : u[i] = t[i]
    <3> TAKE i \in 1..m
    <3>1. i \in 1..(m - 1 + 1) /\ 1 + i - 1 = i
      BY <1>1
    <3> QED BY <2>5, <3>1
  <2> QED BY <2>2, <2>4, <2>6
<1>4. v \in Seq(T) /\ Len(v) = n /\ \A i \in 1..n : v[i] = t[i + m]
  <2>1. m + 1 \in Int /\ m + n \in Int /\ (\A i \in (m + 1)..(m + n) : t[i] \in T)
    BY <1>1, <1>2
  <2>2. v \in Seq(T)
    BY <2>1, SubSeqProperties
  <2>3. Len(v) = IF m + 1 <= m + n THEN (m + n) - (m + 1) + 1 ELSE 0
    BY <2>1, SubSeqProperties
  <2>4. Len(v) = n
    BY <1>1, <2>3
  <2>5. \A i \in 1..((m + n) - (m + 1) + 1) : v[i] = t[(m + 1) + i - 1]
    BY <2>1, SubSeqProperties
  <2>6. \A i \in 1..n : v[i] = t[i + m]
    <3> TAKE i \in 1..n
    <3>1. i \in 1..((m + n) - (m + 1) + 1) /\ (m + 1) + i - 1 = i + m
      BY <1>1
    <3> QED BY <2>5, <3>1
  <2> QED BY <2>2, <2>4, <2>6
<1>5. \A i \in 1..m : u[i] = a[i]
  <2> TAKE i \in 1..m
  <2>1. i \in 1..(m + n) /\ i <= m
    BY <1>1
  <2> QED BY <1>1, <1>3, <2>1
<1>6. \A i \in 1..n : v[i] = b[i]
  <2> TAKE i \in 1..n
  <2>1. i + m \in 1..(m + n) /\ ~(i + m <= m) /\ (i + m) - m = i
    BY <1>1
  <2> QED BY <1>1, <1>4, <2>1
<1> HIDE DEF u, v
<1>7. u = a
  BY <1>3, <1>5, SeqEqual DEF m
<1>8. v = b
  BY <1>4, <1>6, SeqEqual DEF n
<1> QED BY <1>7, <1>8 DEF u, v, t, m, n

(* A text is cut between its halves.                                       *)
LEMMA CutAt ==
  ASSUME NEW a \in TokenText, NEW b \in TokenText, NEW s \in Symbols, ~holds(a, s)
  PROVE  /\ a \o (<<Sym(s)>> \o b) \in TokenText /\ holds(a \o (<<Sym(s)>> \o b), s)
         /\ before(a \o (<<Sym(s)>> \o b), s) = a
         /\ after(a \o (<<Sym(s)>> \o b), s) = Some(b)
<1> DEFINE c == <<Sym(s)>>
           t == a \o (c \o b)
           m == Len(a)
           n == Len(b)
           p == first_place(t, s)
<1>1. c \in TokenText /\ Len(c) = 1 /\ c \o b \in TokenText /\ a \o c \in TokenText
  <2>1. c \in TokenText
    BY OneSymbol
  <2> QED BY <2>1, OneSymbol
<1>2. t \in TokenText /\ m \in Nat /\ n \in Nat
  BY <1>1, OneSymbol, LenProperties DEF TokenText
<1>3. holds(c, s)
  BY DEF holds
<1>4. holds(t, s)
  BY <1>1, <1>3, HoldsIn
<1>5. /\ Len(c \o b) = 1 + n /\ Len(t) = m + (1 + n) /\ Len(a \o c) = m + 1
      /\ \A i \in 1..m : t[i] = a[i]
      /\ t[m + 1] = Sym(s)
  <2>1. Len(c \o b) = 1 + n /\ Len(a \o c) = m + 1 /\ (c \o b)[1] = Sym(s)
    BY <1>1 DEF TokenText
  <2> DEFINE z == c \o b
  <2>2. z \in TokenText /\ Len(z) = 1 + n /\ z[1] = Sym(s)
    BY <1>1, <2>1
  <2> HIDE DEF z
  <2>3. Len(a \o z) = m + (1 + n) /\ \A i \in 1..(m + (1 + n)) : (a \o z)[i] = IF i <= m THEN a[i] ELSE z[i - m]
    <3>1. /\ Len(a \o z) = Len(a) + Len(z)
          /\ \A i \in 1..(Len(a) + Len(z)) : (a \o z)[i] = IF i <= Len(a) THEN a[i] ELSE z[i - Len(a)]
      <4>1. a \in Seq(Token) /\ z \in Seq(Token)
        BY <2>2 DEF TokenText
      <4> QED BY <4>1, ConcatProperties, Zenon
    <3> QED BY <2>2, <3>1
  <2>4. \A i \in 1..m : i \in 1..(m + (1 + n)) /\ i <= m
    BY <1>2
  <2>5. m + 1 \in 1..(m + (1 + n)) /\ ~(m + 1 <= m) /\ (m + 1) - m = 1
    BY <1>2
  <2>6. (a \o z)[m + 1] = Sym(s) /\ \A i \in 1..m : (a \o z)[i] = a[i]
    BY <2>2, <2>3, <2>4, <2>5
  <2> QED BY <2>1, <2>3, <2>6 DEF z
<1> HIDE DEF t, c
<1>6. p = m + 1
  <2>1. /\ p \in 1..Len(t) /\ t[p] = Sym(s) /\ \A j \in 1..(p - 1) : t[j] # Sym(s)
    BY <1>2, <1>4, FirstPlace
  <2>2. ~(p > m + 1)
    <3>1. ASSUME p > m + 1 PROVE FALSE
      <4>1. m + 1 \in 1..(p - 1)
        BY <1>2, <2>1, <3>1
      <4> QED BY <1>5, <2>1, <4>1
    <3> QED BY <3>1
  <2>3. ~(p <= m)
    <3>1. ASSUME p <= m PROVE FALSE
      <4>1. p \in 1..m
        BY <1>2, <1>5, <2>1, <3>1
      <4>2. a[p] = Sym(s) /\ p \in DOMAIN a
        BY <1>5, <2>1, <4>1, LenProperties DEF TokenText
      <4> QED BY <4>2 DEF holds
    <3> QED BY <3>1
  <2> QED BY <1>2, <1>5, <2>1, <2>2, <2>3
<1>7. p - 1 = m /\ p + 1 = (m + 1) + 1 /\ Len(t) = (m + 1) + n
  BY <1>2, <1>5, <1>6
<1>8. SubSeq(t, 1, p - 1) = a
  BY <1>1, <1>7, Halves DEF TokenText, t
<1>9. SubSeq(t, p + 1, Len(t)) = b
  <2>1. Regrouped(a, c, b)
    BY <1>1, Regroup DEF TokenText
  <2>2. t = (a \o c) \o b
    BY <2>1 DEF Regrouped, t
  <2> DEFINE z == a \o c
  <2>3. z \in TokenText /\ Len(z) = m + 1
    BY <1>1, <1>5
  <2> HIDE DEF z
  <2>4. SubSeq(z \o b, (m + 1) + 1, (m + 1) + n) = b
    BY <2>3, Halves DEF TokenText
  <2> QED BY <1>7, <2>2, <2>4 DEF z
<1> QED BY <1>2, <1>4, <1>8, <1>9 DEF before, after, t, c

(* A text is not cut where it does not hold the symbol.                    *)
LEMMA NotCut ==
  ASSUME NEW t \in TokenText, NEW s, ~holds(t, s)
  PROVE  before(t, s) = t /\ after(t, s) = None
BY DEF before, after

-----------------------------------------------------------------------------
(* Endpoints and elements are read back. *)
EndTokens == DateTokens \cup {Sym("..")}

(* Their tokens are a date's, and the two dots.                            *)
LEMMA EndTokenFacts ==
  /\ EndTokens \subseteq Token /\ DateTokens \subseteq EndTokens /\ Sym("..") \in EndTokens
  /\ Seq(DateTokens) \subseteq Seq(EndTokens) /\ Seq(EndTokens) \subseteq TokenText
  /\ Sym("..") \notin DateTokens
  /\ \A s \in {"/", ",", "T", "{", "}", "[", "]"} : Sym(s) \notin EndTokens /\ Sym(s) \in Token
<1>1. Sym("..") \notin DateTokens /\ Sym("..") \in Token
  BY DateTokenFacts, Symbol DEF Symbols, DateSymbols
<1>2. EndTokens \subseteq Token /\ DateTokens \subseteq EndTokens /\ Sym("..") \in EndTokens
  BY <1>1, DateTokenFacts DEF EndTokens
<1>3. Seq(DateTokens) \subseteq Seq(EndTokens) /\ Seq(EndTokens) \subseteq TokenText
  BY <1>2, SeqMonotonic DEF TokenText
<1>4. ASSUME NEW s \in {"/", ",", "T", "{", "}", "[", "]"}
      PROVE  Sym(s) \notin EndTokens /\ Sym(s) \in Token
  <2>1. s \in Symbols \ DateSymbols /\ s # ".."
    BY DEF Symbols, DateSymbols
  <2>2. Sym(s) \notin DateTokens /\ Sym(s) \in Token
    BY <2>1, DateTokenFacts, Symbol
  <2>3. Sym(s) # Sym("..")
    BY <2>1 DEF Sym
  <2> QED BY <2>2, <2>3 DEF EndTokens
<1> QED BY <1>1, <1>2, <1>3, <1>4

(* A date's text does not begin, end or break with the two dots.           *)
LEMMA NoDots ==
  ASSUME NEW t \in Seq(DateTokens), t # <<>>
  PROVE  /\ ~holds(t, "..") /\ Len(t) \in Nat \ {0} /\ t \in TokenText
         /\ t[1] # Sym("..") /\ t[Len(t)] # Sym("..") /\ Head(t) # Sym("..")
<1>1. ~holds(t, "..") /\ t \in TokenText
  BY HoldsNot, EndTokenFacts, DateTokenFacts
<1>2. Len(t) \in Nat \ {0} /\ DOMAIN t = 1..Len(t)
  BY LenProperties, EmptySeq
<1>3. 1 \in DOMAIN t /\ Len(t) \in DOMAIN t
  BY <1>2
<1>4. t[1] # Sym("..") /\ t[Len(t)] # Sym("..")
  BY <1>1, <1>3 DEF holds
<1> QED BY <1>1, <1>2, <1>4

(* The texts of dates. *)
TextsOf(ds) == [i \in DOMAIN ds |-> DateText(ds[i])]

(* Of one, of two and of three dates. *)
LEMMA TextsOfFew ==
  ASSUME NEW a, NEW b
  PROVE  /\ TextsOf(<<>>) = <<>> /\ TextsOf(<<a>>) = <<DateText(a)>>
         /\ TextsOf(<<a, b>>) = <<DateText(a), DateText(b)>>
<1>1. TextsOf(<<>>) = <<>>
  BY DEF TextsOf
<1>2. TextsOf(<<a>>) = <<DateText(a)>>
  BY DEF TextsOf
<1>3. TextsOf(<<a, b>>) = <<DateText(a), DateText(b)>>
  BY DEF TextsOf
<1> QED BY <1>1, <1>2, <1>3

(* A part's kind, its dates' texts and the part itself, from its text.     *)
LEMMA EndRead ==
  ASSUME NEW e \in Ends, ValidEnd(e)
  PROVE  /\ EndText(e) \in Seq(EndTokens)
         /\ kind_of(EndText(e)) = e.kind
         /\ date_slices(e.kind, EndText(e)) = TextsOf(DatesOf(e))
         /\ endpoint(e.kind, DatesOf(e)) = e
         /\ DatesOf(e) \in Seq(Dates) /\ Len(DatesOf(e)) = DateCount(e.kind)
         /\ \A i \in DOMAIN DatesOf(e) : ValidDate(DatesOf(e)[i])
<1> DEFINE dots == <<Sym("..")>>
<1>1. /\ dots \in Seq(EndTokens) /\ dots \in TokenText /\ Len(dots) = 1 /\ <<>> \in Seq(EndTokens)
      /\ holds(dots, "..")
  <2>1. Sym("..") \in EndTokens
    BY EndTokenFacts
  <2>2. dots \in Seq(EndTokens) /\ Len(dots) = 1 /\ <<>> \in Seq(EndTokens)
    BY <2>1
  <2>3. dots \in TokenText
    BY <2>2, EndTokenFacts
  <2>4. 1 \in DOMAIN dots /\ dots[1] = Sym("..")
    OBVIOUS
  <2> QED BY <2>2, <2>3, <2>4 DEF holds
<1>2. ASSUME NEW d \in Dates, ValidDate(d)
      PROVE  DateText(d) \in Seq(DateTokens) /\ DateText(d) # <<>> /\ DateText(d) \in Seq(EndTokens)
  BY <1>2, ValidIsWritten, DateWritten, EndTokenFacts
<1>3. CASE e.kind = "Open" \/ e.kind = "Unknown"
  <2>1. e = OpenEnd \/ e = UnknownEnd
    BY <1>3, EndForms
  <2>2. e.kind = "Open" => EndText(e) = dots /\ kind_of(dots) = "Open"
    BY DEF EndText, kind_of
  <2>3. e.kind = "Unknown" => EndText(e) = <<>> /\ kind_of(<<>>) = "Unknown"
    BY DEF EndText, kind_of
  <2>4. DatesOf(e) = <<>> /\ date_slices(e.kind, EndText(e)) = <<>> /\ endpoint(e.kind, <<>>) = e
    BY <1>3, <2>1 DEF DatesOf, is_dated, date_slices, endpoint, OpenEnd, UnknownEnd
  <2>5. <<>> \in Seq(Dates) /\ Len(<<>>) = 0 /\ DOMAIN <<>> = {} /\ DateCount(e.kind) = 0
    BY <1>3 DEF DateCount
  <2>6. TextsOf(<<>>) = <<>>
    BY TextsOfFew
  <2>7. EndText(e) \in Seq(EndTokens) /\ kind_of(EndText(e)) = e.kind
    BY <1>1, <1>3, <2>2, <2>3
  <2> QED BY <2>4, <2>5, <2>6, <2>7
<1>4. CASE e.kind \in {"Date", "OnOrBefore", "OnOrAfter"}
  <2> DEFINE t == DateText(e.date)
             n == Len(t)
  <2>1. e.date \in Dates /\ ValidDate(e.date) /\ is_dated(e) /\ e = [kind |-> e.kind, date |-> e.date]
    BY <1>4, EndForms DEF ValidEnd, is_dated
  <2>2. t \in Seq(DateTokens) /\ t # <<>> /\ t \in Seq(EndTokens)
    BY <1>2, <2>1
  <2>3. /\ ~holds(t, "..") /\ n \in Nat \ {0} /\ t \in TokenText
        /\ t[1] # Sym("..") /\ t[n] # Sym("..") /\ Head(t) # Sym("..")
    BY <2>2, NoDots
  <2>4. DatesOf(e) = <<e.date>> /\ TextsOf(<<e.date>>) = <<t>>
    BY <1>4, <2>1, TextsOfFew DEF DatesOf
  <2>5. endpoint(e.kind, <<e.date>>) = e
    BY <1>4, <2>1 DEF endpoint, At, OnOrBefore, OnOrAfter
  <2>6. <<e.date>> \in Seq(Dates) /\ Len(<<e.date>>) = 1 /\ DateCount(e.kind) = 1
        /\ \A i \in DOMAIN <<e.date>> : ValidDate(<<e.date>>[i])
    BY <1>4, <2>1 DEF DateCount
  <2>7. CASE e.kind = "Date"
    <3>1. EndText(e) = t
      BY <2>7 DEF EndText
    <3> HIDE DEF t, n
    <3>2. t # dots
      BY <2>3
    <3>3. kind_of(t) = "Date"
      BY <2>2, <2>3, <3>2 DEF kind_of, starts, n
    <3>4. date_slices("Date", t) = <<t>>
      BY DEF date_slices
    <3> QED BY <2>2, <2>4, <2>5, <2>6, <2>7, <3>1, <3>3, <3>4
  <2>8. CASE e.kind = "OnOrBefore"
    <3>1. EndText(e) = dots \o t
      BY <2>8 DEF EndText
    <3> HIDE DEF t, n
    <3> DEFINE p == dots \o t
    <3>2. /\ p # <<>> /\ Head(p) = Sym("..") /\ Tail(p) = t /\ Len(p) = n + 1
      <4>1. Sym("..") \in Token
        BY EndTokenFacts
      <4> QED BY <2>3, <4>1, Before1 DEF n
    <3>3. p \in Seq(EndTokens)
      BY <1>1, <2>2
    <3> HIDE DEF p
    <3>4. p # dots
      BY <1>1, <2>3, <3>2
    <3>5. kind_of(p) = "OnOrBefore"
      BY <3>2, <3>4 DEF kind_of, starts
    <3>6. date_slices("OnOrBefore", p) = <<t>>
      BY <3>2 DEF date_slices
    <3> QED BY <2>4, <2>5, <2>6, <2>8, <3>1, <3>3, <3>5, <3>6 DEF p
  <2>9. CASE e.kind = "OnOrAfter"
    <3>1. EndText(e) = t \o dots
      BY <2>9 DEF EndText
    <3> HIDE DEF t, n
    <3> DEFINE p == t \o dots
    <3>2. /\ p \in Seq(EndTokens) /\ Len(p) = n + 1 /\ p[1] = t[1] /\ p[n + 1] = Sym("..")
      <4>1. /\ p \in Seq(EndTokens) /\ Len(p) = Len(t) + Len(dots)
            /\ \A i \in 1..(Len(t) + Len(dots)) : p[i] = IF i <= Len(t) THEN t[i] ELSE dots[i - Len(t)]
        BY <1>1, <2>2, ConcatProperties
      <4>2. 1 \in 1..(n + 1) /\ 1 <= n /\ n + 1 \in 1..(n + 1) /\ ~(n + 1 <= n) /\ (n + 1) - n = 1
        BY <2>3
      <4>3. dots[1] = Sym("..")
        OBVIOUS
      <4> HIDE DEF p, dots
      <4> QED BY <1>1, <4>1, <4>2, <4>3 DEF n
    <3>3. SubSeq(p, 1, Len(t)) = t
      BY <1>1, <2>2, Halves
    <3> HIDE DEF p
    <3>4. p # <<>> /\ p # dots /\ ~starts(p, "..") /\ (n + 1) - 1 = n
      BY <2>3, <3>2 DEF starts
    <3>5. kind_of(p) = "OnOrAfter"
      BY <3>2, <3>4 DEF kind_of
    <3>6. date_slices("OnOrAfter", p) = <<t>>
      <4>1. SubSeq(p, 1, Len(p) - 1) = t
        BY <3>2, <3>3, <3>4 DEF n
      <4> QED BY <4>1 DEF date_slices
    <3> QED BY <2>4, <2>5, <2>6, <2>9, <3>1, <3>2, <3>5, <3>6 DEF p
  <2> QED BY <1>4, <2>7, <2>8, <2>9
<1>5. CASE e.kind = "Range"
  <2> DEFINE t == DateText(e.date)
             u == DateText(e.to)
             m == Len(t)
             n == Len(u)
             p == t \o (dots \o u)
  <2>1. e.date \in Dates /\ ValidDate(e.date) /\ e.to \in Dates /\ ValidDate(e.to) /\ is_dated(e) /\ e = RangeOf(e.date, e.to)
    BY <1>5, EndForms DEF ValidEnd
  <2>2. t \in Seq(DateTokens) /\ t # <<>> /\ t \in Seq(EndTokens) /\ u \in Seq(DateTokens) /\ u # <<>> /\ u \in Seq(EndTokens)
    BY <1>2, <2>1
  <2>3. /\ ~holds(t, "..") /\ m \in Nat \ {0} /\ t \in TokenText
        /\ t[1] # Sym("..") /\ n \in Nat \ {0} /\ u \in TokenText /\ u[n] # Sym("..")
    BY <2>2, NoDots
  <2>4. DatesOf(e) = <<e.date, e.to>> /\ TextsOf(<<e.date, e.to>>) = <<t, u>>
    BY <1>5, <2>1, TextsOfFew DEF DatesOf
  <2>5. endpoint(e.kind, <<e.date, e.to>>) = e
    <3>1. <<e.date, e.to>>[1] = e.date /\ <<e.date, e.to>>[2] = e.to
      OBVIOUS
    <3> QED BY <1>5, <2>1, <3>1 DEF endpoint
  <2>6. <<e.date, e.to>> \in Seq(Dates) /\ Len(<<e.date, e.to>>) = 2 /\ DateCount(e.kind) = 2
        /\ \A i \in DOMAIN <<e.date, e.to>> : ValidDate(<<e.date, e.to>>[i])
    BY <1>5, <2>1 DEF DateCount
  <2>7. EndText(e) = (t \o dots) \o u
    BY <1>5 DEF EndText
  <2> HIDE DEF t, u, m, n
  <2>8. (t \o dots) \o u = p
    <3>1. Regrouped(t, dots, u)
      BY <1>1, <2>2, Regroup
    <3> QED BY <3>1 DEF Regrouped
  <2>9. dots \o u \in Seq(EndTokens) /\ Len(dots \o u) = 1 + n /\ (dots \o u)[1 + n] = u[n]
    <3>1. /\ dots \o u \in Seq(EndTokens) /\ Len(dots \o u) = Len(dots) + Len(u)
          /\ \A i \in 1..(Len(dots) + Len(u)) : (dots \o u)[i] = IF i <= Len(dots) THEN dots[i] ELSE u[i - Len(dots)]
      BY <1>1, <2>2, ConcatProperties
    <3>2. 1 + n \in 1..(1 + n) /\ ~(1 + n <= 1) /\ (1 + n) - 1 = n
      BY <2>3
    <3> HIDE DEF dots
    <3> QED BY <1>1, <3>1, <3>2 DEF n
  <2>10. p \in Seq(EndTokens) /\ Len(p) = m + (1 + n) /\ p[1] = t[1] /\ p[m + (1 + n)] = u[n]
    <3> DEFINE z == dots \o u
    <3>1. z \in Seq(EndTokens) /\ Len(z) = 1 + n /\ z[1 + n] = u[n]
      BY <2>9
    <3> HIDE DEF z
    <3>2. /\ t \o z \in Seq(EndTokens) /\ Len(t \o z) = Len(t) + Len(z)
          /\ \A i \in 1..(Len(t) + Len(z)) : (t \o z)[i] = IF i <= Len(t) THEN t[i] ELSE z[i - Len(t)]
      BY <2>2, <3>1, ConcatProperties
    <3>3. /\ 1 \in 1..(m + (1 + n)) /\ 1 <= m /\ m + (1 + n) \in 1..(m + (1 + n))
          /\ ~(m + (1 + n) <= m) /\ (m + (1 + n)) - m = 1 + n
      BY <2>3
    <3>4. t \o z \in Seq(EndTokens) /\ Len(t \o z) = m + (1 + n) /\ (t \o z)[1] = t[1] /\ (t \o z)[m + (1 + n)] = u[n]
      BY <3>1, <3>2, <3>3 DEF m
    <3> QED BY <3>4 DEF z
  <2>11. holds(p, "..") /\ before(p, "..") = t /\ after(p, "..") = Some(u)
    BY <2>3, CutAt DEF Symbols
  <2> HIDE DEF p
  <2>12. p # <<>> /\ p # dots /\ ~starts(p, "..")
    BY <2>3, <2>10 DEF starts
  <2>13. kind_of(p) = "Range"
    BY <2>3, <2>10, <2>11, <2>12 DEF kind_of
  <2>14. date_slices("Range", p) = <<t, u>>
    BY <2>11, SomeFacts DEF date_slices
  <2> QED BY <1>5, <2>4, <2>5, <2>6, <2>7, <2>8, <2>10, <2>13, <2>14
<1> QED BY <1>3, <1>4, <1>5, EndForms

-----------------------------------------------------------------------------
(* A rendered text's shape and its parts. *)

(* A text between two tokens.                                              *)
LEMMA Between ==
  ASSUME NEW t \in TokenText, NEW a \in Token, NEW b \in Token
  PROVE  LET u == <<a>> \o t \o <<b>>
         IN  /\ u \in TokenText /\ u # <<>> /\ Len(u) = Len(t) + 2 /\ Head(u) = a /\ u[Len(u)] = b
             /\ SubSeq(u, 2, Len(u) - 1) = t
<1> DEFINE y == <<a>> \o t
           u == y \o <<b>>
           n == Len(t)
           v == SubSeq(u, 2, n + 1)
<1>1. n \in Nat /\ t \in Seq(Token) /\ \A i \in 1..n : t[i] \in Token
  BY LenProperties, ElementOfSeq DEF TokenText
<1>2. <<a>> \in Seq(Token) /\ <<b>> \in Seq(Token) /\ Len(<<a>>) = 1 /\ Len(<<b>>) = 1 /\ <<a>>[1] = a /\ <<b>>[1] = b
  OBVIOUS
<1> HIDE DEF n
<1>3. y \in Seq(Token) /\ Len(y) = n + 1 /\ y[1] = a /\ \A i \in 1..n : y[i + 1] = t[i]
  <2> DEFINE s == <<a>>
  <2>1. /\ s \o t \in Seq(Token) /\ Len(s \o t) = Len(s) + Len(t)
        /\ \A i \in 1..(Len(s) + Len(t)) : (s \o t)[i] = IF i <= Len(s) THEN s[i] ELSE t[i - Len(s)]
    BY <1>1, <1>2, ConcatProperties
  <2>2. s \in Seq(Token) /\ Len(s) = 1 /\ s[1] = a
    BY <1>2
  <2> HIDE DEF s
  <2>3. Len(s \o t) = n + 1 /\ \A i \in 1..(n + 1) : (s \o t)[i] = IF i <= 1 THEN s[i] ELSE t[i - 1]
    BY <1>1, <2>1, <2>2 DEF n
  <2>4. 1 \in 1..(n + 1) /\ \A i \in 1..n : i + 1 \in 1..(n + 1) /\ ~(i + 1 <= 1) /\ (i + 1) - 1 = i
    BY <1>1
  <2>5. (s \o t)[1] = a
    BY <2>2, <2>3, <2>4
  <2>6. \A i \in 1..n : (s \o t)[i + 1] = t[i]
    BY <2>3, <2>4
  <2> QED BY <2>1, <2>3, <2>5, <2>6 DEF s
<1> HIDE DEF y
<1>4. u \in Seq(Token) /\ Len(u) = n + 2 /\ u[n + 2] = b /\ \A i \in 1..(n + 1) : u[i] = y[i]
  <2> DEFINE s == <<b>>
  <2>1. /\ y \o s \in Seq(Token) /\ Len(y \o s) = Len(y) + Len(s)
        /\ \A i \in 1..(Len(y) + Len(s)) : (y \o s)[i] = IF i <= Len(y) THEN y[i] ELSE s[i - Len(y)]
    BY <1>2, <1>3, ConcatProperties
  <2>2. s \in Seq(Token) /\ Len(s) = 1 /\ s[1] = b
    BY <1>2
  <2> HIDE DEF s
  <2>3. Len(y \o s) = n + 2 /\ \A i \in 1..(n + 2) : (y \o s)[i] = IF i <= n + 1 THEN y[i] ELSE s[i - (n + 1)]
    BY <1>1, <1>3, <2>1, <2>2
  <2>4. /\ n + 2 \in 1..(n + 2) /\ ~(n + 2 <= n + 1) /\ (n + 2) - (n + 1) = 1
        /\ \A i \in 1..(n + 1) : i \in 1..(n + 2) /\ i <= n + 1
    BY <1>1
  <2>5. (y \o s)[n + 2] = b
    BY <2>2, <2>3, <2>4
  <2>6. \A i \in 1..(n + 1) : (y \o s)[i] = y[i]
    BY <2>3, <2>4
  <2> QED BY <2>1, <2>3, <2>5, <2>6 DEF s
<1> HIDE DEF u
<1>5. u # <<>> /\ Head(u) = a
  <2>1. 1 \in 1..(n + 1) /\ n + 2 # 0
    BY <1>1
  <2>2. u[1] = a /\ u # <<>>
    BY <1>3, <1>4, <2>1
  <2> QED BY <2>2
<1>6. v \in Seq(Token) /\ Len(v) = n /\ \A i \in 1..n : v[i] = t[i]
  <2>1. \A i \in 2..(n + 1) : u[i] \in Token
    <3> TAKE i \in 2..(n + 1)
    <3>1. i \in 1..(n + 2)
      BY <1>1
    <3> QED BY <1>4, <3>1, ElementOfSeq
  <2>2. 2 \in Int /\ n + 1 \in Int
    BY <1>1
  <2>3. /\ v \in Seq(Token) /\ Len(v) = (IF 2 <= n + 1 THEN (n + 1) - 2 + 1 ELSE 0)
        /\ \A i \in 1..((n + 1) - 2 + 1) : v[i] = u[2 + i - 1]
    BY <2>1, <2>2, SubSeqProperties
  <2> HIDE DEF v
  <2>4. Len(v) = n
    BY <1>1, <2>3
  <2>5. \A i \in 1..n : v[i] = t[i]
    <3> TAKE i \in 1..n
    <3>1. i \in 1..((n + 1) - 2 + 1) /\ 2 + i - 1 = i + 1 /\ i + 1 \in 1..(n + 1)
      BY <1>1
    <3> QED BY <1>3, <1>4, <2>3, <3>1
  <2> QED BY <2>3, <2>4, <2>5
<1> HIDE DEF v
<1>7. v = t
  BY <1>1, <1>6, SeqEqual DEF n
<1>8. Len(u) - 1 = n + 1 /\ Len(u) = Len(t) + 2
  BY <1>1, <1>4 DEF n
<1>9. SubSeq(u, 2, Len(u) - 1) = t
  BY <1>7, <1>8 DEF v
<1>10. u[Len(u)] = b /\ u \in TokenText
  BY <1>4 DEF TokenText
<1> QED BY <1>5, <1>8, <1>9, <1>10 DEF u, y

(* The parts an expression is written from. *)
PartsOf(x) == CASE x.type = "Date" -> <<At(x.date)>>
                [] x.type = "Interval" -> <<x.start, x.end>>
                [] x.type = "Set" -> x.elements

(* They are valid.                                                         *)
LEMMA PartFacts ==
  ASSUME NEW x \in Expressions, Accepted(x), x.type # "DateTime"
  PROVE  /\ PartsOf(x) \in Seq(Ends) /\ PartsOf(x) # <<>>
         /\ \A i \in DOMAIN PartsOf(x) : ValidEnd(PartsOf(x)[i])
<1>1. CASE x.type = "Date"
  <2> DEFINE e == At(x.date)
  <2>1. x.date \in Dates /\ ValidDate(x.date)
    BY <1>1, ExpressionForms DEF Accepted
  <2>2. e \in Ends /\ ValidEnd(e)
    BY <2>1 DEF Ends, At, ValidEnd, is_dated
  <2>3. PartsOf(x) = <<e>>
    BY <1>1 DEF PartsOf
  <2> HIDE DEF e
  <2> QED BY <2>2, <2>3
<1>2. CASE x.type = "Interval"
  <2>1. x.start \in Ends /\ x.end \in Ends /\ ValidEnd(x.start) /\ ValidEnd(x.end)
    BY <1>2, ExpressionForms, AcceptedEnds
  <2>2. PartsOf(x) = <<x.start, x.end>>
    BY <1>2 DEF PartsOf
  <2> QED BY <2>1, <2>2
<1>3. CASE x.type = "Set"
  BY <1>3, ExpressionForms, AcceptedEnds DEF PartsOf
<1> QED BY <1>1, <1>2, <1>3, ExpressionForms

(* The text of a date-time after its T has no slash.                       *)
LEMMA NoSlash ==
  ASSUME NEW t \in Times
  PROVE  ~holds(TimeText(t), "/")
BY TimeWritten, ClockTokens, HoldsNot

(* A text that begins with another token is of no set.                     *)
LEMMA HeadOf ==
  ASSUME NEW a \in TokenText, NEW b \in TokenText, a # <<>>
  PROVE  Head(a \o b) = a[1] /\ a \o b # <<>> /\ a[1] \in Token
<1> DEFINE m == Len(a)
<1>1. m \in Nat \ {0} /\ Len(b) \in Nat /\ a[1] \in Token
  <2>1. m \in Nat \ {0} /\ Len(b) \in Nat
    BY LenProperties, EmptySeq DEF TokenText
  <2>2. 1 \in 1..m
    BY <2>1
  <2> QED BY <2>1, <2>2, ElementOfSeq DEF TokenText
<1>2. /\ a \o b \in Seq(Token) /\ Len(a \o b) = Len(a) + Len(b)
      /\ \A i \in 1..(Len(a) + Len(b)) : (a \o b)[i] = IF i <= Len(a) THEN a[i] ELSE b[i - Len(a)]
  BY ConcatProperties DEF TokenText
<1>3. 1 \in 1..(Len(a) + Len(b)) /\ 1 <= Len(a) /\ Len(a) + Len(b) # 0
  BY <1>1
<1>4. (a \o b)[1] = a[1] /\ a \o b # <<>>
  BY <1>2, <1>3, EmptySeq
<1> QED BY <1>1, <1>4

(* The tokens that decide a text's shape, in a valid part.                 *)
LEMMA PlainEnd ==
  ASSUME NEW e \in Ends, ValidEnd(e)
  PROVE  /\ EndText(e) \in TokenText
         /\ \A s \in {"/", ",", "T", "{", "}", "[", "]"} : ~holds(EndText(e), s)
         /\ EndText(e) # <<>> => EndText(e)[1] \notin {Sym("{"), Sym("[")}
<1>1. EndText(e) \in Seq(EndTokens)
  BY EndRead
<1>2. \A s \in {"/", ",", "T", "{", "}", "[", "]"} : ~holds(EndText(e), s)
  BY <1>1, EndTokenFacts, HoldsNot
<1>3. ASSUME EndText(e) # <<>> PROVE EndText(e)[1] \notin {Sym("{"), Sym("[")}
  <2>1. 1 \in 1..Len(EndText(e))
    BY <1>1, <1>3, LenProperties, EmptySeq
  <2>2. EndText(e)[1] \in EndTokens
    BY <1>1, <2>1, ElementOfSeq
  <2>3. Sym("{") \notin EndTokens /\ Sym("[") \notin EndTokens
    BY EndTokenFacts
  <2> QED BY <2>2, <2>3
<1> QED BY <1>1, <1>2, <1>3, EndTokenFacts

(* A date by itself.                                                       *)
LEMMA DateDisplay ==
  ASSUME NEW x \in Expressions, Accepted(x), x.type = "Date"
  PROVE  /\ display(x) # <<>> /\ shape(display(x)) = "Date"
         /\ undivided(display(x)) = separated(ElementTexts(PartsOf(x)), "/")
         /\ put_together(display(x), PartsOf(x)) = x
<1> DEFINE e == At(x.date)
           t == DateText(x.date)
<1>1. x.date \in Dates /\ ValidDate(x.date) /\ x = DateExpr(x.date)
  BY ExpressionForms DEF Accepted
<1>2. e \in Ends /\ ValidEnd(e) /\ EndText(e) = t
  BY <1>1 DEF Ends, At, ValidEnd, is_dated, EndText
<1>3. display(x) = t /\ t # <<>>
  BY <1>1, ValidIsWritten, DateWritten DEF display
<1>4. /\ EndText(e) \in TokenText
      /\ \A s \in {"/", ",", "T", "{", "}", "[", "]"} : ~holds(EndText(e), s)
      /\ EndText(e) # <<>> => EndText(e)[1] \notin {Sym("{"), Sym("[")}
  BY <1>2, PlainEnd
<1>5. t \in TokenText /\ ~holds(t, "/") /\ ~holds(t, "T") /\ t[1] \notin {Sym("{"), Sym("[")}
  BY <1>2, <1>3, <1>4
<1>6. PartsOf(x) = <<e>>
  BY DEF PartsOf
<1>7. e.date = x.date
  BY DEF At
<1> HIDE DEF t, e
<1>8. Head(t) = t[1]
  <2>1. t \in Seq(Token) /\ t # <<>>
    BY <1>3, <1>5 DEF TokenText
  <2> QED BY <2>1, HeadTailProperties
<1>9. shape(t) = "Date"
  BY <1>5, <1>8 DEF shape
<1>10. ElementTexts(<<e>>) = <<t>>
  BY <1>2 DEF ElementTexts
<1>11. separated(<<t>>, "/") = t
  <2>1. Sym("/") \in Token
    BY Symbol DEF Symbols
  <2> QED BY <1>5, <2>1, OneSeparated DEF TokenText
<1>12. undivided(t) = t
  BY <1>9 DEF undivided
<1>13. put_together(t, <<e>>) = DateExpr(e.date)
  BY <1>9 DEF put_together
<1> QED BY <1>1, <1>3, <1>6, <1>7, <1>9, <1>10, <1>11, <1>12, <1>13

(* An interval.                                                            *)
LEMMA IntervalDisplay ==
  ASSUME NEW x \in Expressions, Accepted(x), x.type = "Interval"
  PROVE  /\ display(x) # <<>> /\ shape(display(x)) = "Interval"
         /\ undivided(display(x)) = separated(ElementTexts(PartsOf(x)), "/")
         /\ put_together(display(x), PartsOf(x)) = x
<1> DEFINE a == EndText(x.start)
           b == EndText(x.end)
           c == <<Sym("/")>>
           t == a \o (c \o b)
<1>1. x.start \in Ends /\ x.end \in Ends /\ ValidEnd(x.start) /\ ValidEnd(x.end) /\ x = IntervalExpr(x.start, x.end)
  BY ExpressionForms, AcceptedEnds
<1>2. /\ a \in TokenText /\ b \in TokenText /\ ~holds(a, "/") /\ (a # <<>> => a[1] \notin {Sym("{"), Sym("[")})
      /\ c \in TokenText /\ Sym("/") \in Token
  <2>1. c \in TokenText /\ Sym("/") \in Token
    BY OneSymbol, Symbol DEF Symbols
  <2> QED BY <1>1, <2>1, PlainEnd
<1>3. display(x) = (a \o c) \o b
  BY DEF display
<1>4. PartsOf(x) = <<x.start, x.end>>
  BY DEF PartsOf
<1>5. ElementTexts(<<x.start, x.end>>) = <<a, b>>
  BY DEF ElementTexts
<1> HIDE DEF a, b
<1>6. display(x) = t
  <2>1. Regrouped(a, c, b)
    BY <1>2, Regroup DEF TokenText
  <2> QED BY <1>3, <2>1 DEF Regrouped
<1>7. separated(<<a, b>>, "/") = t
  BY <1>2, TwoSeparated DEF TokenText
<1>8. t \in TokenText /\ holds(t, "/")
  BY <1>2, CutAt DEF Symbols
<1>9. t # <<>> /\ Head(t) \notin {Sym("{"), Sym("[")}
  <2>1. c \o b \in TokenText /\ c # <<>>
    BY <1>2, OneSymbol
  <2>2. CASE a = <<>>
    <3>1. t = c \o b
      BY <1>2, <2>1, <2>2 DEF TokenText
    <3>2. Head(c \o b) = c[1] /\ c \o b # <<>>
      BY <1>2, <2>1, HeadOf
    <3>3. Sym("/") # Sym("{") /\ Sym("/") # Sym("[")
      BY DEF Sym
    <3> QED BY <3>1, <3>2, <3>3
  <2>3. CASE a # <<>>
    BY <1>2, <2>1, <2>3, HeadOf
  <2> QED BY <2>2, <2>3
<1> HIDE DEF t, c
<1>10. shape(t) = "Interval"
  BY <1>8, <1>9 DEF shape
<1>11. undivided(t) = t
  BY <1>10 DEF undivided
<1>12. put_together(t, <<x.start, x.end>>) = IntervalExpr(x.start, x.end)
  <2>1. <<x.start, x.end>>[1] = x.start /\ <<x.start, x.end>>[2] = x.end
    OBVIOUS
  <2> QED BY <1>10, <2>1 DEF put_together
<1> QED BY <1>1, <1>4, <1>5, <1>6, <1>7, <1>9, <1>10, <1>11, <1>12

(* A set.                                                                  *)
LEMMA SetDisplay ==
  ASSUME NEW x \in Expressions, Accepted(x), x.type = "Set"
  PROVE  /\ display(x) # <<>> /\ shape(display(x)) = "Set"
         /\ undivided(display(x)) = separated(ElementTexts(PartsOf(x)), ",")
         /\ put_together(display(x), PartsOf(x)) = x
         /\ Len(display(x)) > 1
         /\ display(x)[Len(display(x))] = Brackets(set_kind(display(x)))[2]
<1> DEFINE b == Brackets(x.kind)
           t == separated(ElementTexts(x.elements), ",")
           u == <<b[1]>> \o t \o <<b[2]>>
<1>1. /\ x.kind \in {"AllMembers", "OneMember"} /\ x.elements \in Seq(Ends) /\ x.elements # <<>>
      /\ \A i \in DOMAIN x.elements : ValidEnd(x.elements[i])
      /\ x = SetExpr(x.kind, x.elements)
  BY ExpressionForms, AcceptedEnds
<1>2. t \in TokenText
  BY <1>1, ElementsWritten
<1>3. display(x) = u
  BY DEF display, SetText, ElementTexts
<1>4. b[1] \in Token /\ b[2] \in Token
  BY <1>1, BracketSymbols
<1>5. /\ u \in TokenText /\ u # <<>> /\ Len(u) = Len(t) + 2 /\ Head(u) = b[1] /\ u[Len(u)] = b[2]
      /\ SubSeq(u, 2, Len(u) - 1) = t
  <2> HIDE DEF t, b
  <2> QED BY <1>2, <1>4, Between
<1>6. Len(t) \in Nat
  BY <1>2, LenProperties DEF TokenText
<1> HIDE DEF t, u
<1>7. b[1] \in {Sym("{"), Sym("[")} /\ (b[1] = Sym("{") <=> x.kind = "AllMembers")
  <2>1. Sym("{") # Sym("[")
    BY DEF Sym
  <2> QED BY <1>1, <2>1, BracketSymbols
<1>8. shape(u) = "Set" /\ set_kind(u) = x.kind
  BY <1>1, <1>5, <1>7 DEF shape, set_kind
<1>9. undivided(u) = t
  BY <1>5, <1>8 DEF undivided
<1>10. put_together(u, x.elements) = SetExpr(x.kind, x.elements)
  BY <1>8 DEF put_together
<1>11. PartsOf(x) = x.elements
  BY DEF PartsOf
<1>12. Len(u) > 1
  BY <1>5, <1>6
<1> QED BY <1>1, <1>3, <1>5, <1>8, <1>9, <1>10, <1>11, <1>12 DEF t

(* A token before a text, and one after it.                                *)
LEMMA Prepended ==
  ASSUME NEW t \in Token, NEW r \in TokenText
  PROVE  /\ <<t>> \o r \in TokenText /\ Len(<<t>> \o r) = Len(r) + 1 /\ (<<t>> \o r)[1] = t
         /\ \A i \in 1..Len(r) : (<<t>> \o r)[i + 1] = r[i]
<1> DEFINE s == <<t>>
<1>1. s \in Seq(Token) /\ Len(s) = 1 /\ s[1] = t /\ r \in Seq(Token) /\ Len(r) \in Nat
  BY LenProperties DEF TokenText
<1> HIDE DEF s
<1>2. /\ s \o r \in Seq(Token) /\ Len(s \o r) = Len(s) + Len(r)
      /\ \A i \in 1..(Len(s) + Len(r)) : (s \o r)[i] = IF i <= Len(s) THEN s[i] ELSE r[i - Len(s)]
  BY <1>1, ConcatProperties
<1>3. Len(s \o r) = Len(r) + 1
  BY <1>1, <1>2
<1>4. \A i \in 1..(Len(r) + 1) : (s \o r)[i] = IF i <= 1 THEN s[i] ELSE r[i - 1]
  BY <1>1, <1>2
<1>5. (s \o r)[1] = t
  <2>1. 1 \in 1..(Len(r) + 1) /\ 1 <= 1
    BY <1>1
  <2> QED BY <1>1, <1>4, <2>1
<1>6. \A i \in 1..Len(r) : (s \o r)[i + 1] = r[i]
  <2> TAKE i \in 1..Len(r)
  <2>1. i + 1 \in 1..(Len(r) + 1) /\ ~(i + 1 <= 1) /\ (i + 1) - 1 = i
    BY <1>1
  <2> QED BY <1>4, <2>1
<1> QED BY <1>2, <1>3, <1>5, <1>6 DEF s, TokenText

(* A token after a text. *)
LEMMA Appended ==
  ASSUME NEW t \in Token, NEW r \in TokenText
  PROVE  /\ r \o <<t>> \in TokenText /\ Len(r \o <<t>>) = Len(r) + 1 /\ (r \o <<t>>)[Len(r) + 1] = t
         /\ \A i \in 1..Len(r) : (r \o <<t>>)[i] = r[i]
<1> DEFINE s == <<t>>
<1>1. s \in Seq(Token) /\ Len(s) = 1 /\ s[1] = t /\ r \in Seq(Token) /\ Len(r) \in Nat
  BY LenProperties DEF TokenText
<1> HIDE DEF s
<1>2. /\ r \o s \in Seq(Token) /\ Len(r \o s) = Len(r) + Len(s)
      /\ \A i \in 1..(Len(r) + Len(s)) : (r \o s)[i] = IF i <= Len(r) THEN r[i] ELSE s[i - Len(r)]
  BY <1>1, ConcatProperties
<1>3. Len(r \o s) = Len(r) + 1
  BY <1>1, <1>2
<1>4. \A i \in 1..(Len(r) + 1) : (r \o s)[i] = IF i <= Len(r) THEN r[i] ELSE s[i - Len(r)]
  BY <1>1, <1>2
<1>5. (r \o s)[Len(r) + 1] = t
  <2>1. Len(r) + 1 \in 1..(Len(r) + 1) /\ ~(Len(r) + 1 <= Len(r)) /\ (Len(r) + 1) - Len(r) = 1
    BY <1>1
  <2> QED BY <1>1, <1>4, <2>1
<1>6. \A i \in 1..Len(r) : (r \o s)[i] = r[i]
  <2> TAKE i \in 1..Len(r)
  <2>1. i \in 1..(Len(r) + 1) /\ i <= Len(r)
    BY <1>1
  <2> QED BY <1>4, <2>1
<1> QED BY <1>2, <1>3, <1>5, <1>6 DEF s, TokenText

(* Five tokens in a row, built from either side.                           *)
LEMMA FiveBefore ==
  ASSUME NEW a \in Token, NEW b \in Token, NEW c \in Token, NEW d \in Token, NEW e \in Token
  PROVE  LET r == <<a>> \o (<<b>> \o (<<c>> \o (<<d>> \o <<e>>)))
         IN  /\ r \in TokenText /\ Len(r) = 5
             /\ r[1] = a /\ r[2] = b /\ r[3] = c /\ r[4] = d /\ r[5] = e
<1> DEFINE r1 == <<e>>
           r2 == <<d>> \o r1
           r3 == <<c>> \o r2
           r4 == <<b>> \o r3
           r5 == <<a>> \o r4
<1>1. r1 \in TokenText /\ Len(r1) = 1 /\ r1[1] = e
  BY DEF TokenText
<1> HIDE DEF r1
<1>2. r2 \in TokenText /\ Len(r2) = 2 /\ r2[1] = d /\ r2[2] = e
  <2>1. r2 \in TokenText /\ Len(r2) = Len(r1) + 1 /\ r2[1] = d /\ \A i \in 1..Len(r1) : r2[i + 1] = r1[i]
    BY <1>1, Prepended
  <2>2. r2[1 + 1] = r1[1]
    BY <1>1, <2>1
  <2> QED BY <1>1, <2>1, <2>2
<1> HIDE DEF r2
<1>3. r3 \in TokenText /\ Len(r3) = 3 /\ r3[1] = c /\ r3[2] = d /\ r3[3] = e
  <2>1. r3 \in TokenText /\ Len(r3) = Len(r2) + 1 /\ r3[1] = c /\ \A i \in 1..Len(r2) : r3[i + 1] = r2[i]
    BY <1>2, Prepended
  <2>2. r3[1 + 1] = r2[1] /\ r3[2 + 1] = r2[2]
    BY <1>2, <2>1
  <2> QED BY <1>2, <2>1, <2>2
<1> HIDE DEF r3
<1>4. r4 \in TokenText /\ Len(r4) = 4 /\ r4[1] = b /\ r4[2] = c /\ r4[3] = d /\ r4[4] = e
  <2>1. r4 \in TokenText /\ Len(r4) = Len(r3) + 1 /\ r4[1] = b /\ \A i \in 1..Len(r3) : r4[i + 1] = r3[i]
    BY <1>3, Prepended
  <2>2. r4[1 + 1] = r3[1] /\ r4[2 + 1] = r3[2] /\ r4[3 + 1] = r3[3]
    BY <1>3, <2>1
  <2> QED BY <1>3, <2>1, <2>2
<1> HIDE DEF r4
<1>5. r5 \in TokenText /\ Len(r5) = 5 /\ r5[1] = a /\ r5[2] = b /\ r5[3] = c /\ r5[4] = d /\ r5[5] = e
  <2>1. r5 \in TokenText /\ Len(r5) = Len(r4) + 1 /\ r5[1] = a /\ \A i \in 1..Len(r4) : r5[i + 1] = r4[i]
    BY <1>4, Prepended
  <2>2. r5[1 + 1] = r4[1] /\ r5[2 + 1] = r4[2] /\ r5[3 + 1] = r4[3] /\ r5[4 + 1] = r4[4]
    BY <1>4, <2>1
  <2> QED BY <1>4, <2>1, <2>2
<1> QED BY <1>5 DEF r1, r2, r3, r4

(* Five tokens in a row, in the other grouping. *)
LEMMA FiveAfter ==
  ASSUME NEW a \in Token, NEW b \in Token, NEW c \in Token, NEW d \in Token, NEW e \in Token
  PROVE  LET r == <<a>> \o <<b>> \o <<c>> \o <<d>> \o <<e>>
         IN  /\ r \in TokenText /\ Len(r) = 5
             /\ r[1] = a /\ r[2] = b /\ r[3] = c /\ r[4] = d /\ r[5] = e
<1> DEFINE r1 == <<a>>
           r2 == r1 \o <<b>>
           r3 == r2 \o <<c>>
           r4 == r3 \o <<d>>
           r5 == r4 \o <<e>>
<1>1. r1 \in TokenText /\ Len(r1) = 1 /\ r1[1] = a
  BY DEF TokenText
<1> HIDE DEF r1
<1>2. r2 \in TokenText /\ Len(r2) = 2 /\ r2[1] = a /\ r2[2] = b
  <2>1. r2 \in TokenText /\ Len(r2) = Len(r1) + 1 /\ r2[Len(r1) + 1] = b /\ \A i \in 1..Len(r1) : r2[i] = r1[i]
    BY <1>1, Appended
  <2>2. 1 \in 1..Len(r1) /\ Len(r1) + 1 = 2
    BY <1>1
  <2> QED BY <1>1, <2>1, <2>2
<1> HIDE DEF r2
<1>3. r3 \in TokenText /\ Len(r3) = 3 /\ r3[1] = a /\ r3[2] = b /\ r3[3] = c
  <2>1. r3 \in TokenText /\ Len(r3) = Len(r2) + 1 /\ r3[Len(r2) + 1] = c /\ \A i \in 1..Len(r2) : r3[i] = r2[i]
    BY <1>2, Appended
  <2>2. {1, 2} \subseteq 1..Len(r2) /\ Len(r2) + 1 = 3
    BY <1>2
  <2> QED BY <1>2, <2>1, <2>2
<1> HIDE DEF r3
<1>4. r4 \in TokenText /\ Len(r4) = 4 /\ r4[1] = a /\ r4[2] = b /\ r4[3] = c /\ r4[4] = d
  <2>1. r4 \in TokenText /\ Len(r4) = Len(r3) + 1 /\ r4[Len(r3) + 1] = d /\ \A i \in 1..Len(r3) : r4[i] = r3[i]
    BY <1>3, Appended
  <2>2. {1, 2, 3} \subseteq 1..Len(r3) /\ Len(r3) + 1 = 4
    BY <1>3
  <2> QED BY <1>3, <2>1, <2>2
<1> HIDE DEF r4
<1>5. r5 \in TokenText /\ Len(r5) = 5 /\ r5[1] = a /\ r5[2] = b /\ r5[3] = c /\ r5[4] = d /\ r5[5] = e
  <2>1. r5 \in TokenText /\ Len(r5) = Len(r4) + 1 /\ r5[Len(r4) + 1] = e /\ \A i \in 1..Len(r4) : r5[i] = r4[i]
    BY <1>4, Appended
  <2>2. {1, 2, 3, 4} \subseteq 1..Len(r4) /\ Len(r4) + 1 = 5
    BY <1>4
  <2> QED BY <1>4, <2>1, <2>2
<1> QED BY <1>5 DEF r1, r2, r3, r4

(* A plain complete date is read back.                                     *)
LEMMA PlainDateText ==
  ASSUME NEW d \in Dates, parse_plain_complete_date(d)
  PROVE  plain_date_ahead(DateText(d)) /\ plain_date(DateText(d)) = d
<1> DEFINE k == d.year.kind
           m == Get(d.month)
           f == Get(d.day)
           y == Group(k.digits)
           g == Group(m.digits)
           h == Group(f.digits)
           dash == Sym("-")
           r == <<y>> \o (<<dash>> \o (<<g>> \o (<<dash>> \o <<h>>)))
<1>1. /\ k.form = "Standard" /\ k.negative = FALSE /\ d.year.significant_digits = None
      /\ d.month # None /\ d.day # None /\ ~has_unspecified(d) /\ qualifiers(d) = {{}}
  <2>1. d.year.kind.negative \in BOOLEAN
    BY DateParts, KindForms DEF parse_plain_complete_date
  <2> QED BY <2>1 DEF parse_plain_complete_date
<1>2. m \in Fields /\ f \in Fields /\ d.month = Some(m) /\ d.day = Some(f)
  BY <1>1, DateParts, Options
<1>3. ~has_x(k.digits) /\ ~has_x(m.digits) /\ ~has_x(f.digits)
  BY <1>1 DEF has_unspecified, IsSome
<1>4. d.year.qualifier = {} /\ m.qualifier = {} /\ f.qualifier = {}
  BY <1>1 DEF qualifiers, IsSome
<1>5. /\ k.digits \in [1..4 -> MaskDigit] /\ m.digits \in [1..2 -> MaskDigit] /\ f.digits \in [1..2 -> MaskDigit]
      /\ k = Standard(FALSE, k.digits) /\ m = Field(m.digits, {}) /\ f = Field(f.digits, {})
  BY <1>1, <1>2, <1>4, DateParts, KindForms, FieldParts
<1>6. /\ y \in Token /\ g \in Token /\ h \in Token /\ dash \in Token
      /\ plain_group(y, 4) /\ plain_group(g, 2) /\ plain_group(h, 2)
      /\ y.digits = k.digits /\ g.digits = m.digits /\ h.digits = f.digits
  <2>1. /\ k.digits \in Seq(MaskDigit) /\ k.digits # <<>> /\ Len(k.digits) = 4
        /\ m.digits \in Seq(MaskDigit) /\ m.digits # <<>> /\ Len(m.digits) = 2
        /\ f.digits \in Seq(MaskDigit) /\ f.digits # <<>> /\ Len(f.digits) = 2
    BY <1>5, DigitGroup
  <2>2. dash \in Token
    BY Symbol DEF Symbols
  <2> QED BY <1>3, <2>1, <2>2, GroupOf DEF plain_group
<1>7. Written(d)
  BY PlainIsWritten
<1>8. DateText(d) = SignText(k.negative) \o (<<y>> \o SuffixedText(d))
  BY <1>1, <1>7, StandardText
<1>9. /\ \A i : Closing(d, i) = <<>>
      /\ Opening(d, 2, m.qualifier) = <<>> /\ Opening(d, 3, f.qualifier) = <<>>
      /\ SuffixText("S", d.year.significant_digits) = <<>> /\ SignText(k.negative) = <<>>
  BY <1>1, <1>4 DEF Closing, Opening, qual_symbol, SuffixText, SignText
<1>10. /\ SuffixedText(d) = <<>> \o (<<>> \o MonthText(d))
       /\ MonthText(d) = <<dash>> \o (<<>> \o (<<g>> \o (<<>> \o TextOfDay(d))))
       /\ TextOfDay(d) = <<dash>> \o (<<>> \o (<<h>> \o (<<>> \o <<>>)))
  BY <1>1, <1>9 DEF SuffixedText, YearEndText, MonthText, TextOfDay, FieldText
<1> HIDE DEF y, g, h, dash
<1>11. /\ <<y>> \in TokenText /\ <<g>> \in TokenText /\ <<h>> \in TokenText /\ <<dash>> \in TokenText
       /\ \A a \in TokenText : <<>> \o a = a /\ a \o <<>> = a
       /\ \A a, b \in TokenText : a \o b \in TokenText
  BY <1>6 DEF TokenText
<1>12. TextOfDay(d) = <<dash>> \o <<h>> /\ TextOfDay(d) \in TokenText
  <2>1. <<>> \o <<>> = <<>>
    OBVIOUS
  <2> QED BY <1>10, <1>11, <2>1
<1>13. MonthText(d) = <<dash>> \o (<<g>> \o (<<dash>> \o <<h>>)) /\ MonthText(d) \in TokenText
  <2>1. <<g>> \o TextOfDay(d) \in TokenText
    BY <1>11, <1>12
  <2>2. <<dash>> \o (<<g>> \o TextOfDay(d)) \in TokenText
    BY <1>11, <2>1
  <2>3. MonthText(d) = <<dash>> \o (<<g>> \o TextOfDay(d))
    BY <1>10, <1>11, <1>12, <2>1
  <2> QED BY <1>12, <2>2, <2>3
<1>14. DateText(d) = r
  <2>1. SuffixedText(d) = MonthText(d)
    BY <1>10, <1>11, <1>13
  <2>2. <<y>> \o MonthText(d) \in TokenText
    BY <1>11, <1>13
  <2>3. DateText(d) = <<y>> \o MonthText(d)
    BY <1>8, <1>9, <1>11, <2>1, <2>2
  <2> QED BY <1>13, <2>3
<1>15. Len(r) = 5 /\ r[1] = y /\ r[2] = dash /\ r[3] = g /\ r[4] = dash /\ r[5] = h
  BY <1>6, FiveBefore
<1> HIDE DEF r
<1>16. plain_date(r) = d
  <2>1. plain_date(r) = Date(Year(k, None, {}), Some(m), Some(f))
    BY <1>5, <1>6, <1>15 DEF plain_date
  <2> QED BY <1>1, <1>2, <1>4, <2>1, DateParts
<1>17. plain_date_ahead(r)
  BY <1>6, <1>15, <1>16 DEF plain_date_ahead, dash
<1> QED BY <1>14, <1>16, <1>17

(* An offset of whole minutes, in hours and minutes.                       *)
LEMMA HoursAndMinutes ==
  ASSUME NEW v \in -840..840
  PROVE  /\ Abs(v) \div 60 \in 0..14 /\ Abs(v) % 60 \in 0..59
         /\ 60 * (Abs(v) \div 60) + (Abs(v) % 60) = Abs(v)
         /\ Abs(v) \in 0..840
         /\ v < 0 => -Abs(v) = v /\ Abs(v) # 0
         /\ ~(v < 0) => Abs(v) = v
         /\ v % 60 = 0 => Abs(v) % 60 = 0
<1>1. /\ Abs(v) \in 0..840
      /\ v < 0 => -Abs(v) = v /\ Abs(v) # 0
      /\ ~(v < 0) => Abs(v) = v
  BY DEF Abs
<1>2. v % 60 = 0 => Abs(v) % 60 = 0
  <2>1. v % 60 = 0 => (-v) % 60 = 0
    OBVIOUS
  <2> QED BY <2>1 DEF Abs
<1> DEFINE a == Abs(v)
<1>3. a \in 0..840
  BY <1>1
<1> HIDE DEF a
<1>4. a \div 60 \in 0..14 /\ a % 60 \in 0..59 /\ 60 * (a \div 60) + (a % 60) = a
  BY <1>3
<1> QED BY <1>1, <1>2, <1>4 DEF a

(* A written shift is read back.                                           *)
LEMMA ShiftText_read ==
  ASSUME NEW o \in Option(TimeShifts)
  PROVE  shift_ahead(ShiftText(o)) /\ parse_shift(ShiftText(o)) = o
<1>1. CASE o = None
  <2>1. ShiftText(o) = <<>>
    BY <1>1 DEF ShiftText, Some, None
  <2>2. parse_shift(<<>>) = None /\ shift_ahead(<<>>)
    BY DEF parse_shift, shift_ahead
  <2> QED BY <1>1, <2>1, <2>2
<1>2. CASE o = Some(Utc)
  <2>1. ShiftText(o) = <<Sym("Z")>>
    BY <1>2 DEF ShiftText, Some, None
  <2>2. parse_shift(<<Sym("Z")>>) = Some(Utc) /\ shift_ahead(<<Sym("Z")>>)
    BY DEF parse_shift, shift_ahead
  <2> QED BY <1>2, <2>1, <2>2
<1>3. CASE o # None /\ o # Some(Utc)
  <2> DEFINE v == Get(o).minutes
             b == Get(o).hours_only
             a == Abs(v)
             sign == Sym(IF v < 0 THEN "-" ELSE "+")
             h == Group(<<(a \div 60) \div 10, (a \div 60) % 10>>)
             n == Group(<<(a % 60) \div 10, (a % 60) % 10>>)
             colon == Sym(":")
             r == ShiftText(o)
  <2>1. v \in -840..840 /\ b \in BOOLEAN /\ o = Some(Offset(v, b)) /\ (b => v % 60 = 0)
    <3>1. Get(o) \in TimeShifts /\ o = Some(Get(o))
      BY <1>3, Options
    <3>2. Get(o) # Utc
      BY <1>3, <3>1
    <3> QED BY <3>1, <3>2, ShiftForms
  <2>2. /\ a \div 60 \in 0..14 /\ a % 60 \in 0..59 /\ 60 * (a \div 60) + (a % 60) = a
        /\ a \in 0..840 /\ (v < 0 => -a = v /\ a # 0) /\ (~(v < 0) => a = v)
        /\ b => a % 60 = 0
    <3> HIDE DEF v, b
    <3>1. /\ Abs(v) \div 60 \in 0..14 /\ Abs(v) % 60 \in 0..59
          /\ 60 * (Abs(v) \div 60) + (Abs(v) % 60) = Abs(v)
          /\ Abs(v) \in 0..840
          /\ v < 0 => -Abs(v) = v /\ Abs(v) # 0
          /\ ~(v < 0) => Abs(v) = v
          /\ v % 60 = 0 => Abs(v) % 60 = 0
      BY <2>1, HoursAndMinutes, Zenon
    <3> QED BY <2>1, <3>1, Zenon
  <2>3. /\ TwoDigits(a \div 60) = <<h>> /\ h \in Token /\ plain_group(h, 2) /\ two(h) = a \div 60
        /\ TwoDigits(a % 60) = <<n>> /\ n \in Token /\ plain_group(n, 2) /\ two(n) = a % 60
    <3>1. a \div 60 \in 0..99 /\ a % 60 \in 0..99
      <4> DEFINE p == a \div 60
                 q == a % 60
      <4>1. p \in 0..14 /\ q \in 0..59
        BY <2>2
      <4> HIDE DEF p, q
      <4>2. p \in 0..99 /\ q \in 0..99
        BY <4>1
      <4> QED BY <4>2 DEF p, q
    <3> HIDE DEF a
    <3> QED BY <3>1, TwoWritten
  <2>4. /\ sign \in Token /\ colon \in Token /\ (sign = Sym("-") <=> v < 0) /\ sign \in {Sym("+"), Sym("-")}
    <3>1. Sym("-") \in Token /\ Sym("+") \in Token /\ Sym(":") \in Token /\ Sym("+") # Sym("-")
      BY Symbol DEF Symbols
    <3> QED BY <3>1
  <2>5. r = (<<sign>> \o <<h>>) \o (IF b /\ a % 60 = 0 THEN <<>> ELSE <<colon>> \o <<n>>)
    BY <1>3, <2>3 DEF ShiftText
  <2>6. colon = Sym(":")
    OBVIOUS
  <2> DEFINE hh == a \div 60
             mm == a % 60
  <2>7. /\ hh \in 0..14 /\ mm \in 0..59 /\ 60 * hh + mm = a
        /\ b => mm = 0
        /\ two(h) = hh /\ two(n) = mm
    BY <2>2, <2>3
  <2> HIDE DEF sign, h, n, colon, r, v, b
  <2>8. <<sign>> \in TokenText /\ <<h>> \in TokenText /\ <<sign>> \o <<h>> \in TokenText /\ <<colon>> \o <<n>> \in TokenText
    <3>1. <<sign>> \in TokenText /\ <<h>> \in TokenText /\ <<colon>> \in TokenText /\ <<n>> \in TokenText
      BY <2>3, <2>4 DEF TokenText
    <3> QED BY <3>1, OneSymbol
  <2>9. CASE b
    <3>1. r = <<sign>> \o <<h>>
      <4>1. b /\ a % 60 = 0
        BY <2>2, <2>9
      <4>2. r = (<<sign>> \o <<h>>) \o <<>>
        BY <2>5, <4>1
      <4> QED BY <2>8, <4>2 DEF TokenText
    <3>2. Len(r) = 2 /\ r[1] = sign /\ r[2] = h
      <4>1. <<h>>[1] = h /\ Len(<<h>>) = 1 /\ 1 \in 1..Len(<<h>>)
        OBVIOUS
      <4>2. r[1] = sign /\ Len(r) = Len(<<h>>) + 1 /\ r[1 + 1] = <<h>>[1]
        BY <2>4, <2>8, <3>1, <4>1, Prepended
      <4> QED BY <4>1, <4>2
    <3>3. Head(r) = sign /\ r # <<>>
      BY <2>3, <2>4, <2>8, <3>1, Before1
    <3>4. shift_minutes(r) = a
      <4> HIDE DEF a, hh, mm
      <4>1. shift_minutes(r) = 60 * hh + 0
        BY <2>7, <3>2 DEF shift_minutes
      <4> QED BY <2>7, <2>9, <4>1
    <3>5. r # <<Sym("Z")>>
      BY <3>2
    <3>6. shift_ahead(r)
      <4>1. Len(r) \in {2, 4} /\ Len(r) # 4
        BY <3>2
      <4>2. a <= 14 * 60
        BY <2>2
      <4> HIDE DEF a
      <4> QED BY <2>2, <2>3, <2>4, <3>2, <3>3, <3>4, <4>1, <4>2 DEF shift_ahead
    <3>7. parse_shift(r) = Some(Offset(v, TRUE))
      <4>1. (IF Head(r) = Sym("-") THEN -shift_minutes(r) ELSE shift_minutes(r)) = v
        <5> HIDE DEF a
        <5> QED BY <2>2, <2>4, <3>3, <3>4
      <4>2. Len(r) > 1 /\ (Len(r) = 2) = TRUE
        BY <3>2
      <4> QED BY <3>3, <3>5, <4>1, <4>2 DEF parse_shift
    <3> QED BY <2>1, <2>9, <3>6, <3>7 DEF r
  <2>10. CASE ~b
    <3>1. r = (<<sign>> \o <<h>>) \o (<<colon>> \o <<n>>)
      BY <2>5, <2>10
    <3> DEFINE z == <<colon>> \o <<n>>
               y == <<sign>> \o <<h>>
               w == <<sign>> \o (<<h>> \o (<<colon>> \o <<n>>))
    <3>2. r = w
      <4>1. z \in TokenText
        BY <2>8
      <4> HIDE DEF z
      <4>2. Regrouped(<<sign>>, <<h>>, z)
        BY <2>8, <4>1, Regroup DEF TokenText
      <4> QED BY <3>1, <4>2 DEF Regrouped, z
    <3>3. z \in TokenText /\ Len(z) = 2 /\ z[1] = colon /\ z[2] = n
      <4>0. <<n>> \in TokenText
        BY <2>3 DEF TokenText
      <4>1. <<n>>[1] = n /\ Len(<<n>>) = 1 /\ 1 \in 1..Len(<<n>>)
        OBVIOUS
      <4>2. z \in TokenText /\ z[1] = colon /\ Len(z) = Len(<<n>>) + 1 /\ z[1 + 1] = <<n>>[1]
        BY <2>4, <4>0, <4>1, Prepended
      <4> QED BY <4>1, <4>2
    <3> DEFINE x == <<h>> \o z
    <3> HIDE DEF z
    <3>4. x \in TokenText /\ Len(x) = 3 /\ x[1] = h /\ x[2] = colon /\ x[3] = n
      <4>1. x \in TokenText /\ Len(x) = Len(z) + 1 /\ x[1] = h /\ \A i \in 1..Len(z) : x[i + 1] = z[i]
        BY <2>3, <3>3, Prepended
      <4>2. x[1 + 1] = z[1] /\ x[2 + 1] = z[2]
        BY <3>3, <4>1
      <4> QED BY <3>3, <4>1, <4>2
    <3>5. r = <<sign>> \o x
      BY <3>2 DEF z
    <3> HIDE DEF x
    <3>6. r \in TokenText /\ Len(r) = 4 /\ r[1] = sign /\ r[2] = h /\ r[3] = colon /\ r[4] = n
      <4>1. r \in TokenText /\ Len(r) = Len(x) + 1 /\ r[1] = sign /\ \A i \in 1..Len(x) : r[i + 1] = x[i]
        BY <2>4, <3>4, <3>5, Prepended
      <4>2. r[1 + 1] = x[1] /\ r[2 + 1] = x[2] /\ r[3 + 1] = x[3]
        BY <3>4, <4>1
      <4> QED BY <3>4, <4>1, <4>2
    <3>7. Head(r) = sign /\ r # <<>>
      BY <2>4, <3>4, <3>5, Before1
    <3>8. shift_minutes(r) = a
      <4>1. shift_minutes(r) = 60 * two(h) + two(n)
        BY <3>6 DEF shift_minutes
      <4> QED BY <2>2, <2>3, <4>1
    <3>9. r # <<Sym("Z")>>
      BY <3>6
    <3>10. shift_ahead(r)
      <4>1. Len(r) \in {2, 4} /\ Len(r) # 2
        BY <3>6
      <4>2. a <= 14 * 60 /\ two(n) <= 59
        BY <2>2, <2>3
      <4>3. colon = Sym(":")
        BY DEF colon
      <4> HIDE DEF a
      <4> QED BY <2>2, <2>3, <2>4, <3>6, <3>7, <3>8, <4>1, <4>2, <4>3 DEF shift_ahead
    <3>11. parse_shift(r) = Some(Offset(v, FALSE))
      <4>1. (IF Head(r) = Sym("-") THEN -shift_minutes(r) ELSE shift_minutes(r)) = v
        <5> HIDE DEF a
        <5> QED BY <2>2, <2>4, <3>7, <3>8
      <4>2. Len(r) > 1 /\ (Len(r) = 2) = FALSE
        BY <3>6
      <4> QED BY <3>7, <3>9, <4>1, <4>2 DEF parse_shift
    <3>12. b = FALSE
      BY <2>1, <2>10
    <3> QED BY <2>1, <3>10, <3>11, <3>12 DEF r
  <2> QED BY <2>9, <2>10
<1> QED BY <1>1, <1>2, <1>3

(* So is a time of day.                                                    *)
LEMMA TimeText_read ==
  ASSUME NEW t \in Times
  PROVE  time_ahead(TimeText(t)) /\ parse_time(TimeText(t)) = t
<1> DEFINE h == Group(<<t.hour \div 10, t.hour % 10>>)
           m == Group(<<t.minute \div 10, t.minute % 10>>)
           s == Group(<<t.second \div 10, t.second % 10>>)
           c == Sym(":")
           z == ShiftText(t.shift)
           y == <<h>> \o <<c>> \o <<m>> \o <<c>> \o <<s>>
           r == y \o z
<1>1. /\ t.hour \in 0..23 /\ t.minute \in 0..59 /\ t.second \in 0..60 /\ t.shift \in Option(TimeShifts)
      /\ t = Time(t.hour, t.minute, t.second, t.shift)
  BY DEF Times, Time
<1>2. /\ TwoDigits(t.hour) = <<h>> /\ h \in Token /\ plain_group(h, 2) /\ two(h) = t.hour
      /\ TwoDigits(t.minute) = <<m>> /\ m \in Token /\ plain_group(m, 2) /\ two(m) = t.minute
      /\ TwoDigits(t.second) = <<s>> /\ s \in Token /\ plain_group(s, 2) /\ two(s) = t.second
  <2>1. t.hour \in 0..99 /\ t.minute \in 0..99 /\ t.second \in 0..99
    BY <1>1
  <2> QED BY <2>1, TwoWritten
<1>3. TimeText(t) = r
  BY <1>2 DEF TimeText
<1>4. c \in Token /\ z \in TokenText
  BY <1>1, Symbol, ShiftWritten, ClockTokens, SeqMonotonic DEF Symbols, TokenText
<1>5. shift_ahead(z) /\ parse_shift(z) = t.shift
  BY <1>1, ShiftText_read
<1> HIDE DEF h, m, s, z
<1>6. y \in TokenText /\ Len(y) = 5 /\ y[1] = h /\ y[2] = c /\ y[3] = m /\ y[4] = c /\ y[5] = s
  BY <1>2, <1>4, FiveAfter
<1> HIDE DEF y, c
<1>7. /\ Len(z) \in Nat /\ Len(r) = 5 + Len(z) /\ \A i \in 1..(5 + Len(z)) : r[i] = IF i <= 5 THEN y[i] ELSE z[i - 5]
  <2>1. y \in Seq(Token) /\ z \in Seq(Token) /\ Len(z) \in Nat
    BY <1>4, <1>6, LenProperties DEF TokenText
  <2>2. Len(r) = Len(y) + Len(z) /\ \A i \in 1..(Len(y) + Len(z)) : r[i] = IF i <= Len(y) THEN y[i] ELSE z[i - Len(y)]
    BY <2>1, ConcatProperties
  <2> QED BY <1>6, <2>1, <2>2
<1>8. r[1] = h /\ r[2] = c /\ r[3] = m /\ r[4] = c /\ r[5] = s /\ Len(r) >= 5
  <2>1. \A i \in 1..5 : i \in 1..(5 + Len(z)) /\ i <= 5
    BY <1>7
  <2>2. \A i \in 1..5 : r[i] = y[i]
    BY <1>7, <2>1
  <2> QED BY <1>6, <1>7, <2>2
<1>9. SubSeq(r, 6, Len(r)) = z
  <2>1. SubSeq(y \o z, Len(y) + 1, Len(y) + Len(z)) = z
    BY <1>4, <1>6, Halves DEF TokenText
  <2>2. Len(y) + 1 = 6 /\ Len(y) + Len(z) = Len(r)
    BY <1>6, <1>7
  <2> QED BY <2>1, <2>2
<1> HIDE DEF r
<1>10. time_ahead(r)
  <2>1. \A i \in {1, 3, 5} : plain_group(r[i], 2)
    BY <1>2, <1>8
  <2>2. two(r[1]) <= 23 /\ two(r[3]) <= 59 /\ two(r[5]) <= 60
    <3>1. t.hour <= 23 /\ t.minute <= 59 /\ t.second <= 60
      BY <1>1
    <3>2. two(r[1]) = t.hour /\ two(r[3]) = t.minute /\ two(r[5]) = t.second
      BY <1>2, <1>8, Zenon
    <3> QED BY <3>1, <3>2
  <2>3. c = Sym(":")
    BY DEF c
  <2> QED BY <1>5, <1>8, <1>9, <2>1, <2>2, <2>3 DEF time_ahead
<1>11. parse_time(r) = t
  BY <1>1, <1>2, <1>5, <1>8, <1>9 DEF parse_time
<1> QED BY <1>3, <1>10, <1>11

(* A date-time's text is read back.                                        *)
LEMMA DateTimeDisplay ==
  ASSUME NEW x \in Expressions, Accepted(x), x.type = "DateTime"
  PROVE  LET t == display(x)
         IN  /\ t # <<>> /\ shape(t) = "DateTime"
             /\ plain_date_ahead(before(t, "T")) /\ time_ahead(Get(after(t, "T")))
             /\ DateTimeExpr(plain_date(before(t, "T")), parse_time(Get(after(t, "T")))) = x
<1> DEFINE d == x.date
           a == DateText(d)
           b == TimeText(x.time)
           c == <<Sym("T")>>
           t == a \o (c \o b)
<1>1. /\ d \in Dates /\ parse_plain_complete_date(d) /\ x.time \in Times /\ x = DateTimeExpr(d, x.time)
  BY ExpressionForms DEF Accepted
<1>2. plain_date_ahead(a) /\ plain_date(a) = d /\ time_ahead(b) /\ parse_time(b) = x.time
  BY <1>1, PlainDateText, TimeText_read
<1>3. /\ a \in Seq(DateTokens) /\ a # <<>> /\ a \in TokenText /\ b \in TokenText /\ ~holds(b, "/")
  BY <1>1, PlainIsWritten, DateWritten, TimeWritten, NoSlash
<1>4. ~holds(a, "/") /\ ~holds(a, "T") /\ a[1] \notin {Sym("{"), Sym("[")}
  <2>1. Sym("/") \notin EndTokens /\ Sym("T") \notin EndTokens /\ Sym("{") \notin EndTokens /\ Sym("[") \notin EndTokens
    BY EndTokenFacts
  <2>2. a \in Seq(EndTokens)
    BY <1>3, EndTokenFacts
  <2>3. ~holds(a, "/") /\ ~holds(a, "T")
    BY <2>1, <2>2, HoldsNot
  <2>4. a[1] \in EndTokens
    <3>1. 1 \in 1..Len(a)
      BY <1>3, LenProperties, EmptySeq
    <3> HIDE DEF a
    <3> QED BY <2>2, <3>1, ElementOfSeq
  <2> QED BY <2>1, <2>3, <2>4
<1>5. display(x) = (a \o c) \o b
  BY DEF display
<1>6. c \in TokenText /\ ~holds(c, "/")
  <2>1. c \in TokenText
    BY OneSymbol DEF Symbols
  <2>2. \A i \in DOMAIN c : c[i] # Sym("/")
    BY DEF Sym
  <2> QED BY <2>1, <2>2 DEF holds
<1> HIDE DEF a, b
<1>7. display(x) = t
  <2>1. Regrouped(a, c, b)
    BY <1>3, <1>6, Regroup DEF TokenText
  <2> QED BY <1>5, <2>1 DEF Regrouped
<1>8. t \in TokenText /\ holds(t, "T") /\ before(t, "T") = a /\ after(t, "T") = Some(b)
  BY <1>3, <1>4, CutAt DEF Symbols
<1>9. c \o b \in TokenText
  BY <1>3, <1>6, OneSymbol
<1>10. ~holds(t, "/")
  <2>1. ~holds(c \o b, "/")
    BY <1>3, <1>6, HoldsIn
  <2> DEFINE z == c \o b
  <2> HIDE DEF z
  <2>2. z \in TokenText /\ ~holds(z, "/")
    BY <1>9, <2>1 DEF z
  <2>3. ~holds(a \o z, "/")
    BY <1>3, <1>4, <2>2, HoldsIn
  <2> QED BY <2>3 DEF z
<1>11. t # <<>> /\ Head(t) \notin {Sym("{"), Sym("[")}
  BY <1>3, <1>4, <1>9, HeadOf
<1> HIDE DEF t, c
<1>12. shape(t) = "DateTime"
  BY <1>8, <1>10, <1>11 DEF shape
<1>13. Get(after(t, "T")) = b
  BY <1>8, SomeFacts
<1> QED BY <1>1, <1>2, <1>7, <1>8, <1>11, <1>12, <1>13

-----------------------------------------------------------------------------
(* A date's text is read back, component by component. *)
YearOnly(k, s, q) == Date(Year(k, s, q), None, None)

(* What a qualifier on the right does to what is read.                     *)
LEMMA MarkedIs ==
  ASSUME NEW k, NEW s, NEW a, NEW q, NEW m, NEW f
  PROVE  /\ marked(Date(Year(k, s, a), m, f), q)
              = Date(Year(k, s, a \cup q), mark_field(m, q), mark_field(f, q))
         /\ mark_field(None, q) = None
         /\ \A g, b : mark_field(Some(Field(g, b)), q) = Some(Field(g, b \cup q))
<1>1. [Year(k, s, a) EXCEPT !.qualifier = @ \cup q] = Year(k, s, a \cup q)
  BY DEF Year
<1>2. marked(Date(Year(k, s, a), m, f), q) = Date(Year(k, s, a \cup q), mark_field(m, q), mark_field(f, q))
  <2> DEFINE d == Date(Year(k, s, a), m, f)
  <2>1. d.year = Year(k, s, a) /\ d.month = m /\ d.day = f
    BY Selectors
  <2> HIDE DEF d
  <2>2. marked(d, q) = Date(Year(k, s, a \cup q), mark_field(m, q), mark_field(f, q))
    BY <1>1, <2>1 DEF marked
  <2> QED BY <2>2 DEF d
<1>3. \A g, b : mark_field(Some(Field(g, b)), q) = Some(Field(g, b \cup q))
  <2> TAKE g, b
  <2>1. Some(Field(g, b)) # None /\ Get(Some(Field(g, b))) = Field(g, b)
    BY DEF Some, None, Get
  <2> QED BY <2>1, Selectors DEF mark_field
<1> QED BY <1>2, <1>3 DEF mark_field

(* No marker is a group of digits or another symbol.                       *)
LEMMA NotMarkers ==
  /\ \A g \in Seq(MaskDigit) : g # <<>> => Group(g) \notin Markers
  /\ Sym("-") \notin Markers /\ Sym("Y") \notin Markers
  /\ Sym("S") \notin Markers /\ Sym("E") \notin Markers
<1>1. \A g \in Seq(MaskDigit) : g # <<>> => Group(g) \notin Markers
  BY GroupOf, MarkerSet
<1>2. ASSUME NEW s \in {"-", "Y", "S", "E"} PROVE Sym(s) \notin Markers
  <2>1. s \in Symbols \ MarkerSymbols
    BY DEF Symbols, MarkerSymbols
  <2> QED BY <2>1, MarkerSet
<1> QED BY <1>1, <1>2

(* The text from a component's dash on: none, or the dash and the          *)
(* component.                                                              *)
LEMMA FromDash ==
  ASSUME NEW D \in Dates
  PROVE  /\ D.month = None => MonthText(D) = <<>>
         /\ D.month # None => /\ MonthText(D) # <<>> /\ Head(MonthText(D)) = Sym("-")
                              /\ Tail(MonthText(D)) = FieldText(D, 2, Get(D.month), TextOfDay(D))
         /\ D.day = None => TextOfDay(D) = <<>>
         /\ D.day # None => /\ TextOfDay(D) # <<>> /\ Head(TextOfDay(D)) = Sym("-")
                            /\ Tail(TextOfDay(D)) = FieldText(D, 3, Get(D.day), <<>>)
<1>1. Sym("-") \in Token /\ Seq(DateTokens) \subseteq TokenText /\ <<>> \in Seq(DateTokens)
  <2>1. <<>> \in Seq(DateTokens)
    OBVIOUS
  <2> QED BY <2>1, Symbol, DateTokenFacts DEF Symbols
<1>2. ASSUME D.month # None
      PROVE  /\ MonthText(D) # <<>> /\ Head(MonthText(D)) = Sym("-")
             /\ Tail(MonthText(D)) = FieldText(D, 2, Get(D.month), TextOfDay(D))
  <2> DEFINE u == FieldText(D, 2, Get(D.month), TextOfDay(D))
  <2>1. Get(D.month) \in Fields
    BY <1>2, DateParts, Options
  <2>2. u \in TokenText
    BY <1>1, <2>1, DateTails
  <2>3. MonthText(D) = <<Sym("-")>> \o u
    BY <1>2 DEF MonthText
  <2> HIDE DEF u
  <2>4. /\ <<Sym("-")>> \o u # <<>> /\ Head(<<Sym("-")>> \o u) = Sym("-") /\ Tail(<<Sym("-")>> \o u) = u
    BY <1>1, <2>2, Before1
  <2> QED BY <2>3, <2>4 DEF u
<1>3. ASSUME D.day # None
      PROVE  /\ TextOfDay(D) # <<>> /\ Head(TextOfDay(D)) = Sym("-")
             /\ Tail(TextOfDay(D)) = FieldText(D, 3, Get(D.day), <<>>)
  <2> DEFINE u == FieldText(D, 3, Get(D.day), <<>>)
  <2>1. Get(D.day) \in Fields
    BY <1>3, DateParts, Options
  <2>2. u \in TokenText
    BY <1>1, <2>1, DateTails
  <2>3. TextOfDay(D) = <<Sym("-")>> \o u
    BY <1>3 DEF TextOfDay
  <2> HIDE DEF u
  <2>4. /\ <<Sym("-")>> \o u # <<>> /\ Head(<<Sym("-")>> \o u) = Sym("-") /\ Tail(<<Sym("-")>> \o u) = u
    BY <1>1, <2>2, Before1
  <2> QED BY <2>3, <2>4 DEF u
<1> QED BY <1>2, <1>3 DEF MonthText, TextOfDay

(* The flags that a component's markers write.                             *)
opening_flags(D, i, q) == IF i > group_end(D) THEN q ELSE {}
closing_flags(D, i) == IF i = group_end(D) THEN D.year.qualifier ELSE {}

(* They are what is written. *)
LEMMA FlagTexts ==
  ASSUME NEW D \in Dates, NEW i, NEW q \in Qualifier
  PROVE  /\ opening_flags(D, i, q) \in Qualifier /\ Opening(D, i, q) = qual_symbol(opening_flags(D, i, q))
         /\ closing_flags(D, i) \in Qualifier /\ Closing(D, i) = qual_symbol(closing_flags(D, i))
<1>1. {} \in Qualifier /\ qual_symbol({}) = <<>> /\ D.year.qualifier \in Qualifier
  BY DateParts DEF Qualifier, qual_symbol
<1>2. opening_flags(D, i, q) \in Qualifier /\ Opening(D, i, q) = qual_symbol(opening_flags(D, i, q))
  BY <1>1 DEF opening_flags, Opening
<1>3. closing_flags(D, i) \in Qualifier /\ Closing(D, i) = qual_symbol(closing_flags(D, i))
  BY <1>1 DEF closing_flags, Closing
<1> QED BY <1>2, <1>3

(* A field is read, and what follows it is left.                           *)
LEMMA FieldRead ==
  ASSUME NEW D \in Dates, NEW i, NEW f \in Fields, NEW r \in Seq(DateTokens),
         r = <<>> \/ Head(r) \notin Markers
  PROVE  LET u == FieldText(D, i, f, r)
         IN  /\ u \in TokenText /\ group_ahead(after_qualifier(u), 2)
             /\ field_at(u) = Field(f.digits, opening_flags(D, i, f.qualifier))
             /\ take_qualifier(after_field(u)) = closing_flags(D, i)
             /\ after_qualifier(after_field(u)) = r
<1> DEFINE o == opening_flags(D, i, f.qualifier)
           c == closing_flags(D, i)
           g == Group(f.digits)
           v == qual_symbol(c) \o r
           w == <<g>> \o v
           u == FieldText(D, i, f, r)
<1>1. f.digits \in [1..2 -> MaskDigit] /\ f.qualifier \in Qualifier
  BY FieldParts
<1>2. f.digits \in Seq(MaskDigit) /\ f.digits # <<>> /\ Len(f.digits) = 2
  BY <1>1, DigitGroup
<1>3. g \in Token /\ IsGroup(g) /\ g.digits = f.digits /\ g \notin Markers
  BY <1>2, GroupOf, NotMarkers
<1>4. /\ o \in Qualifier /\ Opening(D, i, f.qualifier) = qual_symbol(o)
      /\ c \in Qualifier /\ Closing(D, i) = qual_symbol(c)
  BY <1>1, FlagTexts
<1>5. u = qual_symbol(o) \o w
  BY <1>4 DEF FieldText
<1>6. r \in TokenText
  BY DateTokenFacts
<1> HIDE DEF o, c, g, u
<1>7. take_qualifier(v) = c /\ after_qualifier(v) = r /\ v \in TokenText
  BY <1>4, <1>6, TakesQualifier
<1> HIDE DEF v
<1>8. w \in TokenText /\ w # <<>> /\ Head(w) = g /\ Tail(w) = v
  BY <1>3, <1>7, Before1
<1> HIDE DEF w
<1>9. take_qualifier(u) = o /\ after_qualifier(u) = w /\ u \in TokenText
  BY <1>3, <1>4, <1>5, <1>8, TakesQualifier
<1>10. group_ahead(after_qualifier(u), 2)
  BY <1>2, <1>3, <1>8, <1>9 DEF group_ahead
<1>11. field_at(u) = Field(f.digits, o)
  BY <1>3, <1>8, <1>9 DEF field_at
<1>12. after_field(u) = v
  BY <1>8, <1>9 DEF after_field
<1> QED BY <1>7, <1>9, <1>10, <1>11, <1>12 DEF o, c, u

(* What closes a year is read: the marker that stops at it, and the rest.  *)
LEMMA YearEndRead ==
  ASSUME NEW D \in Dates
  PROVE  LET u == YearEndText(D)
         IN  /\ u \in TokenText /\ take_qualifier(u) = closing_flags(D, 1)
             /\ after_qualifier(u) = MonthText(D)
             /\ ~starts(u, "S") /\ ~starts(u, "E")
<1> DEFINE c == closing_flags(D, 1)
           m == MonthText(D)
           u == YearEndText(D)
<1>1. c \in Qualifier /\ Closing(D, 1) = qual_symbol(c)
  <2>1. D.year.qualifier \in Qualifier
    BY DateParts
  <2> QED BY <2>1, FlagTexts
<1>2. m \in TokenText /\ (m = <<>> \/ Head(m) = Sym("-"))
  BY DateTails, DateTokenFacts, FromDash
<1>3. u = qual_symbol(c) \o m
  BY <1>1 DEF YearEndText
<1> HIDE DEF c, m, u
<1>4. take_qualifier(u) = c /\ after_qualifier(u) = m /\ u \in TokenText
  <2>1. m = <<>> \/ Head(m) \notin Markers
    BY <1>2, NotMarkers
  <2> QED BY <1>1, <1>2, <1>3, <2>1, TakesQualifier
<1>5. u = <<>> \/ Head(u) \in Markers \cup {Sym("-")}
  <2>1. CASE c = {}
    <3>1. u = m
      BY <1>2, <1>3, <2>1 DEF qual_symbol, TokenText
    <3> QED BY <1>2, <3>1
  <2>2. CASE c # {}
    <3>1. PICK k \in Markers : qual_symbol(c) = <<k>>
      BY <1>1, <2>2, QualSymbol
    <3>2. k \in Token
      BY MarkerSet
    <3>3. Head(u) = k
      BY <1>2, <1>3, <3>1, <3>2, Before1
    <3> QED BY <3>3
  <2> QED BY <2>1, <2>2
<1>6. \A s \in {"S", "E"} : Sym(s) \notin Markers \cup {Sym("-")}
  BY NotMarkers DEF Sym
<1> QED BY <1>4, <1>5, <1>6 DEF starts, c, m, u

(* Significant digits are.                                                 *)
LEMMA SuffixedRead ==
  ASSUME NEW D, Written(D)
  PROVE  LET u == SuffixedText(D)
         IN  /\ u \in TokenText /\ suffix_ahead(u, "S")
             /\ suffix(u, "S") = D.year.significant_digits
             /\ after_suffix(u, "S") = YearEndText(D)
             /\ starts(u, "S") <=> D.year.significant_digits # None
             /\ ~starts(u, "E")
<1> DEFINE o == D.year.significant_digits
           r == YearEndText(D)
           u == SuffixText("S", o) \o r
<1>1. D \in Dates /\ o \in Option(0..I64Max)
  BY DEF Written
<1>2. r \in TokenText /\ ~starts(r, "S") /\ ~starts(r, "E")
  BY <1>1, YearEndRead
<1>3. SuffixedText(D) = u
  BY DEF SuffixedText
<1> HIDE DEF o, r
<1>4. /\ u \in TokenText /\ suffix_ahead(u, "S") /\ suffix(u, "S") = o /\ after_suffix(u, "S") = r
      /\ starts(u, "S") <=> o # None
  BY <1>1, <1>2, SuffixRead
<1>5. ~starts(u, "E")
  <2>1. CASE o = None
    <3>1. u = r
      BY <1>2, <2>1 DEF SuffixText, TokenText
    <3> QED BY <1>2, <3>1
  <2>2. CASE o # None
    <3> HIDE DEF u
    <3>1. Head(u) = Sym("S")
      BY <1>4, <2>2 DEF starts
    <3>2. Sym("S") # Sym("E")
      BY DEF Sym
    <3> QED BY <3>1, <3>2 DEF starts
  <2> QED BY <2>1, <2>2
<1> QED BY <1>3, <1>4, <1>5 DEF o, r

(* A four-digit year is.                                                   *)
LEMMA YearRead ==
  ASSUME NEW D, Written(D), D.year.kind.form = "Standard"
  PROVE  LET u == DateText(D)
         IN  /\ ~starts(u, "Y") /\ group_ahead(eat(after_qualifier(u), "-"), 4)
             /\ starts(after_qualifier(u), "-") <=> D.year.kind.negative
             /\ year_at(u) = Year(D.year.kind, None, {})
             /\ after_year(u) = SuffixedText(D)
<1> DEFINE k == D.year.kind
           g == Group(k.digits)
           s == SuffixedText(D)
           w == <<g>> \o s
           u == DateText(D)
<1>1. k.negative \in BOOLEAN /\ k.digits \in [1..4 -> MaskDigit] /\ k = Standard(k.negative, k.digits)
  BY DateParts, KindForms DEF Written
<1>2. k.digits \in Seq(MaskDigit) /\ k.digits # <<>> /\ Len(k.digits) = 4
  BY <1>1, DigitGroup
<1>3. g \in Token /\ IsGroup(g) /\ g.digits = k.digits /\ g \notin Markers /\ \A t : Sym(t) # g
  BY <1>2, GroupOf, NotMarkers
<1>4. s \in TokenText
  BY SuffixedRead
<1>5. u = SignText(k.negative) \o w
  BY StandardText
<1> HIDE DEF g, s, u
<1>6. w \in TokenText /\ w # <<>> /\ Head(w) = g /\ Tail(w) = s
  BY <1>3, <1>4, Before1
<1> HIDE DEF w
<1>7. /\ u # <<>> /\ Head(u) \notin Markers /\ Head(u) # Sym("Y")
      /\ starts(u, "-") <=> k.negative
      /\ eat(u, "-") = w
  <2>1. CASE k.negative
    <3>1. u = <<Sym("-")>> \o w /\ Sym("-") \in Token
      BY <1>5, <2>1, Symbol DEF SignText, Symbols
    <3>2. u # <<>> /\ Head(u) = Sym("-") /\ Tail(u) = w
      BY <1>6, <3>1, Before1
    <3>3. Sym("-") # Sym("Y")
      BY DEF Sym
    <3> QED BY <2>1, <3>2, <3>3, NotMarkers DEF starts, eat
  <2>2. CASE ~k.negative
    <3>1. u = w
      BY <1>5, <1>6, <2>2 DEF SignText, TokenText
    <3> QED BY <1>3, <1>6, <2>2, <3>1 DEF starts, eat
  <2> QED BY <1>1, <2>1, <2>2
<1>8. take_qualifier(u) = {} /\ after_qualifier(u) = u
  BY <1>7 DEF take_qualifier, after_qualifier
<1>9. ~starts(u, "Y") /\ group_ahead(w, 4)
  BY <1>2, <1>3, <1>6, <1>7 DEF starts, group_ahead
<1>10. year_at(u) = Year(k, None, {})
  <2>1. starts(u, "-") = k.negative
    BY <1>1, <1>7 DEF starts
  <2>2. year_at(u) = Year(Standard(starts(u, "-"), Head(w).digits), None, {})
    BY <1>7, <1>8 DEF year_at
  <2> QED BY <1>1, <1>3, <1>6, <2>1, <2>2
<1>11. after_year(u) = s
  BY <1>6, <1>7, <1>8 DEF after_year
<1> QED BY <1>7, <1>8, <1>9, <1>10, <1>11 DEF s, u

(* A mantissa is, and its exponent.                                        *)
LEMMA MantissaRead ==
  ASSUME NEW D, Written(D), D.year.kind.form # "Standard"
  PROVE  LET u == DateText(D)
             m == mantissa_of(D.year.kind)
             z == SuffixText("E", exponent_of(D.year.kind)) \o SuffixedText(D)
         IN  /\ starts(u, "Y") /\ is_mantissa(eat(Tail(u), "-"))
             /\ take_number(eat(Tail(u), "-")) = Some(Abs(m))
             /\ starts(Tail(u), "-") <=> m < 0
             /\ Tail(eat(Tail(u), "-")) = z
<1> DEFINE k == D.year.kind
           m == mantissa_of(k)
           o == exponent_of(k)
           s == SuffixedText(D)
           z == SuffixText("E", o) \o s
           v == SignedText(m) \o z
           u == DateText(D)
<1>1. m \in -I64Max..I64Max /\ o \in Option(0..I64Max) /\ u = <<Sym("Y")>> \o v
  BY PrefixedText
<1>2. s \in TokenText /\ ~starts(s, "E")
  BY SuffixedRead
<1>3. z \in TokenText
  <2> HIDE DEF o, s
  <2> QED BY <1>1, <1>2, SuffixRead
<1> HIDE DEF m, z, u
<1>4. /\ v \in TokenText /\ (starts(v, "-") <=> m < 0) /\ eat(v, "-") = NumberText(Abs(m)) \o z
      /\ Abs(m) \in 0..I64Max
  BY <1>1, <1>3, SignedRead
<1>5. /\ take_number(NumberText(Abs(m)) \o z) = Some(Abs(m)) /\ is_mantissa(NumberText(Abs(m)) \o z)
      /\ Tail(NumberText(Abs(m)) \o z) = z
  BY <1>3, <1>4, NumberRead
<1> HIDE DEF v
<1>6. u # <<>> /\ Head(u) = Sym("Y") /\ Tail(u) = v
  <2>1. Sym("Y") \in Token
    BY Symbol DEF Symbols
  <2> QED BY <1>1, <1>4, <2>1, Before1
<1>7. starts(u, "Y")
  BY <1>6 DEF starts
<1> QED BY <1>4, <1>5, <1>6, <1>7 DEF m, z, u

(* Its exponent is read. *)
LEMMA ExponentRead ==
  ASSUME NEW D, Written(D), D.year.kind.form # "Standard"
  PROVE  LET u == SuffixText("E", exponent_of(D.year.kind)) \o SuffixedText(D)
         IN  /\ suffix_ahead(u, "E") /\ suffix(u, "E") = exponent_of(D.year.kind)
             /\ after_suffix(u, "E") = SuffixedText(D)
             /\ starts(u, "E") <=> D.year.kind.form = "Exponential"
             /\ D.year.kind.form = "Big" => u = SuffixedText(D)
<1> DEFINE o == exponent_of(D.year.kind)
           s == SuffixedText(D)
<1>1. o \in Option(0..I64Max)
  BY PrefixedText
<1>2. s \in TokenText /\ ~starts(s, "E")
  BY SuffixedRead
<1>3. D.year.kind.form \in {"Big", "Exponential"}
  BY DateParts, KindForms DEF Written
<1>4. /\ D.year.kind.form = "Big" => o = None
      /\ D.year.kind.form = "Exponential" => o # None
  BY DEF exponent_of, Some, None
<1> HIDE DEF o, s
<1>5. /\ suffix_ahead(SuffixText("E", o) \o s, "E") /\ suffix(SuffixText("E", o) \o s, "E") = o
      /\ after_suffix(SuffixText("E", o) \o s, "E") = s
      /\ starts(SuffixText("E", o) \o s, "E") <=> o # None
  BY <1>1, <1>2, SuffixRead
<1>6. o = None => SuffixText("E", o) \o s = s
  BY <1>2 DEF SuffixText, TokenText
<1> QED BY <1>3, <1>4, <1>5, <1>6 DEF o, s

(* The flags that the markers up to a component have given the year, and   *)
(* those up to the month the month.                                        *)
Reached(D, n) == IF group_end(D) \in 1..n THEN D.year.qualifier ELSE {}
month_flags(D) == IF group_end(D) <= 2 THEN Get(D.month).qualifier ELSE {}

(* The flags add up to those of the date. *)
LEMMA FlagsReached ==
  ASSUME NEW D \in Dates, Slotted(D)
  PROVE  /\ closing_flags(D, 1) = Reached(D, 1)
         /\ D.month = None => Reached(D, 1) = D.year.qualifier
         /\ Reached(D, 1) \cup closing_flags(D, 2) = Reached(D, 2)
         /\ opening_flags(D, 2, Get(D.month).qualifier) \cup closing_flags(D, 2) = month_flags(D)
         /\ D.day = None => /\ Reached(D, 2) = D.year.qualifier
                            /\ month_flags(D) = Get(D.month).qualifier
         /\ opening_flags(D, 3, Get(D.day).qualifier) \cup closing_flags(D, 3) = Get(D.day).qualifier
         /\ Reached(D, 2) \cup closing_flags(D, 3) = D.year.qualifier
         /\ month_flags(D) \cup closing_flags(D, 3) = Get(D.month).qualifier
<1> DEFINE E == group_end(D)
           Q == D.year.qualifier
           m == Get(D.month).qualifier
           f == Get(D.day).qualifier
<1>1. /\ E \in 0..3
      /\ E = 0 => Q = {}
      /\ D.month = None => E \in 0..1
      /\ D.day = None => E \in 0..2
      /\ E >= 2 => m = Q
      /\ E >= 3 => f = Q
  BY GroupEnd
<1>2. E \in {0, 1, 2, 3}
  BY <1>1
<1>3. /\ closing_flags(D, 1) = IF E = 1 THEN Q ELSE {}
      /\ closing_flags(D, 2) = IF E = 2 THEN Q ELSE {}
      /\ closing_flags(D, 3) = IF E = 3 THEN Q ELSE {}
      /\ opening_flags(D, 2, m) = IF E \in {0, 1} THEN m ELSE {}
      /\ opening_flags(D, 3, f) = IF E \in {0, 1, 2} THEN f ELSE {}
      /\ Reached(D, 1) = IF E = 1 THEN Q ELSE {}
      /\ Reached(D, 2) = IF E \in {1, 2} THEN Q ELSE {}
      /\ month_flags(D) = IF E \in {0, 1, 2} THEN m ELSE {}
  <2> HIDE DEF Q, m, f
  <2> QED BY <1>2 DEF closing_flags, opening_flags, Reached, month_flags, E, Q, m, f
<1> DEFINE c1 == closing_flags(D, 1)
           c2 == closing_flags(D, 2)
           c3 == closing_flags(D, 3)
           o2 == opening_flags(D, 2, m)
           o3 == opening_flags(D, 3, f)
           r1 == Reached(D, 1)
           r2 == Reached(D, 2)
           b == month_flags(D)
<1> HIDE DEF E, c1, c2, c3, o2, o3, r1, r2, b
<1>4. D.month # None \/ r1 = Q
  BY <1>1, <1>2, <1>3 DEF r1
<1>5. D.day # None \/ (r2 = Q /\ b = m)
  BY <1>1, <1>2, <1>3 DEF r2, b
<1>6. c1 = r1 /\ r1 \cup c2 = r2 /\ o2 \cup c2 = b
  <2> HIDE DEF Q, m, f
  <2>1. /\ c1 = (IF E = 1 THEN Q ELSE {}) /\ c2 = (IF E = 2 THEN Q ELSE {})
        /\ o2 = (IF E \in {0, 1} THEN m ELSE {}) /\ r1 = (IF E = 1 THEN Q ELSE {})
        /\ r2 = (IF E \in {1, 2} THEN Q ELSE {}) /\ b = (IF E \in {0, 1, 2} THEN m ELSE {})
    BY <1>3 DEF c1, c2, o2, r1, r2, b
  <2>2. E = 2 => m = Q
    BY <1>1 DEF Q, m
  <2> QED BY <1>2, <2>1, <2>2
<1>7. o3 \cup c3 = f /\ r2 \cup c3 = Q /\ b \cup c3 = m
  <2>1. (E = 0 => Q = {}) /\ (E = 3 => m = Q /\ f = Q)
    BY <1>1
  <2> HIDE DEF Q, m, f
  <2>2. /\ c3 = (IF E = 3 THEN Q ELSE {}) /\ o3 = (IF E \in {0, 1, 2} THEN f ELSE {})
        /\ r2 = (IF E \in {1, 2} THEN Q ELSE {}) /\ b = (IF E \in {0, 1, 2} THEN m ELSE {})
    BY <1>3 DEF c3, o3, r2, b
  <2> QED BY <1>2, <2>1, <2>2
<1> QED BY <1>4, <1>5, <1>6, <1>7, Zenon DEF c1, c2, c3, o2, o3, r1, r2, b

-----------------------------------------------------------------------------
(* The scan of the date D's text: at each stage, what is left of the text  *)
(* and what is read of D.                                                  *)
Reading(D) ==
  /\ pc = "date" => rest = DateText(D)
  /\ pc = "significant" => /\ D.year.kind.form = "Standard" /\ rest = SuffixedText(D)
                           /\ date = YearOnly(D.year.kind, None, {})
  /\ pc = "year end" => /\ D.year.kind.form = "Standard" /\ rest = YearEndText(D)
                        /\ date = YearOnly(D.year.kind, D.year.significant_digits, {})
  /\ pc = "month" => /\ D.month # None /\ rest = FieldText(D, 2, Get(D.month), TextOfDay(D))
                     /\ date = YearOnly(D.year.kind, D.year.significant_digits, Reached(D, 1))
  /\ pc = "day" => /\ D.day # None /\ rest = FieldText(D, 3, Get(D.day), <<>>)
                   /\ date = Date(Year(D.year.kind, D.year.significant_digits, Reached(D, 2)),
                                  Some(Field(Get(D.month).digits, month_flags(D))), None)
  /\ pc = "exponent" =>
       /\ D.year.kind.form # "Standard"
       /\ rest = SuffixText("E", exponent_of(D.year.kind)) \o SuffixedText(D)
       /\ date = YearOnly(Big(mantissa_of(D.year.kind)), None, {})
  /\ pc = "digits" => /\ D.year.kind.form # "Standard" /\ rest = SuffixedText(D)
                      /\ date = YearOnly(D.year.kind, None, {})
  /\ pc = "finish" => date = D

(* What a four-digit year's date is read as.                               *)
LEMMA StandardFacts ==
  ASSUME NEW D \in Dates, ValidDate(D), D.year.kind.form = "Standard"
  PROVE  /\ D.year.kind.negative => year_may_be_negative(D.year.kind.digits)
         /\ D.year.significant_digits # None =>
              ~has_x(D.year.kind.digits) /\ Get(D.year.significant_digits) \in 1..4 /\ D.month = None
         /\ D.day # None => D.month # None
         /\ validate_month_day(D.year.kind, D.month, D.day)
BY DEF ValidDate, ValidStandardDate, year_may_be_negative

(* The first step: a year, or the mantissa of a prefixed one.              *)
LEMMA AtDate ==
  ASSUME IInv, NEW D \in Dates, ValidDate(D), pc = "date", Reading(D)
  PROVE  /\ year_ahead \/ mantissa_ahead
         /\ ReadYear \/ ReadMantissa => Reading(D)'
<1>1. rest = DateText(D) /\ Written(D)
  BY ValidIsWritten DEF Reading
<1>2. CASE D.year.kind.form = "Standard"
  <2>1. /\ ~starts(rest, "Y") /\ group_ahead(eat(after_qualifier(rest), "-"), 4)
        /\ starts(after_qualifier(rest), "-") <=> D.year.kind.negative
        /\ year_at(rest) = Year(D.year.kind, None, {})
        /\ after_year(rest) = SuffixedText(D)
    BY <1>1, <1>2, YearRead
  <2>2. year_at(rest).kind = D.year.kind
    BY <2>1, Selectors
  <2>3. year_ahead
    BY <1>2, <2>1, <2>2, StandardFacts DEF year_ahead
  <2>4. ~ReadMantissa
    BY <2>1 DEF ReadMantissa, mantissa_ahead
  <2>5. ASSUME ReadYear PROVE Reading(D)'
    <3>1. pc' = "significant" /\ rest' = SuffixedText(D) /\ date' = YearOnly(D.year.kind, None, {})
      BY <2>1, <2>5 DEF ReadYear, YearOnly
    <3> QED BY <1>2, <3>1 DEF Reading
  <2> QED BY <2>3, <2>4, <2>5
<1>3. CASE D.year.kind.form # "Standard"
  <2> DEFINE m == mantissa_of(D.year.kind)
             z == SuffixText("E", exponent_of(D.year.kind)) \o SuffixedText(D)
             u == eat(Tail(rest), "-")
  <2>1. /\ starts(rest, "Y") /\ is_mantissa(u) /\ take_number(u) = Some(Abs(m))
        /\ starts(Tail(rest), "-") <=> m < 0
        /\ Tail(u) = z
    BY <1>1, <1>3, MantissaRead
  <2>2. mantissa_ahead
    BY <2>1 DEF mantissa_ahead
  <2>3. ~ReadYear
    BY <2>1 DEF ReadYear, year_ahead
  <2>4. ASSUME ReadMantissa PROVE Reading(D)'
    <3> DEFINE sign == IF starts(Tail(rest), "-") THEN -1 ELSE 1
    <3>1. pc' = "exponent" /\ rest' = Tail(u) /\ date' = YearOnly(Big(sign * Get(take_number(u))), None, {})
      BY <2>4 DEF ReadMantissa, YearOnly
    <3>2. sign * Get(take_number(u)) = m
      <4>1. Get(take_number(u)) = Abs(m)
        BY <2>1 DEF Get, Some
      <4>2. m \in -I64Max..I64Max
        BY <1>1, <1>3, PrefixedText
      <4>3. sign = IF m < 0 THEN -1 ELSE 1
        BY <2>1
      <4> HIDE DEF m, sign, u
      <4> QED BY <4>1, <4>2, <4>3, Numbers DEF Abs
    <3>3. rest' = z /\ date' = YearOnly(Big(m), None, {})
      BY <2>1, <3>1, <3>2
    <3> QED BY <1>3, <3>1, <3>3 DEF Reading
  <2> QED BY <2>2, <2>3, <2>4
<1> QED BY <1>2, <1>3

(* Its significant digits.                                                 *)
LEMMA AtSignificant ==
  ASSUME IInv, NEW D \in Dates, ValidDate(D), pc = "significant", Reading(D)
  PROVE  significant_ahead /\ (ReadSignificant => Reading(D)')
<1> DEFINE k == D.year.kind
           s == D.year.significant_digits
<1>1. k.form = "Standard" /\ rest = SuffixedText(D) /\ date = YearOnly(k, None, {}) /\ Written(D) /\ date \in Dates
  BY ValidIsWritten DEF Reading, IInv, DateInv, Scanning
<1>2. /\ suffix_ahead(rest, "S") /\ suffix(rest, "S") = s /\ after_suffix(rest, "S") = YearEndText(D)
      /\ starts(rest, "S") <=> s # None
  BY <1>1, SuffixedRead
<1>3. date.year.kind = k /\ date.year.qualifier = {} /\ date.month = None /\ date.day = None
  BY <1>1, Selectors DEF YearOnly
<1>4. significant_ahead
  BY <1>1, <1>2, <1>3, StandardFacts DEF significant_ahead
<1>5. ASSUME ReadSignificant PROVE Reading(D)'
  <2> HIDE DEF k, s
  <2>1. [date EXCEPT !.year.significant_digits = s]
          = Date(Year(date.year.kind, s, date.year.qualifier), date.month, date.day)
    BY <1>1, Updates
  <2>2. pc' = "year end" /\ rest' = YearEndText(D) /\ date' = [date EXCEPT !.year.significant_digits = s]
    BY <1>2, <1>5 DEF ReadSignificant
  <2>3. date' = YearOnly(k, s, {})
    BY <1>3, <2>1, <2>2 DEF YearOnly
  <2> QED BY <1>1, <2>2, <2>3 DEF Reading, k, s
<1> QED BY <1>4, <1>5

(* Its end: the qualifier there reaches the year alone.                    *)
LEMMA MarkedYear ==
  ASSUME NEW k, NEW s, NEW q
  PROVE  marked(YearOnly(k, s, {}), q) = YearOnly(k, s, q)
<1> DEFINE d == YearOnly(k, s, {})
<1>1. d.year = Year(k, s, {}) /\ d.month = None /\ d.day = None
  BY DEF YearOnly, Date
<1>2. [Year(k, s, {}) EXCEPT !.qualifier = @ \cup q] = Year(k, s, q)
  BY DEF Year
<1> HIDE DEF d
<1>3. marked(d, q) = Date(Year(k, s, q), mark_field(None, q), mark_field(None, q))
  BY <1>1, <1>2 DEF marked
<1>4. mark_field(None, q) = None
  BY DEF mark_field
<1> QED BY <1>3, <1>4 DEF YearOnly, d

(* Its end.                                                                *)
LEMMA AtYearEnd ==
  ASSUME IInv, NEW D \in Dates, ValidDate(D), pc = "year end", Reading(D)
  PROVE  year_end_ahead /\ (EndYear => Reading(D)')
<1> DEFINE k == D.year.kind
           s == D.year.significant_digits
           r == MonthText(D)
<1>1. k.form = "Standard" /\ rest = YearEndText(D) /\ date = YearOnly(k, s, {}) /\ Slotted(D)
  BY ValidIsWritten DEF Reading, Written
<1>2. take_qualifier(rest) = Reached(D, 1) /\ after_qualifier(rest) = r
  BY <1>1, YearEndRead, FlagsReached
<1>3. /\ D.month = None => r = <<>>
      /\ D.month # None => /\ r # <<>> /\ Head(r) = Sym("-")
                           /\ Tail(r) = FieldText(D, 2, Get(D.month), TextOfDay(D))
  BY FromDash
<1>4. year_end_ahead
  <2>1. date.year.significant_digits = s
    <3> HIDE DEF k, s
    <3>1. Date(Year(k, s, {}), None, None).year = Year(k, s, {})
      BY DEF Date
    <3>2. Year(k, s, {}).significant_digits = s
      BY DEF Year
    <3> QED BY <1>1, <3>1, <3>2 DEF YearOnly
  <2>2. ends_or_goes_on(r)
    BY <1>3 DEF ends_or_goes_on, starts
  <2>3. s # None => D.month = None
    BY <1>1, StandardFacts
  <2> QED BY <1>2, <1>3, <2>1, <2>2, <2>3 DEF year_end_ahead, IsSome
<1>5. ASSUME EndYear PROVE Reading(D)'
  <2>1. date' = YearOnly(k, s, Reached(D, 1))
    <3>1. date' = marked(YearOnly(k, s, {}), Reached(D, 1))
      BY <1>1, <1>2, <1>5 DEF EndYear
    <3> QED BY <3>1, MarkedYear
  <2>2. pc' = (IF r = <<>> THEN "finish" ELSE "month") /\ rest' = eat(r, "-")
    BY <1>2, <1>5 DEF EndYear, Continue
  <2> HIDE DEF r
  <2>3. CASE D.month = None
    <3>1. pc' = "finish"
      BY <1>3, <2>2, <2>3
    <3>2. Reached(D, 1) = D.year.qualifier /\ D.day = None
      BY <1>1, <2>3, FlagsReached DEF Slotted
    <3>3. date' = D
      BY <2>1, <2>3, <3>2, DateParts DEF YearOnly
    <3> QED BY <3>1, <3>3 DEF Reading
  <2>4. CASE D.month # None
    <3>1. pc' = "month" /\ rest' = Tail(r)
      BY <1>3, <2>2, <2>4 DEF eat, starts
    <3> QED BY <1>3, <2>1, <2>4, <3>1 DEF Reading
  <2> QED BY <2>3, <2>4
<1> QED BY <1>4, <1>5

(* Its month.                                                              *)
LEMMA AtMonth ==
  ASSUME IInv, NEW D \in Dates, ValidDate(D), pc = "month", Reading(D)
  PROVE  month_ahead /\ (ReadMonth => Reading(D)')
<1> DEFINE k == D.year.kind
           s == D.year.significant_digits
           m == Get(D.month)
           g == m.digits
           o == opening_flags(D, 2, m.qualifier)
           c == closing_flags(D, 2)
           r == TextOfDay(D)
<1>1. /\ D.month # None /\ rest = FieldText(D, 2, m, r) /\ date = YearOnly(k, s, Reached(D, 1))
      /\ Slotted(D) /\ date \in Dates
  BY ValidIsWritten DEF Reading, Written, IInv, DateInv, Scanning
<1>2. m \in Fields /\ D.month = Some(m) /\ m = Field(g, m.qualifier)
  BY <1>1, DateParts, Options, FieldParts
<1>3. /\ D.day = None => r = <<>>
      /\ D.day # None => /\ r # <<>> /\ Head(r) = Sym("-") /\ Tail(r) = FieldText(D, 3, Get(D.day), <<>>)
      /\ r \in Seq(DateTokens)
  BY FromDash, DateTails
<1>4. /\ group_ahead(after_qualifier(rest), 2) /\ field_at(rest) = Field(g, o)
      /\ take_qualifier(after_field(rest)) = c /\ after_qualifier(after_field(rest)) = r
  <2>1. r = <<>> \/ Head(r) \notin Markers
    BY <1>3, NotMarkers
  <2> QED BY <1>1, <1>2, <1>3, <2>1, FieldRead
<1>5. month_ahead
  BY <1>3, <1>4 DEF month_ahead, ends_or_goes_on, starts
<1>6. /\ Reached(D, 1) \cup c = Reached(D, 2) /\ o \cup c = month_flags(D)
      /\ D.day = None => Reached(D, 2) = D.year.qualifier /\ month_flags(D) = m.qualifier
  BY <1>1, FlagsReached
<1>7. ASSUME ReadMonth PROVE Reading(D)'
  <2>1. [date EXCEPT !.month = Some(field_at(rest))] = Date(Year(k, s, Reached(D, 1)), Some(Field(g, o)), None)
    <3>1. [date EXCEPT !.month = Some(field_at(rest))] = Date(date.year, Some(field_at(rest)), date.day)
      BY <1>1, Updates
    <3>2. date.year = Year(k, s, Reached(D, 1)) /\ date.day = None
      BY <1>1, Selectors DEF YearOnly
    <3> QED BY <1>4, <3>1, <3>2
  <2>2. date' = marked(Date(Year(k, s, Reached(D, 1)), Some(Field(g, o)), None), c)
    BY <1>4, <1>7, <2>1 DEF ReadMonth
  <2>3. pc' = (IF r = <<>> THEN "finish" ELSE "day") /\ rest' = eat(r, "-")
    BY <1>4, <1>7 DEF ReadMonth, Continue
  <2> HIDE DEF g, o, c, k, s
  <2>4. date' = Date(Year(k, s, Reached(D, 2)), Some(Field(g, month_flags(D))), None)
    <3>1. date' = Date(Year(k, s, Reached(D, 1) \cup c), mark_field(Some(Field(g, o)), c), mark_field(None, c))
      BY <2>2, MarkedIs
    <3>2. mark_field(Some(Field(g, o)), c) = Some(Field(g, o \cup c)) /\ mark_field(None, c) = None
      BY MarkedIs
    <3> QED BY <1>6, <3>1, <3>2
  <2> HIDE DEF r
  <2>5. CASE D.day = None
    <3>1. pc' = "finish"
      BY <1>3, <2>3, <2>5
    <3>2. date' = Date(Year(k, s, D.year.qualifier), Some(Field(g, m.qualifier)), None)
      BY <1>6, <2>4, <2>5
    <3>3. date' = D
      BY <1>2, <2>5, <3>2, DateParts DEF k, s
    <3> QED BY <3>1, <3>3 DEF Reading
  <2>6. CASE D.day # None
    <3>1. pc' = "day" /\ rest' = Tail(r)
      BY <1>3, <2>3, <2>6 DEF eat, starts
    <3> QED BY <1>3, <2>4, <2>6, <3>1 DEF Reading, k, s, g
  <2> QED BY <2>5, <2>6
<1> QED BY <1>5, <1>7

(* Its day.                                                                *)
LEMMA AtDay ==
  ASSUME IInv, NEW D \in Dates, ValidDate(D), pc = "day", Reading(D)
  PROVE  day_ahead /\ (ReadDay => Reading(D)')
<1> DEFINE k == D.year.kind
           s == D.year.significant_digits
           m == Get(D.month)
           f == Get(D.day)
           g == m.digits
           h == f.digits
           o == opening_flags(D, 3, f.qualifier)
           c == closing_flags(D, 3)
           b == month_flags(D)
<1>1. /\ D.day # None /\ rest = FieldText(D, 3, f, <<>>)
      /\ date = Date(Year(k, s, Reached(D, 2)), Some(Field(g, b)), None)
      /\ Slotted(D) /\ date \in Dates
  BY ValidIsWritten DEF Reading, Written, IInv, DateInv, Scanning
<1>2. f \in Fields /\ D.day = Some(f) /\ f = Field(h, f.qualifier)
  BY <1>1, DateParts, Options, FieldParts
<1>3. m \in Fields /\ D.month = Some(m) /\ m = Field(g, m.qualifier)
  <2>1. D.month # None
    BY <1>1 DEF Slotted
  <2> QED BY <2>1, DateParts, Options, FieldParts
<1>4. /\ group_ahead(after_qualifier(rest), 2) /\ field_at(rest) = Field(h, o)
      /\ take_qualifier(after_field(rest)) = c /\ after_qualifier(after_field(rest)) = <<>>
  <2>1. <<>> \in Seq(DateTokens)
    OBVIOUS
  <2> QED BY <1>1, <1>2, <2>1, FieldRead
<1>5. day_ahead
  BY <1>4 DEF day_ahead
<1>6. /\ o \cup c = f.qualifier /\ Reached(D, 2) \cup c = D.year.qualifier /\ b \cup c = m.qualifier
  BY <1>1, FlagsReached
<1>7. ASSUME ReadDay PROVE Reading(D)'
  <2>1. [date EXCEPT !.day = Some(field_at(rest))]
          = Date(Year(k, s, Reached(D, 2)), Some(Field(g, b)), Some(Field(h, o)))
    <3>1. [date EXCEPT !.day = Some(field_at(rest))] = Date(date.year, date.month, Some(field_at(rest)))
      BY <1>1, Updates
    <3>2. date.year = Year(k, s, Reached(D, 2)) /\ date.month = Some(Field(g, b))
      BY <1>1, Selectors
    <3> QED BY <1>4, <3>1, <3>2
  <2>2. date' = marked(Date(Year(k, s, Reached(D, 2)), Some(Field(g, b)), Some(Field(h, o))), c)
    BY <1>4, <1>7, <2>1 DEF ReadDay
  <2>3. pc' = "finish"
    BY <1>7 DEF ReadDay
  <2> HIDE DEF g, h, o, c, k, s, b
  <2>4. date' = Date(Year(k, s, D.year.qualifier), Some(Field(g, m.qualifier)), Some(Field(h, f.qualifier)))
    <3> DEFINE x == Some(Field(g, b))
               y == Some(Field(h, o))
               a == Reached(D, 2)
    <3> HIDE DEF x, y, a
    <3>0. marked(Date(Year(k, s, a), x, y), c) = Date(Year(k, s, a \cup c), mark_field(x, c), mark_field(y, c))
      BY MarkedIs
    <3>1. date' = Date(Year(k, s, Reached(D, 2) \cup c), mark_field(Some(Field(g, b)), c), mark_field(Some(Field(h, o)), c))
      BY <2>2, <3>0 DEF x, y, a
    <3>2. mark_field(Some(Field(g, b)), c) = Some(Field(g, b \cup c))
          /\ mark_field(Some(Field(h, o)), c) = Some(Field(h, o \cup c))
      BY MarkedIs
    <3> QED BY <1>6, <3>1, <3>2
  <2>5. date' = D
    BY <1>2, <1>3, <2>4, DateParts DEF k, s
  <2> QED BY <2>3, <2>5 DEF Reading
<1> QED BY <1>5, <1>7

(* What a prefixed year's date is read as.                                 *)
LEMMA PrefixedFacts ==
  ASSUME NEW D \in Dates, ValidDate(D), D.year.kind.form # "Standard"
  PROVE  /\ ValidPrefixedYear(D) /\ D.month = None /\ D.day = None
         /\ beyond_four_digits(D.year.kind)
         /\ D.year.kind.form = "Exponential" =>
              D.year.kind.significand # 0 /\ D.year.kind.exponent <= MaxExponent
<1> DEFINE k == D.year.kind
<1>1. ValidPrefixedYear(D) /\ k \in YearKinds
  BY DateParts DEF ValidDate
<1>2. CASE k.form = "Big"
  <2>1. year_of(k) = Some(k.value) /\ Abs(k.value) \in 10000..I64Max
    BY <1>1, <1>2 DEF year_of, ValidPrefixedYear
  <2>2. Get(Some(k.value)) = k.value
    BY DEF Get, Some
  <2>3. beyond_four_digits(k)
    <3> HIDE DEF k
    <3>1. Abs(k.value) > 9999
      BY <2>1, Numbers
    <3> QED BY <2>1, <2>2, <3>1 DEF beyond_four_digits
  <2> QED BY <1>1, <1>2, <2>3 DEF ValidPrefixedYear
<1>3. CASE k.form = "Exponential"
  <2>1. /\ Abs(k.significand) \in 1..I64Max /\ k.exponent \in 0..MaxExponent
        /\ year_of(k) # None => Abs(Get(year_of(k))) > 9999
    BY <1>1, <1>3 DEF ValidPrefixedYear
  <2>2. k.significand # 0 /\ k.exponent <= MaxExponent
    <3> HIDE DEF k
    <3> QED BY <2>1 DEF Abs
  <2> QED BY <1>1, <1>3, <2>1, <2>2 DEF ValidPrefixedYear, beyond_four_digits
<1> QED BY <1>1, <1>2, <1>3, KindForms

(* Its exponent, or none.                                                  *)
LEMMA AtExponent ==
  ASSUME IInv, NEW D \in Dates, ValidDate(D), pc = "exponent", Reading(D)
  PROVE  /\ no_exponent_ahead \/ exponent_ahead
         /\ NoExponent \/ ReadExponent => Reading(D)'
<1> DEFINE k == D.year.kind
           m == mantissa_of(k)
<1>1. /\ k.form # "Standard" /\ rest = SuffixText("E", exponent_of(k)) \o SuffixedText(D)
      /\ date = YearOnly(Big(m), None, {}) /\ Written(D) /\ date \in Dates
  BY ValidIsWritten DEF Reading, IInv, DateInv, Scanning
<1>2. /\ suffix_ahead(rest, "E") /\ suffix(rest, "E") = exponent_of(k)
      /\ after_suffix(rest, "E") = SuffixedText(D)
      /\ starts(rest, "E") <=> k.form = "Exponential"
      /\ k.form = "Big" => rest = SuffixedText(D)
  BY <1>1, ExponentRead
<1>3. /\ beyond_four_digits(k)
      /\ k.form = "Exponential" => k.significand # 0 /\ k.exponent <= MaxExponent
  BY <1>1, PrefixedFacts
<1>4. /\ date.year.kind = Big(m) /\ date.year.significant_digits = None /\ date.year.qualifier = {}
      /\ date.month = None /\ date.day = None
  <2> HIDE DEF m
  <2>1. date.year = Year(Big(m), None, {}) /\ date.month = None /\ date.day = None
    BY <1>1 DEF YearOnly, Date
  <2> QED BY <2>1 DEF Year
<1>5. Big(m).value = m
  BY DEF Big
<1>6. CASE k.form = "Big"
  <2>1. Big(m) = k
    BY <1>1, <1>6, KindForms, DateParts DEF mantissa_of
  <2>2. no_exponent_ahead
    BY <1>2, <1>3, <1>4, <1>6, <2>1 DEF no_exponent_ahead
  <2>3. ~ReadExponent
    BY <1>2, <1>6 DEF ReadExponent, exponent_ahead
  <2>4. ASSUME NoExponent PROVE Reading(D)'
    <3>1. pc' = "digits" /\ rest' = SuffixedText(D) /\ date' = YearOnly(k, None, {})
      BY <1>1, <1>2, <1>6, <2>1, <2>4 DEF NoExponent
    <3> QED BY <1>1, <3>1 DEF Reading
  <2> QED BY <2>2, <2>3, <2>4
<1>7. CASE k.form = "Exponential"
  <2>1. m = k.significand /\ Get(suffix(rest, "E")) = k.exponent
    BY <1>2, <1>7 DEF mantissa_of, exponent_of, Get, Some
  <2>2. exponential_at(m, rest) = k
    BY <1>7, <2>1, KindForms, DateParts DEF exponential_at
  <2>3. exponent_ahead
    BY <1>2, <1>3, <1>4, <1>5, <1>7, <2>1, <2>2 DEF exponent_ahead
  <2>4. ~NoExponent
    BY <1>2, <1>7 DEF NoExponent, no_exponent_ahead
  <2>5. ASSUME ReadExponent PROVE Reading(D)'
    <3>1. /\ date' = [date EXCEPT !.year.kind = exponential_at(date.year.kind.value, rest)]
          /\ pc' = "digits" /\ rest' = SuffixedText(D)
      BY <1>2, <2>5 DEF ReadExponent
    <3>2. exponential_at(date.year.kind.value, rest) = k
      BY <1>4, <1>5, <2>2
    <3> HIDE DEF k
    <3>3. [date EXCEPT !.year.kind = k]
            = Date(Year(k, date.year.significant_digits, date.year.qualifier), date.month, date.day)
      BY <1>1, Updates
    <3>4. date' = YearOnly(k, None, {})
      BY <1>4, <3>1, <3>2, <3>3 DEF YearOnly
    <3> QED BY <1>1, <3>1, <3>4 DEF Reading, k
  <2> QED BY <2>3, <2>4, <2>5
<1> QED BY <1>1, <1>6, <1>7, KindForms, DateParts

(* Its significant digits, and its qualifier, which ends it.               *)
LEMMA AtDigits ==
  ASSUME IInv, NEW D \in Dates, ValidDate(D), pc = "digits", Reading(D)
  PROVE  prefixed_end_ahead /\ (ReadPrefixedEnd => Reading(D)')
<1> DEFINE k == D.year.kind
           s == D.year.significant_digits
           u == YearEndText(D)
<1>1. /\ k.form # "Standard" /\ rest = SuffixedText(D) /\ date = YearOnly(k, None, {})
      /\ Written(D) /\ Slotted(D) /\ date \in Dates
  BY ValidIsWritten DEF Reading, Written, IInv, DateInv, Scanning
<1>2. width = digit_count(k)
  <2>1. width = digit_count(date.year.kind)
    BY DEF IInv, DateInv, Scanning, StageInv, Prefixed
  <2>2. date.year.kind = k
    <3> HIDE DEF k
    <3>1. date.year = Year(k, None, {})
      BY <1>1 DEF YearOnly, Date
    <3> QED BY <3>1 DEF Year
  <2> QED BY <2>1, <2>2
<1>3. /\ suffix_ahead(rest, "S") /\ suffix(rest, "S") = s /\ after_suffix(rest, "S") = u
      /\ starts(rest, "S") <=> s # None
  BY <1>1, SuffixedRead
<1>4. ValidPrefixedYear(D) /\ D.month = None /\ D.day = None
  BY <1>1, PrefixedFacts
<1>5. take_qualifier(u) = D.year.qualifier /\ after_qualifier(u) = <<>>
  BY <1>1, <1>4, YearEndRead, FlagsReached, FromDash
<1>6. prefixed_end_ahead
  <2>1. s # None => Get(s) \in 1..digit_count(k)
    BY <1>4 DEF ValidPrefixedYear
  <2> QED BY <1>2, <1>3, <1>5, <2>1 DEF prefixed_end_ahead
<1>7. ASSUME ReadPrefixedEnd PROVE Reading(D)'
  <2>1. date' = [date EXCEPT !.year = Year(date.year.kind, s, D.year.qualifier)] /\ pc' = "finish"
    BY <1>3, <1>5, <1>7 DEF ReadPrefixedEnd
  <2>2. date.year.kind = k /\ date.month = None /\ date.day = None
    <3> HIDE DEF k
    <3>1. date.year = Year(k, None, {}) /\ date.month = None /\ date.day = None
      BY <1>1 DEF YearOnly, Date
    <3> QED BY <3>1 DEF Year
  <2>3. date' = Date(Year(k, s, D.year.qualifier), None, None)
    BY <1>1, <2>1, <2>2, Updates
  <2>4. date' = D
    BY <1>4, <2>3, DateParts
  <2> QED BY <2>1, <2>4 DEF Reading
<1> QED BY <1>6, <1>7

(* The date as a whole.                                                    *)
LEMMA AtFinish ==
  ASSUME NEW D \in Dates, ValidDate(D), pc = "finish", Reading(D)
  PROVE  whole_date_ahead /\ date = D
<1>1. date = D
  BY DEF Reading
<1>2. CASE D.year.kind.form = "Standard"
  BY <1>1, <1>2, StandardFacts DEF whole_date_ahead
<1>3. CASE D.year.kind.form # "Standard"
  BY <1>1, <1>3, PrefixedFacts DEF whole_date_ahead, validate_month_day
<1> QED BY <1>1, <1>2, <1>3

ScanSteps == \/ ReadYear \/ ReadSignificant \/ EndYear \/ ReadMonth \/ ReadDay
             \/ ReadMantissa \/ NoExponent \/ ReadExponent \/ ReadPrefixedEnd

(* The scan of a valid date's text never stops, and reads the date.        *)
LEMMA Scans ==
  ASSUME IInv, NEW D \in Dates, ValidDate(D), pc \in Scanning, Reading(D)
  PROVE  /\ Readable
         /\ ScanSteps => Reading(D)'
         /\ pc = "finish" => date = D
<1> USE DEF Readable
<1>1. CASE pc = "date"
  BY <1>1, AtDate DEF ScanSteps, ReadSignificant, significant_ahead, EndYear, year_end_ahead, ReadMonth, month_ahead,
     ReadDay, day_ahead, NoExponent, no_exponent_ahead, ReadExponent, exponent_ahead, ReadPrefixedEnd, prefixed_end_ahead
<1>2. CASE pc = "significant"
  BY <1>2, AtSignificant DEF ScanSteps, ReadYear, year_ahead, EndYear, year_end_ahead, ReadMonth, month_ahead,
     ReadDay, day_ahead, ReadMantissa, mantissa_ahead, NoExponent, no_exponent_ahead, ReadExponent, exponent_ahead,
     ReadPrefixedEnd, prefixed_end_ahead
<1>3. CASE pc = "year end"
  BY <1>3, AtYearEnd DEF ScanSteps, ReadYear, year_ahead, ReadSignificant, significant_ahead, ReadMonth, month_ahead,
     ReadDay, day_ahead, ReadMantissa, mantissa_ahead, NoExponent, no_exponent_ahead, ReadExponent, exponent_ahead,
     ReadPrefixedEnd, prefixed_end_ahead
<1>4. CASE pc = "month"
  BY <1>4, AtMonth DEF ScanSteps, ReadYear, year_ahead, ReadSignificant, significant_ahead, EndYear, year_end_ahead,
     ReadDay, day_ahead, ReadMantissa, mantissa_ahead, NoExponent, no_exponent_ahead, ReadExponent, exponent_ahead,
     ReadPrefixedEnd, prefixed_end_ahead
<1>5. CASE pc = "day"
  BY <1>5, AtDay DEF ScanSteps, ReadYear, year_ahead, ReadSignificant, significant_ahead, EndYear, year_end_ahead,
     ReadMonth, month_ahead, ReadMantissa, mantissa_ahead, NoExponent, no_exponent_ahead, ReadExponent, exponent_ahead,
     ReadPrefixedEnd, prefixed_end_ahead
<1>6. CASE pc = "exponent"
  BY <1>6, AtExponent DEF ScanSteps, ReadYear, year_ahead, ReadSignificant, significant_ahead, EndYear, year_end_ahead,
     ReadMonth, month_ahead, ReadDay, day_ahead, ReadMantissa, mantissa_ahead, ReadPrefixedEnd, prefixed_end_ahead
<1>7. CASE pc = "digits"
  BY <1>7, AtDigits DEF ScanSteps, ReadYear, year_ahead, ReadSignificant, significant_ahead, EndYear, year_end_ahead,
     ReadMonth, month_ahead, ReadDay, day_ahead, ReadMantissa, mantissa_ahead, NoExponent, no_exponent_ahead,
     ReadExponent, exponent_ahead
<1>8. CASE pc = "finish"
  BY <1>8, AtFinish DEF ScanSteps, ReadYear, year_ahead, ReadSignificant, significant_ahead, EndYear, year_end_ahead,
     ReadMonth, month_ahead, ReadDay, day_ahead, ReadMantissa, mantissa_ahead, NoExponent, no_exponent_ahead,
     ReadExponent, exponent_ahead, ReadPrefixedEnd, prefixed_end_ahead
<1> QED BY <1>1, <1>2, <1>3, <1>4, <1>5, <1>6, <1>7, <1>8 DEF Scanning

Separators == {"/", ","}

(* The rendered text of an accepted date, interval or set is dispatched on *)
(* its shape, and its parts have what the parser asks of them together.    *)
LEMMA PartsDisplay ==
  ASSUME NEW x \in Expressions, Accepted(x), x.type # "DateTime"
  PROVE  LET t == display(x)
         IN  /\ t \in TokenText /\ t # <<>> /\ shape(t) = x.type
             /\ undivided(t) = separated(ElementTexts(PartsOf(x)), separator(t))
             /\ separator(t) \in Separators
             /\ put_together(t, PartsOf(x)) = x
             /\ shape(t) = "Set" => /\ Len(t) > 1 /\ t[Len(t)] = Brackets(set_kind(t))[2]
                                    /\ \A i \in DOMAIN PartsOf(x) :
                                         is_dated(PartsOf(x)[i]) /\ range_agrees(PartsOf(x)[i])
             /\ shape(t) = "Interval" => Len(PartsOf(x)) = 2 /\ ends_agree(PartsOf(x)[1], PartsOf(x)[2])
             /\ shape(t) = "Date" => PartsOf(x) = <<At(x.date)>>
<1> DEFINE t == display(x)
<1>1. t \in TokenText
  BY DisplayIsText
<1>2. CASE x.type = "Date"
  <2>1. t # <<>> /\ shape(t) = "Date" /\ put_together(t, PartsOf(x)) = x
        /\ undivided(t) = separated(ElementTexts(PartsOf(x)), "/")
    BY <1>2, DateDisplay
  <2>2. separator(t) = "/" /\ PartsOf(x) = <<At(x.date)>>
    BY <1>2, <2>1 DEF separator, PartsOf
  <2>3. separator(t) \in Separators
    BY <2>2, Zenon DEF Separators
  <2> HIDE DEF t
  <2> QED BY <1>1, <2>3, <1>2, <2>1, <2>2 DEF t
<1>3. CASE x.type = "Interval"
  <2>1. t # <<>> /\ shape(t) = "Interval" /\ put_together(t, PartsOf(x)) = x
        /\ undivided(t) = separated(ElementTexts(PartsOf(x)), "/")
    BY <1>3, IntervalDisplay
  <2>2. separator(t) = "/" /\ PartsOf(x) = <<x.start, x.end>>
    BY <1>3, <2>1 DEF separator, PartsOf
  <2>3. ends_agree(x.start, x.end)
    BY <1>3 DEF Accepted, parse_interval
  <2>4. Len(PartsOf(x)) = 2 /\ PartsOf(x)[1] = x.start /\ PartsOf(x)[2] = x.end
    BY <2>2
  <2>5. separator(t) \in Separators
    BY <2>2, Zenon DEF Separators
  <2> HIDE DEF t
  <2> QED BY <1>1, <2>5, <1>3, <2>1, <2>2, <2>3, <2>4 DEF t
<1>4. CASE x.type = "Set"
  <2>1. /\ t # <<>> /\ shape(t) = "Set" /\ put_together(t, PartsOf(x)) = x
        /\ undivided(t) = separated(ElementTexts(PartsOf(x)), ",")
        /\ Len(t) > 1 /\ t[Len(t)] = Brackets(set_kind(t))[2]
    BY <1>4, SetDisplay
  <2>2. separator(t) = ","
    BY <2>1 DEF separator
  <2>3. \A i \in DOMAIN PartsOf(x) : is_dated(PartsOf(x)[i]) /\ range_agrees(PartsOf(x)[i])
    <3>1. PartsOf(x) = x.elements
      BY <1>4 DEF PartsOf
    <3>2. elements_agree(x.elements)
      BY <1>4 DEF Accepted, parse_set
    <3> QED BY <3>1, <3>2 DEF elements_agree
  <2>4. separator(t) \in Separators
    BY <2>2, Zenon DEF Separators
  <2> HIDE DEF t
  <2> QED BY <1>1, <2>4, <1>4, <2>1, <2>2, <2>3 DEF t
<1> QED BY <1>2, <1>3, <1>4, ExpressionForms

(* What is next of a sequence that is cut in two.                          *)
LEMMA NextOf ==
  ASSUME NEW S, NEW a \in Seq(S), NEW b \in Seq(S), b # <<>>
  PROVE  /\ Append(a, Head(b)) \o Tail(b) = a \o b
         /\ Head(b) \in S /\ Tail(b) \in Seq(S) /\ Append(a, Head(b)) \in Seq(S)
         /\ Len(a) + 1 \in DOMAIN (a \o b) /\ (a \o b)[Len(a) + 1] = Head(b)
<1> DEFINE h == Head(b)
           z == Tail(b)
           c == Append(a, h)
<1>1. /\ h \in S /\ h = b[1] /\ z \in Seq(S) /\ Len(b) = Len(z) + 1 /\ Len(z) \in Nat /\ Len(a) \in Nat
      /\ \A i \in 1..Len(z) : z[i] = b[i + 1]
  BY LenProperties
<1>2. /\ c \in Seq(S) /\ Len(c) = Len(a) + 1 /\ c[Len(a) + 1] = h
      /\ \A i \in 1..Len(a) : c[i] = a[i]
  BY <1>1, AppendProperties
<1>3. /\ Len(a \o b) = Len(a) + Len(b) /\ a \o b \in Seq(S)
      /\ \A i \in 1..(Len(a) + Len(b)) : (a \o b)[i] = IF i <= Len(a) THEN a[i] ELSE b[i - Len(a)]
  BY ConcatProperties, Zenon
<1> HIDE DEF h, z, c
<1>4. /\ Len(c \o z) = Len(c) + Len(z) /\ c \o z \in Seq(S)
      /\ \A i \in 1..(Len(c) + Len(z)) : (c \o z)[i] = IF i <= Len(c) THEN c[i] ELSE z[i - Len(c)]
  BY <1>1, <1>2, ConcatProperties, Zenon
<1> DEFINE u == a \o b
           v == c \o z
           n == Len(a)
           m == Len(z)
<1>5. /\ Len(u) = n + m + 1 /\ Len(v) = n + m + 1 /\ u \in Seq(S) /\ v \in Seq(S)
      /\ \A i \in 1..(n + m + 1) : u[i] = IF i <= n THEN a[i] ELSE b[i - n]
      /\ \A i \in 1..(n + m + 1) : v[i] = IF i <= n + 1 THEN c[i] ELSE z[i - (n + 1)]
  BY <1>1, <1>2, <1>3, <1>4
<1> HIDE DEF u, v, n, m
<1>6. /\ n \in Nat /\ m \in Nat /\ c[n + 1] = h /\ h = b[1]
      /\ \A i \in 1..n : c[i] = a[i]
      /\ \A i \in 1..m : z[i] = b[i + 1]
  BY <1>1, <1>2 DEF n, m
<1>7. \A i \in 1..(n + m + 1) : u[i] = v[i]
  <2> TAKE i \in 1..(n + m + 1)
  <2>1. CASE i <= n
    <3>1. i \in 1..n /\ i <= n + 1
      BY <1>6, <2>1
    <3>2. u[i] = a[i] /\ v[i] = c[i]
      BY <1>5, <2>1, <3>1
    <3> QED BY <1>6, <3>1, <3>2
  <2>2. CASE i = n + 1
    BY <1>5, <1>6, <2>2
  <2>3. CASE i > n + 1
    <3>1. i - (n + 1) \in 1..m /\ (i - (n + 1)) + 1 = i - n /\ ~(i <= n) /\ ~(i <= n + 1)
      BY <1>6, <2>3
    <3> QED BY <1>5, <1>6, <3>1
  <2>4. i <= n \/ i = n + 1 \/ i > n + 1
    <3>1. n \in Nat /\ m \in Nat
      BY <1>6
    <3> QED BY <3>1
  <2> QED BY <2>1, <2>2, <2>3, <2>4
<1>8. u = v
  BY <1>5, <1>7, SeqEqual
<1>9. n + 1 \in DOMAIN u /\ u[n + 1] = h
  BY <1>5, <1>6
<1> QED BY <1>1, <1>2, <1>8, <1>9 DEF u, v, n, h, z, c

(* The first of a sequence, and the others.                                *)
LEMMA FirstAndOthers ==
  ASSUME NEW S, NEW b \in Seq(S), b # <<>>
  PROVE  /\ Len(b) \in Nat \ {0} /\ DOMAIN b = 1..Len(b) /\ Head(b) = b[1] /\ Head(b) \in S
         /\ Tail(b) \in Seq(S) /\ Len(Tail(b)) = Len(b) - 1 /\ DOMAIN Tail(b) = 1..(Len(b) - 1)
         /\ \A i \in 1..(Len(b) - 1) : Tail(b)[i] = b[i + 1]
<1>1. Len(b) \in Nat \ {0} /\ DOMAIN b = 1..Len(b)
  BY LenProperties, EmptySeq
<1>2. Head(b) = b[1] /\ Head(b) \in S
  OBVIOUS
<1>3. Tail(b) \in Seq(S) /\ Len(Tail(b)) = Len(b) - 1
  BY HeadTailProperties
<1>4. \A i \in 1..(Len(b) - 1) : Tail(b)[i] = b[i + 1]
  OBVIOUS
<1>5. DOMAIN Tail(b) = 1..(Len(b) - 1)
  BY <1>3, LenProperties
<1> QED BY <1>1, <1>2, <1>3, <1>4, <1>5

(* And what is in hand of one that is cut around it.                       *)
LEMMA InHand ==
  ASSUME NEW S, NEW a \in Seq(S), NEW e \in S, NEW b \in Seq(S)
  PROVE  /\ Len(a) + 1 \in DOMAIN (Append(a, e) \o b) /\ (Append(a, e) \o b)[Len(a) + 1] = e
         /\ Append(a, e) \in Seq(S) /\ Append(a, e) \o <<>> = Append(a, e)
         /\ Append(a, e) # <<>>
<1> DEFINE c == Append(a, e)
<1>1. c \in Seq(S) /\ Len(c) = Len(a) + 1 /\ c[Len(a) + 1] = e /\ Len(a) \in Nat
  BY AppendProperties, LenProperties
<1> HIDE DEF c
<1>2. /\ Len(c \o b) = Len(c) + Len(b) /\ c \o b \in Seq(S) /\ Len(b) \in Nat
      /\ \A i \in 1..(Len(c) + Len(b)) : (c \o b)[i] = IF i <= Len(c) THEN c[i] ELSE b[i - Len(c)]
  BY <1>1, ConcatProperties, LenProperties
<1>3. c \o <<>> = c /\ c # <<>>
  BY <1>1
<1> DEFINE u == c \o b
           n == Len(a)
           m == Len(b)
<1>4. n \in Nat /\ m \in Nat /\ Len(c) = n + 1 /\ Len(u) = n + 1 + m /\ u \in Seq(S)
  BY <1>1, <1>2
<1>5. \A i \in 1..(n + 1 + m) : u[i] = IF i <= n + 1 THEN c[i] ELSE b[i - (n + 1)]
  BY <1>1, <1>2
<1> HIDE DEF u, n, m
<1>6. n + 1 \in DOMAIN u /\ u[n + 1] = c[n + 1]
  BY <1>4, <1>5
<1> QED BY <1>1, <1>3, <1>6 DEF u, n, c

(* The text of parts that are not begun, if there are any.                 *)
LaterText(todo, s) == IF todo = <<>> THEN None ELSE Some(separated(ElementTexts(todo), s))

(* Cutting it yields the text of the first of them, and of the others.     *)
LEMMA NextCut ==
  ASSUME NEW es \in Seq(Ends), es # <<>>, \A i \in DOMAIN es : ValidEnd(es[i]), NEW s \in Separators
  PROVE  LET t == separated(ElementTexts(es), s)
         IN  /\ before(t, s) = EndText(Head(es))
             /\ after(t, s) = LaterText(Tail(es), s)
<1> DEFINE n == Len(es)
           ps == ElementTexts(es)
           h == EndText(Head(es))
           qs == ElementTexts(Tail(es))
<1>1. /\ n \in Nat /\ n >= 1 /\ DOMAIN es = 1..n /\ Head(es) = es[1] /\ Head(es) \in Ends
      /\ Tail(es) \in Seq(Ends) /\ Len(Tail(es)) = n - 1 /\ DOMAIN Tail(es) = 1..(n - 1)
      /\ \A i \in 1..(n - 1) : Tail(es)[i] = es[i + 1]
  BY FirstAndOthers
<1> HIDE DEF n
<1>2. ps \in Seq(Seq(Token)) /\ ps # <<>> /\ Len(ps) = n /\ DOMAIN ps = 1..n
  BY <1>1, ElementsWritten DEF n
<1>3. Sym(s) \in Token /\ s \in Symbols /\ s \in {"/", ",", "T", "{", "}", "[", "]"}
  <2>1. s \in Symbols /\ s \in {"/", ",", "T", "{", "}", "[", "]"}
    BY Zenon DEF Symbols, Separators
  <2> QED BY <2>1, Symbol
<1>4. h \in TokenText /\ ~holds(h, s)
  <2>1. es[1] \in Ends /\ ValidEnd(es[1])
    BY <1>1
  <2> QED BY <1>1, <1>3, <2>1, PlainEnd
<1>5. ps[1] = h
  BY <1>1, <1>2 DEF ElementTexts
<1>6. CASE n = 1
  <2>1. Tail(es) = <<>>
    BY <1>1, <1>6, EmptySeq
  <2>2. separated(ps, s) = h
    BY <1>2, <1>3, <1>5, <1>6, SeparatedHead
  <2> QED BY <1>4, <2>1, <2>2, NotCut DEF LaterText
<1>7. CASE n > 1
  <2>1. Tail(es) # <<>> /\ \A i \in DOMAIN Tail(es) : ValidEnd(Tail(es)[i])
    BY <1>1, <1>7
  <2>2. qs \in Seq(Seq(Token)) /\ qs # <<>> /\ Len(qs) = n - 1 /\ DOMAIN qs = 1..(n - 1)
    BY <1>1, <2>1, ElementsWritten
  <2>3. Tail(ps) = qs
    <3>1. \A i \in 1..(n - 1) : qs[i] = EndText(es[i + 1])
      BY <1>1, <2>2 DEF ElementTexts
    <3>2. \A i \in 1..n : ps[i] = EndText(es[i])
      BY <1>1 DEF ElementTexts
    <3> HIDE DEF ps, qs
    <3>3. Tail(ps) \in Seq(Seq(Token)) /\ Len(Tail(ps)) = n - 1 /\ \A i \in 1..(n - 1) : Tail(ps)[i] = ps[i + 1]
      BY <1>2, FirstAndOthers
    <3>4. \A i \in 1..(n - 1) : Tail(ps)[i] = qs[i]
      BY <1>1, <3>1, <3>2, <3>3
    <3> QED BY <2>2, <3>3, <3>4, SeqEqual
  <2> DEFINE b == separated(qs, s)
  <2> HIDE DEF ps, h, qs
  <2>4. separated(ps, s) = h \o (<<Sym(s)>> \o b)
    BY <1>2, <1>3, <1>5, <1>7, <2>3, SeparatedHead
  <2>5. b \in TokenText
    BY <1>3, <2>2, SeparatedHead DEF TokenText
  <2> HIDE DEF b
  <2>6. before(separated(ps, s), s) = h /\ after(separated(ps, s), s) = Some(b)
    BY <1>3, <1>4, <2>4, <2>5, CutAt
  <2>7. LaterText(Tail(es), s) = Some(b)
    BY <2>1 DEF LaterText, b, qs
  <2> QED BY <2>6, <2>7 DEF ps, h
<1> QED BY <1>1, <1>6, <1>7

(* The texts of dates that are not begun.                                  *)
LEMMA NextText ==
  ASSUME NEW ds \in Seq(Dates)
  PROVE  /\ TextsOf(ds) = <<>> <=> ds = <<>>
         /\ ds # <<>> => Head(TextsOf(ds)) = DateText(Head(ds)) /\ Tail(TextsOf(ds)) = TextsOf(Tail(ds))
<1> DEFINE n == Len(ds)
           ps == TextsOf(ds)
<1>1. n \in Nat /\ DOMAIN ds = 1..n
  BY LenProperties
<1>2. ps = [i \in 1..n |-> DateText(ds[i])]
  BY <1>1 DEF TextsOf
<1>3. Len(ps) = n /\ DOMAIN ps = 1..n
  BY <1>1, <1>2
<1>4. ps = <<>> <=> ds = <<>>
  BY <1>1, <1>2
<1>5. ASSUME ds # <<>> PROVE Head(ps) = DateText(Head(ds)) /\ Tail(ps) = TextsOf(Tail(ds))
  <2>1. n >= 1 /\ Head(ds) = ds[1] /\ Tail(ds) \in Seq(Dates) /\ Len(Tail(ds)) = n - 1
        /\ \A i \in 1..(n - 1) : Tail(ds)[i] = ds[i + 1]
    BY <1>1, <1>5, EmptySeq, HeadTailProperties
  <2>2. DOMAIN Tail(ds) = 1..(n - 1)
    BY <1>1, <2>1
  <2>3. TextsOf(Tail(ds)) = [i \in 1..(n - 1) |-> DateText(ds[i + 1])]
    BY <2>1, <2>2 DEF TextsOf
  <2>4. Head(ps) = ps[1] /\ Tail(ps) = [i \in 1..(n - 1) |-> ps[i + 1]]
    BY <1>1, <1>2, <1>3, <1>4, <1>5, <2>1
  <2>5. \A i \in 1..(n - 1) : ps[i + 1] = DateText(ds[i + 1])
    BY <1>1, <1>2, <2>1
  <2> QED BY <1>1, <1>2, <2>1, <2>3, <2>4, <2>5
<1> QED BY <1>4, <1>5

(* Where the reading of x's own text is: the parts that are read, the one  *)
(* in hand, and those to do are the parts of x; so are its dates.          *)
InPart(x, e, todo) ==
  PartsOf(x) = Append(ends, e) \o todo /\ part = e.kind /\ later = LaterText(todo, separator(text))

OnPart(x) ==
  \E todo \in Seq(Ends) : PartsOf(x) = ends \o todo /\ later = LaterText(todo, separator(text))

OnNext(x) ==
  \E e \in Ends, todo \in Seq(Ends), ds \in Seq(Dates) :
    InPart(x, e, todo) /\ DatesOf(e) = dates \o ds /\ slices = TextsOf(ds)

OnDate(x) ==
  \E e \in Ends, todo \in Seq(Ends), D \in Dates, ds \in Seq(Dates) :
    /\ InPart(x, e, todo) /\ DatesOf(e) = Append(dates, D) \o ds /\ slices = TextsOf(ds)
    /\ Reading(D)

Track(x) ==
  /\ pc # "rejected"
  /\ pc = "parsed" => value = Some(x)
  /\ IF x.type = "DateTime" THEN pc \in {"start", "parsed"}
     ELSE /\ pc = "part" => OnPart(x)
          /\ pc = "next" => OnNext(x)
          /\ pc \in Scanning => OnDate(x)

(* What has the text of an accepted expression is on its track.            *)
Tracks == \A x \in Expressions : Accepted(x) /\ text = display(x) => Track(x)

(* What is asked of the part in hand.                                      *)
LEMMA PartInHand ==
  ASSUME NEW x \in Expressions, Accepted(x), x.type # "DateTime",
         NEW past \in Seq(Ends), NEW e \in Ends, NEW todo \in Seq(Ends),
         PartsOf(x) = Append(past, e) \o todo
  PROVE  /\ ValidEnd(e)
         /\ shape(display(x)) = "Set" => is_dated(e) /\ range_agrees(e)
         /\ shape(display(x)) = "Date" => e.kind = "Date"
<1> DEFINE P == PartsOf(x)
           n == Len(past) + 1
<1>1. n \in DOMAIN P /\ P[n] = e
  <2>1. n \in DOMAIN (Append(past, e) \o todo) /\ (Append(past, e) \o todo)[n] = e
    BY InHand
  <2> QED BY <2>1
<1>2. \A i \in DOMAIN P : ValidEnd(P[i])
  BY PartFacts
<1>3. shape(display(x)) = "Set" => \A i \in DOMAIN P : is_dated(P[i]) /\ range_agrees(P[i])
  BY PartsDisplay
<1>4. ASSUME shape(display(x)) = "Date" PROVE e.kind = "Date"
  <2>1. P = <<At(x.date)>>
    BY <1>4, PartsDisplay
  <2> HIDE DEF P, n
  <2>2. n = 1 /\ P[1] = At(x.date)
    BY <1>1, <2>1
  <2> QED BY <1>1, <2>2 DEF At
<1> HIDE DEF P, n
<1> QED BY <1>1, <1>2, <1>3, <1>4

(* Of the date in hand.                                                    *)
LEMMA DateInHand ==
  ASSUME NEW e \in Ends, ValidEnd(e), NEW past \in Seq(Dates), NEW D \in Dates, NEW ds \in Seq(Dates),
         DatesOf(e) = Append(past, D) \o ds
  PROVE  ValidDate(D)
<1>1. \A i \in DOMAIN DatesOf(e) : ValidDate(DatesOf(e)[i])
  BY EndRead
<1>2. Len(past) + 1 \in DOMAIN (Append(past, D) \o ds) /\ (Append(past, D) \o ds)[Len(past) + 1] = D
  BY InHand
<1> QED BY <1>1, <1>2

(* Of the parts to do.                                                     *)
LEMMA PartsToDo ==
  ASSUME NEW x \in Expressions, Accepted(x), x.type # "DateTime",
         NEW past \in Seq(Ends), NEW todo \in Seq(Ends), PartsOf(x) = past \o todo
  PROVE  \A i \in DOMAIN todo : ValidEnd(todo[i])
<1> DEFINE P == past \o todo
           n == Len(past)
           m == Len(todo)
<1>1. \A i \in DOMAIN P : ValidEnd(P[i])
  BY PartFacts
<1>2. /\ Len(P) = n + m /\ P \in Seq(Ends) /\ n \in Nat /\ m \in Nat
      /\ \A i \in 1..(n + m) : P[i] = IF i <= n THEN past[i] ELSE todo[i - n]
  BY ConcatProperties, LenProperties, Zenon
<1>3. DOMAIN todo = 1..m
  BY LenProperties
<1> HIDE DEF P, n, m
<1>4. DOMAIN P = 1..(n + m)
  BY <1>2
<1>5. ASSUME NEW i \in 1..m PROVE ValidEnd(todo[i])
  <2>1. n + i \in 1..(n + m) /\ ~(n + i <= n) /\ (n + i) - n = i
    BY <1>2
  <2>2. P[n + i] = todo[i]
    BY <1>2, <2>1
  <2> QED BY <1>1, <1>4, <2>1, <2>2
<1> QED BY <1>3, <1>5

(* Types in hand.                                                          *)
LEMMA TrackTypes ==
  ASSUME IInv
  PROVE  /\ ends \in Seq(Ends) /\ dates \in Seq(Dates) /\ slices \in Seq(TokenText)
         /\ text \in TokenText
BY DEF IInv, TypeOK

-----------------------------------------------------------------------------
(* The reading of x's text stays on the track. *)

(* It is begun.                                                            *)
LEMMA DispatchTracks ==
  ASSUME IInv, NEW x \in Expressions, Accepted(x), text = display(x), Track(x), Dispatch
  PROVE  Track(x)'
<1>1. /\ pc = "start" /\ shape(text) # "DateTime" /\ pc' = "part" /\ later' = Some(undivided(text))
      /\ text' = text /\ ends' = ends /\ ends = <<>>
  BY DEF Dispatch, text_ahead, SameText, IInv, StartInv
<1>2. x.type # "DateTime"
  BY <1>1, DateTimeDisplay
<1>3. PartsOf(x) \in Seq(Ends) /\ PartsOf(x) # <<>> /\ PartsOf(x) = <<>> \o PartsOf(x)
  BY <1>2, PartFacts
<1>4. undivided(text) = separated(ElementTexts(PartsOf(x)), separator(text))
  BY <1>2, PartsDisplay
<1>5. later' = LaterText(PartsOf(x), separator(text'))
  BY <1>1, <1>3, <1>4 DEF LaterText
<1>6. OnPart(x)'
  BY <1>1, <1>3, <1>5 DEF OnPart
<1> QED BY <1>1, <1>2, <1>6 DEF Track, Scanning

(* A date-time is read at once.                                            *)
LEMMA ReadDateTimeTracks ==
  ASSUME IInv, NEW x \in Expressions, Accepted(x), text = display(x), Track(x), ReadDateTime
  PROVE  Track(x)'
<1>1. shape(text) = "DateTime" /\ pc' = "parsed"
  BY DEF ReadDateTime, date_time_ahead
<1>2. x.type = "DateTime"
  BY <1>1, PartsDisplay
<1>3. value' = Some(DateTimeExpr(plain_date(before(text, "T")), parse_time(Get(after(text, "T")))))
  BY DEF ReadDateTime
<1>4. DateTimeExpr(plain_date(before(text, "T")), parse_time(Get(after(text, "T")))) = x
  BY <1>2, DateTimeDisplay
<1>5. value' = Some(x)
  BY <1>3, <1>4
<1> QED BY <1>1, <1>2, <1>5 DEF Track

(* A part is cut off.                                                      *)
LEMMA NextPartTracks ==
  ASSUME IInv, NEW x \in Expressions, Accepted(x), text = display(x), Track(x), NextPart
  PROVE  Track(x)'
<1> DEFINE s == separator(text)
           p == before(Get(later), s)
<1>1. /\ pc = "part" /\ IsSome(later) /\ part' = part_kind(text, p) /\ slices' = date_slices(part_kind(text, p), p)
      /\ later' = after(Get(later), s) /\ pc' = "next" /\ dates' = <<>> /\ text' = text /\ ends' = ends
  BY DEF NextPart, part_ahead, SameText
<1>2. x.type # "DateTime" /\ OnPart(x)
  BY <1>1 DEF Track
<1>3. PICK todo \in Seq(Ends) : PartsOf(x) = ends \o todo /\ later = LaterText(todo, s)
  BY <1>2 DEF OnPart
<1>4. todo # <<>> /\ Get(later) = separated(ElementTexts(todo), s)
  BY <1>1, <1>3 DEF LaterText, IsSome, None, Some, Get
<1> DEFINE e == Head(todo)
           z == Tail(todo)
<1>5. ends \in Seq(Ends) /\ s \in Separators
  BY <1>2, TrackTypes, PartsDisplay
<1>6. PartsOf(x) = Append(ends, e) \o z /\ e \in Ends /\ z \in Seq(Ends)
  BY <1>3, <1>4, <1>5, NextOf
<1>7. \A i \in DOMAIN todo : ValidEnd(todo[i])
  BY <1>2, <1>3, <1>5, PartsToDo
<1> HIDE DEF s
<1>8. p = EndText(e) /\ later' = LaterText(z, s)
  BY <1>1, <1>4, <1>5, <1>7, NextCut
<1> HIDE DEF p, e, z
<1>9. ValidEnd(e) /\ (shape(text) = "Date" => e.kind = "Date")
  BY <1>2, <1>5, <1>6, PartInHand
<1>10. /\ kind_of(p) = e.kind /\ date_slices(e.kind, p) = TextsOf(DatesOf(e)) /\ DatesOf(e) \in Seq(Dates)
  BY <1>6, <1>8, <1>9, EndRead
<1>11. part_kind(text, p) = e.kind
  BY <1>9, <1>10 DEF part_kind
<1>12. InPart(x, e, z)'
  <2>1. separator(text') = s
    BY <1>1 DEF s
  <2> QED BY <1>1, <1>6, <1>8, <1>11, <2>1 DEF InPart
<1>13. DatesOf(e) = dates' \o DatesOf(e) /\ slices' = TextsOf(DatesOf(e))
  BY <1>1, <1>10, <1>11
<1>14. OnNext(x)'
  BY <1>6, <1>10, <1>12, <1>13 DEF OnNext
<1> QED BY <1>1, <1>2, <1>14 DEF Track, Scanning

(* A date of it is begun.                                                  *)
LEMMA NextDateTracks ==
  ASSUME IInv, NEW x \in Expressions, Accepted(x), text = display(x), Track(x), NextDate
  PROVE  Track(x)'
<1>1. /\ pc = "next" /\ slices # <<>> /\ pc' = "date" /\ rest' = Head(slices) /\ slices' = Tail(slices)
      /\ text' = text /\ later' = later /\ part' = part /\ ends' = ends /\ dates' = dates
  BY DEF NextDate, date_ahead, SamePart, SameText
<1>2. x.type # "DateTime" /\ OnNext(x)
  BY <1>1 DEF Track
<1>3. PICK e \in Ends, todo \in Seq(Ends), ds \in Seq(Dates) :
         InPart(x, e, todo) /\ DatesOf(e) = dates \o ds /\ slices = TextsOf(ds)
  BY <1>2 DEF OnNext
<1>4. ds # <<>> /\ Head(slices) = DateText(Head(ds)) /\ Tail(slices) = TextsOf(Tail(ds))
  BY <1>1, <1>3, NextText
<1> DEFINE D == Head(ds)
           z == Tail(ds)
<1>5. DatesOf(e) = Append(dates, D) \o z /\ D \in Dates /\ z \in Seq(Dates)
  <2>1. dates \in Seq(Dates)
    BY TrackTypes
  <2>2. Append(dates, D) \o z = dates \o ds /\ D \in Dates /\ z \in Seq(Dates)
    BY <1>4, <2>1, NextOf
  <2> QED BY <1>3, <2>2
<1>6. Reading(D)'
  BY <1>1, <1>4 DEF Reading
<1>7. InPart(x, e, todo)'
  BY <1>1, <1>3 DEF InPart
<1>8. DatesOf(e) = Append(dates', D) \o z /\ slices' = TextsOf(z)
  BY <1>1, <1>4, <1>5
<1> HIDE DEF D, z
<1>9. OnDate(x)'
  BY <1>5, <1>6, <1>7, <1>8 DEF OnDate
<1> QED BY <1>1, <1>2, <1>9 DEF Track, Scanning

(* It is scanned.                                                          *)
LEMMA ScanTracks ==
  ASSUME IInv, NEW x \in Expressions, Accepted(x), text = display(x), Track(x), ScanSteps
  PROVE  Track(x)'
<1>1. pc \in Scanning /\ pc' \in Scanning /\ SameDate
  BY DEF ScanSteps, ReadYear, year_ahead, ReadSignificant, significant_ahead, EndYear, year_end_ahead, ReadMonth,
     month_ahead, ReadDay, day_ahead, ReadMantissa, mantissa_ahead, NoExponent, no_exponent_ahead, ReadExponent,
     exponent_ahead, ReadPrefixedEnd, prefixed_end_ahead, Continue, SameYear, Scanning
<1>2. /\ text' = text /\ later' = later /\ part' = part /\ ends' = ends /\ dates' = dates /\ slices' = slices
  BY <1>1 DEF SameDate, SamePart, SameText
<1>3. x.type # "DateTime" /\ OnDate(x)
  BY <1>1 DEF Track, Scanning
<1>4. PICK e \in Ends, todo \in Seq(Ends), D \in Dates, ds \in Seq(Dates) :
         /\ InPart(x, e, todo) /\ DatesOf(e) = Append(dates, D) \o ds /\ slices = TextsOf(ds)
         /\ Reading(D)
  BY <1>3 DEF OnDate
<1>5. ValidEnd(e)
  BY <1>3, <1>4, TrackTypes, PartInHand DEF InPart
<1>6. ValidDate(D)
  BY <1>4, <1>5, TrackTypes, DateInHand
<1>7. Reading(D)'
  BY <1>1, <1>4, <1>6, Scans
<1>8. InPart(x, e, todo)' /\ DatesOf(e) = Append(dates', D) \o ds /\ slices' = TextsOf(ds)
  BY <1>2, <1>4 DEF InPart
<1>9. OnDate(x)'
  BY <1>7, <1>8 DEF OnDate
<1> QED BY <1>1, <1>3, <1>9 DEF Track, Scanning

(* It is read.                                                             *)
LEMMA FinishDateTracks ==
  ASSUME IInv, NEW x \in Expressions, Accepted(x), text = display(x), Track(x), FinishDate
  PROVE  Track(x)'
<1>1. /\ pc = "finish" /\ pc' = "next" /\ dates' = Append(dates, date) /\ slices' = slices
      /\ text' = text /\ later' = later /\ part' = part /\ ends' = ends
  BY DEF FinishDate, whole_date_ahead, SamePart, SameText
<1>2. x.type # "DateTime" /\ OnDate(x)
  BY <1>1 DEF Track, Scanning
<1>3. PICK e \in Ends, todo \in Seq(Ends), D \in Dates, ds \in Seq(Dates) :
         /\ InPart(x, e, todo) /\ DatesOf(e) = Append(dates, D) \o ds /\ slices = TextsOf(ds)
         /\ Reading(D)
  BY <1>2 DEF OnDate
<1>4. date = D
  BY <1>1, <1>3 DEF Reading
<1>5. InPart(x, e, todo)' /\ DatesOf(e) = dates' \o ds /\ slices' = TextsOf(ds)
  BY <1>1, <1>3, <1>4 DEF InPart
<1>6. OnNext(x)'
  BY <1>5 DEF OnNext
<1> QED BY <1>1, <1>2, <1>6 DEF Track, Scanning

(* What a part's dates make is the part.                                   *)
LEMMA EndInHand ==
  ASSUME IInv, NEW x \in Expressions, Accepted(x), text = display(x), x.type # "DateTime", OnNext(x), slices = <<>>
  PROVE  \E e \in Ends, todo \in Seq(Ends) :
           /\ InPart(x, e, todo) /\ endpoint(part, dates) = e
           /\ shape(text) = "Set" => is_dated(e) /\ range_agrees(e)
<1>1. PICK e \in Ends, todo \in Seq(Ends), ds \in Seq(Dates) :
         InPart(x, e, todo) /\ DatesOf(e) = dates \o ds /\ slices = TextsOf(ds)
  BY DEF OnNext
<1>2. ds = <<>>
  BY <1>1, NextText
<1>3. DatesOf(e) = dates
  <2>1. dates \in Seq(Dates)
    BY TrackTypes
  <2>2. dates \o <<>> = dates
    BY <2>1
  <2> QED BY <1>1, <1>2, <2>2
<1>4. ValidEnd(e) /\ (shape(text) = "Set" => is_dated(e) /\ range_agrees(e))
  BY <1>1, TrackTypes, PartInHand DEF InPart
<1>5. endpoint(e.kind, DatesOf(e)) = e
  BY <1>4, EndRead
<1>6. endpoint(part, dates) = e
  BY <1>1, <1>3, <1>5 DEF InPart
<1> QED BY <1>1, <1>4, <1>6

(* A part is read.                                                         *)
LEMMA EndPartTracks ==
  ASSUME IInv, NEW x \in Expressions, Accepted(x), text = display(x), Track(x), EndPart
  PROVE  Track(x)'
<1>1. /\ pc = "next" /\ slices = <<>> /\ pc' = "part" /\ ends' = Append(ends, endpoint(part, dates))
      /\ text' = text /\ later' = later
  BY DEF EndPart, part_end_ahead, SameText
<1>2. x.type # "DateTime" /\ OnNext(x)
  BY <1>1 DEF Track
<1>3. PICK e \in Ends, todo \in Seq(Ends) : InPart(x, e, todo) /\ endpoint(part, dates) = e
  BY <1>1, <1>2, EndInHand
<1>4. PartsOf(x) = ends' \o todo /\ later' = LaterText(todo, separator(text'))
  BY <1>1, <1>3 DEF InPart
<1>5. OnPart(x)'
  BY <1>4 DEF OnPart
<1> QED BY <1>1, <1>2, <1>5 DEF Track, Scanning

(* All parts are read.                                                     *)
LEMMA AllRead ==
  ASSUME IInv, NEW x, OnPart(x), later = None
  PROVE  ends = PartsOf(x)
<1>1. PICK todo \in Seq(Ends) : PartsOf(x) = ends \o todo /\ later = LaterText(todo, separator(text))
  BY DEF OnPart
<1>2. todo = <<>>
  BY <1>1 DEF LaterText, None, Some
<1>3. ends \in Seq(Ends)
  BY TrackTypes
<1>4. ends \o <<>> = ends
  BY <1>3
<1> QED BY <1>1, <1>2, <1>4

(* They make x.                                                            *)
LEMMA AssembleTracks ==
  ASSUME IInv, NEW x \in Expressions, Accepted(x), text = display(x), Track(x), Assemble
  PROVE  Track(x)'
<1>1. pc = "part" /\ later = None /\ pc' = "parsed" /\ value' = Some(put_together(text, ends))
  BY DEF Assemble, end_ahead
<1>2. x.type # "DateTime" /\ OnPart(x)
  BY <1>1 DEF Track
<1>3. put_together(text, ends) = x
  BY <1>1, <1>2, AllRead, PartsDisplay
<1>4. value' = Some(x)
  BY <1>1, <1>3
<1> QED BY <1>1, <1>2, <1>4 DEF Track, Scanning

(* What is on the track is readable.                                       *)
LEMMA TrackReadable ==
  ASSUME IInv, NEW x \in Expressions, Accepted(x), text = display(x), Track(x), ~Ended
  PROVE  Readable
<1>1. pc \in {"start", "part", "next"} \cup Scanning
  BY DEF Ended, IInv, TypeOK
<1>2. CASE pc = "start"
  <2>1. CASE x.type = "DateTime"
    BY <1>2, <2>1, DateTimeDisplay DEF Readable, date_time_ahead
  <2>2. CASE x.type # "DateTime"
    <3>1. /\ text # <<>> /\ shape(text) = x.type
          /\ shape(text) = "Set" => Len(text) > 1 /\ text[Len(text)] = Brackets(set_kind(text))[2]
      BY <2>2, PartsDisplay
    <3> QED BY <1>2, <2>2, <3>1 DEF Readable, text_ahead
  <2> QED BY <2>1, <2>2
<1>3. CASE pc = "part"
  <2>1. x.type # "DateTime" /\ OnPart(x)
    BY <1>3 DEF Track
  <2>2. CASE later = None
    <3>1. ends = PartsOf(x)
      BY <2>1, <2>2, AllRead
    <3>2. shape(text) = "Interval" => Len(ends) = 2 /\ ends_agree(ends[1], ends[2])
      BY <2>1, <3>1, PartsDisplay
    <3> QED BY <1>3, <2>2, <3>2 DEF Readable, end_ahead
  <2>3. CASE later # None
    BY <1>3, <2>3 DEF Readable, part_ahead, IsSome
  <2> QED BY <2>2, <2>3
<1>4. CASE pc = "next"
  <2>1. x.type # "DateTime" /\ OnNext(x)
    BY <1>4 DEF Track
  <2>2. CASE slices = <<>>
    <3>1. shape(text) = "Set" => is_dated(endpoint(part, dates)) /\ range_agrees(endpoint(part, dates))
      BY <2>1, <2>2, EndInHand
    <3> QED BY <1>4, <2>2, <3>1 DEF Readable, part_end_ahead
  <2>3. CASE slices # <<>>
    BY <1>4, <2>3 DEF Readable, date_ahead
  <2> QED BY <2>2, <2>3
<1>5. CASE pc \in Scanning
  <2>1. x.type # "DateTime" /\ OnDate(x)
    BY <1>5 DEF Track, Scanning
  <2>2. PICK e \in Ends, todo \in Seq(Ends), D \in Dates, ds \in Seq(Dates) :
           /\ InPart(x, e, todo) /\ DatesOf(e) = Append(dates, D) \o ds /\ Reading(D)
    BY <2>1 DEF OnDate
  <2>3. ValidEnd(e)
    BY <2>1, <2>2, TrackTypes, PartInHand DEF InPart
  <2>4. ValidDate(D)
    BY <2>2, <2>3, TrackTypes, DateInHand
  <2> QED BY <1>5, <2>2, <2>4, Scans
<1> QED BY <1>1, <1>2, <1>3, <1>4, <1>5

-----------------------------------------------------------------------------
(* A step of the parser keeps what it reads on the track.                  *)
LEMMA NextTracks == IInv /\ Tracks /\ [Next]_vars => Tracks'
<1> SUFFICES ASSUME IInv, Tracks, [Next]_vars, NEW x \in Expressions, Accepted(x), text' = display(x)
             PROVE  Track(x)'
  BY DEF Tracks
<1>1. CASE Read
  <2>1. text' = text
    BY <1>1 DEF Read, Dispatch, ReadDateTime, NextPart, NextDate, ReadYear, ReadSignificant, EndYear, ReadMonth,
       ReadDay, ReadMantissa, NoExponent, ReadExponent, ReadPrefixedEnd, FinishDate, EndPart, Assemble,
       SameYear, SameDate, SamePart, SameText
  <2>2. text = display(x) /\ Track(x)
    BY <2>1 DEF Tracks
  <2> QED BY <1>1, <2>2, DispatchTracks, ReadDateTimeTracks, NextPartTracks, NextDateTracks, ScanTracks,
             FinishDateTracks, EndPartTracks, AssembleTracks DEF Read, ScanSteps
<1>2. CASE Reject
  <2>1. text' = text
    BY <1>2 DEF Reject
  <2>2. text = display(x) /\ Track(x)
    BY <2>1 DEF Tracks
  <2> QED BY <1>2, <2>2, TrackReadable DEF Reject
<1>3. CASE Render
  <2>1. pc' = "start"
    BY <1>3 DEF Render
  <2> QED BY <2>1 DEF Track, Scanning
<1>4. CASE Done \/ UNCHANGED vars
  <2>1. UNCHANGED vars
    BY <1>4 DEF Done
  <2>2. text = display(x) /\ Track(x)
    BY <2>1 DEF Tracks, vars
  <2>3. /\ pc' = pc /\ value' = value /\ later' = later /\ text' = text /\ ends' = ends /\ part' = part
        /\ dates' = dates /\ slices' = slices /\ rest' = rest /\ date' = date
    BY <2>1 DEF vars
  <2>4. OnPart(x)' <=> OnPart(x)
    BY <2>3 DEF OnPart
  <2>5. \A e, todo : InPart(x, e, todo)' <=> InPart(x, e, todo)
    BY <2>3 DEF InPart
  <2>6. \A D : Reading(D)' <=> Reading(D)
    BY <2>3 DEF Reading
  <2>7. OnNext(x)' <=> OnNext(x)
    BY <2>3, <2>5 DEF OnNext
  <2>8. OnDate(x)' <=> OnDate(x)
    BY <2>3, <2>5, <2>6 DEF OnDate
  <2> QED BY <2>2, <2>3, <2>4, <2>7, <2>8 DEF Track
<1> QED BY <1>1, <1>2, <1>3, <1>4 DEF Next

(* Whatever has the text of an accepted expression is on its track.        *)
THEOREM Tracked == Spec => []Tracks
<1>1. Init => Tracks
  BY DEF Init, Tracks, Track, Scanning
<1>2. Spec => []IInv
  BY InvariantHolds
<1> QED BY <1>1, <1>2, NextTracks, PTL DEF Spec

(* The rendered text of what was parsed is never rejected, and is parsed   *)
(* to the same value.                                                      *)
THEOREM ReadsItsOwnText == Spec => []RoundTrip
<1>1. IInv /\ Tracks => RoundTrip
  <2> SUFFICES ASSUME IInv, Tracks, IsSome(first) PROVE pc # "rejected" /\ (pc = "parsed" => value = first)
    BY DEF RoundTrip
  <2>1. first \in Option(Expressions) /\ Accepted(Get(first)) /\ text = display(Get(first))
    BY DEF IInv, TypeOK, FirstInv
  <2>2. Get(first) \in Expressions /\ first = Some(Get(first))
    BY <2>1, Options DEF IsSome
  <2>3. Track(Get(first))
    BY <2>1, <2>2 DEF Tracks
  <2> QED BY <2>2, <2>3 DEF Track
<1>2. Spec => []IInv
  BY InvariantHolds
<1>3. Spec => []Tracks
  BY Tracked
<1> QED BY <1>1, <1>2, <1>3, PTL

(* No rendered text of an accepted expression is rejected.                 *)
THEOREM ReadsEveryExpression == Spec => []KnownIsRead
<1>1. Tracks => KnownIsRead
  BY KnownAssumption DEF Tracks, KnownIsRead, Track
<1>2. Spec => []Tracks
  BY Tracked
<1> QED BY <1>1, <1>2, PTL
=============================================================================
