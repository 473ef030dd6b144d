----------------------------- MODULE Bounds_proof -----------------------------
(***************************************************************************)
(* Lemmas about the bounds of an expression, for every i64 width: what the *)
(* parser accepts has bounds that are days of the calendar, in order.      *)
(***************************************************************************)
EXTENDS Validate, FiniteSetTheorems, WellFoundedInduction, TLAPS

I64Years == I64Min..I64Max
CalendarDay == Position("Day", I64Years)
WellFormed(r) == IsBounds(r, I64Years)

(* The years four digits write. *)
WrittenYears == 0..9999

-----------------------------------------------------------------------------
(* The calendar: the order of positions is total, and successor steps to   *)
(* the very next position.                                                 *)
Precisions == {"Year", "Month", "Day"}
Triples == Int \X Int \X Int

(* A month has between 28 and 31 days, December 31 (bounds.rs last_day).   *)
LEMMA LastDayBounds ==
  ASSUME NEW m, NEW leap
  PROVE  last_day(m, leap) \in 28..31 /\ (m = 12 => last_day(m, leap) = 31)
BY DEF last_day

(* A position is a triple of integers.                                     *)
LEMMA PositionIsTriple ==
  ASSUME NEW p, NEW years, years \subseteq Int, NEW t \in Position(p, years)
  PROVE  /\ t \in Triples
         /\ t = <<t[1], t[2], t[3]>>
         /\ t[1] \in Int /\ t[2] \in 0..12 /\ t[3] \in 0..31
         /\ t[1] \in years
         /\ t \in Position(p, Int)
<1>1. t \in years \X (0..12) \X (0..31)
  BY DEF Position
<1>2. /\ t = <<t[1], t[2], t[3]>>
      /\ t[1] \in years /\ t[2] \in 0..12 /\ t[3] \in 0..31
  BY <1>1
<1>3. t[1] \in Int
  BY <1>2
<1>4. t \in Int \X (0..12) \X (0..31)
  BY <1>2, <1>3
<1>5. t \in Triples
  BY <1>4 DEF Triples
<1>6. t \in Position(p, Int)
  BY <1>4 DEF Position
<1> QED BY <1>2, <1>3, <1>5, <1>6

(* Before is a total order on triples of integers.                         *)
LEMMA OrderTotal ==
  ASSUME NEW s \in Triples, NEW t \in Triples
  PROVE  /\ Before(s, t) \/ s = t \/ Before(t, s)
         /\ ~(Before(s, t) /\ Before(t, s))
         /\ ~Before(s, s)
BY DEF Before, Triples

(* Before is transitive.                                                   *)
LEMMA OrderTransitive ==
  ASSUME NEW s \in Triples, NEW t \in Triples, NEW u \in Triples,
         Before(s, t), Before(t, u)
  PROVE  Before(s, u)
BY DEF Before, Triples

(* Nothing lies between a position and its successor: whatever comes       *)
(* before the successor is at most the position itself.                    *)
THEOREM SuccessorIsNext ==
  ASSUME NEW p \in Precisions, NEW c \in Position(p, Int), NEW t \in Position(p, Int)
  PROVE  Before(t, successor(p, c)) <=> AtMost(t, c)
<1> DEFINE L == last_day(c[2], is_leap(c[1]))
<1>1. c = <<c[1], c[2], c[3]>> /\ t = <<t[1], t[2], t[3]>>
  BY PositionIsTriple
<1>2. /\ c[1] \in Int /\ c[2] \in 0..12 /\ c[3] \in 0..31
      /\ t[1] \in Int /\ t[2] \in 0..12 /\ t[3] \in 0..31
  BY PositionIsTriple
<1>3. c = t <=> (c[1] = t[1] /\ c[2] = t[2] /\ c[3] = t[3])
  BY <1>1
<1>4. CASE p = "Year"
  <2>1. c[2] = 0 /\ c[3] = 0 /\ t[2] = 0 /\ t[3] = 0
    BY <1>4 DEF Position
  <2> QED BY <1>2, <1>3, <1>4, <2>1 DEF successor, Before, AtMost
<1>5. CASE p = "Month"
  <2>1. c[2] \in 1..12 /\ c[3] = 0 /\ t[2] \in 1..12 /\ t[3] = 0
    BY <1>2, <1>5 DEF Position
  <2> QED BY <1>2, <1>3, <1>5, <2>1 DEF successor, next_month, Before, AtMost
<1>6. CASE p = "Day"
  <2>1. IsDay(c) /\ IsDay(t)
    BY <1>6 DEF Position
  <2>2. /\ c[2] \in 1..12 /\ t[2] \in 1..12
        /\ L \in 28..31 /\ c[3] \in 1..L
        /\ t[3] \in Int /\ t[3] >= 1
        /\ (t[1] = c[1] /\ t[2] = c[2] => t[3] <= L)
    BY <2>1, LastDayBounds DEF IsDay
  <2> HIDE DEF L
  <2>3. successor(p, c) = IF c[3] < L THEN <<c[1], c[2], c[3] + 1>>
                          ELSE IF c[2] = 12 THEN <<c[1] + 1, 1, 1>>
                          ELSE <<c[1], c[2] + 1, 1>>
    BY <1>6 DEF successor, next_month, L
  <2> QED BY <1>2, <1>3, <2>2, <2>3 DEF Before, AtMost
<1> QED BY <1>4, <1>5, <1>6 DEF Precisions

(* The successor is a position of the same precision, in this year or the  *)
(* next.                                                                   *)
LEMMA SuccessorIsPosition ==
  ASSUME NEW p \in Precisions, NEW c \in Position(p, Int)
  PROVE  successor(p, c) \in Position(p, Int) /\ successor(p, c)[1] \in {c[1], c[1] + 1}
<1> DEFINE s == successor(p, c)
<1>1. c = <<c[1], c[2], c[3]>> /\ c[1] \in Int
  BY PositionIsTriple
<1>2. CASE p = "Year"
  BY <1>1, <1>2 DEF successor, Position
<1>3. CASE p = "Month"
  <2>1. c[2] \in 1..12
    BY <1>3 DEF Position
  <2> QED BY <1>1, <1>3, <2>1 DEF successor, next_month, Position
<1>4. CASE p = "Day"
  <2>1. c[2] \in 1..12 /\ c[3] \in 1..last_day(c[2], is_leap(c[1]))
    BY <1>4 DEF Position, IsDay
  <2>2. IsDay(s)
    BY <1>1, <1>4, <2>1, LastDayBounds DEF successor, next_month, IsDay
  <2>3. s \in Int \X (0..12) \X (0..31) /\ s[1] \in {c[1], c[1] + 1}
    BY <1>1, <1>4, <2>1, LastDayBounds DEF successor, next_month
  <2> QED BY <1>4, <2>2, <2>3 DEF Position
<1> QED BY <1>2, <1>3, <1>4 DEF Precisions

-----------------------------------------------------------------------------
(* Induction without an operator to instantiate: a set of numbers has a    *)
(* least one, so a set that holds 0 and grows by one holds all of 0..n.    *)
LEMMA Least ==
  ASSUME NEW S, S \subseteq Nat, S # {}
  PROVE  \E least \in S : \A k \in S : least <= k
<1> DEFINE R == {p \in Nat \X Nat : p[1] < p[2]}
<1>1. IsWellFoundedOn(R, Nat)
  BY NatLessThanWellFounded DEF OpToRel
<1>2. PICK least \in S : \A k \in S : ~(<<k, least>> \in R)
  BY <1>1, WFMin
<1>3. ASSUME NEW k \in S PROVE least <= k
  <2>1. least \in Nat /\ k \in Nat
    OBVIOUS
  <2>2. ~(<<k, least>> \in R)
    BY <1>2
  <2> QED BY <2>1, <2>2
<1> QED BY <1>3

(* What holds at 0 and climbs one step at a time holds up to n.            *)
LEMMA Climb ==
  ASSUME NEW n \in Nat, NEW G, 0 \in G,
         \A i \in 1..n : i - 1 \in G => i \in G
  PROVE  0..n \subseteq G
<1> DEFINE missing == 0..n \ G
<1>1. SUFFICES ASSUME missing # {} PROVE FALSE
  OBVIOUS
<1>2. missing \subseteq Nat
  OBVIOUS
<1>3. PICK least \in missing : \A k \in missing : least <= k
  <2> HIDE DEF missing
  <2> QED BY <1>1, <1>2, Least
<1>4. least \in 1..n /\ least - 1 \in 0..n
  OBVIOUS
<1>5. least - 1 \notin missing
  BY <1>3, <1>4
<1> QED BY <1>4, <1>5

(* A function defined by its value at 0 and a step exists.                 *)
Iterated(n, S, base, F) ==
  \E h \in [0..n -> S] : h[0] = base /\ \A i \in 1..n : h[i] = F[i][h[i - 1]]

(* A bounded fold: n steps, each a function on S, starting from base.      *)
LEMMA Stepwise ==
  ASSUME NEW n \in Nat, NEW S, NEW base \in S, NEW F \in [1..n -> [S -> S]]
  PROVE  Iterated(n, S, base, F)
<1> DEFINE Built(k) == \E h \in [0..k -> S] : h[0] = base /\ \A i \in 1..k : h[i] = F[i][h[i - 1]]
           G == {k \in 0..n : Built(k)}
<1>1. Built(0)
  <2> DEFINE h == [i \in 0..0 |-> base]
  <2>1. h \in [0..0 -> S] /\ h[0] = base
    OBVIOUS
  <2>2. \A i \in 1..0 : h[i] = F[i][h[i - 1]]
    OBVIOUS
  <2> HIDE DEF h
  <2> QED BY <2>1, <2>2
<1>2. ASSUME NEW k \in 1..n, Built(k - 1)
      PROVE  Built(k)
  <2>1. PICK g \in [0..(k - 1) -> S] : g[0] = base /\ \A i \in 1..(k - 1) : g[i] = F[i][g[i - 1]]
    BY <1>2
  <2> DEFINE h == [i \in 0..k |-> IF i = k THEN F[k][g[k - 1]] ELSE g[i]]
  <2>2. F[k][g[k - 1]] \in S
    OBVIOUS
  <2>3. h \in [0..k -> S]
    BY <2>2
  <2>4. h[0] = base
    BY <2>1
  <2>5. ASSUME NEW i \in 1..k PROVE h[i] = F[i][h[i - 1]]
    <3>1. k \in Nat /\ i - 1 \in 0..k /\ i - 1 # k /\ h[i - 1] = g[i - 1]
      OBVIOUS
    <3>2. CASE i = k
      BY <3>1, <3>2
    <3>3. CASE i # k
      <4>1. i \in 1..(k - 1) /\ h[i] = g[i]
        BY <3>3
      <4> QED BY <2>1, <3>1, <4>1
    <3> QED BY <3>2, <3>3
  <2> HIDE DEF h
  <2> QED BY <2>3, <2>4, <2>5
<1>3. 0 \in G /\ \A i \in 1..n : i - 1 \in G => i \in G
  <2> HIDE DEF Built
  <2> QED BY <1>1, <1>2
<1>4. 0..n \subseteq G
  <2> HIDE DEF G
  <2> QED BY <1>3, Climb
<1> QED BY <1>4 DEF Iterated

-----------------------------------------------------------------------------
(* The arithmetic of years. *)
LEMMA Numbers ==
  /\ I64Years \subseteq Int /\ I64Max \in Nat /\ I64Min \in Int /\ I64Min = -I64Max - 1
  /\ I64Max > 99999 /\ MaxPow10 \in Nat
BY I64Assumption DEF I64Years

(* Some and None tell a value from no value, and Get undoes Some.          *)
LEMMA SomeFacts ==
  /\ \A v : Some(v) # None /\ Get(Some(v)) = v
  /\ \A u, v : Some(u) = Some(v) <=> u = v
BY DEF Some, None, Get

(* A magnitude that fits has at most as many digits as i64::MAX.           *)
LEMMA DigitsCounted ==
  ASSUME NEW n \in 0..(I64Max + 1)
  PROVE  decimal_digits(n) \in 1..(MaxPow10 + 1) /\ n < 10^decimal_digits(n)
<1> DEFINE K == {k \in 1..(MaxPow10 + 1) : n < 10^k}
<1>1. MaxPow10 + 1 \in K /\ K \subseteq Nat
  BY Numbers, I64Assumption
<1>2. PICK least \in K : \A k \in K : least <= k
  <2> HIDE DEF K
  <2> QED BY <1>1, Least
<1>3. least \in 1..(MaxPow10 + 1) /\ n < 10^least
  OBVIOUS
<1>4. least = 1 \/ n >= 10^(least - 1)
  <2>1. SUFFICES ASSUME least # 1 PROVE n >= 10^(least - 1)
    OBVIOUS
  <2>2. least - 1 \in 1..(MaxPow10 + 1)
    BY <1>3, <2>1, Numbers
  <2>3. ~(n < 10^(least - 1))
    BY <1>2, <1>3, <2>2
  <2>4. 10^(least - 1) \in Int
    BY <2>2, Numbers, I64Assumption
  <2> QED BY <2>3, <2>4
<1> HIDE DEF K
<1> QED BY <1>3, <1>4 DEF decimal_digits

(* A product stays between -q - 1 and q when the quotient test passes.     *)
LEMMA ProductFits ==
  ASSUME NEW n \in Int, NEW p \in Nat \ {0}, NEW q \in Nat, n <= q \div p, n >= -((q + 1) \div p)
  PROVE  n * p \in (-q - 1)..q
<1> DEFINE u == q \div p
           l == (q + 1) \div p
<1>1. u \in Int /\ l \in Int /\ u * p <= q /\ l * p <= q + 1
  OBVIOUS
<1> HIDE DEF u, l
<1>2. n <= u /\ n >= -l
  BY DEF u, l
<1>3. n * p <= u * p
  BY <1>1, <1>2
<1>4. n * p >= (-l) * p
  BY <1>1, <1>2
<1>5. (-l) * p = -(l * p)
  BY <1>1
<1>6. n * p \in Int /\ u * p \in Int /\ l * p \in Int
  BY <1>1
<1> QED BY <1>1, <1>3, <1>4, <1>5, <1>6

(* Four digits, their masked places filled, are a four-digit number; more  *)
(* filling gives no smaller one.                                           *)
LEMMA YearValue ==
  ASSUME NEW digits \in [1..4 -> MaskDigit]
  PROVE  /\ \A fill \in 0..9 : year_value(digits, fill) \in WrittenYears
         /\ year_value(digits, 0) <= year_value(digits, 9)
<1> DEFINE at(i, fill) == IF digits[i] = X THEN fill ELSE digits[i]
<1>1. ASSUME NEW i \in 1..4, NEW fill \in 0..9
      PROVE  at(i, fill) \in 0..9 /\ at(i, 0) <= at(i, fill)
  <2>1. digits[i] \in 0..9 \/ digits[i] = X
    BY DEF MaskDigit, Digit
  <2> QED BY <2>1
<1>2. ASSUME NEW fill \in 0..9
      PROVE  year_value(digits, fill) = 1000 * at(1, fill) + 100 * at(2, fill) + 10 * at(3, fill) + at(4, fill)
  BY DEF year_value
<1>3. 0 \in 0..9 /\ 9 \in 0..9 /\ 1 \in 1..4 /\ 2 \in 1..4 /\ 3 \in 1..4 /\ 4 \in 1..4
  OBVIOUS
<1> HIDE DEF at
<1>4. ASSUME NEW fill \in 0..9 PROVE year_value(digits, fill) \in WrittenYears
  <2>1. PICK i, j, k, l \in 0..9 : i = at(1, fill) /\ j = at(2, fill) /\ k = at(3, fill) /\ l = at(4, fill)
    BY <1>1, <1>3
  <2>2. year_value(digits, fill) = 1000 * i + 100 * j + 10 * k + l
    BY <1>2, <2>1
  <2> QED BY <2>2 DEF WrittenYears
<1>5. year_value(digits, 0) <= year_value(digits, 9)
  <2>1. PICK i, j, k, l \in 0..9 : i = at(1, 0) /\ j = at(2, 0) /\ k = at(3, 0) /\ l = at(4, 0)
    BY <1>1, <1>3
  <2>2. PICK p, q, r, s \in 0..9 : p = at(1, 9) /\ q = at(2, 9) /\ r = at(3, 9) /\ s = at(4, 9)
    BY <1>1, <1>3
  <2>3. i <= p /\ j <= q /\ k <= r /\ l <= s
    BY <1>1, <1>3, <2>1, <2>2
  <2>4. /\ year_value(digits, 0) = 1000 * i + 100 * j + 10 * k + l
        /\ year_value(digits, 9) = 1000 * p + 100 * q + 10 * r + s
    BY <1>2, <1>3, <2>1, <2>2
  <2> QED BY <2>3, <2>4
<1> QED BY <1>4, <1>5

SignedYears == -9999..9999

(* The sign of a written year keeps it within four digits.                 *)
LEMMA SignedYear ==
  ASSUME NEW negative \in BOOLEAN, NEW v \in WrittenYears
  PROVE  (IF negative THEN -1 ELSE 1) * v \in SignedYears /\ v \in SignedYears
<1>1. v \in 0..9999
  BY DEF WrittenYears
<1>2. CASE negative
  <2>1. (IF negative THEN -1 ELSE 1) * v = -v
    BY <1>1, <1>2
  <2> QED BY <1>1, <2>1 DEF SignedYears
<1>3. CASE ~negative
  <2>1. (IF negative THEN -1 ELSE 1) * v = v
    BY <1>1, <1>3
  <2> QED BY <1>1, <2>1 DEF SignedYears
<1> QED BY <1>2, <1>3

(* A year of four digits is an i64, and not the last of them.              *)
LEMMA SignedYearsFit ==
  ASSUME NEW n \in SignedYears
  PROVE  n \in I64Years /\ n < I64Max /\ n <= n
BY Numbers DEF I64Years, SignedYears

(* Every year that has a value has one that fits an i64 (types.rs value()). *)
LEMMA YearFits ==
  ASSUME NEW kind, IsYearKind(kind)
  PROVE  year_of(kind) = None \/ (year_of(kind) = Some(Get(year_of(kind))) /\ Get(year_of(kind)) \in I64Years)
<1>0. \A v : Some(v) # None /\ Get(Some(v)) = v
  BY DEF Some, None, Get
<1>1. CASE kind.form = "Standard"
  <2>1. kind.negative \in BOOLEAN /\ kind.digits \in [1..4 -> MaskDigit]
    BY <1>1 DEF IsYearKind
  <2> DEFINE v == year_value(kind.digits, 0)
             signed == (IF kind.negative THEN -1 ELSE 1) * v
  <2>2. v \in WrittenYears
    <3>1. 0 \in 0..9
      OBVIOUS
    <3> QED BY <2>1, <3>1, YearValue
  <2> HIDE DEF v
  <2>4. signed \in I64Years
    <3>1. signed \in SignedYears
      BY <2>1, <2>2, SignedYear
    <3> HIDE DEF signed
    <3> QED BY <3>1, SignedYearsFit
  <2>5. year_of(kind) = IF has_x(kind.digits) THEN None ELSE Some(signed)
    BY <1>1, Zenon DEF year_of, v
  <2> HIDE DEF signed
  <2>6. CASE has_x(kind.digits)
    BY <2>5, <2>6
  <2>7. CASE ~has_x(kind.digits)
    BY <1>0, <2>4, <2>5, <2>7
  <2> QED BY <2>6, <2>7
<1>2. CASE kind.form = "Big"
  <2>1. year_of(kind) = Some(kind.value)
    BY <1>2, Zenon DEF year_of
  <2> QED BY <1>0, <1>2, <2>1 DEF IsYearKind, I64Years
<1>3. CASE kind.form = "Exponential"
  <2>1. kind.significand \in I64Years /\ kind.exponent \in Nat
    BY <1>3 DEF IsYearKind, I64Years
  <2>2. year_of(kind) = scaled(kind.significand, checked_pow10(kind.exponent))
    <3>1. kind.form # "Standard" /\ kind.form # "Big"
      BY <1>3
    <3> QED BY <1>3, <3>1, Zenon DEF year_of
  <2>3. CASE kind.exponent > MaxPow10
    BY <2>2, <2>3 DEF scaled, checked_pow10, None
  <2>4. CASE ~(kind.exponent > MaxPow10)
    <3> DEFINE n == kind.significand
               p == 10^kind.exponent
    <3>1. p \in Nat \ {0} /\ n \in Int
      <4>1. kind.exponent \in 0..MaxPow10
        BY <2>1, <2>4, Numbers
      <4>2. p \in 1..I64Max
        BY <4>1, I64Assumption
      <4>3. n \in Int
        <5>1. I64Years \subseteq Int
          BY Numbers
        <5> QED BY <2>1, <5>1, Zenon
      <4> HIDE DEF n, p
      <4> QED BY <4>2, <4>3, Numbers
    <3>2. year_of(kind) = checked_mul(n, p)
      BY <1>0, <2>2, <2>4 DEF scaled, checked_pow10
    <3> HIDE DEF n, p
    <3>3. CASE n > I64Max \div p \/ n < -((I64Max + 1) \div p)
      BY <3>2, <3>3 DEF checked_mul
    <3>4. CASE ~(n > I64Max \div p) /\ ~(n < -((I64Max + 1) \div p))
      <4>1. I64Max \div p \in Int /\ (I64Max + 1) \div p \in Int
        BY <3>1, Numbers
      <4>2. n * p \in (-I64Max - 1)..I64Max
        BY <3>1, <3>4, <4>1, Numbers, ProductFits
      <4>3. year_of(kind) = Some(n * p) /\ n * p \in I64Years
        BY <3>2, <3>4, <4>2, Numbers DEF checked_mul, I64Years
      <4> QED BY <1>0, <4>3
    <3> QED BY <3>3, <3>4
  <2> QED BY <2>3, <2>4
<1> QED BY <1>1, <1>2, <1>3 DEF IsYearKind

(* A sweep over the trailing digits is a range of years, in order, that    *)
(* fits an i64; where it would not fit there is none (bounds.rs            *)
(* significant_range()).                                                   *)
LEMMA SweepFits ==
  ASSUME NEW value \in I64Years, NEW sig, IsSignificance(sig), NEW width \in Int
  PROVE  \/ significant_range(value, sig, width) = None
         \/ \E lo \in I64Years, hi \in I64Years :
              lo <= hi /\ significant_range(value, sig, width) = Some(<<lo, hi>>)
<1>0. /\ \A v : Some(v) # None /\ Get(Some(v)) = v
      /\ \A u, v : Some(u) = Some(v) <=> u = v
  BY DEF Some, None, Get
<1> DEFINE w == sweep_width(sig, width)
<1>1. CASE sig = None \/ checked_pow10(w) = None
  BY <1>1, Numbers DEF significant_range
<1>2. CASE ~(sig = None \/ checked_pow10(w) = None)
  <2>1. Get(sig) \in Nat
    BY <1>2 DEF IsSignificance
  <2>2. w \in Nat
    BY <2>1 DEF sweep_width
  <2> HIDE DEF w
  <2>3. w \in 0..MaxPow10
    BY <1>2, <2>2, Numbers DEF checked_pow10
  <2> DEFINE modulus == 10^w
             mag == Abs(value)
             lo == mag - (mag % modulus)
  <2>4. modulus \in 1..I64Max
    BY <2>3, I64Assumption
  <2>5. significant_range(value, sig, width) = swept_range(value, modulus)
    BY <1>2 DEF significant_range, w
  <2> HIDE DEF modulus
  <2>6. mag \in Nat
    BY Numbers DEF Abs
  <2>7. CASE mag > I64Max
    BY <2>5, <2>7 DEF swept_range
  <2>8. CASE ~(mag > I64Max)
    <3>1. swept_range(value, modulus) = signed_range(value < 0, lo, checked_add(lo, modulus - 1))
      BY <2>8 DEF swept_range
    <3>2. lo \in 0..I64Max
      BY <2>4, <2>6, <2>8, Numbers
    <3> HIDE DEF lo
    <3>3. CASE lo > I64Max - (modulus - 1)
      BY <2>5, <3>1, <3>3 DEF signed_range, checked_add
    <3>4. CASE ~(lo > I64Max - (modulus - 1))
      <4>1. checked_add(lo, modulus - 1) = Some(lo + (modulus - 1))
        BY <3>4 DEF checked_add
      <4>2. lo + (modulus - 1) \in lo..I64Max
        BY <2>4, <3>2, <3>4, Numbers
      <4> DEFINE hi == lo + (modulus - 1)
      <4> HIDE DEF hi
      <4>3. swept_range(value, modulus) = IF value < 0 THEN Some(<<-hi, -lo>>) ELSE Some(<<lo, hi>>)
        BY <1>0, <3>1, <4>1 DEF signed_range, hi
      <4>4. lo \in I64Years /\ hi \in I64Years /\ -lo \in I64Years /\ -hi \in I64Years /\ lo <= hi /\ -hi <= -lo
        BY <3>2, <4>2, Numbers DEF I64Years, hi
      <4> QED BY <2>5, <4>3, <4>4
    <3> QED BY <3>3, <3>4
  <2> QED BY <2>7, <2>8
<1> QED BY <1>1, <1>2

-----------------------------------------------------------------------------
(* The search of bounds.rs extremum_in_year() and extremum(): lists of     *)
(* candidates, and the first try that finds something.                     *)
Rising(c, last) == /\ Len(c) \in Nat /\ DOMAIN c = 1..Len(c)
                   /\ \A i \in 1..Len(c) : c[i] \in 1..last
                   /\ \A i, j \in 1..Len(c) : i < j => c[i] < c[j]

Lists(c, k) == \E i \in 1..Len(c) : c[i] = k

(* The numbers a masked field admits are listed in order, none twice and   *)
(* none left out.                                                          *)
LEMMA Candidates ==
  ASSUME NEW f, NEW last \in Nat
  PROVE  /\ Rising(candidates_of(f, last), last)
         /\ \A k \in 1..last : field_matches(f.digits, k) <=> Lists(candidates_of(f, last), k)
<1> DEFINE S == Seq(Nat)
           F == [i \in 1..last |-> [s \in S |->
                   IF field_matches(f.digits, i) THEN Append(s, i) ELSE s]]
           Listed(h) == h = [v \in 0..last |->
                               IF v = 0 THEN <<>>
                               ELSE IF field_matches(f.digits, v) THEN Append(h[v - 1], v)
                               ELSE h[v - 1]]
           c == CHOOSE h : Listed(h)
<1>1. \E h : Listed(h)
  <2>1. <<>> \in S
    OBVIOUS
  <2>2. F \in [1..last -> [S -> S]]
    <3>1. ASSUME NEW i \in 1..last, NEW s \in S
          PROVE  Append(s, i) \in S
      OBVIOUS
    <3> QED BY <3>1
  <2> HIDE DEF F
  <2>3. PICK h \in [0..last -> S] : h[0] = <<>> /\ \A i \in 1..last : h[i] = F[i][h[i - 1]]
    <3> HIDE DEF S
    <3>1. Iterated(last, S, <<>>, F)
      BY <2>1, <2>2, Stepwise
    <3> QED BY <3>1 DEF Iterated
  <2>4. ASSUME NEW i \in 1..last
        PROVE  h[i] = IF field_matches(f.digits, i) THEN Append(h[i - 1], i) ELSE h[i - 1]
    <3>1. h[i - 1] \in S
      OBVIOUS
    <3>2. h[i] = F[i][h[i - 1]]
      BY <2>3
    <3> HIDE DEF S
    <3> QED BY <3>1, <3>2 DEF F
  <2>5. \A v \in 0..last : h[v] = IF v = 0 THEN <<>>
                                  ELSE IF field_matches(f.digits, v) THEN Append(h[v - 1], v)
                                  ELSE h[v - 1]
    <3>1. \A v \in 0..last : v # 0 => v \in 1..last
      OBVIOUS
    <3> QED BY <2>3, <2>4, <3>1, Zenon
  <2>6. Listed(h)
    BY <2>5
  <2> QED BY <2>6
<1>2. Listed(c)
  <2> HIDE DEF Listed
  <2> QED BY <1>1
<1>3. candidates_of(f, last) = c[last]
  BY DEF candidates_of
<1> HIDE DEF c
<1>4. c[0] = <<>> /\ \A v \in 0..last : c[v] = IF v = 0 THEN <<>>
                                              ELSE IF field_matches(f.digits, v) THEN Append(c[v - 1], v)
                                              ELSE c[v - 1]
  <2>1. \A v \in 0..last : c[v] = IF v = 0 THEN <<>>
                                  ELSE IF field_matches(f.digits, v) THEN Append(c[v - 1], v)
                                  ELSE c[v - 1]
    BY <1>2
  <2> QED BY <2>1
<1>5. \A v \in 1..last : c[v] = IF field_matches(f.digits, v) THEN Append(c[v - 1], v) ELSE c[v - 1]
  BY <1>4
<1> HIDE DEF Listed
<1> DEFINE All(s, v) == \A k \in 1..v : field_matches(f.digits, k) <=> Lists(s, k)
           G == {v \in 0..last : c[v] \in Seq(Nat) /\ Rising(c[v], v) /\ All(c[v], v)}
<1>6. 0 \in G
  <2>0. 0 \in 0..last
    OBVIOUS
  <2>1. <<>> \in Seq(Nat) /\ Len(<<>>) = 0 /\ DOMAIN <<>> = 1..0
    OBVIOUS
  <2>2. Rising(<<>>, 0)
    BY <2>1 DEF Rising
  <2>3. All(<<>>, 0)
    OBVIOUS
  <2> QED BY <1>4, <2>0, <2>1, <2>2, <2>3, Zenon
<1>7. ASSUME NEW v \in 1..last, v - 1 \in G
      PROVE  v \in G
  <2> DEFINE b == c[v - 1]
  <2>1. b \in Seq(Nat) /\ Rising(b, v - 1) /\ All(b, v - 1)
    BY <1>7
  <2>2. c[v] = IF field_matches(f.digits, v) THEN Append(b, v) ELSE b
    BY <1>5
  <2> HIDE DEF b
  <2>0. \A k \in 1..v : k = v \/ k \in 1..(v - 1)
    OBVIOUS
  <2>3. ASSUME ~field_matches(f.digits, v) PROVE c[v] \in Seq(Nat) /\ Rising(c[v], v) /\ All(c[v], v)
    <3>1. c[v] = b
      BY <2>2, <2>3
    <3>2. ~Lists(b, v)
      BY <2>1 DEF Lists, Rising
    <3>3. All(b, v)
      BY <2>0, <2>1, <2>3, <3>2
    <3> QED BY <2>1, <3>1, <3>3 DEF Rising
  <2>4. ASSUME field_matches(f.digits, v) PROVE c[v] \in Seq(Nat) /\ Rising(c[v], v) /\ All(c[v], v)
    <3> DEFINE a == Append(b, v)
    <3>1. a \in Seq(Nat) /\ Len(a) = Len(b) + 1
      BY <2>1
    <3>2. \A i \in 1..Len(b) : a[i] = b[i]
      BY <2>1
    <3>3. a[Len(b) + 1] = v
      BY <2>1
    <3> HIDE DEF a
    <3>4. Rising(a, v)
      BY <2>1, <3>1, <3>2, <3>3 DEF Rising
    <3>5. Lists(a, v)
      BY <3>1, <3>3 DEF Lists
    <3>6. ASSUME NEW k \in 1..(v - 1) PROVE Lists(a, k) <=> Lists(b, k)
      <4>1. \A i \in 1..Len(a) : i \in 1..Len(b) \/ i = Len(b) + 1
        BY <3>1
      <4>2. 1..Len(b) \subseteq 1..Len(a) /\ k # v
        BY <3>1
      <4> QED BY <3>2, <3>3, <4>1, <4>2, Zenon DEF Lists
    <3>7. All(a, v)
      BY <2>0, <2>1, <2>4, <3>5, <3>6, Zenon
    <3>8. c[v] = a
      BY <2>2, <2>4 DEF a
    <3> QED BY <3>1, <3>4, <3>7, <3>8, Zenon
  <2>5. v \in 0..last /\ c[v] \in Seq(Nat) /\ Rising(c[v], v) /\ All(c[v], v)
    BY <2>3, <2>4
  <2> QED BY <2>5
<1>8. 0..last \subseteq G
  <2> HIDE DEF G
  <2> QED BY <1>6, <1>7, Climb
<1>9. last \in G
  BY <1>8
<1> QED BY <1>3, <1>9

(* What is found is the first that is there. *)
LEMMA FoundFirst ==
  ASSUME NEW tries, DOMAIN tries \subseteq Nat
  PROVE  \/ find_map(tries) = None /\ \A i \in DOMAIN tries : tries[i] = None
         \/ \E i \in DOMAIN tries : /\ find_map(tries) = tries[i] /\ tries[i] # None
                                    /\ \A j \in DOMAIN tries : j < i => tries[j] = None
<1> DEFINE found == {i \in DOMAIN tries : tries[i] # None}
<1>1. CASE found = {}
  BY <1>1 DEF find_map
<1>2. CASE found # {}
  <2>1. PICK least \in found : \A i \in found : least <= i
    <3>1. found \subseteq Nat
      OBVIOUS
    <3> HIDE DEF found
    <3> QED BY <1>2, <3>1, Least
  <2> DEFINE First(i) == tries[i] # None /\ \A j \in DOMAIN tries : j < i => tries[j] = None
             i == CHOOSE i \in DOMAIN tries : First(i)
  <2>2. least \in DOMAIN tries /\ First(least)
    BY <2>1
  <2>3. i \in DOMAIN tries /\ First(i)
    <3> HIDE DEF First
    <3> QED BY <2>2
  <2>4. find_map(tries) = tries[i]
    BY <1>2 DEF find_map
  <2> HIDE DEF i
  <2> QED BY <2>3, <2>4
<1> QED BY <1>1, <1>2

(* The same tries made in both directions, which find something at the     *)
(* same places: the lowest of these from below, the highest from above.    *)
FoundAt(up, down, lo, hi) ==
  \E i, j \in lo..hi : /\ up[i] # None /\ down[lo + hi - j] # None
                        /\ \A k \in lo..hi : up[k] # None => i <= k /\ k <= j
                        /\ find_map(up) = up[i] /\ find_map(down) = down[lo + hi - j]

(* A search up and the same search down find something together, or        *)
(* nothing.                                                                *)
LEMMA BothWays ==
  ASSUME NEW lo \in Nat, NEW hi \in Nat, NEW up, NEW down,
         DOMAIN up = lo..hi, DOMAIN down = lo..hi,
         \A i \in lo..hi : up[i] = None <=> down[lo + hi - i] = None
  PROVE  \/ find_map(up) = None /\ find_map(down) = None /\ \A i \in lo..hi : up[i] = None
         \/ FoundAt(up, down, lo, hi)
<1>1. lo..hi \subseteq Nat /\ \A i \in lo..hi : lo + hi - i \in lo..hi /\ lo + hi - (lo + hi - i) = i
  OBVIOUS
<1>2. CASE \A i \in lo..hi : up[i] = None
  <2>1. \A i \in lo..hi : down[i] = None
    BY <1>1, <1>2
  <2> QED BY <1>1, <1>2, <2>1, FoundFirst
<1>3. CASE \E i \in lo..hi : up[i] # None
  <2>1. PICK i \in lo..hi : /\ find_map(up) = up[i] /\ up[i] # None
                            /\ \A k \in lo..hi : k < i => up[k] = None
    BY <1>1, <1>3, FoundFirst
  <2>2. \E k \in lo..hi : down[k] # None
    BY <1>1, <1>3
  <2>3. PICK l \in lo..hi : /\ find_map(down) = down[l] /\ down[l] # None
                            /\ \A k \in lo..hi : k < l => down[k] = None
    BY <1>1, <2>2, FoundFirst
  <2> DEFINE j == lo + hi - l
  <2>4. j \in lo..hi /\ lo + hi - j = l
    BY <1>1
  <2>5. ASSUME NEW k \in lo..hi, up[k] # None
        PROVE  i <= k /\ k <= j
    <3>1. ~(k < i)
      BY <2>1, <2>5
    <3>2. lo + hi - k \in lo..hi /\ down[lo + hi - k] # None
      BY <1>1, <2>5
    <3>3. ~(lo + hi - k < l)
      BY <2>3, <3>2
    <3> QED BY <3>1, <3>3
  <2> HIDE DEF j
  <2>6. down[lo + hi - j] # None /\ find_map(down) = down[lo + hi - j]
    BY <2>3, <2>4
  <2> QED BY <2>1, <2>4, <2>5, <2>6 DEF FoundAt
<1> QED BY <1>2, <1>3

(* Both directions find nothing, for there are no days to find, or the     *)
(* first of the days and the last.                                         *)
Bracket(first, last, days) ==
  \/ first = None /\ last = None /\ days = {}
  \/ \E s, t \in days : /\ first = Some(s) /\ last = Some(t)
                        /\ \A u \in days : AtMost(s, u) /\ AtMost(u, t)

DaysOfYear(year) == {t \in CalendarDay : t[1] = year}
DaysOfMonth(year, month) == {t \in DaysOfYear(year) : t[2] = month}

(* A day of a month that the calendar has lies in that month.              *)
LEMMA DayOfYear ==
  ASSUME NEW year \in I64Years, NEW month \in 1..12, NEW day \in 1..last_day(month, is_leap(year))
  PROVE  <<year, month, day>> \in DaysOfMonth(year, month)
<1>1. last_day(month, is_leap(year)) \in 28..31
  BY LastDayBounds
<1>2. year \in Int
  BY Numbers
<1>3. IsDay(<<year, month, day>>)
  BY <1>2 DEF IsDay
<1>4. <<year, month, day>> \in CalendarDay
  BY <1>1, <1>3 DEF CalendarDay, Position
<1> QED BY <1>4 DEF DaysOfMonth, DaysOfYear

(* Days of different years or months are ordered by year and month.        *)
LEMMA DaysFollowFields ==
  ASSUME NEW s \in CalendarDay, NEW t \in CalendarDay
  PROVE  /\ s[1] < t[1] => AtMost(s, t)
         /\ s[1] = t[1] /\ s[2] < t[2] => AtMost(s, t)
BY DEF AtMost, Before

(* A whole month. *)
LEMMA MonthEdges ==
  ASSUME NEW year \in I64Years, NEW month \in 1..12
  PROVE  Bracket(month_edge(year, month, TRUE), month_edge(year, month, FALSE), DaysOfMonth(year, month))
<1> DEFINE ending == last_day(month, is_leap(year))
<1>1. ending \in 28..31
  BY LastDayBounds
<1>2. <<year, month, 1>> \in DaysOfMonth(year, month) /\ <<year, month, ending>> \in DaysOfMonth(year, month)
  BY <1>1, DayOfYear
<1>3. ASSUME NEW u \in DaysOfMonth(year, month)
      PROVE  u = <<year, month, u[3]>> /\ u[3] \in 1..ending
  <2>1. u \in CalendarDay /\ u[1] = year /\ u[2] = month
    BY DEF DaysOfMonth, DaysOfYear
  <2>2. u = <<u[1], u[2], u[3]>>
    BY <2>1, Numbers, PositionIsTriple DEF CalendarDay
  <2> QED BY <2>1, <2>2 DEF CalendarDay, Position, IsDay
<1> HIDE DEF ending
<1>4. ASSUME NEW u \in DaysOfMonth(year, month)
      PROVE  AtMost(<<year, month, 1>>, u) /\ AtMost(u, <<year, month, ending>>)
  <2>1. PICK k \in 1..ending : u = <<year, month, k>>
    BY <1>3
  <2> QED BY <1>1, <2>1 DEF AtMost, Before
<1>5. month_edge(year, month, TRUE) = Some(<<year, month, 1>>)
  BY DEF month_edge
<1>6. month_edge(year, month, FALSE) = Some(<<year, month, ending>>)
  BY DEF month_edge, ending
<1> QED BY <1>2, <1>4, <1>5, <1>6 DEF Bracket

(* The listed days that a month has. *)
LEMMA FittingDays ==
  ASSUME NEW year \in I64Years, NEW month \in 1..12, NEW c, Rising(c, 31)
  PROVE  Bracket(first_fitting(year, month, Directed(c, TRUE)),
                 first_fitting(year, month, Directed(c, FALSE)),
                 {t \in DaysOfMonth(year, month) : Lists(c, t[3])})
<1> DEFINE n == Len(c)
           days == {t \in DaysOfMonth(year, month) : Lists(c, t[3])}
           try(day) == fitting_day(year, month, day)
           up == [j \in DOMAIN Directed(c, TRUE) |-> try(Directed(c, TRUE)[j])]
           down == [j \in DOMAIN Directed(c, FALSE) |-> try(Directed(c, FALSE)[j])]
<1>1. n \in Nat /\ DOMAIN c = 1..n
  BY DEF Rising
<1>2. Directed(c, TRUE) = c /\ Directed(c, FALSE) = [i \in 1..n |-> c[n + 1 - i]]
  BY <1>1 DEF Directed
<1>3. /\ first_fitting(year, month, Directed(c, TRUE)) = find_map(up)
      /\ first_fitting(year, month, Directed(c, FALSE)) = find_map(down)
  BY DEF first_fitting
<1>4. ASSUME NEW k \in 1..31
      PROVE  /\ try(k) # None <=> <<year, month, k>> \in DaysOfMonth(year, month)
             /\ try(k) # None => try(k) = Some(<<year, month, k>>)
  <2> DEFINE u == <<year, month, k>>
  <2>1. last_day(month, is_leap(year)) \in 28..31
    BY LastDayBounds
  <2>2. try(k) = IF k <= last_day(month, is_leap(year)) THEN Some(u) ELSE None
    BY DEF fitting_day
  <2>3. k <= last_day(month, is_leap(year)) => u \in DaysOfMonth(year, month)
    BY <2>1, DayOfYear
  <2>4. u \in DaysOfMonth(year, month) => k <= last_day(month, is_leap(year))
    BY DEF DaysOfMonth, DaysOfYear, CalendarDay, Position, IsDay
  <2> HIDE DEF u, try
  <2> QED BY <2>2, <2>3, <2>4, SomeFacts DEF u
<1> HIDE DEF try
<1>5. /\ DOMAIN up = 1..n /\ DOMAIN down = 1..n
      /\ \A j \in 1..n : up[j] = try(c[j]) /\ down[j] = try(c[n + 1 - j])
  BY <1>1, <1>2
<1> HIDE DEF up, down
<1>6. \A j \in 1..n : down[1 + n - j] = try(c[j])
  <2>1. \A j \in 1..n : 1 + n - j \in 1..n /\ n + 1 - (1 + n - j) = j
    BY <1>1
  <2> QED BY <1>5, <2>1
<1>7. ASSUME NEW u \in days
      PROVE  \E k \in 1..n : c[k] \in 1..31 /\ u = <<year, month, c[k]>> /\ try(c[k]) # None
  <2>1. u \in DaysOfMonth(year, month) /\ u \in CalendarDay /\ u[1] = year /\ u[2] = month
    BY DEF DaysOfMonth, DaysOfYear
  <2>2. u = <<u[1], u[2], u[3]>>
    BY <2>1, Numbers, PositionIsTriple DEF CalendarDay
  <2>3. PICK k \in 1..n : c[k] = u[3]
    BY DEF Lists
  <2>4. c[k] \in 1..31
    BY DEF Rising
  <2> QED BY <1>4, <2>1, <2>2, <2>3, <2>4
<1>8. ASSUME NEW k \in 1..n, try(c[k]) # None
      PROVE  /\ c[k] \in 1..31 /\ try(c[k]) = Some(<<year, month, c[k]>>)
             /\ <<year, month, c[k]>> \in days
  <2>1. c[k] \in 1..31
    BY DEF Rising
  <2>2. try(c[k]) = Some(<<year, month, c[k]>>) /\ <<year, month, c[k]>> \in DaysOfMonth(year, month)
    BY <1>4, <1>8, <2>1
  <2>3. Lists(c, c[k])
    BY DEF Lists
  <2> QED BY <2>1, <2>2, <2>3
<1>9. \A i, j \in 1..n : i < j => c[i] < c[j]
  BY DEF Rising
<1>10. CASE find_map(up) = None /\ find_map(down) = None /\ \A i \in 1..n : up[i] = None
  <2>1. days = {}
    <3> HIDE DEF days
    <3> QED BY <1>5, <1>7, <1>10
  <2> QED BY <1>3, <1>10, <2>1 DEF Bracket
<1>11. CASE FoundAt(up, down, 1, n)
  <2>1. PICK i, j \in 1..n : /\ try(c[i]) # None /\ try(c[j]) # None
                             /\ \A k \in 1..n : try(c[k]) # None => i <= k /\ k <= j
                             /\ find_map(up) = try(c[i]) /\ find_map(down) = try(c[j])
    BY <1>5, <1>6, <1>11 DEF FoundAt
  <2> DEFINE s == <<year, month, c[i]>>
             t == <<year, month, c[j]>>
  <2>2. s \in days /\ t \in days /\ find_map(up) = Some(s) /\ find_map(down) = Some(t)
    BY <1>8, <2>1
  <2>3. ASSUME NEW u \in days PROVE AtMost(s, u) /\ AtMost(u, t)
    <3>1. PICK k \in 1..n : c[k] \in 1..31 /\ u = <<year, month, c[k]>> /\ try(c[k]) # None
      BY <1>7
    <3>2. i <= k /\ k <= j
      BY <2>1, <3>1
    <3>3. c[i] \in 1..31 /\ c[j] \in 1..31
      BY <1>8, <2>1
    <3>4. (i = k \/ c[i] < c[k]) /\ (k = j \/ c[k] < c[j])
      BY <1>1, <1>9, <3>2
    <3> HIDE DEF n
    <3> QED BY <3>1, <3>3, <3>4 DEF AtMost, Before
  <2> HIDE DEF s, t, days
  <2>4. Bracket(find_map(up), find_map(down), days)
    BY <2>2, <2>3 DEF Bracket
  <2> QED BY <1>3, <2>4 DEF days
<1>12. 1 \in Nat /\ \A i \in 1..n : up[i] = None <=> down[1 + n - i] = None
  BY <1>5, <1>6
<1>13. \/ find_map(up) = None /\ find_map(down) = None /\ \A i \in 1..n : up[i] = None
       \/ FoundAt(up, down, 1, n)
  <2> HIDE DEF n
  <2> QED BY <1>1, <1>5, <1>12, BothWays
<1> QED BY <1>10, <1>11, <1>13

(* What every place of a search brackets, the search brackets together, if *)
(* the places come in order.                                               *)
LEMMA BracketAll ==
  ASSUME NEW lo \in Nat, NEW hi \in Nat, NEW up, NEW down, NEW D, NEW days,
         DOMAIN up = lo..hi, DOMAIN down = lo..hi,
         \A i \in lo..hi : Bracket(up[i], down[lo + hi - i], D[i]),
         \A t : t \in days <=> \E i \in lo..hi : t \in D[i],
         \A i, j \in lo..hi : i < j => \A s \in D[i], t \in D[j] : AtMost(s, t)
  PROVE  Bracket(find_map(up), find_map(down), days)
<1>1. ASSUME NEW i \in lo..hi
      PROVE  \/ up[i] = None /\ down[lo + hi - i] = None /\ D[i] = {}
             \/ \E s, t \in D[i] : /\ up[i] = Some(s) /\ down[lo + hi - i] = Some(t)
                                   /\ \A u \in D[i] : AtMost(s, u) /\ AtMost(u, t)
  BY DEF Bracket
<1>2. ASSUME NEW i \in lo..hi
      PROVE  /\ up[i] = None <=> down[lo + hi - i] = None
             /\ up[i] = None <=> D[i] = {}
  <2>1. \A s : Some(s) # None
    BY DEF Some, None
  <2> QED BY <1>1, <2>1
<1>3. CASE find_map(up) = None /\ find_map(down) = None /\ \A i \in lo..hi : up[i] = None
  <2>1. days = {}
    BY <1>2, <1>3
  <2> QED BY <1>3, <2>1 DEF Bracket
<1>4. CASE FoundAt(up, down, lo, hi)
  <2>1. PICK i, j \in lo..hi : /\ up[i] # None /\ down[lo + hi - j] # None
                               /\ \A k \in lo..hi : up[k] # None => i <= k /\ k <= j
                               /\ find_map(up) = up[i] /\ find_map(down) = down[lo + hi - j]
    BY <1>4 DEF FoundAt
  <2>2. PICK s \in D[i] : up[i] = Some(s) /\ \A u \in D[i] : AtMost(s, u)
    BY <1>1, <2>1
  <2>3. PICK t \in D[j] : down[lo + hi - j] = Some(t) /\ \A u \in D[j] : AtMost(u, t)
    BY <1>1, <2>1
  <2>4. s \in days /\ t \in days
    OBVIOUS
  <2>5. ASSUME NEW u \in days PROVE AtMost(s, u) /\ AtMost(u, t)
    <3>1. PICK k \in lo..hi : u \in D[k]
      OBVIOUS
    <3>2. i <= k /\ k <= j
      BY <1>2, <2>1, <3>1
    <3>3. (i = k \/ i < k) /\ (k = j \/ k < j)
      BY <3>2
    <3>4. AtMost(s, u)
      BY <2>2, <3>1, <3>3
    <3>5. AtMost(u, t)
      BY <2>3, <3>1, <3>3
    <3> QED BY <3>4, <3>5
  <2> QED BY <2>1, <2>2, <2>3, <2>4, <2>5 DEF Bracket
<1> QED BY <1>2, <1>3, <1>4, BothWays

(* The month and day slots a search can be made over: absent, or a list of *)
(* candidates in order.                                                    *)
Searchable(d) ==
  /\ d.month # None => Rising(month_candidates_of(Get(d.month)), 12)
  /\ d.day # None => Rising(day_candidates_of(Get(d.day)), 31) /\ d.month # None

(* The days a search is made over: of its month, if it has one, and its    *)
(* day.                                                                    *)
Admits(d, t) ==
  /\ d.month # None => Lists(month_candidates_of(Get(d.month)), t[2])
  /\ d.day # None => Lists(day_candidates_of(Get(d.day)), t[3])

FittingIn(d, year) == {t \in DaysOfYear(year) : Admits(d, t)}

(* The two searches within one year find the first and the last of the     *)
(* year's days that fit.                                                   *)
LEMMA DaysOfOneYear ==
  ASSUME NEW d, NEW year \in I64Years, Searchable(d)
  PROVE  Bracket(extremum_in_year(d, year, TRUE), extremum_in_year(d, year, FALSE), FittingIn(d, year))
<1>1. CASE d.month = None
  <2>1. <<year, 1, 1>> \in DaysOfYear(year) /\ <<year, 12, 31>> \in DaysOfYear(year)
    <3>1. last_day(1, is_leap(year)) = 31 /\ last_day(12, is_leap(year)) = 31
      BY DEF last_day
    <3>2. <<year, 1, 1>> \in DaysOfMonth(year, 1) /\ <<year, 12, 31>> \in DaysOfMonth(year, 12)
      BY <3>1, DayOfYear
    <3> QED BY <3>2 DEF DaysOfMonth
  <2>2. ASSUME NEW u \in DaysOfYear(year)
        PROVE  AtMost(<<year, 1, 1>>, u) /\ AtMost(u, <<year, 12, 31>>)
    <3>1. u \in CalendarDay /\ u[1] = year
      BY DEF DaysOfYear
    <3>2. u = <<u[1], u[2], u[3]>>
      BY <3>1, Numbers, PositionIsTriple DEF CalendarDay
    <3>3. u[2] \in 1..12 /\ u[3] \in 1..31
      BY <3>1, LastDayBounds DEF CalendarDay, Position, IsDay
    <3>4. year \in Int
      BY Numbers
    <3> QED BY <3>1, <3>2, <3>3, <3>4 DEF AtMost, Before
  <2>3. FittingIn(d, year) = DaysOfYear(year)
    BY <1>1 DEF FittingIn, Admits, Searchable
  <2>4. /\ extremum_in_year(d, year, TRUE) = Some(<<year, 1, 1>>)
        /\ extremum_in_year(d, year, FALSE) = Some(<<year, 12, 31>>)
    BY <1>1 DEF extremum_in_year
  <2> QED BY <2>1, <2>2, <2>3, <2>4 DEF Bracket
<1>2. CASE d.month # None
  <2> DEFINE c == month_candidates_of(Get(d.month))
             n == Len(c)
             of(m, ascending) ==
               IF d.day = None THEN month_edge(year, m, ascending)
               ELSE first_fitting(year, m, Directed(day_candidates_of(Get(d.day)), ascending))
             up == [i \in DOMAIN Directed(c, TRUE) |-> of(Directed(c, TRUE)[i], TRUE)]
             down == [i \in DOMAIN Directed(c, FALSE) |-> of(Directed(c, FALSE)[i], FALSE)]
             days(m) == {t \in DaysOfMonth(year, m) :
                           d.day # None => Lists(day_candidates_of(Get(d.day)), t[3])}
             D == [i \in 1..n |-> days(c[i])]
  <2>1. /\ n \in Nat /\ DOMAIN c = 1..n
        /\ \A i \in 1..n : c[i] \in 1..12
        /\ \A i, j \in 1..n : i < j => c[i] < c[j]
    BY <1>2 DEF Searchable, Rising
  <2>2. Directed(c, TRUE) = c /\ Directed(c, FALSE) = [i \in 1..n |-> c[n + 1 - i]]
    BY <2>1 DEF Directed
  <2>3. /\ extremum_in_year(d, year, TRUE) = find_map(up)
        /\ extremum_in_year(d, year, FALSE) = find_map(down)
    BY <1>2 DEF extremum_in_year
  <2>4. ASSUME NEW m \in 1..12
        PROVE  Bracket(of(m, TRUE), of(m, FALSE), days(m))
    <3>1. CASE d.day = None
      <4>1. days(m) = DaysOfMonth(year, m)
        BY <3>1
      <4> QED BY <3>1, <4>1, MonthEdges
    <3>2. CASE d.day # None
      <4>1. days(m) = {t \in DaysOfMonth(year, m) : Lists(day_candidates_of(Get(d.day)), t[3])}
        BY <3>2
      <4>2. Rising(day_candidates_of(Get(d.day)), 31)
        BY <3>2 DEF Searchable
      <4> QED BY <3>2, <4>1, <4>2, FittingDays
    <3> QED BY <3>1, <3>2
  <2> HIDE DEF of
  <2>5. /\ DOMAIN up = 1..n /\ DOMAIN down = 1..n
        /\ \A i \in 1..n : up[i] = of(c[i], TRUE) /\ down[i] = of(c[n + 1 - i], FALSE)
    BY <2>1, <2>2
  <2> HIDE DEF up, down
  <2>6. \A i \in 1..n : down[1 + n - i] = of(c[i], FALSE)
    <3>1. \A i \in 1..n : 1 + n - i \in 1..n /\ n + 1 - (1 + n - i) = i
      BY <2>1
    <3> QED BY <2>5, <3>1
  <2>7. ASSUME NEW i \in 1..n
        PROVE  Bracket(up[i], down[1 + n - i], D[i])
    <3> HIDE DEF days
    <3> QED BY <2>1, <2>4, <2>5, <2>6
  <2>8. ASSUME NEW t
        PROVE  t \in FittingIn(d, year) <=> \E i \in 1..n : t \in D[i]
    <3>1. t \in FittingIn(d, year) <=>
            /\ t \in DaysOfYear(year) /\ \E i \in 1..n : c[i] = t[2]
            /\ d.day # None => Lists(day_candidates_of(Get(d.day)), t[3])
      BY <1>2 DEF FittingIn, Admits, Lists
    <3>2. \A i \in 1..n : t \in D[i] <=>
            /\ t \in DaysOfYear(year) /\ t[2] = c[i]
            /\ d.day # None => Lists(day_candidates_of(Get(d.day)), t[3])
      BY DEF DaysOfMonth
    <3> HIDE DEF c, n, D
    <3> QED BY <3>1, <3>2
  <2>9. ASSUME NEW i \in 1..n, NEW j \in 1..n, i < j, NEW s \in D[i], NEW t \in D[j]
        PROVE  AtMost(s, t)
    <3>1. s \in CalendarDay /\ t \in CalendarDay /\ s[1] = year /\ t[1] = year /\ s[2] = c[i] /\ t[2] = c[j]
      BY DEF DaysOfMonth, DaysOfYear
    <3>2. c[i] < c[j]
      BY <2>1, <2>9
    <3> QED BY <3>1, <3>2, DaysFollowFields
  <2> HIDE DEF c, n, D
  <2>10. Bracket(find_map(up), find_map(down), FittingIn(d, year))
    BY <2>1, <2>5, <2>7, <2>8, <2>9, BracketAll
  <2> QED BY <2>3, <2>10
<1> QED BY <1>1, <1>2

(* The years a masked search tries come in order, and fit an i64. *)
YearsRise(kind) ==
  LET up == years_travelled(kind, TRUE)
      down == years_travelled(kind, FALSE)
  IN  \E n \in Nat : /\ DOMAIN up = 0..n /\ DOMAIN down = 0..n
                     /\ \A i \in 0..n : up[i] \in I64Years /\ down[n - i] = up[i]
                     /\ \A i, j \in 0..n : i < j => up[i] < up[j]

YearTravelled(kind, y) == \E i \in DOMAIN years_travelled(kind, TRUE) : years_travelled(kind, TRUE)[i] = y

(* The days a date with masks may mean. *)
Fitting(d) == {t \in CalendarDay : YearTravelled(d.year.kind, t[1]) /\ Admits(d, t)}

(* The two searches over every year a mask allows find the first and the   *)
(* last of all the days that fit: neither stops too early, nor misses one. *)
LEMMA DaysOfAllYears ==
  ASSUME NEW d, Searchable(d), YearsRise(d.year.kind)
  PROVE  Bracket(extremum(d, TRUE), extremum(d, FALSE), Fitting(d))
<1> DEFINE ups == years_travelled(d.year.kind, TRUE)
           downs == years_travelled(d.year.kind, FALSE)
           up == [i \in DOMAIN ups |-> extremum_in_year(d, ups[i], TRUE)]
           down == [i \in DOMAIN downs |-> extremum_in_year(d, downs[i], FALSE)]
<1>1. PICK n \in Nat : /\ DOMAIN ups = 0..n /\ DOMAIN downs = 0..n
                       /\ \A i \in 0..n : ups[i] \in I64Years /\ downs[n - i] = ups[i]
                       /\ \A i, j \in 0..n : i < j => ups[i] < ups[j]
  BY DEF YearsRise
<1>2. extremum(d, TRUE) = find_map(up) /\ extremum(d, FALSE) = find_map(down)
  BY DEF extremum
<1>3. \A y : YearTravelled(d.year.kind, y) <=> \E i \in 0..n : ups[i] = y
  BY <1>1 DEF YearTravelled
<1> HIDE DEF ups, downs
<1> DEFINE D == [i \in 0..n |-> FittingIn(d, ups[i])]
<1>4. DOMAIN up = 0..n /\ DOMAIN down = 0..n
  BY <1>1
<1>5. ASSUME NEW i \in 0..n
      PROVE  Bracket(up[i], down[0 + n - i], D[i])
  <2>1. 0 + n - i = n - i /\ n - i \in 0..n
    BY <1>1
  <2>2. up[i] = extremum_in_year(d, ups[i], TRUE) /\ down[n - i] = extremum_in_year(d, ups[i], FALSE)
    BY <1>1, <2>1
  <2>3. ups[i] \in I64Years
    BY <1>1
  <2> QED BY <2>1, <2>2, <2>3, DaysOfOneYear
<1>6. ASSUME NEW t
      PROVE  t \in Fitting(d) <=> \E i \in 0..n : t \in D[i]
  <2>1. t \in Fitting(d) <=> t \in CalendarDay /\ (\E i \in 0..n : ups[i] = t[1]) /\ Admits(d, t)
    BY <1>3 DEF Fitting
  <2>2. \A i \in 0..n : t \in D[i] <=> t \in CalendarDay /\ ups[i] = t[1] /\ Admits(d, t)
    BY DEF FittingIn, DaysOfYear
  <2> HIDE DEF D
  <2> QED BY <2>1, <2>2
<1>7. ASSUME NEW i \in 0..n, NEW j \in 0..n, i < j, NEW s \in D[i], NEW t \in D[j]
      PROVE  AtMost(s, t)
  <2>1. s \in CalendarDay /\ t \in CalendarDay /\ s[1] = ups[i] /\ t[1] = ups[j] /\ ups[i] < ups[j]
    BY <1>1, <1>7 DEF FittingIn, DaysOfYear
  <2> QED BY <2>1, DaysFollowFields
<1>8. 0 \in Nat
  OBVIOUS
<1> HIDE DEF up, down, D
<1> QED BY <1>2, <1>4, <1>5, <1>6, <1>7, <1>8, BracketAll

-----------------------------------------------------------------------------
(* The odometer over a masked year: distinct counters give distinct years, *)
(* in the counters' order.  Position by position, from the right: a place  *)
(* that turns shows the next decimal digit of the counter.                 *)
Tens == {1, 10, 100, 1000}

(* The powers of ten that four digits need.                                *)
LEMMA Powers ==
  /\ 10^0 = 1
  /\ \A k \in {0, 1, 2, 3} : 10^k \in Tens /\ 10^(k + 1) = 10 * 10^k
<1>1. 10^0 = 1 /\ 10^1 = 10 /\ 10^2 = 100 /\ 10^3 = 1000 /\ 10^4 = 10000
  OBVIOUS
<1>2. 0 + 1 = 1 /\ 1 + 1 = 2 /\ 2 + 1 = 3 /\ 3 + 1 = 4
  OBVIOUS
<1>3. ASSUME NEW k \in {0, 1, 2, 3}
      PROVE  10^k \in Tens /\ 10^(k + 1) = 10 * 10^k
  <2>1. CASE k = 0
    BY <1>1, <1>2, <2>1 DEF Tens
  <2>2. CASE k = 1
    BY <1>1, <1>2, <2>2 DEF Tens
  <2>3. CASE k = 2
    BY <1>1, <1>2, <2>3 DEF Tens
  <2>4. CASE k = 3
    BY <1>1, <1>2, <2>4 DEF Tens
  <2> QED BY <2>1, <2>2, <2>3, <2>4
<1> QED BY <1>1, <1>3

Above(digits, p) == Cardinality({q \in MaskedPositions(digits) : q > p})

(* How many masked places lie to the right of a place.                     *)
LEMMA PlacesAbove ==
  ASSUME NEW digits \in [1..4 -> MaskDigit]
  PROVE  /\ Above(digits, 4) = 0 /\ Above(digits, 0) = Cardinality(MaskedPositions(digits))
         /\ \A p \in 1..4 : Above(digits, p - 1) = Above(digits, p) + (IF digits[p] = X THEN 1 ELSE 0)
<1> DEFINE M == MaskedPositions(digits)
           A(p) == {q \in M : q > p}
<1>1. M \subseteq 1..4 /\ \A p \in 1..4 : p \in M <=> digits[p] = X
  BY DEF MaskedPositions
<1> HIDE DEF M
<1>0. \A q \in M : q \in 1..4 /\ q \in Int /\ q > 0 /\ ~(q > 4)
  <2>1. \A q \in 1..4 : q \in Int /\ q > 0 /\ ~(q > 4)
    OBVIOUS
  <2> QED BY <1>1, <2>1, Zenon
<1>2. A(4) = {} /\ A(0) = M
  BY <1>0
<1>3. ASSUME NEW p \in 1..4
      PROVE  A(p - 1) = IF p \in M THEN A(p) \cup {p} ELSE A(p)
  <2>1. \A q \in M : q > p - 1 <=> q > p \/ q = p
    BY <1>0
  <2>2. CASE p \in M
    BY <2>1, <2>2
  <2>3. CASE p \notin M
    BY <2>1, <2>3
  <2> QED BY <2>2, <2>3
<1>4. ASSUME NEW p \in 0..4
      PROVE  IsFiniteSet(A(p)) /\ Cardinality(A(p)) \in Nat
  <2>1. A(p) \subseteq M /\ M \subseteq 1..4
    BY <1>1
  <2>2. IsFiniteSet(1..4)
    <3>1. 1 \in Int /\ 4 \in Int
      OBVIOUS
    <3> QED BY <3>1, FS_Interval, Zenon
  <2> HIDE DEF A
  <2>3. IsFiniteSet(A(p))
    BY <2>1, <2>2, FS_Subset
  <2> QED BY <2>3, FS_CardinalityType
<1>5. ASSUME NEW p \in 1..4
      PROVE  Cardinality(A(p - 1)) = Cardinality(A(p)) + (IF p \in M THEN 1 ELSE 0)
  <2>1. p \notin A(p) /\ p \in 0..4
    OBVIOUS
  <2>2. IsFiniteSet(A(p)) /\ Cardinality(A(p)) \in Nat
    BY <1>4, <2>1
  <2> HIDE DEF A
  <2>3. CASE p \in M
    BY <1>3, <2>1, <2>2, <2>3, FS_AddElement
  <2>4. CASE p \notin M
    BY <1>3, <2>2, <2>4
  <2> QED BY <2>3, <2>4
<1>6. \A p : Above(digits, p) = Cardinality(A(p))
  BY DEF Above, M
<1> HIDE DEF A
<1>7. Cardinality({}) = 0
  BY FS_EmptySet
<1> QED BY <1>1, <1>2, <1>5, <1>6, <1>7 DEF M

(* Two tails in the order of their counters, and one more place on top.    *)
Follows(i, j, u, v) == (i < j => u < v) /\ (i = j => u = v)

Tails(size, i, j, u, v) == u \in 0..(size - 1) /\ v \in 0..(size - 1) /\ Follows(i, j, u, v)

(* Adding a digit on the left keeps two tails in the order of their        *)
(* counters.                                                               *)
LEMMA OneTurn ==
  ASSUME NEW T \in Tens, NEW W \in Tens, NEW i \in Nat, NEW j \in Nat, NEW u, NEW v,
         Tails(W, i % T, j % T, u, v)
  PROVE  Tails(10 * W, i % (10 * T), j % (10 * T),
               W * ((i \div T) % 10) + u, W * ((j \div T) % 10) + v)
<1>0. T \in {1, 10, 100, 1000} /\ W \in {1, 10, 100, 1000} /\ u \in 0..(W - 1) /\ v \in 0..(W - 1)
  BY DEF Tens, Tails
<1> DEFINE a == (i \div T) % 10
           b == (j \div T) % 10
           r == i % T
           s == j % T
<1>1. a \in 0..9 /\ b \in 0..9 /\ r \in 0..(T - 1) /\ s \in 0..(T - 1)
  BY <1>0
<1>2. i % (10 * T) = T * a + r /\ j % (10 * T) = T * b + s
  <2>1. CASE T = 1
    BY <2>1
  <2>2. CASE T = 10
    BY <2>2
  <2>3. CASE T = 100
    BY <2>3
  <2>4. CASE T = 1000
    BY <2>4
  <2> QED BY <1>0, <2>1, <2>2, <2>3, <2>4
<1>3. Follows(r, s, u, v)
  BY DEF Tails
<1> HIDE DEF a, b, r, s
<1>4. /\ T * a + r < T * b + s => a < b \/ (a = b /\ r < s)
      /\ T * a + r = T * b + s => a = b /\ r = s
  <2>1. CASE T = 1
    BY <1>0, <1>1, <2>1
  <2>2. CASE T = 10
    BY <1>0, <1>1, <2>2
  <2>3. CASE T = 100
    BY <1>0, <1>1, <2>3
  <2>4. CASE T = 1000
    BY <1>0, <1>1, <2>4
  <2> QED BY <1>0, <2>1, <2>2, <2>3, <2>4
<1>5. /\ W * a + u \in 0..(10 * W - 1) /\ W * b + v \in 0..(10 * W - 1)
      /\ a < b => W * a + u < W * b + v
  <2>1. CASE W = 1
    BY <1>0, <1>1, <2>1
  <2>2. CASE W = 10
    BY <1>0, <1>1, <2>2
  <2>3. CASE W = 100
    BY <1>0, <1>1, <2>3
  <2>4. CASE W = 1000
    BY <1>0, <1>1, <2>4
  <2> QED BY <1>0, <2>1, <2>2, <2>3, <2>4
<1>6. ASSUME T * a + r < T * b + s PROVE W * a + u < W * b + v
  <2>1. CASE a < b
    BY <1>5, <2>1
  <2>2. CASE a = b /\ r < s
    <3>1. u < v
      BY <1>3, <2>2 DEF Follows
    <3>2. W * a \in Int
      BY <1>0, <1>1
    <3> QED BY <1>0, <2>2, <3>1, <3>2
  <2> QED BY <1>4, <1>6, <2>1, <2>2
<1>7. ASSUME T * a + r = T * b + s PROVE W * a + u = W * b + v
  BY <1>3, <1>4, <1>7 DEF Follows
<1>8. Follows(T * a + r, T * b + s, W * a + u, W * b + v)
  BY <1>6, <1>7 DEF Follows
<1>9. Follows(i % (10 * T), j % (10 * T), W * a + u, W * b + v)
  BY <1>2, <1>8
<1> QED BY <1>5, <1>9 DEF Tails, a, b

Turn(digits, p) == 10^Above(digits, p)
Shown(digits, p, i) == IF digits[p] = X THEN (i \div Turn(digits, p)) % 10 ELSE digits[p]

(* How many completions the places to the right of a place have.           *)
LEMMA Turns ==
  ASSUME NEW digits \in [1..4 -> MaskDigit]
  PROVE  /\ Turn(digits, 4) = 1 /\ Turn(digits, 0) = completion_count(digits)
         /\ \A p \in 1..4 : /\ Turn(digits, p) \in Tens
                            /\ Turn(digits, p - 1) =
                                 (IF digits[p] = X THEN 10 * Turn(digits, p) ELSE Turn(digits, p))
<1> DEFINE A(p) == Above(digits, p)
           m(p) == IF digits[p] = X THEN 1 ELSE 0
<1>1. A(4) = 0 /\ \A p \in 1..4 : A(p - 1) = A(p) + m(p)
  BY PlacesAbove
<1>2. \A p : m(p) \in {0, 1}
  OBVIOUS
<1>3. A(3) = A(4) + m(4) /\ A(2) = A(3) + m(3) /\ A(1) = A(2) + m(2) /\ A(0) = A(1) + m(1)
  <2>1. 4 \in 1..4 /\ 3 \in 1..4 /\ 2 \in 1..4 /\ 1 \in 1..4 /\ 4 - 1 = 3 /\ 3 - 1 = 2 /\ 2 - 1 = 1 /\ 1 - 1 = 0
    OBVIOUS
  <2> HIDE DEF A, m
  <2> QED BY <1>1, <2>1
<1> HIDE DEF A
<1>4. A(4) \in {0} /\ A(3) \in {0, 1} /\ A(2) \in {0, 1, 2} /\ A(1) \in {0, 1, 2, 3}
  <2> HIDE DEF m
  <2> QED BY <1>1, <1>2, <1>3
<1>5. ASSUME NEW p \in 1..4
      PROVE  /\ Turn(digits, p) \in Tens
             /\ Turn(digits, p - 1) = (IF digits[p] = X THEN 10 * Turn(digits, p) ELSE Turn(digits, p))
  <2>1. A(p) \in {0, 1, 2, 3}
    <3>1. p = 1 \/ p = 2 \/ p = 3 \/ p = 4
      OBVIOUS
    <3> QED BY <1>4, <3>1
  <2>2. Turn(digits, p) = 10^A(p) /\ Turn(digits, p - 1) = 10^(A(p) + m(p))
    BY <1>1 DEF Turn, A
  <2>3. CASE digits[p] = X
    <3>1. Turn(digits, p - 1) = 10^(A(p) + 1)
      BY <2>2, <2>3
    <3>2. 10^A(p) \in Tens /\ 10^(A(p) + 1) = 10 * 10^A(p)
      BY <2>1, Powers
    <3> QED BY <2>2, <2>3, <3>1, <3>2
  <2>4. CASE digits[p] # X
    <3>1. A(p) + m(p) = A(p)
      BY <2>1, <2>4
    <3>2. 10^A(p) \in Tens
      BY <2>1, Powers
    <3> QED BY <2>2, <2>4, <3>1, <3>2
  <2> QED BY <2>3, <2>4
<1>6. Turn(digits, 4) = 1
  <2>1. Above(digits, 4) = 0
    BY PlacesAbove
  <2> QED BY <2>1, Powers DEF Turn
<1>7. Turn(digits, 0) = completion_count(digits)
  BY PlacesAbove DEF Turn, completion_count
<1> QED BY <1>5, <1>6, <1>7

(* One more place of a mask: its digit and the tail behind it.             *)
LEMMA OnePlace ==
  ASSUME NEW digits \in [1..4 -> MaskDigit], NEW p \in 1..4, NEW W \in Tens,
         NEW i \in Nat, NEW j \in Nat, NEW u, NEW v,
         Tails(W, i % Turn(digits, p), j % Turn(digits, p), u, v)
  PROVE  Tails(10 * W, i % Turn(digits, p - 1), j % Turn(digits, p - 1),
               W * Shown(digits, p, i) + u, W * Shown(digits, p, j) + v)
<1> DEFINE T == Turn(digits, p)
<1>1. T \in Tens
  BY Turns
<1>2. CASE digits[p] = X
  <2>1. Shown(digits, p, i) = (i \div T) % 10 /\ Shown(digits, p, j) = (j \div T) % 10
    BY <1>2 DEF Shown
  <2>2. Turn(digits, p - 1) = 10 * T
    BY <1>2, Turns
  <2>3. Tails(W, i % T, j % T, u, v)
    OBVIOUS
  <2> HIDE DEF T
  <2>4. Tails(10 * W, i % (10 * T), j % (10 * T), W * ((i \div T) % 10) + u, W * ((j \div T) % 10) + v)
    BY <1>1, <2>3, OneTurn, Zenon
  <2> QED BY <2>1, <2>2, <2>4, Zenon
<1>3. CASE digits[p] # X
  <2>1. digits[p] \in 0..9 /\ Shown(digits, p, i) = digits[p] /\ Shown(digits, p, j) = digits[p]
    BY <1>3 DEF Shown, MaskDigit, Digit
  <2>2. Turn(digits, p - 1) = T
    BY <1>3, Turns
  <2> DEFINE c == digits[p]
             r == i % T
             s == j % T
  <2>3. c \in 0..9 /\ Tails(W, r, s, u, v)
    BY <2>1
  <2> HIDE DEF c, r, s
  <2>4. W \in {1, 10, 100, 1000} /\ u \in 0..(W - 1) /\ v \in 0..(W - 1) /\ Follows(r, s, u, v)
    BY <2>3 DEF Tens, Tails
  <2>5. W * c + u \in 0..(10 * W - 1) /\ W * c + v \in 0..(10 * W - 1)
    BY <2>3, <2>4
  <2>6. Follows(r, s, W * c + u, W * c + v)
    <3>1. W * c \in Int
      BY <2>3, <2>4
    <3> QED BY <2>4, <3>1 DEF Follows
  <2>7. Tails(10 * W, r, s, W * c + u, W * c + v)
    BY <2>5, <2>6 DEF Tails
  <2> QED BY <2>1, <2>2, <2>7, Zenon DEF c, r, s
<1> QED BY <1>2, <1>3

(* The year at a counter of the odometer, place by place.                  *)
LEMMA CompletionShows ==
  ASSUME NEW digits \in [1..4 -> MaskDigit], NEW i \in Nat
  PROVE  /\ completion(digits, i) = 1000 * Shown(digits, 1, i) + 100 * Shown(digits, 2, i)
                                       + 10 * Shown(digits, 3, i) + Shown(digits, 4, i)
         /\ \A p \in 1..4 : Shown(digits, p, i) \in 0..9
<1> DEFINE t == [p \in DOMAIN digits |->
                   IF digits[p] = X THEN (i \div Turn(digits, p)) % 10 ELSE digits[p]]
<1>1. completion(digits, i) = year_value(t, 0)
  BY DEF completion, Turn, Above
<1>2. t = [p \in 1..4 |-> Shown(digits, p, i)]
  BY DEF Shown
<1> HIDE DEF t
<1>3. \A p \in 1..4 : t[p] = Shown(digits, p, i)
  BY <1>2
<1>4. ASSUME NEW p \in 1..4 PROVE Shown(digits, p, i) \in 0..9
  <2>1. Turn(digits, p) \in {1, 10, 100, 1000}
    BY Turns DEF Tens
  <2>2. (i \div Turn(digits, p)) % 10 \in 0..9
    BY <2>1
  <2> QED BY <2>2 DEF Shown, MaskDigit, Digit
<1>5. 1 \in 1..4 /\ 2 \in 1..4 /\ 3 \in 1..4 /\ 4 \in 1..4
  OBVIOUS
<1>6. \A p \in 1..4 : Shown(digits, p, i) # X
  BY <1>4 DEF X
<1> QED BY <1>1, <1>3, <1>4, <1>5, <1>6 DEF year_value

(* A counter's years rise with it, and are years of four digits.           *)
LEMMA CompletionsRise ==
  ASSUME NEW digits \in [1..4 -> MaskDigit]
  PROVE  LET count == completion_count(digits)
         IN  /\ count \in Nat \ {0}
             /\ \A i \in 0..(count - 1) : completion(digits, i) \in WrittenYears
             /\ \A i, j \in 0..(count - 1) : i < j => completion(digits, i) < completion(digits, j)
<1> DEFINE count == completion_count(digits)
<1>1. count = Turn(digits, 0) /\ count \in {1, 10, 100, 1000, 10000}
  <2>1. 1 \in 1..4 /\ 1 - 1 = 0
    OBVIOUS
  <2>2. Turn(digits, 0) \in {Turn(digits, 1), 10 * Turn(digits, 1)} /\ Turn(digits, 1) \in Tens
    BY <2>1, Turns
  <2> QED BY <2>2, Turns DEF Tens
<1> HIDE DEF count
<1>2. ASSUME NEW i \in Nat
      PROVE  completion(digits, i) = 1000 * Shown(digits, 1, i) + 100 * Shown(digits, 2, i)
                                       + 10 * Shown(digits, 3, i) + Shown(digits, 4, i)
  BY CompletionShows
<1>3. ASSUME NEW i \in Nat, NEW j \in Nat
      PROVE  /\ completion(digits, i) \in WrittenYears
             /\ Follows(i % count, j % count, completion(digits, i), completion(digits, j))
  <2> DEFINE S(p, k) == Shown(digits, p, k)
             T(p) == Turn(digits, p)
             t3(k) == 1 * S(4, k) + 0
             t2(k) == 10 * S(3, k) + t3(k)
             t1(k) == 100 * S(2, k) + t2(k)
             W == 1000
             t0(k) == W * S(1, k) + t1(k)
  <2>0. 1 \in 1..4 /\ 2 \in 1..4 /\ 3 \in 1..4 /\ 4 \in 1..4 /\ 4 - 1 = 3 /\ 3 - 1 = 2 /\ 2 - 1 = 1 /\ 1 - 1 = 0
    OBVIOUS
  <2>1. Tails(1, i % T(4), j % T(4), 0, 0)
    <3>1. T(4) = 1 /\ i % 1 = 0 /\ j % 1 = 0
      BY Turns
    <3> QED BY <3>1 DEF Tails, Follows
  <2>2. 1 \in Tens /\ 10 \in Tens /\ 100 \in Tens /\ 1000 \in Tens
    BY DEF Tens
  <2>3. Tails(10 * 1, i % T(4 - 1), j % T(4 - 1), t3(i), t3(j))
    BY <2>0, <2>1, <2>2, OnePlace, Zenon
  <2> HIDE DEF t3
  <2>4. Tails(10, i % T(3), j % T(3), t3(i), t3(j))
    BY <2>0, <2>3
  <2>5. Tails(10 * 10, i % T(3 - 1), j % T(3 - 1), t2(i), t2(j))
    BY <2>0, <2>2, <2>4, OnePlace, Zenon
  <2> HIDE DEF t2
  <2>6. Tails(100, i % T(2), j % T(2), t2(i), t2(j))
    BY <2>0, <2>5
  <2>7. Tails(10 * 100, i % T(2 - 1), j % T(2 - 1), t1(i), t1(j))
    BY <2>0, <2>2, <2>6, OnePlace, Zenon
  <2> HIDE DEF t1
  <2>8. W \in Tens /\ Tails(W, i % T(1), j % T(1), t1(i), t1(j))
    BY <2>0, <2>2, <2>7
  <2> HIDE DEF W
  <2>9. Tails(10 * W, i % T(1 - 1), j % T(1 - 1), t0(i), t0(j))
    BY <2>0, <2>8, OnePlace, Zenon
  <2> HIDE DEF t0
  <2>10. t0(i) \in 0..9999 /\ Follows(i % T(0), j % T(0), t0(i), t0(j))
    BY <2>0, <2>9 DEF Tails, W
  <2>11. ASSUME NEW k \in Nat PROVE completion(digits, k) = t0(k)
    <3>1. PICK p, q, r, s \in 0..9 : p = S(1, k) /\ q = S(2, k) /\ r = S(3, k) /\ s = S(4, k)
      <4>1. ASSUME NEW l \in 1..4 PROVE S(l, k) \in 0..9
        <5>1. Turn(digits, l) \in {1, 10, 100, 1000}
          BY Turns DEF Tens
        <5>2. (k \div Turn(digits, l)) % 10 \in 0..9
          BY <5>1
        <5> QED BY <5>2 DEF Shown, MaskDigit, Digit
      <4> HIDE DEF S
      <4> QED BY <2>0, <4>1
    <3>2. completion(digits, k) = 1000 * p + 100 * q + 10 * r + s
      BY <1>2, <3>1
    <3>3. t0(k) = 1000 * p + (100 * q + (10 * r + (1 * s + 0)))
      BY <3>1 DEF t0, t1, t2, t3, W
    <3> QED BY <3>2, <3>3
  <2> QED BY <1>1, <2>10, <2>11 DEF WrittenYears
<1>4. ASSUME NEW i \in 0..(count - 1), NEW j \in 0..(count - 1), i < j
      PROVE  completion(digits, i) < completion(digits, j)
  <2>1. i \in Nat /\ j \in Nat /\ i % count = i /\ j % count = j
    BY <1>1
  <2>2. Follows(i, j, completion(digits, i), completion(digits, j))
    BY <1>3, <2>1
  <2> QED BY <1>4, <2>2 DEF Follows
<1>5. count \in Nat \ {0} /\ 0..(count - 1) \subseteq Nat
  BY <1>1
<1> QED BY <1>3, <1>4, <1>5 DEF count

-----------------------------------------------------------------------------
(* Two days in order are well-formed bounds.                               *)
LEMMA DaysInOrder ==
  ASSUME NEW lo \in CalendarDay, NEW hi \in CalendarDay, AtMost(lo, hi)
  PROVE  WellFormed(MkBounds(DayBound(lo), DayBound(hi)))
<1>1. \A s \in CalendarDay : IsBound(DayBound(s), NegInf, I64Years) /\ IsBound(DayBound(s), PosInf, I64Years)
  BY DEF CalendarDay, IsBound, DayBound
<1>2. lo[1] \in Int /\ lo[2] \in Int /\ lo[3] \in Int
  <2>1. I64Years \subseteq Int
    BY Numbers DEF I64Years
  <2> QED BY <2>1, PositionIsTriple DEF CalendarDay
<1>3. NotAbove(DayBound(lo), DayBound(hi))
  <2>1. hi[1] \in Int /\ hi[2] \in Int /\ hi[3] \in Int
    <3>1. I64Years \subseteq Int
      BY Numbers DEF I64Years
    <3> QED BY <3>1, PositionIsTriple DEF CalendarDay
  <2>2. ~Before(hi, lo)
    BY <1>2, <2>1 DEF AtMost, Before
  <2> QED BY <2>2 DEF NotAbove, Below, DayBound
<1> QED BY <1>1, <1>3 DEF WellFormed, IsBounds, MkBounds

(* Bounds that are well formed whatever the year (bounds.rs year_bounds(), *)
(* season_bounds()): whole years, and seasons and other sub-year           *)
(* groupings, the winter included that ends in the February of the year    *)
(* after, in that year's own length.                                       *)
THEOREM YearsAndSeasons ==
  ASSUME NEW lo \in I64Years, NEW hi \in I64Years, lo <= hi
  PROVE  /\ WellFormed(WholeYears(lo, hi))
         /\ \A d : \A code \in 21..41 :
              year_range(d) = <<lo, hi>> /\ hi < I64Max => WellFormed(season_bounds(d, code))
<1>1. lo \in Int /\ hi \in Int /\ I64Max \in Int /\ hi <= I64Max
  BY Numbers DEF I64Years
<1>2. \A month \in 1..12, leap \in BOOLEAN : last_day(month, leap) \in 28..31
  BY LastDayBounds
<1>3. WellFormed(WholeYears(lo, hi))
  <2>1. <<lo, 1, 1>> \in CalendarDay /\ <<hi, 12, 31>> \in CalendarDay
    <3>1. last_day(1, is_leap(lo)) = 31 /\ last_day(12, is_leap(hi)) = 31
      BY DEF last_day
    <3>2. <<lo, 1, 1>> \in DaysOfMonth(lo, 1) /\ <<hi, 12, 31>> \in DaysOfMonth(hi, 12)
      BY <3>1, DayOfYear
    <3> QED BY <3>2 DEF DaysOfMonth, DaysOfYear
  <2>2. AtMost(<<lo, 1, 1>>, <<hi, 12, 31>>)
    BY <1>1 DEF AtMost, Before
  <2> QED BY <2>1, <2>2, DaysInOrder DEF WholeYears
<1>4. ASSUME NEW d, NEW code \in 21..41, year_range(d) = <<lo, hi>>, hi < I64Max
      PROVE  WellFormed(season_bounds(d, code))
  <2> DEFINE span == season_months(code)
             last == hi + (IF span[3] THEN 1 ELSE 0)
  <2>1. /\ span[1] \in 1..12 /\ span[2] \in 1..12 /\ span[3] \in BOOLEAN
        /\ span[3] \/ span[1] <= span[2]
    <3>1. CASE code \in {21, 25, 31}
      <4>1. /\ code \notin {22, 26, 32} /\ code \notin {23, 27, 29} /\ code \notin {24, 28, 30}
            /\ code \notin 33..36 /\ code \notin 37..39 /\ code \notin 40..41
        BY <3>1
      <4>2. span = <<3, 5, FALSE>>
        BY <3>1, <4>1, Zenon DEF season_months
      <4> QED BY <3>1, <4>2
    <3>2. CASE code \in {22, 26, 32}
      <4>1. /\ code \notin {21, 25, 31} /\ code \notin {23, 27, 29} /\ code \notin {24, 28, 30}
            /\ code \notin 33..36 /\ code \notin 37..39 /\ code \notin 40..41
        BY <3>2
      <4>2. span = <<6, 8, FALSE>>
        BY <3>2, <4>1, Zenon DEF season_months
      <4> QED BY <3>2, <4>2
    <3>3. CASE code \in {23, 27, 29}
      <4>1. /\ code \notin {21, 25, 31} /\ code \notin {22, 26, 32} /\ code \notin {24, 28, 30}
            /\ code \notin 33..36 /\ code \notin 37..39 /\ code \notin 40..41
        BY <3>3
      <4>2. span = <<9, 11, FALSE>>
        BY <3>3, <4>1, Zenon DEF season_months
      <4> QED BY <3>3, <4>2
    <3>4. CASE code \in {24, 28, 30}
      <4>1. /\ code \notin {21, 25, 31} /\ code \notin {22, 26, 32} /\ code \notin {23, 27, 29}
            /\ code \notin 33..36 /\ code \notin 37..39 /\ code \notin 40..41
        BY <3>4
      <4>2. span = <<12, 2, TRUE>>
        BY <3>4, <4>1, Zenon DEF season_months
      <4> QED BY <3>4, <4>2
    <3>5. CASE code \in 33..36
      <4>1. /\ code \notin {21, 25, 31} /\ code \notin {22, 26, 32} /\ code \notin {23, 27, 29}
            /\ code \notin {24, 28, 30} /\ code \notin 37..39 /\ code \notin 40..41
        BY <3>5
      <4>2. span = <<3 * (code - 33) + 1, 3 * (code - 33) + 3, FALSE>>
        BY <3>5, <4>1, Zenon DEF season_months
      <4> QED BY <3>5, <4>2
    <3>6. CASE code \in 37..39
      <4>1. /\ code \notin {21, 25, 31} /\ code \notin {22, 26, 32} /\ code \notin {23, 27, 29}
            /\ code \notin {24, 28, 30} /\ code \notin 33..36 /\ code \notin 40..41
        BY <3>6
      <4>2. span = <<4 * (code - 37) + 1, 4 * (code - 37) + 4, FALSE>>
        BY <3>6, <4>1, Zenon DEF season_months
      <4> QED BY <3>6, <4>2
    <3>7. CASE code \in 40..41
      <4>1. /\ code \notin {21, 25, 31} /\ code \notin {22, 26, 32} /\ code \notin {23, 27, 29}
            /\ code \notin {24, 28, 30} /\ code \notin 33..36 /\ code \notin 37..39
        BY <3>7
      <4>2. span = <<6 * (code - 40) + 1, 6 * (code - 40) + 6, FALSE>>
        BY <3>7, <4>1, Zenon DEF season_months
      <4> QED BY <3>7, <4>2
    <3>8. \/ code \in {21, 25, 31} \/ code \in {22, 26, 32} \/ code \in {23, 27, 29} \/ code \in {24, 28, 30}
          \/ code \in 33..36 \/ code \in 37..39 \/ code \in 40..41
      OBVIOUS
    <3> QED BY <3>1, <3>2, <3>3, <3>4, <3>5, <3>6, <3>7, <3>8
  <2>2. season_bounds(d, code) = span_bounds(span, lo, last)
    BY <1>4 DEF season_bounds
  <2> HIDE DEF span
  <2>3. last \in I64Years /\ lo <= last /\ (span[3] => lo < last)
    BY <1>1, <1>4, <2>1, I64Assumption DEF I64Years
  <2> HIDE DEF last
  <2>4. last \in Int
    BY <2>3, I64Assumption DEF I64Years
  <2> DEFINE ending == last_day(span[2], is_leap(last))
  <2>5. ending \in 28..31
    BY <2>1, LastDayBounds
  <2>6. <<lo, span[1], 1>> \in CalendarDay
    <3>1. last_day(span[1], is_leap(lo)) \in 28..31
      BY <2>1, LastDayBounds
    <3> QED BY <2>1, <3>1, DayOfYear DEF DaysOfMonth, DaysOfYear
  <2>7. <<last, span[2], ending>> \in CalendarDay
    BY <2>1, <2>3, <2>5, DayOfYear DEF DaysOfMonth, DaysOfYear
  <2> HIDE DEF ending
  <2>8. AtMost(<<lo, span[1], 1>>, <<last, span[2], ending>>)
    BY <1>1, <2>1, <2>3, <2>4, <2>5 DEF AtMost, Before
  <2>9. WellFormed(MkBounds(DayBound(<<lo, span[1], 1>>), DayBound(<<last, span[2], ending>>)))
    BY <2>6, <2>7, <2>8, DaysInOrder
  <2> QED BY <2>2, <2>9 DEF span_bounds, ending
<1> QED BY <1>3, <1>4

-----------------------------------------------------------------------------
(* What the parser accepts can be searched. *)
LEMMA YearsSearched ==
  ASSUME NEW kind, IsYearKind(kind), kind.form = "Standard"
  PROVE  YearsRise(kind)
<1> DEFINE digits == kind.digits
           up == years_travelled(kind, TRUE)
           down == years_travelled(kind, FALSE)
<1>1. digits \in [1..4 -> MaskDigit]
  BY DEF IsYearKind
<1>2. CASE ~has_x(digits)
  <2>1. year_of(kind) # None
    <3>1. year_of(kind) = Some((IF kind.negative THEN -1 ELSE 1) * year_value(digits, 0))
      BY <1>2, Zenon DEF year_of
    <3> QED BY <3>1 DEF Some, None
  <2>2. Get(year_of(kind)) \in I64Years
    BY <2>1, YearFits
  <2>3. up = [i \in {0} |-> Get(year_of(kind))] /\ down = [i \in {0} |-> Get(year_of(kind))]
    BY <1>2 DEF years_travelled
  <2>4. 0 \in Nat /\ 0..0 = {0} /\ 0 - 0 = 0 /\ ~(0 < 0)
    OBVIOUS
  <2> HIDE DEF up, down
  <2>5. /\ DOMAIN up = 0..0 /\ DOMAIN down = 0..0
        /\ \A i \in 0..0 : up[i] \in I64Years /\ down[0 - i] = up[i]
        /\ \A i, j \in 0..0 : i < j => up[i] < up[j]
    BY <2>2, <2>3, <2>4
  <2> QED BY <2>4, <2>5 DEF YearsRise, up, down
<1>3. CASE has_x(digits)
  <2> DEFINE count == completion_count(digits)
             n == count - 1
  <2>1. /\ count \in Nat \ {0}
        /\ \A i \in 0..n : completion(digits, i) \in WrittenYears
        /\ \A i, j \in 0..n : i < j => completion(digits, i) < completion(digits, j)
    BY <1>1, CompletionsRise
  <2>2. /\ up = [i \in 0..(count - 1) |-> completion(digits, i)]
        /\ down = [i \in 0..(count - 1) |-> completion(digits, count - 1 - i)]
    BY <1>3 DEF years_travelled
  <2>3. WrittenYears \subseteq I64Years
    BY Numbers DEF WrittenYears, I64Years
  <2> HIDE DEF up, down, count
  <2>4. n \in Nat /\ \A i \in 0..n : n - i \in 0..n /\ n - (n - i) = i
    BY <2>1
  <2>5. /\ DOMAIN up = 0..n /\ DOMAIN down = 0..n
        /\ \A i \in 0..n : up[i] \in I64Years /\ down[n - i] = up[i]
        /\ \A i, j \in 0..n : i < j => up[i] < up[j]
    BY <2>1, <2>2, <2>3, <2>4
  <2> QED BY <2>4, <2>5 DEF YearsRise, up, down
<1> QED BY <1>2, <1>3

(* A fully written field is one candidate. *)
LEMMA FieldValue ==
  ASSUME NEW f, f.digits \in [1..2 -> MaskDigit], ~has_x(f.digits)
  PROVE  \E v \in Nat : field_value(f) = Some(v) /\ Get(field_value(f)) = v /\ field_value(f) # None
<1>1. 1 \in 1..2 /\ 2 \in 1..2 /\ DOMAIN f.digits = 1..2
  OBVIOUS
<1>2. f.digits[1] \in 0..9 /\ f.digits[2] \in 0..9
  BY <1>1 DEF has_x, MaskDigit, Digit
<1> DEFINE v == 10 * f.digits[1] + f.digits[2]
<1>3. v \in Nat
  BY <1>2
<1>4. field_value(f) = Some(v)
  BY DEF field_value
<1> HIDE DEF v
<1>5. Get(Some(v)) = v /\ Some(v) # None
  BY DEF Some, Get, None
<1> QED BY <1>3, <1>4, <1>5

(* A single candidate in range is a rising list.                           *)
LEMMA OneCandidate ==
  ASSUME NEW last \in Nat, NEW v \in 1..last
  PROVE  Rising(Some(v), last)
BY DEF Rising, Some

(* A date the parser accepts can be searched for its extremes.             *)
LEMMA ValidIsSearchable ==
  ASSUME NEW d, IsDateRecord(d), ~IsSeason(d), d.day # None => d.month # None,
         validate_month_day(d.year.kind, d.month, d.day)
  PROVE  Searchable(d)
<1>1. ASSUME d.month # None
      PROVE  Rising(month_candidates_of(Get(d.month)), 12)
  <2> DEFINE f == Get(d.month)
  <2>1. f.digits \in [1..2 -> MaskDigit]
    BY <1>1 DEF IsDateRecord, IsSlot
  <2>2. CASE has_x(f.digits)
    BY <2>2, Candidates DEF month_candidates_of
  <2>3. CASE ~has_x(f.digits)
    <3>1. PICK v \in Nat : field_value(f) = Some(v) /\ Get(field_value(f)) = v /\ field_value(f) # None
      BY <2>1, <2>3, FieldValue
    <3>2. v \in (1..12) \cup SeasonCode
      BY <1>1, <3>1 DEF validate_month_day
    <3>3. v \notin SeasonCode
      <4>1. slot_value(d.month) = Some(v)
        BY <1>1, <3>1 DEF slot_value, IsSome
      <4> QED BY <4>1 DEF IsSeason
    <3>4. v \in 1..12
      BY <3>2, <3>3
    <3>5. month_candidates_of(f) = Some(v)
      BY <2>3, <3>1 DEF month_candidates_of
    <3> QED BY <3>4, <3>5, OneCandidate
  <2> QED BY <2>2, <2>3
<1>2. ASSUME d.day # None
      PROVE  Rising(day_candidates_of(Get(d.day)), 31)
  <2> DEFINE f == Get(d.day)
  <2>1. f.digits \in [1..2 -> MaskDigit]
    BY <1>2 DEF IsDateRecord, IsSlot
  <2>2. CASE has_x(f.digits)
    BY <2>2, Candidates DEF day_candidates_of
  <2>3. CASE ~has_x(f.digits)
    <3>1. PICK v \in Nat : field_value(f) = Some(v) /\ Get(field_value(f)) = v /\ field_value(f) # None
      BY <2>1, <2>3, FieldValue
    <3>2. accepted_days(f) # {}
      BY <1>2 DEF validate_month_day, day_has_valid_completion
    <3>3. v \in 1..31
      BY <3>1, <3>2 DEF accepted_days
    <3>4. day_candidates_of(f) = Some(v)
      BY <2>3, <3>1 DEF day_candidates_of
    <3> QED BY <3>3, <3>4, OneCandidate
  <2> QED BY <2>2, <2>3
<1> QED BY <1>1, <1>2 DEF Searchable

-----------------------------------------------------------------------------
(* A date. *)
LEMMA UnknownIsWellFormed == WellFormed(UnknownBounds)
BY DEF WellFormed, IsBounds, IsBound, UnknownBounds, MkBounds, Unknown, NegInf, PosInf, NotAbove, Below

(* The width significant digits are counted in is a number.                *)
LEMMA WidthIsInt ==
  ASSUME NEW kind, IsYearKind(kind)
  PROVE  big_width(kind) \in Int
<1>1. ASSUME NEW v \in I64Years PROVE decimal_digits(Abs(v)) \in Int
  <2>1. Abs(v) \in 0..(I64Max + 1)
    BY Numbers DEF Abs, I64Years
  <2>2. 1..(MaxPow10 + 1) \subseteq Int
    BY Numbers
  <2> QED BY <2>1, <2>2, DigitsCounted
<1>2. CASE kind.form = "Standard"
  <2>1. big_width(kind) = 4
    BY <1>2, Zenon DEF big_width
  <2> QED BY <2>1
<1>3. CASE kind.form = "Big"
  <2>1. big_width(kind) = decimal_digits(Abs(kind.value))
    BY <1>3, Zenon DEF big_width
  <2>2. kind.value \in I64Years
    BY <1>3 DEF IsYearKind, I64Years
  <2> QED BY <1>1, <2>1, <2>2
<1>4. CASE kind.form = "Exponential"
  <2>1. big_width(kind) = decimal_digits(Abs(kind.significand)) + kind.exponent
    BY <1>4, Zenon DEF big_width
  <2>2. kind.significand \in I64Years /\ kind.exponent \in Nat
    BY <1>4 DEF IsYearKind, I64Years
  <2>3. decimal_digits(Abs(kind.significand)) \in Int
    BY <1>1, <2>2
  <2> QED BY <2>1, <2>2, <2>3
<1> QED BY <1>2, <1>3, <1>4 DEF IsYearKind

(* The years a date without a month sweeps, if they fit. *)
LEMMA RangeOfDate ==
  ASSUME NEW year, IsYearKind(year.kind), IsSignificance(year.significant_digits)
  PROVE  \/ date_range(year) = None
         \/ \E lo \in I64Years, hi \in I64Years :
              lo <= hi /\ date_range(year) = Some(<<lo, hi>>)
<1>1. CASE year_of(year.kind) = None
  BY <1>1 DEF date_range
<1>2. CASE year_of(year.kind) # None
  <2>1. Get(year_of(year.kind)) \in I64Years
    BY <1>2, YearFits
  <2>2. big_width(year.kind) \in Int
    BY WidthIsInt
  <2>3. date_range(year) = significant_range(Get(year_of(year.kind)), year.significant_digits,
                                             big_width(year.kind))
    BY <1>2 DEF date_range
  <2> QED BY <2>1, <2>2, <2>3, SweepFits
<1> QED BY <1>1, <1>2

(* The years a season's date may lie in form a span of years of an i64.    *)
LEMMA SpanOfSeason ==
  ASSUME NEW d, IsYearKind(d.year.kind), d.year.kind.form = "Standard"
  PROVE  \E lo \in I64Years, hi \in I64Years : year_range(d) = <<lo, hi>> /\ lo <= hi /\ hi < I64Max
<1> DEFINE kind == d.year.kind
           digits == kind.digits
           v(fill) == year_value(digits, fill)
<1>1. digits \in [1..4 -> MaskDigit] /\ kind.negative \in BOOLEAN
  BY DEF IsYearKind
<1>2. v(0) \in WrittenYears /\ v(9) \in WrittenYears /\ v(0) <= v(9)
  <2>1. 0 \in 0..9 /\ 9 \in 0..9
    OBVIOUS
  <2> QED BY <1>1, <2>1, YearValue
<1>3. CASE has_x(digits)
  <2>1. year_range(d) = <<v(0), v(9)>>
    <3>1. year_of(kind) = None
      BY <1>3, Zenon DEF year_of
    <3> QED BY <3>1 DEF year_range, ends_or_mask
  <2> HIDE DEF v
  <2>2. v(0) \in SignedYears /\ v(9) \in SignedYears
    BY <1>1, <1>2, SignedYear
  <2> QED BY <1>2, <2>1, <2>2, SignedYearsFit
<1>4. CASE ~has_x(digits)
  <2> DEFINE n == (IF kind.negative THEN -1 ELSE 1) * v(0)
  <2>1. year_of(kind) = Some(n)
    BY <1>4, Zenon DEF year_of
  <2> HIDE DEF v
  <2>2. n \in SignedYears
    BY <1>1, <1>2, SignedYear
  <2> HIDE DEF n
  <2>3. year_range(d) = <<n, n>>
    BY <2>1 DEF year_range, ends_or_mask, Some, None, Get
  <2> QED BY <2>2, <2>3, SignedYearsFit
<1> QED BY <1>3, <1>4

(* What the parser asks of a date, in all the places it reads one: its     *)
(* month and day are slots it has checked, unless the year stands alone.   *)
ValidSlots(d) ==
  d.year.kind.form = "Standard" =>
    /\ d.day # None => d.month # None
    /\ validate_month_day(d.year.kind, d.month, d.day)

(* A valid date's slots were validated as a month and a day.               *)
LEMMA ValidDateSlots ==
  ASSUME NEW d, ValidDate(d)
  PROVE  ValidSlots(d)
BY DEF ValidDate, ValidStandardDate, ValidSlots

(* So were those of a date-time's date.                                    *)
LEMMA PlainDateSlots ==
  ASSUME NEW d, IsDateRecord(d), parse_plain_complete_date(d)
  PROVE  ValidSlots(d)
<1> DEFINE f == Get(d.month)
<1>1. d.month # None /\ d.day # None /\ ~has_x(f.digits) /\ f.digits \in [1..2 -> MaskDigit]
  BY DEF parse_plain_complete_date, has_unspecified, IsSome, IsDateRecord, IsSlot
<1>2. PICK v \in Nat : field_value(f) = Some(v) /\ Get(field_value(f)) = v /\ field_value(f) # None
  BY <1>1, FieldValue
<1>3. slot_value(d.month) = field_value(f)
  BY <1>1 DEF slot_value, IsSome
<1>4. v \in 1..12 /\ day_has_valid_completion(d.year.kind, f, Get(d.day))
  BY <1>2, <1>3 DEF parse_plain_complete_date
<1>5. v \notin SeasonCode
  BY <1>4 DEF SeasonCode
<1> QED BY <1>1, <1>2, <1>4, <1>5 DEF ValidSlots, validate_month_day

(* The bounds of a valid date are days of the calendar, in order, or they  *)
(* are unknown (bounds.rs date_bounds()).                                  *)
LEMMA DateWellFormed ==
  ASSUME NEW d, IsDateRecord(d), ValidSlots(d)
  PROVE  WellFormed(date_bounds(d))
<1>1. CASE d.year.kind.form # "Standard" \/ d.year.significant_digits # None
  <2>1. date_bounds(d) = year_bounds(date_range(d.year))
    BY <1>1 DEF date_bounds
  <2>2. CASE date_range(d.year) = None
    BY <2>1, <2>2, UnknownIsWellFormed DEF year_bounds
  <2>3. CASE date_range(d.year) # None
    <3>1. PICK lo \in I64Years, hi \in I64Years : lo <= hi /\ date_range(d.year) = Some(<<lo, hi>>)
      BY <2>3, RangeOfDate DEF IsDateRecord
    <3>2. year_bounds(date_range(d.year)) = WholeYears(lo, hi)
      BY <3>1 DEF year_bounds, Some, None, Get
    <3> QED BY <2>1, <3>1, <3>2, YearsAndSeasons
  <2> QED BY <2>2, <2>3
<1>2. CASE ~(d.year.kind.form # "Standard" \/ d.year.significant_digits # None) /\ IsSeason(d)
  <2>1. date_bounds(d) = season_bounds(d, Get(slot_value(d.month)))
    BY <1>2 DEF date_bounds
  <2>2. PICK code \in 21..41 : slot_value(d.month) = Some(code)
    BY <1>2 DEF IsSeason, SeasonCode
  <2>3. Get(slot_value(d.month)) = code
    BY <2>2 DEF Get, Some
  <2>4. PICK lo \in I64Years, hi \in I64Years : year_range(d) = <<lo, hi>> /\ lo <= hi /\ hi < I64Max
    BY <1>2, SpanOfSeason DEF IsDateRecord
  <2> QED BY <2>1, <2>3, <2>4, YearsAndSeasons
<1>3. CASE ~(d.year.kind.form # "Standard" \/ d.year.significant_digits # None) /\ ~IsSeason(d)
  <2> DEFINE first == extremum(d, TRUE)
             last == extremum(d, FALSE)
  <2>1. date_bounds(d) = day_bounds(first, last)
    BY <1>3 DEF date_bounds
  <2>2. Searchable(d) /\ YearsRise(d.year.kind)
    BY <1>3, ValidIsSearchable, YearsSearched DEF ValidSlots, IsDateRecord
  <2>3. Bracket(first, last, Fitting(d))
    BY <2>2, DaysOfAllYears
  <2> HIDE DEF first, last
  <2>4. CASE first = None /\ last = None
    BY <2>1, <2>4, UnknownIsWellFormed DEF day_bounds
  <2>5. CASE \E s, t \in Fitting(d) : first = Some(s) /\ last = Some(t) /\ AtMost(s, t)
    <3>1. PICK s \in Fitting(d), t \in Fitting(d) : first = Some(s) /\ last = Some(t) /\ AtMost(s, t)
      BY <2>5
    <3>2. s \in CalendarDay /\ t \in CalendarDay
      BY DEF Fitting
    <3>3. day_bounds(first, last) = MkBounds(DayBound(s), DayBound(t))
      BY <3>1 DEF day_bounds, Some, None, Get
    <3> QED BY <2>1, <3>1, <3>2, <3>3, DaysInOrder
  <2> QED BY <2>3, <2>4, <2>5 DEF Bracket
<1> QED BY <1>1, <1>2, <1>3

(* A date's bounds are two days, or both are unknown (bounds.rs            *)
(* date_bounds()).                                                         *)
LEMMA DaysOrUnknown ==
  ASSUME NEW d
  PROVE  \/ date_bounds(d) = UnknownBounds
         \/ \E first, last : date_bounds(d) = MkBounds(DayBound(first), DayBound(last))
<1>1. CASE d.year.kind.form # "Standard" \/ d.year.significant_digits # None
  BY <1>1 DEF date_bounds, year_bounds, WholeYears
<1>2. CASE ~(d.year.kind.form # "Standard" \/ d.year.significant_digits # None) /\ IsSeason(d)
  BY <1>2 DEF date_bounds, season_bounds, span_bounds
<1>3. CASE ~(d.year.kind.form # "Standard" \/ d.year.significant_digits # None) /\ ~IsSeason(d)
  BY <1>3 DEF date_bounds, day_bounds
<1> QED BY <1>1, <1>2, <1>3

-----------------------------------------------------------------------------
(* Intervals, elements and sets. *)
LEMMA SidesOf ==
  ASSUME NEW r, WellFormed(r)
  PROVE  /\ r.earliest.at \in {"NegInf", "Unknown", "Day"}
         /\ r.latest.at \in {"PosInf", "Unknown", "Day"}
         /\ r.earliest.at = "NegInf" => r.earliest = NegInf
         /\ r.latest.at = "PosInf" => r.latest = PosInf
         /\ r.earliest.at = "Unknown" => r.earliest = Unknown
         /\ r.latest.at = "Unknown" => r.latest = Unknown
         /\ r.earliest.at = "Day" => r.earliest = DayBound(r.earliest.day) /\ r.earliest.day \in CalendarDay
         /\ r.latest.at = "Day" => r.latest = DayBound(r.latest.day) /\ r.latest.day \in CalendarDay
         /\ r.earliest.at = "Day" /\ r.latest.at = "Day" => ~Before(r.latest.day, r.earliest.day)
BY DEF WellFormed, IsBounds, IsBound, NegInf, PosInf, Unknown, DayBound, NotAbove, Below, CalendarDay

(* Two bounds that are in order are well-formed bounds.                    *)
LEMMA PairWellFormed ==
  ASSUME NEW e, NEW l, IsBound(e, NegInf, I64Years), IsBound(l, PosInf, I64Years),
         e.at = "Day" /\ l.at = "Day" => ~Before(l.day, e.day)
  PROVE  WellFormed(MkBounds(e, l))
<1>1. e.at \in {"NegInf", "Unknown", "Day"} /\ l.at \in {"PosInf", "Unknown", "Day"}
  BY DEF IsBound, NegInf, PosInf, Unknown
<1>2. NotAbove(e, l)
  BY <1>1 DEF NotAbove, Below
<1> QED BY <1>2 DEF WellFormed, IsBounds, MkBounds

(* An interval the parser accepts has well-formed bounds.                  *)
LEMMA IntervalWellFormed ==
  ASSUME NEW s, NEW e, IsEndpoint(s), IsEndpoint(e), parse_interval(s, e)
  PROVE  WellFormed(interval_bounds(s, e))
<1> DEFINE p == start_bound(s, date_bounds(s.date))
           q == end_bound(e, date_bounds(e.date))
<1>1. /\ s.kind \in {"Open", "Unknown", "Date", "OnOrBefore"}
      /\ e.kind \in {"Open", "Unknown", "Date", "OnOrAfter"}
      /\ s.kind = "Date" /\ e.kind = "Date" => ~dates_out_of_order(s.date, e.date)
  BY DEF parse_interval, ends_agree
<1>2. ASSUME s.kind = "Date" PROVE WellFormed(date_bounds(s.date)) /\ p = date_bounds(s.date).earliest
  <2>1. is_dated(s)
    BY <1>2 DEF is_dated
  <2>2. IsDateRecord(s.date) /\ ValidDate(s.date)
    BY <2>1 DEF IsEndpoint, parse_interval
  <2>3. p = date_bounds(s.date).earliest
    BY <1>2, Zenon DEF start_bound
  <2> QED BY <2>2, <2>3, ValidDateSlots, DateWellFormed
<1>3. ASSUME e.kind = "Date" PROVE WellFormed(date_bounds(e.date)) /\ q = date_bounds(e.date).latest
  <2>1. is_dated(e)
    BY <1>3 DEF is_dated
  <2>2. IsDateRecord(e.date) /\ ValidDate(e.date)
    BY <2>1 DEF IsEndpoint, parse_interval
  <2>3. q = date_bounds(e.date).latest
    BY <1>3, Zenon DEF end_bound
  <2> QED BY <2>2, <2>3, ValidDateSlots, DateWellFormed
<1>4. s.kind # "Date" => p = NegInf \/ p = Unknown
  <2>1. s.kind \in {"Open", "OnOrBefore"} => p = NegInf
    BY Zenon DEF start_bound
  <2>2. s.kind = "Unknown" => p = Unknown
    BY Zenon DEF start_bound
  <2> QED BY <1>1, <2>1, <2>2
<1>5. e.kind # "Date" => q = PosInf \/ q = Unknown
  <2>1. e.kind \in {"Open", "OnOrAfter"} => q = PosInf
    BY Zenon DEF end_bound
  <2>2. e.kind = "Unknown" => q = Unknown
    BY Zenon DEF end_bound
  <2> QED BY <1>1, <2>1, <2>2
<1>6. interval_bounds(s, e) = MkBounds(p, q)
  BY DEF interval_bounds
<1> HIDE DEF p, q
<1>7. IsBound(p, NegInf, I64Years)
  BY <1>2, <1>4 DEF WellFormed, IsBounds, IsBound
<1>8. IsBound(q, PosInf, I64Years)
  BY <1>3, <1>5 DEF WellFormed, IsBounds, IsBound
<1>9. p.at = "Day" /\ q.at = "Day" => ~Before(q.day, p.day)
  <2>1. SUFFICES ASSUME p.at = "Day", q.at = "Day" PROVE ~Before(q.day, p.day)
    OBVIOUS
  <2>2. s.kind = "Date" /\ e.kind = "Date"
    BY <1>4, <1>5, <2>1 DEF NegInf, PosInf, Unknown
  <2> QED BY <1>1, <1>2, <1>3, <2>1, <2>2 DEF dates_out_of_order
<1> QED BY <1>6, <1>7, <1>8, <1>9, PairWellFormed

(* So has an element of a set it accepts.                                  *)
LEMMA ElementWellFormed ==
  ASSUME NEW e, IsElement(e), parse_set_element(e), range_agrees(e)
  PROVE  WellFormed(element_bounds(e))
<1> DEFINE b == date_bounds(e.date)
           first == IF e.kind = "OnOrBefore" THEN NegInf ELSE b.earliest
           last == CASE e.kind = "OnOrAfter" -> PosInf
                     [] e.kind = "Range" -> date_bounds(e.to).latest
                     [] e.kind \in {"Date", "OnOrBefore"} -> b.latest
<1>1. WellFormed(b) /\ (e.kind = "Range" => WellFormed(date_bounds(e.to)))
  BY ValidDateSlots, DateWellFormed DEF IsElement, parse_set_element
<1>2. element_bounds(e) = MkBounds(first, last)
  BY DEF element_bounds
<1>3. IsBound(b.earliest, NegInf, I64Years) /\ IsBound(b.latest, PosInf, I64Years)
  BY <1>1 DEF WellFormed, IsBounds
<1>4. IsBound(first, NegInf, I64Years)
  BY <1>3 DEF IsBound
<1>5. CASE e.kind = "OnOrAfter"
  <2>1. last = PosInf
    BY <1>5, Zenon
  <2> HIDE DEF first, last
  <2>2. IsBound(last, PosInf, I64Years) /\ last.at # "Day"
    BY <2>1 DEF IsBound, PosInf
  <2> QED BY <1>2, <1>4, <2>2, PairWellFormed
<1>6. CASE e.kind = "OnOrBefore"
  <2>1. last = b.latest /\ first = NegInf
    BY <1>6, Zenon
  <2> HIDE DEF first, last
  <2>2. IsBound(last, PosInf, I64Years) /\ first.at # "Day"
    BY <1>3, <2>1 DEF NegInf
  <2> QED BY <1>2, <1>4, <2>2, PairWellFormed
<1>7. CASE e.kind = "Date"
  <2>1. last = b.latest /\ first = b.earliest
    BY <1>7, Zenon
  <2> HIDE DEF first, last
  <2>2. b.earliest.at = "Day" /\ b.latest.at = "Day" => ~Before(b.latest.day, b.earliest.day)
    BY <1>1, SidesOf
  <2> QED BY <1>2, <1>3, <2>1, <2>2, PairWellFormed
<1>8. CASE e.kind = "Range"
  <2> DEFINE c == date_bounds(e.to)
  <2>1. last = c.latest /\ first = b.earliest
    BY <1>8, Zenon
  <2>2. IsBound(c.latest, PosInf, I64Years)
    BY <1>1, <1>8 DEF WellFormed, IsBounds
  <2>3. b.earliest.at = "Day" /\ c.latest.at = "Day" => ~Before(c.latest.day, b.earliest.day)
    BY <1>8 DEF range_agrees, dates_out_of_order
  <2> HIDE DEF first, last, b, c
  <2> QED BY <1>2, <1>3, <2>1, <2>2, <2>3, PairWellFormed
<1> QED BY <1>5, <1>6, <1>7, <1>8 DEF IsElement

(* Widening well-formed bounds keeps them well formed.                     *)
LEMMA WidenedWellFormed ==
  ASSUME NEW p, NEW q, WellFormed(p), WellFormed(q)
  PROVE  WellFormed(widened(p, q))
<1> DEFINE lo == min_bound(p.earliest, q.earliest)
           hi == max_bound(p.latest, q.latest)
<1>1. \/ lo = NegInf \/ lo = Unknown
      \/ /\ p.earliest.at = "Day" /\ q.earliest.at = "Day"
         /\ lo = DayBound(Earlier(p.earliest.day, q.earliest.day))
  <2> DEFINE e == p.earliest
             f == q.earliest
  <2>1. /\ e.at \in {"NegInf", "Unknown", "Day"} /\ f.at \in {"NegInf", "Unknown", "Day"}
        /\ (e.at = "NegInf" => e = NegInf) /\ (f.at = "NegInf" => f = NegInf)
        /\ (e.at = "Unknown" => e = Unknown) /\ (f.at = "Unknown" => f = Unknown)
    BY SidesOf
  <2>2. lo = JoinBounds(e, f, NegInf, PosInf, Earlier)
    BY DEF min_bound
  <2> HIDE DEF lo, e, f
  <2>3. CASE e = NegInf \/ f = NegInf
    BY <2>2, <2>3, Zenon DEF JoinBounds
  <2>4. CASE e # NegInf /\ f # NegInf /\ (e = Unknown \/ f = Unknown)
    BY <2>2, <2>4, Zenon DEF JoinBounds
  <2>5. CASE e # NegInf /\ f # NegInf /\ e # Unknown /\ f # Unknown
    <3>1. e # PosInf /\ f # PosInf
      BY <2>1 DEF PosInf
    <3>2. lo = DayBound(Earlier(e.day, f.day))
      BY <2>2, <2>5, <3>1, Zenon DEF JoinBounds
    <3> QED BY <2>1, <2>5, <3>2 DEF e, f
  <2> QED BY <2>3, <2>4, <2>5
<1>2. \/ hi = PosInf \/ hi = Unknown
      \/ /\ p.latest.at = "Day" /\ q.latest.at = "Day"
         /\ hi = DayBound(Later(p.latest.day, q.latest.day))
  <2> DEFINE e == p.latest
             f == q.latest
  <2>1. /\ e.at \in {"PosInf", "Unknown", "Day"} /\ f.at \in {"PosInf", "Unknown", "Day"}
        /\ (e.at = "PosInf" => e = PosInf) /\ (f.at = "PosInf" => f = PosInf)
        /\ (e.at = "Unknown" => e = Unknown) /\ (f.at = "Unknown" => f = Unknown)
    BY SidesOf
  <2>2. hi = JoinBounds(e, f, PosInf, NegInf, Later)
    BY DEF max_bound
  <2> HIDE DEF hi, e, f
  <2>3. CASE e = PosInf \/ f = PosInf
    BY <2>2, <2>3, Zenon DEF JoinBounds
  <2>4. CASE e # PosInf /\ f # PosInf /\ (e = Unknown \/ f = Unknown)
    BY <2>2, <2>4, Zenon DEF JoinBounds
  <2>5. CASE e # PosInf /\ f # PosInf /\ e # Unknown /\ f # Unknown
    <3>1. e # NegInf /\ f # NegInf
      BY <2>1 DEF NegInf
    <3>2. hi = DayBound(Later(e.day, f.day))
      BY <2>2, <2>5, <3>1, Zenon DEF JoinBounds
    <3> QED BY <2>1, <2>5, <3>2 DEF e, f
  <2> QED BY <2>3, <2>4, <2>5
<1>3. widened(p, q) = MkBounds(lo, hi)
  BY DEF widened
<1> HIDE DEF lo, hi
<1>4. IsBound(lo, NegInf, I64Years)
  <2>1. SUFFICES ASSUME p.earliest.at = "Day", q.earliest.at = "Day",
                        lo = DayBound(Earlier(p.earliest.day, q.earliest.day))
                 PROVE  IsBound(lo, NegInf, I64Years)
    BY <1>1 DEF IsBound
  <2>2. p.earliest.day \in CalendarDay /\ q.earliest.day \in CalendarDay
    BY <2>1, SidesOf
  <2>3. Earlier(p.earliest.day, q.earliest.day) \in CalendarDay
    BY <2>2 DEF Earlier
  <2> QED BY <2>1, <2>3 DEF IsBound, DayBound, CalendarDay
<1>5. IsBound(hi, PosInf, I64Years)
  <2>1. SUFFICES ASSUME p.latest.at = "Day", q.latest.at = "Day",
                        hi = DayBound(Later(p.latest.day, q.latest.day))
                 PROVE  IsBound(hi, PosInf, I64Years)
    BY <1>2 DEF IsBound
  <2>2. p.latest.day \in CalendarDay /\ q.latest.day \in CalendarDay
    BY <2>1, SidesOf
  <2>3. Later(p.latest.day, q.latest.day) \in CalendarDay
    BY <2>2 DEF Later
  <2> QED BY <2>1, <2>3 DEF IsBound, DayBound, CalendarDay
<1>6. lo.at = "Day" /\ hi.at = "Day" => ~Before(hi.day, lo.day)
  <2>1. SUFFICES ASSUME lo.at = "Day", hi.at = "Day" PROVE ~Before(hi.day, lo.day)
    OBVIOUS
  <2>2. /\ p.earliest.at = "Day" /\ q.earliest.at = "Day" /\ p.latest.at = "Day" /\ q.latest.at = "Day"
        /\ lo = DayBound(Earlier(p.earliest.day, q.earliest.day))
        /\ hi = DayBound(Later(p.latest.day, q.latest.day))
    BY <1>1, <1>2, <2>1 DEF NegInf, PosInf, Unknown
  <2>3. PICK r, s, t, u \in CalendarDay : /\ r = p.earliest.day /\ s = q.earliest.day
                                          /\ t = p.latest.day /\ u = q.latest.day
                                          /\ ~Before(t, r)
    BY <2>2, SidesOf
  <2>4. lo.day = Earlier(r, s) /\ hi.day = Later(t, u)
    BY <2>2, <2>3 DEF DayBound
  <2>5. r \in Triples /\ s \in Triples /\ t \in Triples /\ u \in Triples
    BY Numbers, PositionIsTriple DEF CalendarDay
  <2>6. ~Before(Later(t, u), Earlier(r, s))
    BY <2>3, <2>5, OrderTotal, OrderTransitive DEF Earlier, Later
  <2> QED BY <2>4, <2>6
<1> QED BY <1>3, <1>4, <1>5, <1>6, PairWellFormed

(* The hull of a set, element by element: h[i] joins the first i elements. *)
IsHull(h, elements) ==
  /\ h[1] = element_bounds(elements[1])
  /\ \A i \in 2..Len(elements) : h[i] = widened(h[i - 1], element_bounds(elements[i]))
  /\ \A i \in 1..Len(elements) : WellFormed(h[i])
  /\ set_bounds(elements) = h[Len(elements)]

(* A set that is not empty has a hull of its elements' bounds.             *)
LEMMA HullOfSet ==
  ASSUME NEW elements, Len(elements) \in Nat, DOMAIN elements = 1..Len(elements), elements # <<>>,
         \A i \in 1..Len(elements) : WellFormed(element_bounds(elements[i]))
  PROVE  \E h : IsHull(h, elements)
<1> DEFINE n == Len(elements)
           Bound == {NegInf, PosInf, Unknown} \cup {DayBound(t) : t \in CalendarDay}
           S == {r \in [earliest : Bound, latest : Bound] : WellFormed(r)}
           b(i) == element_bounds(elements[i])
           Hull(h) == h = [i \in 1..n |-> IF i = 1 THEN b(1) ELSE widened(h[i - 1], b(i))]
           hull == CHOOSE h : Hull(h)
<1>1. ASSUME NEW e, NEW l, WellFormed(MkBounds(e, l))
      PROVE  MkBounds(e, l) \in S
  <2>1. e \in Bound /\ l \in Bound
    BY <1>1 DEF WellFormed, IsBounds, IsBound, MkBounds, CalendarDay
  <2> HIDE DEF Bound
  <2>2. MkBounds(e, l) \in [earliest : Bound, latest : Bound]
    BY <2>1 DEF MkBounds
  <2> QED BY <1>1, <2>2
<1>2. \A i \in 1..n : b(i) \in S
  <2>1. \A i \in 1..n : \E e, l : b(i) = MkBounds(e, l)
    BY DEF element_bounds
  <2> HIDE DEF S
  <2> QED BY <1>1, <2>1
<1>3. ASSUME NEW r \in S, NEW i \in 1..n
      PROVE  widened(r, b(i)) \in S
  <2>1. WellFormed(widened(r, b(i)))
    BY WidenedWellFormed
  <2>2. \E e, l : widened(r, b(i)) = MkBounds(e, l)
    BY DEF widened
  <2> HIDE DEF S
  <2> QED BY <1>1, <2>1, <2>2
<1> HIDE DEF S, b
<1>4. n \in Nat /\ n # 0 /\ 1 \in 1..n
  OBVIOUS
<1> HIDE DEF n
<1>5. \E h : Hull(h)
  <2> DEFINE F == [i \in 1..(n - 1) |-> [r \in S |-> widened(r, b(i + 1))]]
  <2>1. F \in [1..(n - 1) -> [S -> S]]
    <3>1. \A i \in 1..(n - 1) : i + 1 \in 1..n
      BY <1>4
    <3> QED BY <1>3, <3>1
  <2>2. n - 1 \in Nat /\ b(1) \in S
    BY <1>2, <1>4
  <2>3. Iterated(n - 1, S, b(1), F)
    <3> HIDE DEF F
    <3> QED BY <2>1, <2>2, Stepwise
  <2>4. PICK g \in [0..(n - 1) -> S] : g[0] = b(1) /\ \A i \in 1..(n - 1) : g[i] = F[i][g[i - 1]]
    BY <2>3 DEF Iterated
  <2>5. ASSUME NEW i \in 1..(n - 1) PROVE g[i] = widened(g[i - 1], b(i + 1))
    <3>1. g[i - 1] \in S
      BY <1>4
    <3> QED BY <2>4, <3>1
  <2> DEFINE h == [i \in 1..n |-> g[i - 1]]
  <2>6. ASSUME NEW i \in 1..n PROVE h[i] = IF i = 1 THEN b(1) ELSE widened(h[i - 1], b(i))
    <3>1. CASE i = 1
      BY <2>4, <3>1
    <3>2. CASE i # 1
      <4>1. i - 1 \in 1..(n - 1) /\ i - 1 \in 1..n /\ i - 1 + 1 = i
        BY <1>4, <3>2
      <4>2. h[i] = g[i - 1] /\ h[i - 1] = g[i - 1 - 1]
        BY <4>1
      <4> QED BY <2>5, <3>2, <4>1, <4>2
    <3> QED BY <3>1, <3>2
  <2>7. Hull(h)
    <3>1. h = [i \in 1..n |-> h[i]]
      OBVIOUS
    <3> HIDE DEF h
    <3> QED BY <2>6, <3>1
  <2> QED BY <2>7
<1>6. Hull(hull)
  <2> HIDE DEF Hull
  <2> QED BY <1>5
<1>7. set_bounds(elements) = hull[n]
  BY DEF set_bounds, n, b
<1> HIDE DEF hull
<1>8. \A i \in 1..n : hull[i] = IF i = 1 THEN b(1) ELSE widened(hull[i - 1], b(i))
  BY <1>6
<1> HIDE DEF Hull
<1> DEFINE G == {k \in 0..(n - 1) : hull[k + 1] \in S}
<1>9. 0 \in G
  BY <1>2, <1>4, <1>8
<1>10. ASSUME NEW k \in 1..(n - 1), k - 1 \in G PROVE k \in G
  <2>1. k + 1 \in 1..n /\ k + 1 # 1 /\ k + 1 - 1 = k /\ k - 1 + 1 = k /\ k \in 0..(n - 1)
    BY <1>4
  <2>2. hull[k] \in S
    BY <1>10, <2>1
  <2>3. hull[k + 1] = widened(hull[k], b(k + 1))
    BY <1>8, <2>1
  <2> QED BY <1>3, <2>1, <2>2, <2>3
<1>11. n - 1 \in Nat
  BY <1>4
<1>12. 0..(n - 1) \subseteq G
  <2> HIDE DEF G
  <2> QED BY <1>9, <1>10, <1>11, Climb
<1>13. \A i \in 1..n : hull[i] \in S
  <2> TAKE i \in 1..n
  <2>1. i - 1 \in 0..(n - 1) /\ i - 1 + 1 = i
    BY <1>4
  <2> QED BY <1>12, <2>1
<1>14. \A i \in 1..n : WellFormed(hull[i])
  BY <1>13 DEF S
<1>15. hull[1] = b(1)
  BY <1>4, <1>8
<1>16. \A i \in 2..n : hull[i] = widened(hull[i - 1], b(i))
  <2> TAKE i \in 2..n
  <2>1. i \in 1..n /\ i # 1
    BY <1>4
  <2> QED BY <1>8, <2>1
<1> QED BY <1>7, <1>14, <1>15, <1>16 DEF IsHull, n, b

(* A set of well-formed elements has well-formed bounds.                   *)
LEMMA SetWellFormed ==
  ASSUME NEW elements, Len(elements) \in Nat, DOMAIN elements = 1..Len(elements),
         \A i \in 1..Len(elements) : WellFormed(element_bounds(elements[i]))
  PROVE  WellFormed(set_bounds(elements))
<1>1. CASE elements = <<>>
  BY <1>1, UnknownIsWellFormed DEF set_bounds
<1>2. CASE elements # <<>>
  <2>1. PICK h : IsHull(h, elements)
    BY <1>2, HullOfSet
  <2>2. Len(elements) \in 1..Len(elements)
    BY <1>2
  <2> QED BY <2>1, <2>2 DEF IsHull
<1> QED BY <1>1, <1>2

(* An infinity of either side is never widened away: a set with an         *)
(* unbounded element is unbounded (bounds.rs min_bound(), max_bound()).    *)
LEMMA InfinityWidens ==
  ASSUME NEW p, NEW q
  PROVE  /\ p.earliest = NegInf \/ q.earliest = NegInf => widened(p, q).earliest = NegInf
         /\ p.latest = PosInf \/ q.latest = PosInf => widened(p, q).latest = PosInf
<1>1. /\ widened(p, q).earliest = min_bound(p.earliest, q.earliest)
      /\ widened(p, q).latest = max_bound(p.latest, q.latest)
  BY DEF widened, MkBounds
<1>2. \A a, b : a = NegInf \/ b = NegInf => min_bound(a, b) = NegInf
  BY Zenon DEF min_bound, JoinBounds
<1>3. \A a, b : a = PosInf \/ b = PosInf => max_bound(a, b) = PosInf
  BY Zenon DEF max_bound, JoinBounds
<1> QED BY <1>1, <1>2, <1>3

(* An element without end on one side leaves the set without end there.    *)
LEMMA InfinityReachesHull ==
  ASSUME NEW elements, Len(elements) \in Nat, DOMAIN elements = 1..Len(elements),
         \A i \in 1..Len(elements) : WellFormed(element_bounds(elements[i])),
         NEW i \in 1..Len(elements)
  PROVE  /\ element_bounds(elements[i]).earliest = NegInf => set_bounds(elements).earliest = NegInf
         /\ element_bounds(elements[i]).latest = PosInf => set_bounds(elements).latest = PosInf
<1> DEFINE n == Len(elements)
           b(k) == element_bounds(elements[k])
<1>1. elements # <<>>
  OBVIOUS
<1>2. PICK h : IsHull(h, elements)
  BY <1>1, HullOfSet
<1>3. /\ h[1] = b(1) /\ set_bounds(elements) = h[n]
      /\ \A k \in 2..n : h[k] = widened(h[k - 1], b(k))
  BY <1>2 DEF IsHull
<1>4. n \in Nat /\ i \in 1..n
  OBVIOUS
<1> HIDE DEF n, b
<1>5. h[i].earliest = b(i).earliest \/ i # 1
  BY <1>3
<1> DEFINE Low(k) == b(i).earliest = NegInf => h[k].earliest = NegInf
           High(k) == b(i).latest = PosInf => h[k].latest = PosInf
<1>6. Low(i) /\ High(i)
  <2>1. CASE i = 1
    BY <1>3, <2>1
  <2>2. CASE i # 1
    <3>1. i \in 2..n
      BY <1>4, <2>2
    <3> QED BY <1>3, <3>1, InfinityWidens
  <2> QED BY <2>1, <2>2
<1>7. ASSUME NEW k \in 2..n, Low(k - 1), High(k - 1) PROVE Low(k) /\ High(k)
  BY <1>3, <1>7, InfinityWidens
<1> HIDE DEF Low, High
<1> DEFINE G == {k \in 0..(n - i) : Low(i + k) /\ High(i + k)}
<1>8. 0 \in G
  BY <1>4, <1>6
<1>9. ASSUME NEW k \in 1..(n - i), k - 1 \in G PROVE k \in G
  <2>1. i + k \in 2..n /\ i + k - 1 = i + (k - 1) /\ k \in 0..(n - i)
    BY <1>4
  <2> QED BY <1>7, <1>9, <2>1
<1>10. n - i \in Nat
  BY <1>4
<1>11. 0..(n - i) \subseteq G
  <2> HIDE DEF G
  <2> QED BY <1>8, <1>9, <1>10, Climb
<1>12. Low(n) /\ High(n)
  <2>1. n - i \in 0..(n - i) /\ i + (n - i) = n
    BY <1>4
  <2> QED BY <1>11, <2>1
<1> QED BY <1>3, <1>12 DEF Low, High, n, b

(* Every expression the parser accepts has well-formed bounds: days that   *)
(* exist, in an i64 year, the earliest not after the latest, an infinity   *)
(* only on its own side, for every width of i64 (bounds.rs).               *)
THEOREM AcceptedWellFormed ==
  ASSUME NEW e, IsExpr(e), Accepted(e)
  PROVE  WellFormed(bounds(e))
<1>1. CASE e.type = "Date" /\ IsDateRecord(e.date)
  <2>1. bounds(e) = date_bounds(e.date) /\ ValidDate(e.date)
    BY <1>1, Zenon DEF bounds, Accepted
  <2> QED BY <1>1, <2>1, ValidDateSlots, DateWellFormed
<1>2. CASE e.type = "DateTime" /\ IsDateRecord(e.date)
  <2>1. bounds(e) = date_bounds(e.date) /\ parse_plain_complete_date(e.date)
    BY <1>2, Zenon DEF bounds, Accepted
  <2> QED BY <1>2, <2>1, PlainDateSlots, DateWellFormed
<1>3. CASE e.type = "Interval" /\ IsEndpoint(e.start) /\ IsEndpoint(e.end)
  <2>1. bounds(e) = interval_bounds(e.start, e.end) /\ parse_interval(e.start, e.end)
    BY <1>3, Zenon DEF bounds, Accepted
  <2> QED BY <1>3, <2>1, IntervalWellFormed
<1>4. CASE /\ e.type = "Set" /\ Len(e.elements) \in Nat /\ DOMAIN e.elements = 1..Len(e.elements)
           /\ \A i \in DOMAIN e.elements : IsElement(e.elements[i])
  <2>1. bounds(e) = set_bounds(e.elements) /\ parse_set(e.elements)
    BY <1>4, Zenon DEF bounds, Accepted
  <2>2. \A i \in 1..Len(e.elements) : WellFormed(element_bounds(e.elements[i]))
    BY <1>4, <2>1, ElementWellFormed DEF parse_set, elements_agree
  <2> QED BY <1>4, <2>1, <2>2, SetWellFormed
<1> QED BY <1>1, <1>2, <1>3, <1>4 DEF IsExpr

-----------------------------------------------------------------------------
(* Ranges.  The first and the last day of a position.                      *)
FirstDay(p, t) == <<t[1], IF p = "Year" THEN 1 ELSE t[2], IF p = "Day" THEN t[3] ELSE 1>>
FinalDay(p, t) ==
  LET m == IF p = "Year" THEN 12 ELSE t[2]
  IN  <<t[1], m, IF p = "Day" THEN t[3] ELSE last_day(m, is_leap(t[1]))>>

(* Positions of one precision are in order when the first day of one is    *)
(* not after the last day of the other.                                    *)
LEMMA PlacesInOrder ==
  ASSUME NEW p \in Precisions, NEW a \in Position(p, Int), NEW b \in Position(p, Int),
         ~Before(FinalDay(p, b), FirstDay(p, a))
  PROVE  AtMost(a, b)
<1>1. /\ a = <<a[1], a[2], a[3]>> /\ a[1] \in Int /\ a[2] \in 0..12 /\ a[3] \in 0..31
      /\ b = <<b[1], b[2], b[3]>> /\ b[1] \in Int /\ b[2] \in 0..12 /\ b[3] \in 0..31
  BY PositionIsTriple
<1>2. CASE p = "Year"
  <2>1. a[2] = 0 /\ a[3] = 0 /\ b[2] = 0 /\ b[3] = 0
    BY <1>2 DEF Position
  <2>2. FirstDay(p, a) = <<a[1], 1, 1>> /\ FinalDay(p, b) = <<b[1], 12, 31>>
    BY <1>2, LastDayBounds DEF FirstDay, FinalDay
  <2> QED BY <1>1, <2>1, <2>2 DEF Before, AtMost
<1>3. CASE p = "Month"
  <2>1. a[2] \in 1..12 /\ a[3] = 0 /\ b[2] \in 1..12 /\ b[3] = 0
    BY <1>1, <1>3 DEF Position
  <2>2. PICK l \in 28..31 : /\ FirstDay(p, a) = <<a[1], a[2], 1>>
                            /\ FinalDay(p, b) = <<b[1], b[2], l>>
    BY <1>3, LastDayBounds DEF FirstDay, FinalDay
  <2> QED BY <1>1, <2>1, <2>2 DEF Before, AtMost
<1>4. CASE p = "Day"
  <2>1. FirstDay(p, a) = a /\ FinalDay(p, b) = b
    BY <1>1, <1>4 DEF FirstDay, FinalDay
  <2> QED BY <1>1, <2>1 DEF Before, AtMost
<1> QED BY <1>2, <1>3, <1>4 DEF Precisions

(* The successor of a position before the end is again a position, later,  *)
(* and not past the end: in particular its year still fits.                *)
LEMMA SuccessorWithin ==
  ASSUME NEW p \in Precisions, NEW lo \in Int, NEW hi \in Int,
         NEW c \in Position(p, lo..hi), NEW e \in Position(p, lo..hi), Before(c, e)
  PROVE  /\ successor(p, c) \in Position(p, lo..hi)
         /\ Before(c, successor(p, c))
         /\ AtMost(successor(p, c), e)
<1> DEFINE s == successor(p, c)
<1>0. lo..hi \subseteq Int
  OBVIOUS
<1>1. /\ c = <<c[1], c[2], c[3]>> /\ c \in Triples /\ c \in Position(p, Int)
      /\ e = <<e[1], e[2], e[3]>> /\ e \in Triples /\ e \in Position(p, Int)
      /\ c[1] \in lo..hi /\ e[1] \in lo..hi
  BY <1>0, PositionIsTriple
<1>2. s \in Position(p, Int) /\ s[1] \in {c[1], c[1] + 1}
  BY <1>1, SuccessorIsPosition
<1>3. s \in Triples /\ s = <<s[1], s[2], s[3]>>
  BY <1>2, PositionIsTriple
<1>4. Before(c, s)
  BY <1>1, SuccessorIsNext DEF AtMost
<1>5. AtMost(s, e)
  <2>1. ~AtMost(e, c)
    BY <1>1, OrderTotal DEF AtMost
  <2>2. ~Before(e, s)
    BY <1>1, <2>1, SuccessorIsNext
  <2> QED BY <1>1, <1>3, <2>2, OrderTotal DEF AtMost
<1>6. s[1] \in lo..hi
  <2>1. s[1] <= e[1]
    BY <1>1, <1>3, <1>5 DEF AtMost, Before, Triples
  <2> QED BY <1>1, <1>2, <2>1
<1>7. s \in Position(p, lo..hi)
  BY <1>2, <1>6 DEF Position
<1> QED BY <1>4, <1>5, <1>7

(* A single try is what is found.                                          *)
LEMMA OneTry ==
  ASSUME NEW tries, NEW k \in Nat, DOMAIN tries = {k}
  PROVE  find_map(tries) = tries[k]
BY FoundFirst

-----------------------------------------------------------------------------
(* Writing a year or a field from a number and reading it back gives it    *)
(* again (enumerate.rs concrete_year() and concrete_field(), types.rs      *)
(* value()).                                                               *)
LEMMA YearReadBack ==
  ASSUME NEW v \in Int, NEW q
  PROVE  year_of(concrete_year(v, q).kind) = Some(v)
<1> DEFINE mag == Abs(v)
           ds == <<(mag \div 1000) % 10, (mag \div 100) % 10, (mag \div 10) % 10, mag % 10>>
           kind == IF v \in -9999..9999 THEN Standard(v < 0, ds) ELSE Big(v)
<1>1. concrete_year(v, q).kind = kind
  BY DEF concrete_year, Year
<1>2. CASE v \in -9999..9999
  <2>1. mag \in 0..9999 /\ (IF v < 0 THEN -1 ELSE 1) * mag = v
    BY <1>2 DEF Abs
  <2>2. kind = Standard(v < 0, ds)
    BY <1>2
  <2> HIDE DEF mag, kind
  <2> DEFINE a == (mag \div 1000) % 10
             b == (mag \div 100) % 10
             c == (mag \div 10) % 10
             e == mag % 10
  <2>3. ds = <<a, b, c, e>> /\ a \in 0..9 /\ b \in 0..9 /\ c \in 0..9 /\ e \in 0..9
    BY <2>1
  <2>10. 1000 * a + 100 * b + 10 * c + e = mag
    <3>1. mag = 10 * (mag \div 10) + e
      BY <2>1
    <3>2. mag \div 10 = 10 * (mag \div 100) + c
      BY <2>1
    <3>3. mag \div 100 = 10 * (mag \div 1000) + b
      BY <2>1
    <3>4. mag \div 1000 = a
      BY <2>1
    <3>5. mag \div 10 \in Int /\ mag \div 100 \in Int /\ mag \div 1000 \in Int
      BY <2>1
    <3> HIDE DEF a, b, c, e
    <3> QED BY <2>1, <2>3, <3>1, <3>2, <3>3, <3>4, <3>5
  <2> HIDE DEF a, b, c, e, ds
  <2>4. ~has_x(ds)
    BY <2>3 DEF has_x, X
  <2>5. year_value(ds, 0) = mag
    BY <2>3, <2>10 DEF year_value, X
  <2>6. kind.form = "Standard" /\ kind.digits = ds /\ (kind.negative <=> v < 0)
    BY <2>2 DEF Standard
  <2>7. year_of(kind) = Some((IF kind.negative THEN -1 ELSE 1) * year_value(kind.digits, 0))
    BY <2>4, <2>6, Zenon DEF year_of
  <2>8. (IF kind.negative THEN -1 ELSE 1) * mag = v
    BY <2>1, <2>6
  <2>9. year_of(kind) = Some(v)
    BY <2>5, <2>6, <2>7, <2>8, Zenon
  <2> QED BY <1>1, <2>9, Zenon
<1>3. CASE v \notin -9999..9999
  <2>1. kind.form = "Big" /\ kind.value = v
    BY <1>3 DEF Big
  <2> HIDE DEF kind
  <2>2. kind.form # "Standard"
    BY <2>1
  <2>3. year_of(kind) = Some(kind.value)
    BY <2>1, <2>2, Zenon DEF year_of
  <2> QED BY <1>1, <2>1, <2>3
<1> QED BY <1>2, <1>3

(* Writing a month or a day and reading it back gives it again.            *)
LEMMA FieldReadBack ==
  ASSUME NEW v \in 0..99, NEW q
  PROVE  slot_value(Some(concrete_field(v, q))) = Some(v)
<1> DEFINE f == concrete_field(v, q)
<1>1. f.digits = <<v \div 10, v % 10>>
  BY DEF concrete_field, Field
<1>2. v \div 10 \in 0..9 /\ (v % 10) \in 0..9 /\ 10 * (v \div 10) + (v % 10) = v
  OBVIOUS
<1>3. ~has_x(f.digits) /\ f.digits[1] = v \div 10 /\ f.digits[2] = v % 10
  BY <1>1, <1>2 DEF has_x, X
<1> HIDE DEF f
<1>4. field_value(f) = Some(v)
  BY <1>2, <1>3 DEF field_value
<1> QED BY <1>4, SomeFacts DEF slot_value, IsSome, f

(* Where a fully written date stands.                                      *)
SlotNumber(slot) == IF slot_value(slot) = None THEN 0 ELSE Get(slot_value(slot))
PlaceOf(d) == <<Get(year_of(d.year.kind)), SlotNumber(d.month), SlotNumber(d.day)>>

(* A date with a month and no day has the month's edges as its extremes.   *)
LEMMA OneMonth ==
  ASSUME NEW d, NEW y, NEW m, d.month = Some(Get(d.month)), d.day = None,
         ~has_x(Get(d.month).digits), field_value(Get(d.month)) = Some(m)
  PROVE  \A ascending \in BOOLEAN : extremum_in_year(d, y, ascending) = month_edge(y, m, ascending)
<1> SUFFICES ASSUME NEW ascending \in BOOLEAN
             PROVE  extremum_in_year(d, y, ascending) = month_edge(y, m, ascending)
  OBVIOUS
<1> DEFINE months == Directed(month_candidates_of(Get(d.month)), ascending)
           tries == [i \in DOMAIN months |-> month_edge(y, months[i], ascending)]
<1>1. month_candidates_of(Get(d.month)) = <<m>>
  BY DEF month_candidates_of, Some
<1>2. DOMAIN months = {1} /\ months[1] = m
  BY <1>1 DEF Directed
<1>3. extremum_in_year(d, y, ascending) = find_map(tries)
  <2>1. d.month # None
    BY SomeFacts, Zenon
  <2> QED BY <2>1 DEF extremum_in_year
<1> HIDE DEF months
<1>4. DOMAIN tries = {1} /\ tries[1] = month_edge(y, m, ascending)
  BY <1>2
<1> HIDE DEF tries
<1> QED BY <1>3, <1>4, OneTry

(* A date with a month and a day has that day as both its extremes.        *)
LEMMA OneDay ==
  ASSUME NEW d, NEW y, NEW m, NEW n, d.month = Some(Get(d.month)), d.day = Some(Get(d.day)),
         ~has_x(Get(d.month).digits), field_value(Get(d.month)) = Some(m),
         ~has_x(Get(d.day).digits), field_value(Get(d.day)) = Some(n)
  PROVE  \A ascending \in BOOLEAN : extremum_in_year(d, y, ascending) = fitting_day(y, m, n)
<1> SUFFICES ASSUME NEW ascending \in BOOLEAN
             PROVE  extremum_in_year(d, y, ascending) = fitting_day(y, m, n)
  OBVIOUS
<1> DEFINE months == Directed(month_candidates_of(Get(d.month)), ascending)
           days == Directed(day_candidates_of(Get(d.day)), ascending)
           tries == [i \in DOMAIN months |-> first_fitting(y, months[i], days)]
           dayTries == [j \in DOMAIN days |-> fitting_day(y, m, days[j])]
<1>1. month_candidates_of(Get(d.month)) = <<m>> /\ day_candidates_of(Get(d.day)) = <<n>>
  BY DEF month_candidates_of, day_candidates_of, Some
<1>2. DOMAIN months = {1} /\ months[1] = m
  BY <1>1 DEF Directed
<1>3. DOMAIN days = {1} /\ days[1] = n
  BY <1>1 DEF Directed
<1>4. d.month # None /\ d.day # None
  BY DEF None, Some
<1>5. extremum_in_year(d, y, ascending) = find_map(tries)
  BY <1>4 DEF extremum_in_year
<1>6. first_fitting(y, m, days) = find_map(dayTries)
  BY DEF first_fitting
<1> HIDE DEF months, days
<1>7. DOMAIN tries = {1} /\ tries[1] = first_fitting(y, m, days)
  BY <1>2
<1>8. DOMAIN dayTries = {1} /\ dayTries[1] = fitting_day(y, m, n)
  BY <1>3
<1> HIDE DEF tries, dayTries
<1> QED BY <1>5, <1>6, <1>7, <1>8, OneTry

(* A fully written year is searched alone.                                 *)
LEMMA OneYear ==
  ASSUME NEW d, ~has_x(d.year.kind.digits)
  PROVE  \A ascending \in BOOLEAN :
           extremum(d, ascending) = extremum_in_year(d, Get(year_of(d.year.kind)), ascending)
<1> SUFFICES ASSUME NEW ascending \in BOOLEAN
             PROVE  extremum(d, ascending) = extremum_in_year(d, Get(year_of(d.year.kind)), ascending)
  OBVIOUS
<1> DEFINE years == years_travelled(d.year.kind, ascending)
           tries == [i \in DOMAIN years |-> extremum_in_year(d, years[i], ascending)]
<1>1. years = [i \in {0} |-> Get(year_of(d.year.kind))]
  BY DEF years_travelled
<1>2. DOMAIN years = {0} /\ years[0] = Get(year_of(d.year.kind))
  BY <1>1
<1>3. extremum(d, ascending) = find_map(tries)
  BY DEF extremum
<1> HIDE DEF years
<1>4. DOMAIN tries = {0} /\ tries[0] = extremum_in_year(d, Get(year_of(d.year.kind)), ascending)
  BY <1>2
<1> HIDE DEF tries
<1> QED BY <1>3, <1>4, OneTry

(* The precision of a fully written date, by its slots.                    *)
LEMMA PrecisionBySlots ==
  ASSUME NEW d
  PROVE  /\ d.day # None => precision(d) = "Day"
         /\ d.day = None /\ d.month = None => precision(d) = "Year"
         /\ d.day = None /\ d.month # None /\ precision(d) # "Season" =>
              /\ precision(d) = "Month"
              /\ \A v \in 21..99 : slot_value(d.month) # Some(v)
<1>1. /\ IsSome(d.day) <=> d.day # None
      /\ IsSome(d.month) <=> d.month # None
  BY DEF IsSome
<1>2. CASE d.day # None
  BY <1>1, <1>2, Zenon DEF precision
<1>3. CASE d.day = None /\ d.month = None
  BY <1>1, <1>3, Zenon DEF precision
<1>4. CASE d.day = None /\ d.month # None
  <2>1. precision(d) = IF slot_value(d.month) \in {Some(code) : code \in 21..99} THEN "Season" ELSE "Month"
    BY <1>1, <1>4, Zenon DEF precision
  <2> QED BY <1>4, <2>1
<1> QED BY <1>2, <1>3, <1>4

(* What bounds() says of a fully written date is the first and the last    *)
(* day of the place it stands on.                                          *)
LEMMA PlainDate ==
  ASSUME NEW d, IsDateRecord(d), ValidDate(d), check_range_endpoint(d), year_of(d.year.kind) # None
  PROVE  /\ precision(d) \in Precisions
         /\ PlaceOf(d) \in Position(precision(d), I64Years)
         /\ date_bounds(d) = MkBounds(DayBound(FirstDay(precision(d), PlaceOf(d))),
                                      DayBound(FinalDay(precision(d), PlaceOf(d))))
<1> DEFINE v == Get(year_of(d.year.kind))
           p == precision(d)
           t == PlaceOf(d)
<1>1. v \in I64Years /\ year_of(d.year.kind) = Some(v)
  BY YearFits DEF IsDateRecord
<1>2. /\ ~has_unspecified(d) /\ p # "Season" /\ d.year.significant_digits = None
  BY DEF check_range_endpoint
<1>3. v \in Int
  <2>1. I64Years \subseteq Int
    BY Numbers
  <2> QED BY <1>1, <2>1, Zenon
<1>4. d.day = None => SlotNumber(d.day) = 0
  BY DEF SlotNumber, slot_value, IsSome
<1>5. d.month = None => SlotNumber(d.month) = 0
  BY DEF SlotNumber, slot_value, IsSome
<1>6. t = <<v, SlotNumber(d.month), SlotNumber(d.day)>>
  BY DEF PlaceOf
<1>7. CASE d.year.kind.form # "Standard"
  <2>1. d.month = None /\ d.day = None
    BY <1>7 DEF ValidDate, ValidPrefixedYear
  <2>2. p = "Year"
    BY <2>1, PrecisionBySlots
  <2>3. t = <<v, 0, 0>>
    BY <1>4, <1>5, <1>6, <2>1
  <2>4. date_bounds(d) = WholeYears(v, v)
    <3>1. date_range(d.year) = Some(<<v, v>>)
      BY <1>1, <1>2 DEF date_range, significant_range
    <3>2. date_bounds(d) = year_bounds(Some(<<v, v>>))
      BY <1>7, <3>1 DEF date_bounds
    <3>3. Get(Some(<<v, v>>)) = <<v, v>> /\ Some(<<v, v>>) # None
      BY SomeFacts
    <3> QED BY <3>2, <3>3 DEF year_bounds
  <2>5. last_day(12, is_leap(v)) = 31
    BY LastDayBounds
  <2> HIDE DEF v, p, t
  <2>6. t \in Position("Year", I64Years)
    BY <1>1, <2>3 DEF Position
  <2>7. FirstDay("Year", t) = <<v, 1, 1>> /\ FinalDay("Year", t) = <<v, 12, 31>>
    BY <2>3, <2>5 DEF FirstDay, FinalDay
  <2> QED BY <2>2, <2>4, <2>6, <2>7 DEF WholeYears, Precisions, p, t
<1>8. CASE d.year.kind.form = "Standard"
  <2>1. /\ ~has_x(d.year.kind.digits)
        /\ d.month # None => ~has_x(Get(d.month).digits)
        /\ d.day # None => ~has_x(Get(d.day).digits)
    BY <1>2, <1>8 DEF has_unspecified, IsSome
  <2>2. /\ d.day # None => d.month # None
        /\ validate_month_day(d.year.kind, d.month, d.day)
    BY <1>8 DEF ValidDate, ValidStandardDate
  <2>3. \A ascending \in BOOLEAN : extremum(d, ascending) = extremum_in_year(d, v, ascending)
    BY <2>1, OneYear
  <2>4. ~IsSeason(d) =>
           date_bounds(d) = day_bounds(extremum_in_year(d, v, TRUE), extremum_in_year(d, v, FALSE))
    BY <1>2, <1>8, <2>3 DEF date_bounds
  <2>5. CASE d.month = None
    <3>1. d.day = None /\ p = "Year" /\ t = <<v, 0, 0>>
      BY <1>4, <1>5, <1>6, <2>2, <2>5, PrecisionBySlots
    <3>2. ~IsSeason(d)
      <4>1. slot_value(d.month) = None
        BY <2>5 DEF slot_value, IsSome
      <4> QED BY <4>1, SomeFacts DEF IsSeason
    <3>3. /\ extremum_in_year(d, v, TRUE) = Some(<<v, 1, 1>>)
          /\ extremum_in_year(d, v, FALSE) = Some(<<v, 12, 31>>)
      BY <2>5 DEF extremum_in_year
    <3>4. date_bounds(d) = MkBounds(DayBound(<<v, 1, 1>>), DayBound(<<v, 12, 31>>))
      BY <2>4, <3>2, <3>3, SomeFacts DEF day_bounds
    <3>5. last_day(12, is_leap(v)) = 31
      BY LastDayBounds
    <3> HIDE DEF v, p, t
    <3>6. t \in Position("Year", I64Years)
      BY <1>1, <3>1 DEF Position
    <3>7. FirstDay("Year", t) = <<v, 1, 1>> /\ FinalDay("Year", t) = <<v, 12, 31>>
      BY <3>1, <3>5 DEF FirstDay, FinalDay
    <3> QED BY <3>1, <3>4, <3>6, <3>7 DEF Precisions, p, t
  <2>6. CASE d.month # None
    <3>1. d.month = Some(Get(d.month)) /\ Get(d.month).digits \in [1..2 -> MaskDigit]
      BY <2>6 DEF IsDateRecord, IsSlot
    <3>2. PICK m \in Nat : field_value(Get(d.month)) = Some(m) /\ Get(field_value(Get(d.month))) = m
      BY <2>1, <2>6, <3>1, FieldValue
    <3>3. m \in (1..12) \cup SeasonCode /\ (m \in SeasonCode => d.day = None)
      BY <2>2, <2>6, <3>2, SomeFacts DEF validate_month_day
    <3>4. slot_value(d.month) = Some(m) /\ SlotNumber(d.month) = m
      <4>1. slot_value(d.month) = Some(m)
        BY <2>6, <3>2 DEF slot_value, IsSome
      <4> QED BY <4>1, SomeFacts DEF SlotNumber
    <3>5. m \in 1..12
      <4>1. CASE d.day = None
        <5>1. \A w \in 21..99 : Some(m) # Some(w)
          BY <1>2, <2>6, <3>4, <4>1, PrecisionBySlots
        <5>2. m \notin 21..99
          BY <5>1
        <5> QED BY <3>3, <5>2 DEF SeasonCode
      <4>2. CASE d.day # None
        BY <3>3, <4>2
      <4> QED BY <4>1, <4>2
    <3>6. ~IsSeason(d)
      <4>1. \A code \in SeasonCode : Some(m) # Some(code)
        BY <3>5, SomeFacts DEF SeasonCode
      <4> QED BY <3>4, <4>1 DEF IsSeason
    <3>7. last_day(m, is_leap(v)) \in 28..31
      BY LastDayBounds
    <3>8. CASE d.day = None
      <4>1. p = "Month" /\ t = <<v, m, 0>>
        BY <1>2, <1>4, <1>6, <2>6, <3>4, <3>8, PrecisionBySlots
      <4>2. \A ascending \in BOOLEAN : extremum_in_year(d, v, ascending) = month_edge(v, m, ascending)
        BY <2>1, <2>6, <3>1, <3>2, <3>8, OneMonth
      <4>3. date_bounds(d) = day_bounds(month_edge(v, m, TRUE), month_edge(v, m, FALSE))
        BY <2>4, <3>6, <4>2
      <4>4. date_bounds(d) = MkBounds(DayBound(<<v, m, 1>>), DayBound(<<v, m, last_day(m, is_leap(v))>>))
        BY <4>3, SomeFacts DEF day_bounds, month_edge
      <4> HIDE DEF v, p, t
      <4>5. t \in Position("Month", I64Years)
        BY <1>1, <3>5, <4>1 DEF Position
      <4>6. /\ FirstDay("Month", t) = <<v, m, 1>>
            /\ FinalDay("Month", t) = <<v, m, last_day(m, is_leap(v))>>
        BY <4>1 DEF FirstDay, FinalDay
      <4> QED BY <4>1, <4>4, <4>5, <4>6 DEF Precisions, p, t
    <3>9. CASE d.day # None
      <4>1. d.day = Some(Get(d.day)) /\ Get(d.day).digits \in [1..2 -> MaskDigit]
        BY <3>9 DEF IsDateRecord, IsSlot
      <4>2. PICK n \in Nat : field_value(Get(d.day)) = Some(n) /\ Get(field_value(Get(d.day))) = n
        BY <2>1, <3>9, <4>1, FieldValue
      <4>3. slot_value(d.day) = Some(n) /\ SlotNumber(d.day) = n
        <5>1. slot_value(d.day) = Some(n)
          BY <3>9, <4>2 DEF slot_value, IsSome
        <5> QED BY <5>1, SomeFacts DEF SlotNumber
      <4>4. p = "Day" /\ t = <<v, m, n>>
        BY <1>6, <3>4, <3>9, <4>3, PrecisionBySlots
      <4>5. n \in 1..31 /\ n <= last_day(m, is_leap(v))
        <5>1. day_has_valid_completion(d.year.kind, Get(d.month), Get(d.day))
          BY <2>2, <2>6, <3>9 DEF validate_month_day
        <5>2. /\ accepted_months(Get(d.month)) = {w \in 1..12 : w = m}
              /\ accepted_days(Get(d.day)) = {w \in 1..31 : w = n}
          BY <3>2, <4>2, SomeFacts DEF accepted_months, accepted_days
        <5>3. n \in 1..31 /\ month_admits_day(m, n, d.year.kind)
          BY <5>1, <5>2 DEF day_has_valid_completion
        <5>4. year_leap_possible(d.year.kind) <=> is_leap(v)
          BY DEF year_leap_possible
        <5> HIDE DEF v
        <5>5. n <= last_day(m, m = 2 /\ n > 28 /\ is_leap(v))
          BY <5>3, <5>4 DEF month_admits_day
        <5> QED BY <3>5, <5>3, <5>5 DEF last_day
      <4>6. \A ascending \in BOOLEAN : extremum_in_year(d, v, ascending) = fitting_day(v, m, n)
        BY <2>1, <2>6, <3>1, <3>2, <3>9, <4>1, <4>2, OneDay
      <4>7. fitting_day(v, m, n) = Some(<<v, m, n>>)
        BY <4>5 DEF fitting_day
      <4>8. date_bounds(d) = MkBounds(DayBound(<<v, m, n>>), DayBound(<<v, m, n>>))
        BY <2>4, <3>6, <4>6, <4>7, SomeFacts DEF day_bounds
      <4> HIDE DEF v, p, t
      <4>9. t \in Position("Day", I64Years)
        <5>1. IsDay(t)
          BY <1>3, <3>5, <4>4, <4>5 DEF IsDay
        <5> QED BY <1>1, <3>5, <4>4, <4>5, <5>1 DEF Position
      <4>10. FirstDay("Day", t) = <<v, m, n>> /\ FinalDay("Day", t) = <<v, m, n>>
        BY <4>4 DEF FirstDay, FinalDay
      <4> QED BY <4>4, <4>8, <4>9, <4>10 DEF Precisions, p, t
    <3> QED BY <3>8, <3>9
  <2> QED BY <2>5, <2>6
<1> QED BY <1>7, <1>8

(* The order check the parser makes of a range, which compares days, puts  *)
(* the places of its two ends in order.                                    *)
LEMMA RangeInOrder ==
  ASSUME NEW e, IsElement(e), e.kind = "Range", range_agrees(e), parse_set_element(e),
         year_of(e.date.year.kind) # None, year_of(e.to.year.kind) # None
  PROVE  LET p == precision(e.date)
         IN  /\ p \in Precisions
             /\ PlaceOf(e.date) \in Position(p, I64Years) /\ PlaceOf(e.to) \in Position(p, I64Years)
             /\ AtMost(PlaceOf(e.date), PlaceOf(e.to))
<1> DEFINE p == precision(e.date)
           a == PlaceOf(e.date)
           b == PlaceOf(e.to)
<1>1. /\ check_range_endpoint(e.date) /\ check_range_endpoint(e.to)
      /\ precision(e.to) = p /\ ~dates_out_of_order(e.date, e.to)
      /\ ValidDate(e.date) /\ ValidDate(e.to)
      /\ IsDateRecord(e.date) /\ IsDateRecord(e.to)
  BY DEF range_agrees, parse_set_element, IsElement
<1>2. /\ p \in Precisions /\ a \in Position(p, I64Years)
      /\ date_bounds(e.date) = MkBounds(DayBound(FirstDay(p, a)), DayBound(FinalDay(p, a)))
  BY <1>1, PlainDate
<1>3. /\ b \in Position(p, I64Years)
      /\ date_bounds(e.to) = MkBounds(DayBound(FirstDay(p, b)), DayBound(FinalDay(p, b)))
  BY <1>1, PlainDate
<1>4. ~Before(FinalDay(p, b), FirstDay(p, a))
  <2> HIDE DEF p, a, b
  <2> QED BY <1>1, <1>2, <1>3 DEF dates_out_of_order, MkBounds, DayBound
<1>5. a \in Position(p, Int) /\ b \in Position(p, Int)
  BY <1>2, <1>3, Numbers, PositionIsTriple
<1>6. AtMost(a, b)
  BY <1>2, <1>4, <1>5, PlacesInOrder
<1> QED BY <1>2, <1>3, <1>6

-----------------------------------------------------------------------------
(* Joins of bounds.  r is what a set B of bounds comes to when they are    *)
(* widened into one: the first and the last day of any of them, or unknown *)
(* as soon as one of them is.                                              *)
Dated(b) == \E s, t \in CalendarDay : b = MkBounds(DayBound(s), DayBound(t))

LiesIn(b, s, t) ==
  \E p, q \in CalendarDay : /\ b = MkBounds(DayBound(p), DayBound(q))
                            /\ AtMost(s, p) /\ AtMost(q, t)

Spans(r, B) ==
  \E s, t \in CalendarDay :
    /\ r = MkBounds(DayBound(s), DayBound(t))
    /\ \E b \in B : b.earliest = DayBound(s)
    /\ \E b \in B : b.latest = DayBound(t)
    /\ \A b \in B : LiesIn(b, s, t)

Joins(r, B) ==
  \/ r = UnknownBounds /\ r \in B /\ \A b \in B : b = UnknownBounds \/ Dated(b)
  \/ Spans(r, B)

(* Bounds are made of their two sides, and a day bound of its day.         *)
LEMMA SidesAreDays ==
  ASSUME NEW s, NEW t
  PROVE  /\ MkBounds(DayBound(s), DayBound(t)).earliest = DayBound(s)
         /\ MkBounds(DayBound(s), DayBound(t)).latest = DayBound(t)
         /\ DayBound(s).day = s /\ DayBound(t).day = t
         /\ DayBound(s) = DayBound(t) => s = t
         /\ DayBound(s) \notin {NegInf, PosInf, Unknown}
         /\ MkBounds(DayBound(s), DayBound(t)) # UnknownBounds
         /\ UnknownBounds.earliest = Unknown /\ UnknownBounds.latest = Unknown
BY DEF MkBounds, DayBound, NegInf, PosInf, Unknown, UnknownBounds

(* A calendar day is a triple of numbers, and days are ordered.            *)
LEMMA DaysOrdered ==
  ASSUME NEW s \in CalendarDay, NEW t \in CalendarDay, NEW u \in CalendarDay
  PROVE  /\ AtMost(s, t) \/ AtMost(t, s)
         /\ AtMost(s, t) /\ AtMost(t, s) => s = t
         /\ AtMost(s, t) /\ AtMost(t, u) => AtMost(s, u)
         /\ AtMost(s, s)
<1>1. s \in Triples /\ t \in Triples /\ u \in Triples
  BY Numbers, PositionIsTriple DEF CalendarDay
<1>2. Before(s, t) \/ s = t \/ Before(t, s)
  BY <1>1, OrderTotal
<1>3. ~(Before(s, t) /\ Before(t, s))
  BY <1>1, OrderTotal
<1>4. Before(s, t) /\ Before(t, u) => Before(s, u)
  BY <1>1, OrderTransitive
<1> QED BY <1>2, <1>3, <1>4 DEF AtMost

(* A set of bounds has one join only. *)
LEMMA JoinIsOne ==
  ASSUME NEW B, NEW r, NEW q, Joins(r, B), Joins(q, B)
  PROVE  r = q
<1>1. ASSUME NEW x, Spans(x, B) PROVE UnknownBounds \notin B
  BY <1>1, SidesAreDays DEF Spans, LiesIn
<1>2. CASE r = UnknownBounds \/ q = UnknownBounds
  <2>1. \A x : ~Spans(UnknownBounds, x)
    BY SidesAreDays DEF Spans
  <2> QED BY <1>1, <1>2, <2>1 DEF Joins
<1>3. CASE Spans(r, B) /\ Spans(q, B)
  <2>1. PICK s \in CalendarDay, t \in CalendarDay :
          /\ r = MkBounds(DayBound(s), DayBound(t))
          /\ \E b \in B : b.earliest = DayBound(s)
          /\ \E b \in B : b.latest = DayBound(t)
          /\ \A b \in B : LiesIn(b, s, t)
    BY <1>3 DEF Spans
  <2>2. PICK u \in CalendarDay, v \in CalendarDay :
          /\ q = MkBounds(DayBound(u), DayBound(v))
          /\ \E b \in B : b.earliest = DayBound(u)
          /\ \E b \in B : b.latest = DayBound(v)
          /\ \A b \in B : LiesIn(b, u, v)
    BY <1>3 DEF Spans
  <2>3. ASSUME NEW x \in CalendarDay, NEW y \in CalendarDay, NEW b, LiesIn(b, x, y)
        PROVE  \E c, e \in CalendarDay : /\ b.earliest = DayBound(c) /\ b.latest = DayBound(e)
                                         /\ AtMost(x, c) /\ AtMost(e, y)
    BY <2>3, SidesAreDays DEF LiesIn
  <2>4. AtMost(u, s) /\ AtMost(t, v)
    BY <2>1, <2>2, <2>3, SidesAreDays
  <2>5. AtMost(s, u) /\ AtMost(v, t)
    BY <2>1, <2>2, <2>3, SidesAreDays
  <2>6. s = u /\ t = v
    BY <2>4, <2>5, DaysOrdered
  <2> QED BY <2>1, <2>2, <2>6
<1> QED BY <1>2, <1>3 DEF Joins

(* The join of one. *)
LEMMA JoinOfOne ==
  ASSUME NEW b, b = UnknownBounds \/ Dated(b)
  PROVE  Joins(b, {b})
<1>1. CASE b = UnknownBounds
  BY <1>1 DEF Joins
<1>2. CASE Dated(b)
  <2>1. PICK s \in CalendarDay, t \in CalendarDay : b = MkBounds(DayBound(s), DayBound(t))
    BY <1>2 DEF Dated
  <2>2. b.earliest = DayBound(s) /\ b.latest = DayBound(t)
    BY <2>1, SidesAreDays
  <2>3. LiesIn(b, s, t)
    BY <2>1 DEF LiesIn, AtMost
  <2> QED BY <2>1, <2>2, <2>3 DEF Joins, Spans
<1> QED BY <1>1, <1>2

(* Widening two stretches of days, and one with what is unknown.           *)
LEMMA WidenedDays ==
  ASSUME NEW s, NEW t, NEW p, NEW q
  PROVE  widened(MkBounds(DayBound(s), DayBound(t)), MkBounds(DayBound(p), DayBound(q)))
           = MkBounds(DayBound(Earlier(s, p)), DayBound(Later(t, q)))
<1>1. \A x : DayBound(x).day = x /\ DayBound(x) # NegInf /\ DayBound(x) # PosInf /\ DayBound(x) # Unknown
  BY SidesAreDays
<1>2. min_bound(DayBound(s), DayBound(p)) = DayBound(Earlier(s, p))
  <2>1. min_bound(DayBound(s), DayBound(p)) = JoinBounds(DayBound(s), DayBound(p), NegInf, PosInf, Earlier)
    BY DEF min_bound
  <2>2. JoinBounds(DayBound(s), DayBound(p), NegInf, PosInf, Earlier)
          = DayBound(Earlier(DayBound(s).day, DayBound(p).day))
    BY <1>1, Zenon DEF JoinBounds
  <2> QED BY <1>1, <2>1, <2>2
<1>3. max_bound(DayBound(t), DayBound(q)) = DayBound(Later(t, q))
  <2>1. max_bound(DayBound(t), DayBound(q)) = JoinBounds(DayBound(t), DayBound(q), PosInf, NegInf, Later)
    BY DEF max_bound
  <2>2. JoinBounds(DayBound(t), DayBound(q), PosInf, NegInf, Later)
          = DayBound(Later(DayBound(t).day, DayBound(q).day))
    BY <1>1, Zenon DEF JoinBounds
  <2> QED BY <1>1, <2>1, <2>2
<1> QED BY <1>2, <1>3, SidesAreDays DEF widened

(* The join of two when either is unknown. *)
LEMMA WidenedUnknown ==
  ASSUME NEW a, NEW b, a = UnknownBounds \/ Dated(a), b = UnknownBounds \/ Dated(b),
         a = UnknownBounds \/ b = UnknownBounds
  PROVE  widened(a, b) = UnknownBounds
<1> DEFINE Side(x) == x = Unknown \/ x \notin {NegInf, PosInf, Unknown}
<1>1. /\ a.earliest \notin {NegInf, PosInf} /\ b.earliest \notin {NegInf, PosInf}
      /\ a.latest \notin {NegInf, PosInf} /\ b.latest \notin {NegInf, PosInf}
      /\ a.earliest = Unknown \/ b.earliest = Unknown
      /\ a.latest = Unknown \/ b.latest = Unknown
  <2>1. Unknown # NegInf /\ Unknown # PosInf
    BY DEF Unknown, NegInf, PosInf
  <2> QED BY <2>1, SidesAreDays DEF Dated
<1>2. min_bound(a.earliest, b.earliest) = Unknown
  <2>1. min_bound(a.earliest, b.earliest) = JoinBounds(a.earliest, b.earliest, NegInf, PosInf, Earlier)
    BY DEF min_bound
  <2>2. JoinBounds(a.earliest, b.earliest, NegInf, PosInf, Earlier) = Unknown
    BY <1>1, Zenon DEF JoinBounds
  <2> QED BY <2>1, <2>2
<1>3. max_bound(a.latest, b.latest) = Unknown
  <2>1. max_bound(a.latest, b.latest) = JoinBounds(a.latest, b.latest, PosInf, NegInf, Later)
    BY DEF max_bound
  <2>2. JoinBounds(a.latest, b.latest, PosInf, NegInf, Later) = Unknown
    BY <1>1, Zenon DEF JoinBounds
  <2> QED BY <2>1, <2>2
<1> QED BY <1>2, <1>3 DEF widened, UnknownBounds

(* What is joined is a stretch of days or unknown.                         *)
LEMMA JoinIsDated ==
  ASSUME NEW r, NEW B, Joins(r, B)
  PROVE  /\ r = UnknownBounds \/ Dated(r)
         /\ \A b \in B : b = UnknownBounds \/ Dated(b)
         /\ B # {}
<1>1. CASE r = UnknownBounds /\ r \in B /\ \A b \in B : b = UnknownBounds \/ Dated(b)
  BY <1>1
<1>2. CASE Spans(r, B)
  <2>1. Dated(r) /\ B # {}
    BY <1>2 DEF Spans, Dated
  <2>2. \A b \in B : Dated(b)
    BY <1>2 DEF Spans, LiesIn, Dated
  <2> QED BY <2>1, <2>2
<1> QED BY <1>1, <1>2 DEF Joins

(* The join of two sets is the join of their joins: bounds may be widened  *)
(* in any order (bounds.rs bounds(), the fold over a set's elements).      *)
LEMMA JoinOfUnion ==
  ASSUME NEW B, NEW C, NEW r, NEW q, Joins(r, B), Joins(q, C)
  PROVE  Joins(widened(r, q), B \cup C)
<1>1. /\ r = UnknownBounds \/ Dated(r)
      /\ q = UnknownBounds \/ Dated(q)
      /\ \A b \in B \cup C : b = UnknownBounds \/ Dated(b)
  BY JoinIsDated
<1>2. CASE r = UnknownBounds \/ q = UnknownBounds
  <2>1. widened(r, q) = UnknownBounds
    BY <1>1, <1>2, WidenedUnknown
  <2>2. UnknownBounds \in B \cup C
    <3>1. \A x : ~Spans(UnknownBounds, x)
      BY SidesAreDays DEF Spans
    <3> QED BY <1>2, <3>1 DEF Joins
  <2> QED BY <1>1, <2>1, <2>2 DEF Joins
<1>3. CASE r # UnknownBounds /\ q # UnknownBounds
  <2>1. PICK s \in CalendarDay, t \in CalendarDay :
          /\ r = MkBounds(DayBound(s), DayBound(t))
          /\ \E b \in B : b.earliest = DayBound(s)
          /\ \E b \in B : b.latest = DayBound(t)
          /\ \A b \in B : LiesIn(b, s, t)
    BY <1>3 DEF Joins, Spans
  <2>2. PICK u \in CalendarDay, v \in CalendarDay :
          /\ q = MkBounds(DayBound(u), DayBound(v))
          /\ \E b \in C : b.earliest = DayBound(u)
          /\ \E b \in C : b.latest = DayBound(v)
          /\ \A b \in C : LiesIn(b, u, v)
    BY <1>3 DEF Joins, Spans
  <2> DEFINE x == Earlier(s, u)
             y == Later(t, v)
  <2>3. widened(r, q) = MkBounds(DayBound(x), DayBound(y))
    BY <2>1, <2>2, WidenedDays
  <2>4. x \in {s, u} /\ AtMost(x, s) /\ AtMost(x, u)
    BY DaysOrdered DEF Earlier, AtMost
  <2>5. y \in {t, v} /\ AtMost(t, y) /\ AtMost(v, y)
    BY DaysOrdered DEF Later, AtMost
  <2> HIDE DEF x, y
  <2>6. x \in CalendarDay /\ y \in CalendarDay
    BY <2>4, <2>5
  <2>7. ASSUME NEW b, NEW c \in CalendarDay, NEW e \in CalendarDay, LiesIn(b, c, e),
               AtMost(x, c), AtMost(e, y)
        PROVE  LiesIn(b, x, y)
    <3>1. PICK f \in CalendarDay, g \in CalendarDay : /\ b = MkBounds(DayBound(f), DayBound(g))
                                                      /\ AtMost(c, f) /\ AtMost(g, e)
      BY <2>7 DEF LiesIn
    <3>2. AtMost(x, f) /\ AtMost(g, y)
      BY <2>6, <2>7, <3>1, DaysOrdered
    <3> QED BY <3>1, <3>2 DEF LiesIn
  <2>8. \A b \in B \cup C : LiesIn(b, x, y)
    BY <2>1, <2>2, <2>4, <2>5, <2>7
  <2>9. (\E b \in B \cup C : b.earliest = DayBound(x)) /\ (\E b \in B \cup C : b.latest = DayBound(y))
    BY <2>1, <2>2, <2>4, <2>5
  <2> QED BY <2>3, <2>6, <2>8, <2>9 DEF Joins, Spans
<1> QED BY <1>2, <1>3

(* The bounds of a set of elements are the join of what the elements'      *)
(* bounds are joins of.                                                    *)
LEMMA SetJoins ==
  ASSUME NEW elements, Len(elements) \in Nat, DOMAIN elements = 1..Len(elements), elements # <<>>,
         \A i \in 1..Len(elements) : WellFormed(element_bounds(elements[i])),
         NEW B, \A i \in 1..Len(elements) : Joins(element_bounds(elements[i]), B[i])
  PROVE  Joins(set_bounds(elements), UNION {B[i] : i \in 1..Len(elements)})
<1> DEFINE n == Len(elements)
           upTo(k) == UNION {B[i] : i \in 1..k}
<1>1. PICK h : IsHull(h, elements)
  BY HullOfSet
<1>2. n \in Nat /\ n # 0 /\ n - 1 \in Nat /\ 1 \in 1..n
  OBVIOUS
<1>3. /\ h[1] = element_bounds(elements[1])
      /\ \A i \in 2..n : h[i] = widened(h[i - 1], element_bounds(elements[i]))
      /\ set_bounds(elements) = h[n]
  BY <1>1 DEF IsHull
<1>4. \A i \in 1..n : Joins(element_bounds(elements[i]), B[i])
  OBVIOUS
<1> HIDE DEF n
<1> DEFINE G == {k \in 0..(n - 1) : Joins(h[k + 1], upTo(k + 1))}
<1>5. 0 \in G
  <2>1. upTo(1) = B[1]
    OBVIOUS
  <2>2. 0 \in 0..(n - 1) /\ 0 + 1 = 1
    BY <1>2
  <2> HIDE DEF upTo
  <2>3. Joins(h[0 + 1], upTo(0 + 1))
    BY <1>2, <1>3, <1>4, <2>1, <2>2
  <2> QED BY <2>2, <2>3
<1>6. ASSUME NEW k \in 1..(n - 1), k - 1 \in G PROVE k \in G
  <2>1. k + 1 \in 2..n /\ k + 1 \in 1..n /\ k + 1 - 1 = k /\ k - 1 + 1 = k /\ k \in 0..(n - 1)
    BY <1>2
  <2>2. Joins(h[k], upTo(k))
    BY <1>6, <2>1
  <2>3. h[k + 1] = widened(h[k], element_bounds(elements[k + 1]))
    BY <1>3, <2>1
  <2>4. upTo(k + 1) = upTo(k) \cup B[k + 1]
    <3>1. 1..(k + 1) = 1..k \cup {k + 1}
      BY <2>1
    <3> QED BY <3>1
  <2> HIDE DEF upTo
  <2>5. Joins(element_bounds(elements[k + 1]), B[k + 1])
    BY <1>4, <2>1
  <2>6. Joins(h[k + 1], upTo(k + 1))
    BY <2>2, <2>3, <2>4, <2>5, JoinOfUnion
  <2> QED BY <2>1, <2>6
<1>7. 0..(n - 1) \subseteq G
  <2> HIDE DEF G
  <2> QED BY <1>2, <1>5, <1>6, Climb
<1>8. Joins(h[n], upTo(n))
  <2>1. n - 1 \in 0..(n - 1) /\ n - 1 + 1 = n
    BY <1>2
  <2>2. n - 1 \in G
    <3> HIDE DEF G
    <3> QED BY <1>7, <2>1
  <2> QED BY <2>1, <2>2
<1> QED BY <1>3, <1>8 DEF n

(* Later positions have later first and last days. *)
LEMMA DaysFollowPlaces ==
  ASSUME NEW p \in Precisions, NEW a \in Position(p, I64Years), NEW b \in Position(p, I64Years)
  PROVE  /\ FirstDay(p, a) \in CalendarDay /\ FinalDay(p, a) \in CalendarDay
         /\ AtMost(a, b) => /\ AtMost(FirstDay(p, a), FirstDay(p, b))
                            /\ AtMost(FinalDay(p, a), FinalDay(p, b))
<1>1. /\ a = <<a[1], a[2], a[3]>> /\ a[1] \in I64Years /\ a[1] \in Int /\ a[2] \in 0..12 /\ a[3] \in 0..31
      /\ b = <<b[1], b[2], b[3]>> /\ b[1] \in I64Years /\ b[1] \in Int /\ b[2] \in 0..12 /\ b[3] \in 0..31
  BY Numbers, PositionIsTriple
<1>2. \A y \in I64Years, m \in 1..12 : \A n \in 1..last_day(m, is_leap(y)) : <<y, m, n>> \in CalendarDay
  BY DayOfYear DEF DaysOfMonth, DaysOfYear
<1>3. CASE p = "Year"
  <2>1. /\ a[2] = 0 /\ a[3] = 0 /\ b[2] = 0 /\ b[3] = 0
    BY <1>3 DEF Position
  <2>2. \A t : FirstDay(p, t) = <<t[1], 1, 1>> /\ FinalDay(p, t) = <<t[1], 12, 31>>
    BY <1>3, LastDayBounds DEF FirstDay, FinalDay
  <2>3. \A leap : last_day(12, leap) = 31 /\ last_day(1, leap) = 31
    BY DEF last_day
  <2>4. <<a[1], 1, 1>> \in CalendarDay /\ <<a[1], 12, 31>> \in CalendarDay
    BY <1>1, <1>2, <2>3
  <2>5. ASSUME AtMost(a, b) PROVE AtMost(FirstDay(p, a), FirstDay(p, b)) /\ AtMost(FinalDay(p, a), FinalDay(p, b))
    <3>1. a[1] = b[1] \/ a[1] < b[1]
      BY <2>1, <2>5 DEF AtMost, Before
    <3>2. /\ FirstDay(p, a) = <<a[1], 1, 1>> /\ FinalDay(p, a) = <<a[1], 12, 31>>
          /\ FirstDay(p, b) = <<b[1], 1, 1>> /\ FinalDay(p, b) = <<b[1], 12, 31>>
      BY <2>2
    <3> HIDE DEF FirstDay, FinalDay
    <3>3. CASE a[1] = b[1]
      BY <3>2, <3>3 DEF AtMost
    <3>4. CASE a[1] < b[1]
      BY <3>2, <3>4 DEF AtMost, Before
    <3> QED BY <3>1, <3>3, <3>4
  <2> QED BY <2>2, <2>4, <2>5
<1>4. CASE p = "Month"
  <2>1. a[2] \in 1..12 /\ a[3] = 0 /\ b[2] \in 1..12 /\ b[3] = 0
    BY <1>1, <1>4 DEF Position
  <2>2. /\ \A t : FirstDay(p, t) = <<t[1], t[2], 1>>
        /\ \A t : FinalDay(p, t) = <<t[1], t[2], last_day(t[2], is_leap(t[1]))>>
    BY <1>4 DEF FirstDay, FinalDay
  <2>3. \A t : last_day(t[2], is_leap(t[1])) \in 28..31
    BY LastDayBounds
  <2>4. <<a[1], a[2], 1>> \in CalendarDay /\ <<a[1], a[2], last_day(a[2], is_leap(a[1]))>> \in CalendarDay
    BY <1>1, <1>2, <2>1, <2>3
  <2>5. ASSUME AtMost(a, b) PROVE AtMost(FirstDay(p, a), FirstDay(p, b)) /\ AtMost(FinalDay(p, a), FinalDay(p, b))
    <3>1. a[1] < b[1] \/ (a[1] = b[1] /\ a[2] < b[2]) \/ (a[1] = b[1] /\ a[2] = b[2])
      BY <1>1, <2>1, <2>5 DEF AtMost, Before
    <3>2. a[1] = b[1] /\ a[2] = b[2] => FirstDay(p, a) = FirstDay(p, b) /\ FinalDay(p, a) = FinalDay(p, b)
      BY <2>2
    <3>3. a[1] < b[1] \/ (a[1] = b[1] /\ a[2] < b[2]) =>
            Before(FirstDay(p, a), FirstDay(p, b)) /\ Before(FinalDay(p, a), FinalDay(p, b))
      <4>1. /\ FirstDay(p, a)[1] = a[1] /\ FirstDay(p, a)[2] = a[2]
            /\ FirstDay(p, b)[1] = b[1] /\ FirstDay(p, b)[2] = b[2]
            /\ FinalDay(p, a)[1] = a[1] /\ FinalDay(p, a)[2] = a[2]
            /\ FinalDay(p, b)[1] = b[1] /\ FinalDay(p, b)[2] = b[2]
        BY <1>4 DEF FirstDay, FinalDay
      <4> QED BY <4>1 DEF Before
    <3> QED BY <3>1, <3>2, <3>3 DEF AtMost
  <2> QED BY <2>2, <2>4, <2>5
<1>5. CASE p = "Day"
  <2>1. FirstDay(p, a) = a /\ FinalDay(p, a) = a /\ FirstDay(p, b) = b /\ FinalDay(p, b) = b
    BY <1>1, <1>5 DEF FirstDay, FinalDay
  <2> QED BY <1>5, <2>1 DEF CalendarDay
<1> QED BY <1>3, <1>4, <1>5 DEF Precisions

(* The bounds of a position. *)
PlaceBounds(p, t) == MkBounds(DayBound(FirstDay(p, t)), DayBound(FinalDay(p, t)))

(* The bounds of some positions join to the first day of one and the last  *)
(* day of another, when all of them lie between.                           *)
LEMMA PlacesJoin ==
  ASSUME NEW p \in Precisions, NEW T, T \subseteq Position(p, I64Years), NEW B,
         \A b : b \in B <=> \E u \in T : b = PlaceBounds(p, u),
         NEW s, NEW t, \E a \in T : FirstDay(p, a) = s, \E z \in T : FinalDay(p, z) = t,
         \A u \in T : AtMost(s, FirstDay(p, u)) /\ AtMost(FinalDay(p, u), t)
  PROVE  Joins(MkBounds(DayBound(s), DayBound(t)), B)
<1>1. \A u \in T : FirstDay(p, u) \in CalendarDay /\ FinalDay(p, u) \in CalendarDay
  BY DaysFollowPlaces
<1>2. s \in CalendarDay /\ t \in CalendarDay
  BY <1>1
<1>3. ASSUME NEW b \in B PROVE LiesIn(b, s, t)
  <2>1. PICK u \in T : b = PlaceBounds(p, u)
    OBVIOUS
  <2> QED BY <1>1, <2>1 DEF LiesIn, PlaceBounds
<1>4. \E b \in B : b.earliest = DayBound(s)
  <2>1. PICK a \in T : FirstDay(p, a) = s
    OBVIOUS
  <2>2. PlaceBounds(p, a) \in B /\ PlaceBounds(p, a).earliest = DayBound(s)
    BY <2>1, SidesAreDays DEF PlaceBounds
  <2> QED BY <2>2
<1>5. \E b \in B : b.latest = DayBound(t)
  <2>1. PICK z \in T : FinalDay(p, z) = t
    OBVIOUS
  <2>2. PlaceBounds(p, z) \in B /\ PlaceBounds(p, z).latest = DayBound(t)
    BY <2>1, SidesAreDays DEF PlaceBounds
  <2> QED BY <2>2
<1> QED BY <1>2, <1>3, <1>4, <1>5 DEF Joins, Spans
=============================================================================
