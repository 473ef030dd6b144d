-------------------------------- MODULE Phrases --------------------------------
(***************************************************************************)
(* How the prose normalizer looks at a text (engine.rs): the classifiers   *)
(* of single words, the dates they build, and the phrases at the edges.    *)
(*                                                                         *)
(* A text is a sequence of tokens (Display): digits that stand together    *)
(* are one group, a word is one symbol, and so are a space, a hyphen, a    *)
(* suffix typed against its number and each letter of a Roman numeral.     *)
(* A word of the text, w, is what stands between spaces.                   *)
(*                                                                         *)
(* What may read something, or nothing, is a set: of the one reading, or   *)
(* empty.                                                                  *)
(***************************************************************************)
EXTENDS Display, Centuries, Lexicon
LOCAL INSTANCE SequencesExt

OrElse(reading, other) == IF reading # {} THEN reading ELSE other

Space == Sym(" ")
Hyphen == Sym("-")

Symbols(strings) == [i \in DOMAIN strings |-> Sym(strings[i])]

pieces(t, s) ==
  LET add(cut, token) == IF token = s THEN Append(cut, <<>>)
                         ELSE [cut EXCEPT ![Len(cut)] = Append(@, token)]
  IN  FoldLeft(add, <<<<>>>>, t)

(* The words of a text: its longest stretches without a space.             *)
Beginning(t, i) == t[i] # Space /\ (i = 1 \/ t[i - 1] = Space)
Past(t, i) == Min({j \in (i + 1)..(Len(t) + 1) : j = Len(t) + 1 \/ t[j] = Space})
word_at(t, i) == IF Beginning(t, i) THEN <<SubSeq(t, i, Past(t, i) - 1)>> ELSE <<>>
words_of(t) == FlattenSeq([i \in DOMAIN t |-> word_at(t, i)])

joined(words) == FlattenSeq([i \in DOMAIN words |-> IF i = 1 THEN words[i] ELSE <<Space>> \o words[i]])

(* Dashes are unified; then commas become spaces.                          *)
Undashed(token) == IF token = Sym("dash") THEN Hyphen ELSE token
Uncommaed(token) == IF token = Sym(",") THEN Space ELSE token
dashed(t) == [i \in DOMAIN t |-> Undashed(t[i])]
preprocess(t) == words_of([i \in DOMAIN t |-> Uncommaed(Undashed(t[i]))])

IsWord(w) == Len(w) = 1 /\ ~IsGroup(w[1])
Spelling(w) == IF IsWord(w) THEN w[1].sym ELSE ""

IsNumber(w) == Len(w) = 1 /\ IsGroup(w[1]) /\ ~has_x(w[1].digits)
Digits(w) == Len(w[1].digits)

table_u8(w, table) == {table[word] : word \in {Spelling(w)} \cap DOMAIN table}

-----------------------------------------------------------------------------
(* Numbers: plain, with a suffix, as a word, as a Roman numeral.           *)
TimesTen(n, digit) == 10 * n + digit
Number(w) == FoldLeft(TimesTen, 0, w[1].digits)
num(w) == IF IsNumber(w) /\ Digits(w) <= 5 THEN {Number(w)} ELSE {}

stems(w, suffixes) ==
  {SubSeq(w, 1, Len(w) - Len(s)) : s \in {s \in suffixes : IsSuffix(Symbols(s), w)}}

ordinal_num(w, lang) ==
  OrElse(UNION {num(stem) : stem \in {w} \cup stems(w, lang.ordinal_suffixes)},
         table_u8(w, lang.ordinal_words))

RomanLetters == [i |-> 1, v |-> 5, x |-> 10, l |-> 50, c |-> 100, d |-> 500, m |-> 1000]
IsLetter(token) == ~IsGroup(token) /\ token.sym \in DOMAIN RomanLetters

(* A letter before a larger one counts negative.                           *)
roman_value(w) ==
  LET letter == [i \in DOMAIN w |-> RomanLetters[w[i].sym]]
      signed(i) == IF \E j \in (i + 1)..Len(w) : letter[j] > letter[i] THEN -letter[i] ELSE letter[i]
      add(total, i) == total + signed(i)
  IN  FoldLeft(add, 0, [i \in DOMAIN w |-> i])

roman_num(w) == {v \in IF \A i \in DOMAIN w : IsLetter(w[i]) THEN {roman_value(w)} ELSE {} : v \in 1..99}

Ordinal(n, roman) == [n |-> n, roman |-> roman]

century_ordinal(w, lang) ==
  OrElse({Ordinal(n, FALSE) : n \in ordinal_num(w, lang)},
         {Ordinal(n, TRUE) : n \in {v \in roman_num(w) : lang.roman_centuries}})

day_num(w, lang) ==
  LET written == OrElse(stems(w, lang.ordinal_suffixes), {w})
  IN  {day \in UNION {num(s) : s \in {s \in written : IsNumber(s) /\ Digits(s) <= 2}} : day \in 1..31}

year_num(w) == {y \in num(w) : Digits(w) \in 3..4 /\ y >= 1}

-----------------------------------------------------------------------------
(* The dates they build; a year beyond four digits is no date.             *)
quiet(v) == Field(<<v \div 10, v % 10>>, {})

Masked(digits) == Year(Standard(FALSE, digits), None, {})
masked_year == Masked(<<X, X, X, X>>)

InYear(y) == Date(concrete_year(y, {}), None, None)
date_y(y) == {InYear(v) : v \in {y} \cap -9999..9999}

InMonth(d, m) == [d EXCEPT !.month = Some(quiet(m))]
OnDay(d, m, day) == [InMonth(d, m) EXCEPT !.day = Some(quiet(day))]
WithoutYear == Date(masked_year, None, None)

decade_date(prefix3) ==
  Date(Masked(<<prefix3 \div 100, (prefix3 \div 10) % 10, prefix3 % 10, X>>), None, None)
century_date(prefix2) == Date(Masked(<<prefix2 \div 10, prefix2 % 10, X, X>>), None, None)

interval(a, b) == IntervalExpr(At(a), At(b))
YearsFromTo(span) == interval(InYear(span[1]), InYear(span[2]))

-----------------------------------------------------------------------------
(* Decades: 1860s; 1900s, a decade or a century; 80s, of an unnamed        *)
(* century.                                                                *)
Decade(kind, prefix) == [kind |-> kind, prefix |-> prefix]

unquoted(w) == IF w # <<>> /\ Head(w) = Sym("'") THEN Tail(w) ELSE w

decade_tok(w, lang) ==
  LET kind(stem, v) == IF Digits(stem) = 2 THEN "Bare"
                       ELSE IF v % 100 = 0 THEN "CenturyAmbig" ELSE "Exact"
      decades(stem) == {Decade(kind(stem, v), v \div 10) : v \in {v \in num(stem) : v % 10 = 0}}
  IN  UNION {decades(stem) : stem \in {s \in stems(unquoted(w), lang.decade_suffixes) :
                                          IsNumber(s) /\ Digits(s) \in {2, 4}}}

(* Centuries: 19th century, 19c, and a Roman numeral of at least two       *)
(* letters where the language writes centuries that way.                   *)
attached(w, lang) ==
  UNION {century_ordinal(stem, lang) : stem \in stems(w, {<<s>> : s \in lang.century_letters})}

bare_roman(w, lang) ==
  {Ordinal(n, TRUE) : n \in {v \in roman_num(w) : lang.roman_centuries /\ Len(w) >= 2}}

century_toks(words, lang) ==
  LET written == IF Len(words) = 1 THEN OrElse(attached(words[1], lang), bare_roman(words[1], lang))
                 ELSE IF Len(words) = 2 /\ Spelling(words[2]) \in lang.century_words
                 THEN century_ordinal(words[1], lang) ELSE {}
  IN  {century \in written : century.n \in 1..99}

-----------------------------------------------------------------------------
(* Phrases at the edges of a sequence of words. *)
Rest(words, n) == SubSeq(words, n + 1, Len(words))
Spells(words, phrase) == \A i \in DOMAIN phrase : Spelling(words[i]) = phrase[i]

BeginsWith(words, phrase) == Len(words) > Len(phrase) /\ Spells(words, phrase)
EndsWith(words, phrase) ==
  Len(words) > Len(phrase) /\ Spells(Rest(words, Len(words) - Len(phrase)), phrase)

(* The first of a table's phrases that fits; none is 0.                    *)
match_head(words, phrases) ==
  LET fits(phrase) == BeginsWith(words, phrase)
  IN  SelectInSeq(phrases, fits)

(* The words before the era, and whether it is before Christ. *)
split_era(words, lang) ==
  LET fits(era) == EndsWith(words, era.phrase)
      i == SelectInSeq(lang.eras, fits)
  IN  IF i = 0 THEN [bc |-> None, words |-> words]
      ELSE [bc |-> Some(lang.eras[i].bc),
            words |-> SubSeq(words, 1, Len(words) - Len(lang.eras[i].phrase))]

(* How many words of noise stand at an edge; one word always stays.        *)
FirstNot(words, noise) == SelectInSeq(words, LAMBDA w : Spelling(w) \notin noise)

without_leading(words, noise) ==
  LET i == FirstNot(words, noise)
  IN  IF i = 0 THEN Rest(words, Len(words) - 1) ELSE Rest(words, i - 1)

without_trailing(words, noise) ==
  IF words = <<>> THEN <<>> ELSE Reverse(without_leading(Reverse(words), noise))

(* A part-of-century modifier, as leading words or typed against the next  *)
(* word, and what it modifies.                                             *)
split_modifier(words, lang) ==
  LET fits(m) == BeginsWith(words, m.phrase)
      i == SelectInSeq(lang.modifiers, fits)
      typed(m) == Len(words) > 0 /\ Len(m.phrase) = 1
                    /\ IsPrefix(<<Sym(m.phrase[1]), Hyphen>>, words[1]) /\ Len(words[1]) > 2
      j == SelectInSeq(lang.modifiers, typed)
      modified(m, rest) == [span |-> m.span, words |-> without_leading(rest, lang.noise_leading)]
  IN  IF i # 0 THEN {modified(lang.modifiers[i], Rest(words, Len(lang.modifiers[i].phrase)))}
      ELSE IF j # 0 THEN {modified(lang.modifiers[j], <<Rest(words[1], 2)>> \o Tail(words))}
      ELSE {}

-----------------------------------------------------------------------------
(* Qualifier words and noise around a phrase.  One word is taken at a      *)
(* time: noise or a qualifier in front, an approximate prefix typed        *)
(* against a number, noise or a qualifier behind.                          *)
Unwrapped(words, q) == [words |-> words, q |-> q]

FrontFlags(w, lang) == IF Spelling(w) \in lang.approx_leading THEN {"approximate"}
                       ELSE IF Spelling(w) \in lang.uncertain_leading THEN {"uncertain"} ELSE {}
BackFlags(w, lang) == IF Spelling(w) \in lang.approx_trailing THEN {"approximate"}
                      ELSE IF Spelling(w) \in lang.uncertain_trailing THEN {"uncertain"} ELSE {}

InFront(w, lang) == Spelling(w) \in lang.noise_leading \/ FrontFlags(w, lang) # {}
Behind(w, lang) == Spelling(w) \in lang.noise_trailing \/ BackFlags(w, lang) # {}

Prefixed(w, lang) == /\ Len(w) > 1 /\ ~IsGroup(w[1]) /\ IsGroup(w[2])
                     /\ w[1].sym \in lang.approx_attached

(* Mutant of unwrap: a qualifier behind raises its flag and stays.         *)
unwrap_keeps(u, lang) ==
  LET n == Len(u.words)
  IN  IF n > 1 /\ InFront(u.words[1], lang)
      THEN Unwrapped(Tail(u.words), u.q \cup FrontFlags(u.words[1], lang))
      ELSE IF n > 0 /\ Prefixed(u.words[1], lang)
      THEN Unwrapped(<<Tail(u.words[1])>> \o Tail(u.words), u.q \cup {"approximate"})
      ELSE IF n > 1 /\ Behind(u.words[n], lang)
      THEN Unwrapped(u.words, u.q \cup BackFlags(u.words[n], lang))
      ELSE u

(* Mutant of unwrap: a word in front is dropped and its flag forgotten.    *)
unwrap_forgets(u, lang) ==
  LET n == Len(u.words)
  IN  IF n > 1 /\ InFront(u.words[1], lang) THEN Unwrapped(Tail(u.words), u.q)
      ELSE IF n > 0 /\ Prefixed(u.words[1], lang)
      THEN Unwrapped(<<Tail(u.words[1])>> \o Tail(u.words), u.q \cup {"approximate"})
      ELSE IF n > 1 /\ Behind(u.words[n], lang)
      THEN Unwrapped(SubSeq(u.words, 1, n - 1), u.q \cup BackFlags(u.words[n], lang))
      ELSE u

unwrap(u, lang) ==
  LET n == Len(u.words)
  IN  IF n > 1 /\ InFront(u.words[1], lang)
      THEN Unwrapped(Tail(u.words), u.q \cup FrontFlags(u.words[1], lang))
      ELSE IF n > 0 /\ Prefixed(u.words[1], lang)
      THEN Unwrapped(<<Tail(u.words[1])>> \o Tail(u.words), u.q \cup {"approximate"})
      ELSE IF n > 1 /\ Behind(u.words[n], lang)
      THEN Unwrapped(SubSeq(u.words, 1, n - 1), u.q \cup BackFlags(u.words[n], lang))
      ELSE u

(* A turn takes a word or a prefix: there are no more turns than tokens.   *)
unwrap_all(u, lang) ==
  FoldLeft(LAMBDA left, token : unwrap(left, lang), u, joined(u.words))

strip_qualifiers(words, lang) == unwrap_all(Unwrapped(words, {}), lang)
=============================================================================
