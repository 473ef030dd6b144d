-------------------------------- MODULE Lexicon --------------------------------
(***************************************************************************)
(* The word tables of the prose normalizer (tables.rs), one record per     *)
(* language.  A word is written as it is left by preprocessing, in lower   *)
(* case and without full stops; Russian words are transliterated.          *)
(* Abbreviations and further grammatical cases of a word are left out:     *)
(* they look up the same entry.                                            *)
(*                                                                         *)
(* A suffix or a phrase is a sequence of words.  Phrases are tried in the  *)
(* order they stand in.                                                    *)
(***************************************************************************)
EXTENDS Integers, Sequences

months_en == [january |-> 1, february |-> 2, march |-> 3, april |-> 4, may |-> 5, june |-> 6,
              july |-> 7, august |-> 8, september |-> 9, october |-> 10, november |-> 11,
              december |-> 12]

months_ru == [yanvarya |-> 1, fevralya |-> 2, marta |-> 3, aprelya |-> 4, maya |-> 5, iyunya |-> 6,
              iyulya |-> 7, avgusta |-> 8, sentyabrya |-> 9, oktyabrya |-> 10, noyabrya |-> 11,
              dekabrya |-> 12]

ordinal_words_en ==
  LET words == <<"first", "second", "third", "fourth", "fifth", "sixth", "seventh", "eighth",
                 "ninth", "tenth", "eleventh", "twelfth", "thirteenth", "fourteenth", "fifteenth",
                 "sixteenth", "seventeenth", "eighteenth", "nineteenth", "twentieth">>
  IN  [w \in {words[i] : i \in 1..20} |-> CHOOSE i \in 1..20 : words[i] = w]

Era(phrase, bc) == [phrase |-> phrase, bc |-> bc]
Modifier(phrase, span) == [phrase |-> phrase, span |-> span]
RangeWords(lead, sep) == [lead |-> lead, sep |-> sep]

EN == [
  months |-> months_en,
  seasons |-> [spring |-> 21, summer |-> 22, autumn |-> 23, fall |-> 23, winter |-> 24],
  ordinal_words |-> ordinal_words_en,
  ordinal_suffixes |-> {<<"st">>, <<"nd">>, <<"rd">>, <<"th">>},
  approx_leading |-> {"circa", "ca", "c", "approx", "approximately", "about", "around", "~"},
  approx_attached |-> {"circa", "ca", "c", "~"},
  uncertain_leading |-> {"possibly", "probably", "perhaps", "maybe", "uncertain"},
  approx_trailing |-> {"approx", "approximately"},
  uncertain_trailing |-> {"maybe", "possibly", "perhaps", "uncertain", "guess"},
  noise_leading |-> {"the", "in", "on", "of", "year", "dated", "active"},
  noise_trailing |-> {},
  explicit_no_date |-> {<<"unknown">>, <<"undated">>, <<"no", "date">>, <<"nd">>},
  eras |-> <<Era(<<"bce">>, TRUE), Era(<<"bc">>, TRUE), Era(<<"ad">>, FALSE), Era(<<"ce">>, FALSE)>>,
  century_words |-> {"century", "centuries", "c"},
  century_letters |-> {"c"},
  decade_suffixes |-> {<<"'", "s">>, <<"s">>},
  modifiers |-> <<Modifier(<<"first", "half">>, "FirstHalf"), Modifier(<<"second", "half">>, "SecondHalf"),
                  Modifier(<<"latter", "half">>, "SecondHalf"), Modifier(<<"early">>, "Early"),
                  Modifier(<<"middle">>, "Mid"), Modifier(<<"mid">>, "Mid"), Modifier(<<"late">>, "Late")>>,
  before_phrases |-> <<<<"no", "later", "than">>, <<"earlier", "than">>, <<"before">>, <<"until">>, <<"by">>>>,
  after_phrases |-> <<<<"no", "earlier", "than">>, <<"later", "than">>, <<"after">>, <<"since">>>>,
  or_words |-> {"or"},
  range_pairs |-> <<RangeWords("from", "to"), RangeWords("between", "and"),
                    RangeWords("", "to"), RangeWords("", "through")>>,
  roman_centuries |-> FALSE,
  implied_numeric_order |-> "None"]

(* "c" is the Cyrillic letter and word that looks like a Roman C.          *)
RU == [
  months |-> months_ru,
  seasons |-> [vesna |-> 21, vesnoy |-> 21, leto |-> 22, osen |-> 23, zima |-> 24, zimoy |-> 24],
  ordinal_words |-> << >>,
  ordinal_suffixes |-> {<<"-", "y">>, <<"-", "go">>, <<"-", "ya">>, <<"-", "ye">>, <<"-", "m">>, <<"-", "om">>},
  approx_leading |-> {"okolo", "ok", "primerno", "priblizitelno", "prim", "~"},
  approx_attached |-> {"okolo", "ok", "~"},
  uncertain_leading |-> {"vozmozhno", "veroyatno", "predpolozhitelno"},
  approx_trailing |-> {"primerno", "priblizitelno"},
  uncertain_trailing |-> {"vozmozhno", "veroyatno", "predpolozhitelno"},
  noise_leading |-> {"ve", "vo"},
  noise_trailing |-> {"g", "gg", "god", "goda", "godu", "gody", "godov", "godakh"},
  explicit_no_date |-> {<<"neizvestno">>, <<"neizvestna">>, <<"bez", "daty">>, <<"ne", "datirovano">>, <<"bd">>},
  eras |-> <<Era(<<"do", "nashey", "ery">>, TRUE), Era(<<"do", "n", "eh">>, TRUE), Era(<<"do", "neh">>, TRUE),
             Era(<<"nashey", "ery">>, FALSE), Era(<<"n", "eh">>, FALSE), Era(<<"neh">>, FALSE)>>,
  century_words |-> {"vek", "veka", "veke", "vekov", "vekakh", "vv", "ve", "stoletie", "stoletiya", "st"},
  century_letters |-> {"ve"},
  decade_suffixes |-> {<<"-", "ye">>, <<"-", "x">>},
  modifiers |-> <<Modifier(<<"pervaya", "polovina">>, "FirstHalf"), Modifier(<<"vtoraya", "polovina">>, "SecondHalf"),
                  Modifier(<<"nachalo">>, "Early"), Modifier(<<"seredina">>, "Mid"), Modifier(<<"konets">>, "Late")>>,
  before_phrases |-> <<<<"ne", "pozdnee">>, <<"ranee">>, <<"do">>>>,
  after_phrases |-> <<<<"ne", "ranee">>, <<"nachinaya", "c">>, <<"posle">>, <<"c">>>>,
  or_words |-> {"ili"},
  range_pairs |-> <<RangeWords("c", "po"), RangeWords("ot", "do"), RangeWords("c", "do")>>,
  roman_centuries |-> TRUE,
  implied_numeric_order |-> "DayFirst"]

lang_for(language) == IF language = "Russian" THEN RU ELSE EN

-----------------------------------------------------------------------------
(* What a caller may set.  A century is none or one of 0..9999.            *)
NumericOrder == {"DayFirst", "MonthFirst"}
Options(language, order, century) ==
  [language |-> language, numeric_order |-> order, default_century |-> century]
=============================================================================
