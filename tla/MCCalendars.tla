------------------------------ MODULE MCCalendars ------------------------------
(* A whole period of both leap rules (146097 days of the Gregorian, 1461   *)
(* of the Julian) and some years more, across the first March of the era   *)
(* the day numbers are built on (-4800), where its year changes sign.  The *)
(* walk starts 92 Julian years before day number zero, which is Julian     *)
(* -4712-01-01 and Gregorian -4713-11-24.  The range of years ends inside  *)
(* the walk, on either side.                                               *)
EXTENDS Calendars

MCAnchor == [jdn |-> -33603, julian |-> <<-4804, 1, 1>>, gregorian |-> <<-4805, 11, 24>>]
MCLastJdn == 112900
MCMinYear == -4804
MCMaxYear == -4405
=============================================================================
