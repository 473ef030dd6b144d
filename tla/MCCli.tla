--------------------------------- MODULE MCCli ---------------------------------
(* Inputs of every kind: a year is both EDTF and a Julian date, a          *)
(* qualified year is EDTF only, February 29 of 1900 is Julian only.        *)
EXTENDS Cli

CONSTANTS Year1985, Circa1985, Feb29of1900, Junk

MCInputs == {Year1985, Circa1985, Feb29of1900, Junk, Blank, Dash}
MCEdtf == {Year1985, Circa1985}
MCJulian == {Year1985, Feb29of1900}
=============================================================================
