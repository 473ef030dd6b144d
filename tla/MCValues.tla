------------------------------- MODULE MCValues -------------------------------
(* The iterator over sets, sweeps, ranges, masked dates and single dates.  *)
EXTENDS ValuesCorrect, MCExprs

MCExpressions == MCSets \cup MCOther \cup MCMasked

MCI64Min == -9223373
=============================================================================
