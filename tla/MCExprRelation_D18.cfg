CONSTANTS
  I64Max = 9223372
  I64Min <- MCI64Min
  MaxPow10 = 6
  Exprs <- MCIntervalsOnly
SPECIFICATION Spec
INVARIANT EndReachesStart
