CONSTANTS
  I64Max = 9223372
  I64Min <- MCI64Min
  MaxPow10 = 6
  Inputs <- MCInputs
SPECIFICATION Spec
INVARIANT BothReported
