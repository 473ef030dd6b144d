CONSTANTS
  I64Max = 100006
  I64Min <- MCI64Min
  MaxPow10 = 5
  Texts <- NoTexts
  JulianInputs <- MCJulianInputs
SPECIFICATION FromJulianSpec
INVARIANTS ReadsBack  CoversPrecision
