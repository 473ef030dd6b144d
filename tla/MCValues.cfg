CONSTANTS
  I64Max = 9223372
  I64Min <- MCI64Min
  MaxPow10 = 6
  Exprs <- MCExpressions
SPECIFICATION TracedSpec
INVARIANTS TypeOK HullIsBounds ErrorsAgreeWithBounds
PROPERTIES ImplementsStream Drains
