CONSTANTS
  I64Max = 9223372
  I64Min <- MCI64Min
  MaxPow10 = 6
  Texts <- AllTexts
  Known <- MCKnown
SPECIFICATION Spec
INVARIANTS TypeOK KnownIsRead MarkersReach NoRedundantMarker RoundTrip LevelIsLeast
