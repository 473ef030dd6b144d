CONSTANTS
  MinYear <- MCMinYear
  MaxYear <- MCMaxYear
  Anchor <- MCAnchor
  LastJdn <- MCLastJdn
SPECIFICATION Spec
INVARIANTS TypeOK CountsDays NamesDays ConvertsDays SpansWhole
CHECK_DEADLOCK FALSE
