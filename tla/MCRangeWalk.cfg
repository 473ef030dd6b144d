CONSTANTS
  MinYear <- MCMinYear
  MaxYear <- MCMaxYear
  Ranges <- MCRanges
SPECIFICATION WalkSpec
INVARIANTS WalkTypeOK NeverPast Exactly
PROPERTY ReachesEnd
