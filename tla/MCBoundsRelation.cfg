CONSTANTS
  MinYear <- MCMinYear
  MaxYear <- MCMaxYear
  Questions <- MCQuestions
  Timeline <- MCTimeline
SPECIFICATION Spec
INVARIANTS TypeOK Honest NeverForced Mirrored
