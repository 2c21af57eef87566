SPECIFICATION Spec
CONSTANTS
  Bits = 2
  MaxVlan = 2
INVARIANTS
  PassIsEarned
  OpenIsTrue
  ParsersFaithful
  DiffsComplete
  RunsComparedFairly
  RecordsAgree
CHECK_DEADLOCK FALSE
