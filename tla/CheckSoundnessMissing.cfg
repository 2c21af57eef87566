SPECIFICATION Spec
CONSTANTS
  Bits = 2
  MaxVlan = 2
INVARIANT MissingValueNeverPasses
CHECK_DEADLOCK FALSE
