SPECIFICATION Spec
CONSTANTS
  MaxTargets = 2
  MaxClock = 1
  MaxScans = 1
INVARIANTS
  TypeOK
  RowsAsSet
PROPERTIES
  AuditsRightly
CHECK_DEADLOCK FALSE
