SPECIFICATION Spec
CONSTANTS
  MaxTargets = 2
  MaxClock = 1
  MaxScans = 1
INVARIANT RowsKeepTheirOwn
CHECK_DEADLOCK FALSE
