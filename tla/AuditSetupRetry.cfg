SPECIFICATION Spec
CONSTANTS
  MaxTargets = 2
  MaxClock = 1
  MaxScans = 1
PROPERTY EveryAuditCovered
CHECK_DEADLOCK FALSE
