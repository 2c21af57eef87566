SPECIFICATION Spec
CONSTANTS
  Kinds = {"live", "offline"}
  MaxScans = 1
  MaxEvents = 1
  MaxFaults = 0
PROPERTY ActiveRunUntouched
CHECK_DEADLOCK FALSE
