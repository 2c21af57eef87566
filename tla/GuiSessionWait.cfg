SPECIFICATION Spec
CONSTANTS
  Kinds = {"live", "offline"}
  MaxScans = 1
  MaxEvents = 1
  MaxFaults = 1
INVARIANT WaitingHelps
CHECK_DEADLOCK FALSE
