SPECIFICATION Spec
CONSTANTS
  Kinds = {"live"}
  MaxScans = 1
  MaxEvents = 1
  MaxFaults = 0
INVARIANT ControlsAgree
CHECK_DEADLOCK FALSE
