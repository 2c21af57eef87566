SPECIFICATION Spec
CONSTANTS
  Sources = 1
  MaxVersion = 4
  MaxFaults = 2
INVARIANT ReportIsTrue
CHECK_DEADLOCK FALSE
