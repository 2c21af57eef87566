CONSTANTS
  N = 2
  CollectionErrors = {"CONNECT_FAILED"}
  MaxFaults = 1
  Aborts = 1
  Unguarded = FALSE
SPECIFICATION Spec
INVARIANT FailedMeansNone
