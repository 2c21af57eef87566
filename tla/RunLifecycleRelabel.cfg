CONSTANTS
  N = 1
  CollectionErrors = {"CONNECT_FAILED"}
  MaxFaults = 1
  Aborts = 1
  Unguarded = FALSE
SPECIFICATION Spec
INVARIANT NotRelabelled
