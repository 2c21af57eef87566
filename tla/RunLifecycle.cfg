CONSTANTS
  N = 3
  CollectionErrors = {"CONNECT_FAILED"}
  MaxFaults = 1
  Aborts = 2
  Unguarded = TRUE
SPECIFICATION FairSpec
INVARIANTS
  TypeOK
  ClosedAndSealed
PROPERTIES
  FinalIsFinal
  Finishes
