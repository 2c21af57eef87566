SPECIFICATION FairSpec
CONSTANTS
  Kinds = {"live", "checklist", "offline"}
  MaxScans = 3
  MaxEvents = 2
  MaxFaults = 2
INVARIANTS
  TypeOK
  OneScan
  QueuesServed
PROPERTIES
  CancelIsOwn
  GuardProtects
  Responsive
CHECK_DEADLOCK FALSE
