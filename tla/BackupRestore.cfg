SPECIFICATION Spec
CONSTANTS
  Sources = 1
  MaxVersion = 4
  MaxFaults = 2
INVARIANTS
  TypeOK
  DataIsWhole
PROPERTIES
  RestoreIsAtomic
CHECK_DEADLOCK FALSE
