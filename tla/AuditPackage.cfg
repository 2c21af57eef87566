SPECIFICATION FairSpec
CONSTANTS
  Devices = {d1, d2}
  Commands = {c1}
  MaxFaults = 1
INVARIANTS
  TypeOK
  FoundAsSent
PROPERTIES
  ImportIsAtomic
  IntactAndOnlyIntact
CHECK_DEADLOCK FALSE
