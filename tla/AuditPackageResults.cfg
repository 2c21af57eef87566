SPECIFICATION FairSpec
CONSTANTS
  Devices = {d1, d2}
  Commands = {c1}
  MaxFaults = 1
PROPERTY ResultsPreserved
CHECK_DEADLOCK FALSE
