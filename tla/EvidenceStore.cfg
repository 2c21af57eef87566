CONSTANTS
  c1 = c1
  c2 = c2
  a = a
  b = b
  da = da
  db = db
  Callers <- MCCallers
  Devices <- MCDevices
  Dirs <- MCDirs
  DirOf <- Apart
  MaxCalls = 5
  MaxFaults = 1
  Disciplined = TRUE
SPECIFICATION Spec
SYMMETRY Symmetry
INVARIANTS
  TypeOK
  BundleVerifies
PROPERTY SealedForGood
