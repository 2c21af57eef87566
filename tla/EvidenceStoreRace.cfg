CONSTANTS
  c1 = c1
  c2 = c2
  a = a
  b = b
  da = da
  db = db
  Callers <- MCCallers
  Devices <- MCDevices
  Dirs <- MCDirs
  DirOf <- Apart
  MaxCalls = 4
  MaxFaults = 0
  Disciplined = FALSE
SPECIFICATION Spec
SYMMETRY Symmetry
INVARIANT WritesFailClosed
