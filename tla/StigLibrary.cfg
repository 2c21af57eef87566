SPECIFICATION LibrarySpec
CONSTANTS
  Layer2 = "IOSXE_L2"
  Management = "IOSXE_NDM"
  NoHint = "no hint"
  Packages <- MCPackages
  Edits <- MCEdits
  MaxReleases = 2
  MaxEdits = 1
INVARIANTS
  TypeOK
  ImportedIsKept
  ReviewIsEarned
  GeneratedLoads
