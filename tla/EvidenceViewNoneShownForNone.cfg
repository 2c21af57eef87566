SPECIFICATION FairSpec
CONSTANTS
  a = a
  b = b
  Contexts <- MCContexts
  MaxCommands = 3
INVARIANT NoneShownForNone
CHECK_DEADLOCK FALSE
