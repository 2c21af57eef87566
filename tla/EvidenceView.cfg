SPECIFICATION FairSpec
CONSTANTS
  a = a
  b = b
  Contexts <- MCContexts
  MaxCommands = 3
INVARIANT ShownIsSelected
PROPERTY SelectedIsShown
CHECK_DEADLOCK FALSE
