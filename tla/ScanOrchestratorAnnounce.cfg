CONSTANTS
  N = 2
  Concurrency = 1
  CollectionErrors = {"CONNECT_FAILED"}
SPECIFICATION Spec
INVARIANT EveryOutcomeAnnounced
