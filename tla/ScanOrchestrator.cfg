CONSTANTS
  N = 3
  Concurrency = 2
  CollectionErrors = {"CONNECT_FAILED"}
SPECIFICATION FairSpec
INVARIANTS
  TypeOK
  NoStraggler
  FeedTellsTruth
PROPERTIES
  Termination
  ContractHolds
