SPECIFICATION FairSpec
CONSTANTS
  N = 3
  BucketSize = 2
  Models <- MCModels
  SlowJoin = FALSE
INVARIANTS
  LoadedInOrder
PROPERTIES
  ImplementsWeightStream
  TransferEnds
CHECK_DEADLOCK FALSE
