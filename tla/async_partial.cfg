SPECIFICATION Spec
CONSTANTS
  Total = 8
  PendingSize = 1
  Slots = 2
  Required = 1
  Trigger = 2
  StalePercent = 50
  Partial = TRUE
  MaxFailures = 0
  MaxQueueSize <- MCStaleCapacity
  TestFreq = 2
INVARIANTS
  OutstandingBounded
  QuietDuringCopy
PROPERTIES
  LagBounded
  ImplementsSampleStream
CHECK_DEADLOCK FALSE
