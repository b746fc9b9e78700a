SPECIFICATION FairSpec
CONSTANTS
  Total = 9
  PendingSize = 2
  Slots = 2
  Required = 2
  Trigger = 2
  StalePercent = 0
  Partial = TRUE
  MaxFailures = 1
  MaxQueueSize <- MCSyncCapacity
  TestFreq = 2
INVARIANTS
  EverySampleUsed
PROPERTIES
  TrainingEnds
