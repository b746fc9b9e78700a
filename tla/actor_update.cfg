SPECIFICATION FairSpec
CONSTANTS
  DP = 2
  Batches <- MCBatches
  MiniSize = 2
  MicroSize = 2
  MaxTokens = 3
  Epochs = 2
  MaxSkips = 1
INVARIANTS
  CollectivesMatch
  GradientOfTheMiniBatch
  EverySampleEachEpoch
  LogProbsInPlace
  RanksAgree
PROPERTIES
  UpdateEnds
CHECK_DEADLOCK FALSE
