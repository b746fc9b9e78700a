SPECIFICATION PartitionSpec
CONSTANTS
  K = 3
  Inputs <- MCInputs
  MaxTokens = 4
INVARIANTS
  EachItemOnce
  WithinOneItem
  ResultValid
CHECK_DEADLOCK FALSE
