SPECIFICATION LiveSpec
CONSTANTS
  NoFile = NoFile
  Releases = {"a", "b", "c"}
  CropReleases = {"c"}
  NRows <- MCSameRows
  MaxRows = 2
  MaxShards = 1
  ShardCounts = {1}
  EmptyRows = {}
  ModelArgs = {"snapshot"}
  Decays = {TRUE}
  Tools = {"build", "import", "priors", "freq", "launch"}
  Policy = "script"
  Overlap = FALSE
  MaxFaults = 3
PROPERTIES
  RecoversToTraining
