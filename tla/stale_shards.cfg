SPECIFICATION Spec
CONSTANTS
  NoFile = NoFile
  Releases = {"a", "b"}
  CropReleases = {}
  NRows <- MCSameRows
  MaxRows = 2
  MaxShards = 2
  ShardCounts = {2}
  EmptyRows = {}
  ModelArgs = {"snapshot"}
  Decays = {FALSE}
  Tools = {"build", "priors", "launch"}
  Policy = "staged"
  Overlap = FALSE
  MaxFaults = 0
INVARIANT TrainedNegativesWereScored
