SPECIFICATION Spec
CONSTANTS
  NoFile = NoFile
  Releases = {"a", "b"}
  CropReleases = {}
  NRows <- MCNRows
  MaxRows = 2
  MaxShards = 1
  ShardCounts = {1}
  EmptyRows = {}
  ModelArgs = {"snapshot"}
  Decays = {TRUE, FALSE}
  Tools = {"build", "priors", "freq", "launch"}
  Policy = "staged"
  Overlap = FALSE
  MaxFaults = 2
INVARIANTS
  TypeOK
  ManifestDescribesNegatives
  TrainedNegativesWereScored
  TrainedTableMatchesPriors
PROPERTIES
  NegativesChangeOnlyWhenWithdrawn
  ImplementsGateContract
