SPECIFICATION LiveSpec
CONSTANTS
  Rank <- MCTwoRanks
  Files = 1
  UseCritic = TRUE
  Keep <- MCKeepTwoOrThree
  TotalSteps = 5
  MaxRuns = 3
  NoFile = NoFile
  Torn = Torn
  EpochLens = {4, 5}
  SaveFreq = 2
  Esi = TRUE
  EmaTeacher = FALSE
  Modes = {"auto"}
  Rerun = TRUE
INVARIANT TrackedCheckpointWhole
INVARIANT StepsFollowOneAnother
INVARIANT LaunchKeepsAtMostMax
INVARIANT ResumeLosesAtMostSaveFreq
INVARIANT FinishedRunIsSaved
PROPERTY EndsUnlessTrackerTorn
CHECK_DEADLOCK FALSE
