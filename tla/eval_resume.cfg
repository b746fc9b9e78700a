SPECIFICATION LiveSpec
CONSTANTS
  s1 = s1
  s2 = s2
  Samples = {s1, s2}
  Kind = "open"
  Cuts = {"line"}
  Gold <- MCGold
  MaxRuns = 3
  NoFile = NoFile
  Torn = Torn
  Whole = Whole
INVARIANT EachSampleJudgedOnce
INVARIANT VerdictsBelongToTheirItems
PROPERTY AnswersSurvive
PROPERTY AnsweredNotAskedAgain
 
CHECK_DEADLOCK FALSE
