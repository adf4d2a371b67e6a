SPECIFICATION FairSpec
CONSTANTS
  Id = {1, 2, 3}
  PageSize = 1
  MaxPages = 2
  PollWindow = 1
  MaxTime = 1
  MaxChanges = 5
  DefaultWindow = 1
  MaxWindow = 2
  MaxDuration = 2
  NoHours = NoHours
  Query <- MCQuery
  ScoreOf <- MCScoreOf
INVARIANTS TypeOK ListIsExact SummaryMatchesList AnswersParse WiderShowsMore
PROPERTIES PollIsComplete ListedUntilOld CaughtUp
