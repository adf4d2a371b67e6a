SPECIFICATION Spec
CONSTANTS
  Id = {1, 2, 3, 4, 5}
  Instant <- MCInstant
  Submitted <- MCSubmitted
  Choice <- MCChoice
  PageSize = 2
  DefaultWindow = 48
  MaxWindow = 2160
  MaxDuration = 2562047
  NoHours = NoHours
  ScoreOf <- MCScoreOf
INVARIANTS TypeOK  AgesAreTrue BarsCountCards
