SPECIFICATION FairSpec
CONSTANTS
  red = red
  blue = blue
  flag = flag
  cube = cube
  Team = {red, blue}
  NoTeam = NoTeam
  NoItem = NoItem
  Robot <- Robots2
  TeamOf <- Teams2
  Item = {flag}
  TimeToCapture = 1
  PointsOnCapture = 1
  ScoreToWin = 2
  Durations = {1}
  AgentScores = {}
  UnitsPerSecond = 2
  MaxTime = 4
  MaxAdvance = 2
  Uint16 = 4
  Uint32 = 16
  Uint64 = 1000
PROPERTIES
  StopsAfterDuration
