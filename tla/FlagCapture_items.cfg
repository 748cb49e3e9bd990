SPECIFICATION FairSpec
CONSTANTS
  red = red
  blue = blue
  flag = flag
  cube = cube
  Team = {red, blue}
  NoTeam = NoTeam
  NoItem = NoItem
  Robot <- Robots3
  TeamOf <- Teams3
  Item = {flag}
  TimeToCapture = 1
  PointsOnCapture = 1
  ScoreToWin = 3
  Durations = {2}
  AgentScores = {1}
  UnitsPerSecond = 2
  MaxTime = 3
  MaxAdvance = 2
  Uint16 = 4
  Uint32 = 16
  Uint64 = 1000
INVARIANTS
  CaptureUnderWay
  OwnedOnlyInGame
PROPERTIES
  ContactResolves
