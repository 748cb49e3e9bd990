SPECIFICATION FairSpec
CONSTANTS
  ann = ann
  red = red
  blue = blue
  flag = flag
  Space = " "
  Client = {ann}
  Text <- Hellos
  Answered <- Replying
  NoClient = NoClient
  TicDuration = 2
  MaxHandler = 1
  MaxTick = 1
  MaxPulled = 1
  Robot <- Robots
  Team = {red, blue}
  Item = {flag}
  TeamOf <- Teams
  NoTeam = NoTeam
  NoItem = NoItem
  TimeToCapture = 1
  PointsOnCapture = 1
  ScoreToWin = 1
  Durations = {0, 1}
  AgentScores = {0}
  UnitsPerSecond = 4
  MaxTime = 7
  MaxAdvance = 2
  Uint16 = 4
  Uint32 = 16
  Uint64 = 1000
  HelloType <- TypeOfHello
  StateType <- TypeOfState
  AgentShortens = FALSE
INVARIANTS
  NeverPastDuration
  LeftShown
  CaptureOnTime
  WinnerShown
PROPERTIES
  GameStops
  PlaySpec
