SPECIFICATION Spec
CONSTANTS
  Sessions <- MCSessions
  Opening <- MCOpening
  Closing <- MCClosing
  Number <- MCNumber
  Garbage = {0, 9}
  Careful = TRUE
  InitialDuration = 5
  MaxTeams = 2
  MaxRobots = 2
  MaxScore = 1
INVARIANTS
  TeamsListRobots
PROPERTIES
  RefusedChangesNothing
  RetryChangesNothing
