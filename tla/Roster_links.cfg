SPECIFICATION Spec
CONSTANTS
  p1 = p1
  p2 = p2
  t1 = t1
  t2 = t2
  Name = {1, 2, 3}
  Player = {p1, p2}
  TempId = {t1, t2}
  NoPlayer = NoPlayer
  NoName = NoName
  ConfigRobots <- MixedIds
  MaxObjects = 3
SYMMETRY Symmetry
INVARIANTS
  LinkSymmetric
  IdsDistinct
  ByIdUnlessReused
  SameInformation
PROPERTIES
  RegistrySpec
  GameStartsDriven
CHECK_DEADLOCK FALSE
