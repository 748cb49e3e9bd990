SPECIFICATION Spec
CONSTANTS
  r1 = r1
  r2 = r2
  r3 = r3
  MaxPort = 15
  Absent = Absent
  Missing = Missing
  Default <- MCDefault
  CommandLines <- MCLines
  RcFiles <- MCRcFiles
  GameFiles <- MCGameFiles
  Robot = {r1, r2, r3}
  Colour = {2}
  Tag = {"A", "B"}
INVARIANTS
  Precedence
  AcceptedPortsDistinct
  RobotPortsDistinct
  ItemsToldApart
