SPECIFICATION Spec
CONSTANTS
  tag = tag
  ItemColour = {2, 3, 4, 5, 6}
  Noise = {0, 7}
  RfidItem = {tag}
  NoItem = NoItem
INVARIANTS
  Tracks
  ContactInVisit
PROPERTIES
  VisitSpec
