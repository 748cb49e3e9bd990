SPECIFICATION SpecWaits
CONSTANTS
  ann = ann
  bob = bob
  Client = {ann, bob}
  Space = " "
  Text <- Hellos
  Answered <- Replying
  NoClient = NoClient
  TicDuration = 3
  MaxHandler = 2
  MaxTick = 2
  MaxPulled = 2
SYMMETRY Symmetry
INVARIANTS
  TickOnTime
  OvertakenOnce
  CommandWithin
  RequestWithin
  MessageWithin
