SPECIFICATION FairSpec
CONSTANTS
  ann = ann
  bob = bob
  Client = {ann, bob}
  Space = " "
  Text <- HelloAndPing
  Answered <- Replying
  NoClient = NoClient
  TicDuration = 3
  MaxHandler = 2
  MaxTick = 2
  MaxPulled = 2
PROPERTIES
  RequestsAnswered
