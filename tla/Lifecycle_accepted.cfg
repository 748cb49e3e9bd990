SPECIFICATION FairSpec
CONSTANTS
  Modes = {"plain", "broadcast"}
  MaxSignals = 1
  Limit = 3
  PullerUrl <- Puller
  PublisherUrl <- Publisher
  ReplierUrl <- Replier
  AgentUrl <- Agent
  Uint8 = 256
  Datagrams = {}
PROPERTIES
  AcceptedStopEnds
