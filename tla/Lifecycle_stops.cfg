SPECIFICATION FairSpec
CONSTANTS
  Modes = {"broadcast", "plain", "dry-run"}
  MaxSignals = 2
  Limit = 3
  PullerUrl <- Puller
  PublisherUrl <- Publisher
  ReplierUrl <- Replier
  AgentUrl <- Agent
  Uint8 = 256
  Datagrams <- Texts
INVARIANTS
  NoOrphan
  HandlerSparesDeleted
  OwnAnswer
PROPERTIES
  LoopStops
  ShutdownCompletes
  OnlyOut
