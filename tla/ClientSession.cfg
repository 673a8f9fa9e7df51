CONSTANTS
  MaxAttempts = 2
  MaxCommands = 3
SPECIFICATION FairSpec
INVARIANTS
  PeerMatchesState
  PlayerIsInWorld
  RendererShowsWorld
  RanWhereIssued
  QueueIsFIFO
PROPERTIES
  ConnectingEnds
  DisconnectCompletes
CHECK_DEADLOCK FALSE
