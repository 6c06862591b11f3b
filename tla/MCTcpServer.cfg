SPECIFICATION FairSpec
CONSTANTS
  ThreadNums = {0, 1, 3}
  MaxConns = 4
INVARIANTS
  TypeOK
  RoundRobinBalanced
  LoopsAreUp
  MapMatchesConnections
  DisconnectedBeforeQuit
PROPERTIES
  StartAndTeardownEnd
  ClosedAreFreed
CHECK_DEADLOCK FALSE
