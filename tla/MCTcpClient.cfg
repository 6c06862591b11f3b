SPECIFICATION Spec
CONSTANTS
  MaxCalls = 4
  MaxConns = 2
  kInitRetryDelayMs = 1
  kMaxRetryDelayMs = 3
INVARIANTS
  TypeOK
  OneEffort
  OneConnectIsSound
  KeepsTryingUnlessError
PROPERTY StopIsFinal
CHECK_DEADLOCK FALSE
