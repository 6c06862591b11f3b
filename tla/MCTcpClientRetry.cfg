SPECIFICATION Spec
CONSTANTS
  MaxCalls = 3
  MaxConns = 2
  kInitRetryDelayMs = 1
  kMaxRetryDelayMs = 3
INVARIANT Reconnects
CHECK_DEADLOCK FALSE
