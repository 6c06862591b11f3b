SPECIFICATION Spec
CONSTANTS
  Threads = {t1, t2}
  Calls = {"threadShutdown"}
  MaxCalls = 1
INVARIANT DestroyedDisconnected
CHECK_DEADLOCK FALSE
