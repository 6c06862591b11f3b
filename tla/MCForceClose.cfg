SPECIFICATION Spec
CONSTANTS
  Threads = {t1, t2}
  Calls = {"forceClose"}
  MaxCalls = 1
INVARIANT HandleCloseOnOpen
CHECK_DEADLOCK FALSE
