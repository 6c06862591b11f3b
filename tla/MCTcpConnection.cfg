SPECIFICATION FairSpec
CONSTANTS
  Threads = {t1, t2}
  Calls = {"send", "shutdown", "forceClose", "threadSend", "threadSendString", "threadShutdown", "threadForceClose"}
  MaxCalls = 3
INVARIANTS
  TypeOK
  
  
  ReadsUntilReported
  OrderlyCloseIsSafe
PROPERTIES
  PeerCloseFreesConnection
  ShutdownCompletes
CHECK_DEADLOCK FALSE
