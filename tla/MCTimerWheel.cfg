SPECIFICATION FairSpec
CONSTANTS
  slotsNum = 3
  MaxTimers = 3
  Timeouts = {0, 3, 5}
INVARIANTS
  TypeOK
  ListsWellFormed
PROPERTY ImplementsDelays
CHECK_DEADLOCK FALSE
