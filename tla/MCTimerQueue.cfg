SPECIFICATION FairSpec
CONSTANTS
  MaxTimers = 2
  MaxTime = 3
  Intervals = {0, 1}
  kSecond = 2
INVARIANTS
  TypeOK
  OneOwnerInBothSets
  ArmedInTime
  CancelledIsGone
PROPERTY TimersRun
CHECK_DEADLOCK FALSE
