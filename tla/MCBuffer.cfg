SPECIFICATION Spec
CONSTANTS
  Byte = {0, 1}
  kCheapPrepend = 2
  kInitialSize = 2
  MaxLen = 2
  MaxSize = 9
INVARIANTS
  TypeOK
  SpaceIsMade
  GrowthBounded
PROPERTY ImplementsByteQueue
