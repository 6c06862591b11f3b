SPECIFICATION Spec
CONSTANTS
  Base = 4
  kCheapPrepend = 4
  kInitialSize = 12
  LengthMax = 9
  ProtobufMax = 12
  Payloads <- MCPayloads
  Negatives <- MCNegatives
  MaxFrames = 3
INVARIANTS
  TypeOK
  DeliveredInOrder
  AtMostOneBehind
  GoodTrafficIsSafe
PROPERTY OnMessageReturns
CHECK_DEADLOCK FALSE
