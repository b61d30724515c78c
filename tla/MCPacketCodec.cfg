SPECIFICATION FairSpec
CONSTANTS
  Byte = {0, 1}
  DictSize = 3
  PosStates = 2
  LitPosStates = 2
  LenStates = 2
  MaxLen = 3
  MaxInput = 11
  Inputs <- SomeInputs
  MaxOut = 5
  MaxDist = 3
  MaxAhead = 2
INVARIANTS Lockstep DecodesInput RepsStayInside
PROPERTY Delivered
CHECK_DEADLOCK FALSE
