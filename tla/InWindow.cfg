SPECIFICATION FairSpec
CONSTANTS
  KeepBefore = 3
  KeepAfter = 3
  Reserve = 2
  CyclicSize = 3
  MaxVal = 7
  Modulus = 32
  MaxMatch = 2
  MaxInput = 24
INVARIANTS WindowHoldsInput LooksAhead ComparesInput
PROPERTY InputSeen
CHECK_DEADLOCK FALSE
