SPECIFICATION Spec
CONSTANTS
  MaxInput = 4
  MaxWrite = 3
  Capacity = 3
  KeepAfter = 2
  MaxPacket = 2
  Total = 4
  WinSize = 2
  MaxCopy = 2
  MaxRead = 2
  MaxDamaged = 5
  Sizes = {0, 3, 5}
  Windows = {1, 3}
INVARIANT LossIsReported
CHECK_DEADLOCK FALSE
