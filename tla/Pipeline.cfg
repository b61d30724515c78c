SPECIFICATION Spec
CONSTANTS
  MaxInput = 3
  MaxWrite = 3
  Capacity = 2
  KeepAfter = 1
  MaxPacket = 2
  Total = 3
  WinSize = 2
  MaxCopy = 2
  MaxRead = 1
  MaxDamaged = 3
  Sizes = {2}
  Windows = {1}
INVARIANTS
  SealedAtEnd
  CloseMeansWritten
  EofIsTheEnd
  LosesLessThanAWindow
PROPERTIES
  QuietAfterClose
  CallsReturn
  CloseFreesGoroutine
  ReadingEnds
CHECK_DEADLOCK FALSE
