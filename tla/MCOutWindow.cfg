SPECIFICATION Spec
CONSTANTS
  a = a
  b = b
  Byte = {a, b}
  WinSize = 4
  DictSize = 4
  Modulus = 8
  MaxLen = 3
  MaxOut = 9
INVARIANTS
  TypeOK
  WindowHoldsHistory
  NothingLostOrRepeated
PROPERTY RefinesHistory
CHECK_DEADLOCK FALSE
