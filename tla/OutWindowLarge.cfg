SPECIFICATION Spec
CONSTANTS
  a = a
  b = b
  Byte = {a, b}
  WinSize = 7
  DictSize = 7
  Modulus = 8
  MaxLen = 3
  MaxOut = 9
INVARIANT WindowHoldsHistory
CHECK_DEADLOCK FALSE
