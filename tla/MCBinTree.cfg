SPECIFICATION Spec
CONSTANTS
  Byte = {0, 1}
  ByteSize = 2
  Crc <- SmallCrc
  BitXor <- XorOf
  CrcShift = 1
  Hash2Size = 2
  Hash3Size = 4
  Hash4Size = 2
  DictSize = 7
  MaxMatch = 5
  CutValues = {2, 8}
  MaxVal = 10
  MaxInput = 13
PROPERTIES ReportsRealMatches FindsNearest
CHECK_DEADLOCK FALSE
