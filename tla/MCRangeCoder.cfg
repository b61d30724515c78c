SPECIFICATION Spec
CONSTANTS
  p = p
  direct = direct
  Base = 4
  NumBytes = 3
  Top = 16
  ModelTotal = 4
  MoveDiv = 2
  Ctx = {p}
  Direct = direct
  MaxBits = 6
INVARIANTS
  Normalised
  NoSecondCarry
  CarryExact
  DecodesWhatWasSent
  CodeInRange
PROPERTY ReadsExactlyFlushed
CHECK_DEADLOCK FALSE
