SPECIFICATION Spec
CONSTANTS
  Byte = {0, 1, 2, 3}
  DictSize = 8
  FastBytes = 4
  MaxLen = 5
  NumOpts = 8
  MaxReport = 2
  Inputs <- SomeInputs
  MaxInput = 16
INVARIANTS PricesWhatIsCoded StaysInTables
PROPERTY ImplementsParse
CHECK_DEADLOCK FALSE
