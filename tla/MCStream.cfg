SPECIFICATION Spec
CONSTANTS
  DictBytes = 3
  SizeBytes = 3
  Levels <- SomeLevels
  DictLogs <- SomeDictLogs
  LegalLogs <- AcceptedLogs
  Props <- AllProps
  Sizes <- SomeSizes
  ForeignDicts <- SomeDicts
  ForeignSizes <- SomeSizeBytes
  LitBits = 8
  LowBits = 3
  MidBits = 3
  HighBits = 8
  StartPosModel = 4
  EndPosModel = 14
  AlignBits = 4
  SlotBits = 6
  FullDistances = 128
  FastSlots = 22
  FastBits = 11
  TableSize = 272
  DictLog = 29
  Literals <- AllBytes
  MatchBytes <- SomeBytes
  Lengths <- AllLengths
  Distances <- SomeDistances
  FollowedBy <- OneAsk
  Positions <- SomePositions
  PrevBytes <- SomePrevBytes
INVARIANTS
  HeaderRoundTrip
  AcceptsExactlyLegal
  LiteralsHaveCoders
  IndexInRange
  RoundTrip
  PricesWhatIsSent
CHECK_DEADLOCK FALSE
