SPECIFICATION FairToolSpec
CONSTANTS
  Size = 3
  Extra = 2
  LinkSize = 1
  Kinds = {"regular", "intact", "trailing", "damaged", "cut"}
INVARIANTS RemovedOnlyIfWhole NothingLeftInPipe
PROPERTY Exits
CHECK_DEADLOCK FALSE
