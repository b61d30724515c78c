SPECIFICATION ToolSpec
CONSTANTS
  Size = 3
  Extra = 2
  LinkSize = 1
  Kinds = {"symlink"}
INVARIANT HeaderTellsSize
CHECK_DEADLOCK FALSE
