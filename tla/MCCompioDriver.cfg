SPECIFICATION Spec
CONSTANTS
  NOps = 3
  Kinds = {"Nop", "Open", "ReadAt", "WriteAt", "Close", "ReadFile", "WriteFile"}
  MaxChunks = 2
  MaxCancels = 1
INVARIANTS
  TypeOK
  OpInOnePlace
  FreshHandles
  CancelledTouchedNothing
  ClosedForGood
PROPERTY ImplementsContract
CHECK_DEADLOCK FALSE
