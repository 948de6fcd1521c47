SPECIFICATION Spec
CONSTANTS
  NOps = 3
  Kinds = {"Close", "Io", "ReadFile", "WriteFile"}
  MaxInflight = 1
  NHelpers = 1
  MaxChunks = 2
  MaxCancels = 1
INVARIANTS
  EveryFdOwnedOnce
  PendingOpensAreOut
  ExitIsClean
PROPERTIES
  MarkedOpenIsCancelled
  ImplementsContract
CHECK_DEADLOCK FALSE
