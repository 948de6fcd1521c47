SPECIFICATION Spec
CONSTANTS
  NOps = 2
  Kinds = {"Open", "ReadAt"}
  MaxChunks = 1
  MaxCancels = 1
PROPERTY FinishedReadDelivers
CHECK_DEADLOCK FALSE
