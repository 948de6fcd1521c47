INIT Init
NEXT Next
CONSTANTS
  NOps = 2
  Kinds = {"Open", "Close"}
  MaxChunks = 1
  MaxCancels = 1
INVARIANT SettledCloseClosed
CHECK_DEADLOCK FALSE
