SPECIFICATION Spec
CONSTANTS
  Backends = {"aio", "compio"}
  Calls = {"read_bytes", "open"}
  MaxCancels = 3
  MaxProbes = 2
INVARIANTS
  TypeOK
  NoTouchAfterRaise
  NoStrayHandle
  CancelWins
PROPERTY CallerEnds
CHECK_DEADLOCK FALSE
