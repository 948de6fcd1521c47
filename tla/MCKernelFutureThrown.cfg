SPECIFICATION Spec
CONSTANTS
  Backends = {"aio", "compio"}
  Calls = {"read_bytes", "open"}
  MaxCancels = 1
  MaxProbes = 0
INVARIANT ThrownIsRaised
CHECK_DEADLOCK FALSE
