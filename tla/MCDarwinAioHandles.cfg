INIT Init
NEXT Next
CONSTANTS
  NOps = 4
  Kinds = {"Nop", "Open", "Close", "Stat", "Io"}
  MaxInflight = 2
  NHelpers = 2
  MaxChunks = 2
  MaxCancels = 1
INVARIANTS
  TypeOK
  EveryFdOwnedOnce
  JobKeepsItsFile
  OpsCountsJobs
  OpInOnePlace
  CancelledNotResubmitted
  BadOnlyAfterClose
CHECK_DEADLOCK FALSE
