SPECIFICATION Spec
CONSTANTS
  Platforms = {"linux", "darwin", "none"}
  Page = 2
  Headroom = 2
  FlagsPerCall = 1
  MaxSize = 4
  CHUNK = 2
  LARGE_READ = 2
  Args = {0, 2}
  Newlines = {3}
  InitSize = 1
  MaxChanges = 1
INVARIANTS
  TypeOK
  PendingIsAhead
  PositionFollows
  NothingCutShort
  InlineNeverBlocks
CHECK_DEADLOCK FALSE
