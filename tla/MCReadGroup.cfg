SPECIFICATION Spec
CONSTANTS
  Lens = {0, 1, 2, 4, 5}
  Chunk = 2
  Threads = 2
INVARIANTS
  TypeOK
  RemainingCounts
  LimitIsTight
  BufferOutlivesOps
  DeliversFilledPrefix
  FailsWithAChunk
PROPERTY ReadSettles
CHECK_DEADLOCK FALSE
