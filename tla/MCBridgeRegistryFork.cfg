SPECIFICATION Spec
CONSTANTS
  Threads = {"a", "b"}
  Ringer = "driver"
  Child = "child"
PROPERTY ForkedChildRebuilds
CHECK_DEADLOCK FALSE
