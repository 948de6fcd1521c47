SPECIFICATION Spec
CONSTANTS
  Producers = {driver, submitter}
  Completions = {c1, c2, c3}
PROPERTY NeverAttachAfterShutdown
CHECK_DEADLOCK FALSE
