SPECIFICATION Spec
CONSTANTS
  Producers = {driver, submitter}
  Completions = {c1, c2, c3}
INVARIANTS
  TypeOK
  NoLostWakeup
  OneWakePerBurst
  ArmedProtocol
PROPERTY ImplementsChannel
CHECK_DEADLOCK FALSE
