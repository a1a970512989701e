CONSTANTS
  Publishers = {p1}
  Workers = {w1, w2}
  MaxPublishAttempts = 3
  MaxFailures = 3
  NoMessage = NoMessage
SPECIFICATION Spec
INVARIANTS
  TypeOK
  ConfirmedIsKept
  OneEffectWithoutFaults
PROPERTIES
  HandoffSpec
CHECK_DEADLOCK FALSE
