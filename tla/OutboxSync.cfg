CONSTANTS
  Count = 2
  Once = {2}
  MaxRetries = 2
  MaxFaults = 2
  MaxKills = 1
SPECIFICATION RetriedSpec
INVARIANTS
  OutboxTypeOK
  NothingVanishes
  RepeatsBounded
PROPERTIES
  OrderKept
  HandoffSafety
  EveryMutationLeaves
CHECK_DEADLOCK FALSE
