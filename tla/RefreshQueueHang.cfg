CONSTANTS
  Requests = {r1, r2}
  MaxTokens = 2
  MaxKills = 0
SPECIFICATION Spec
PROPERTIES
  EveryWaiterIsAnswered
CHECK_DEADLOCK FALSE
