CONSTANTS
  Requests = {r1, r2, r3}
  MaxTokens = 3
  MaxKills = 1
SPECIFICATION Spec
INVARIANTS
  RefreshQueueTypeOK
  OneExchange
  HandlerAnsweredOnce
PROPERTIES
  EarlyWaiterIsAnswered
CHECK_DEADLOCK FALSE
