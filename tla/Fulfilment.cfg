CONSTANTS
  Orders = {o1, o2}
  Jobs = {j1}
  Signatures = {s1, s2}
  Handlers = {h1, h2}
  PurchaseOrders = {p1}
  MaxFaults = 2
  None = None
SPECIFICATION FulfilmentSpec
INVARIANTS
  FulfilmentTypeOK
PROPERTIES
  CompletionFollowsApproval
  ApprovalReachesOrder
CHECK_DEADLOCK FALSE
