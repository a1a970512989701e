CONSTANTS
  Publishers = {r1, r2}
  Workers = {w1}
  MaxPublishAttempts = 2
  MaxFailures = 2
  NoMessage = NoMessage
  Quotations = {plain, cash}
  CashQuotations = {cash}
  NoCall = NoCall
SPECIFICATION OrderSpec
INVARIANTS
  OrdersMatchApprovals
PROPERTIES
  AnnouncedApprovalIsOrdered
CHECK_DEADLOCK FALSE
