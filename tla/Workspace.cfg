CONSTANTS
  Quotations = {plain, cash}
  Docs = {d1}
  Cash = {cash}
  Custom = {cash}
  Readers = {r1}
  BoardLimit = 2
  MaxOrders = 2
  MaxRows = 6
  MaxFaults = 1
SPECIFICATION WorkspaceSpec
INVARIANTS
  WorkspaceTypeOK
  LinksResolve
  AnswerIsWhole
CHECK_DEADLOCK FALSE
