CONSTANTS
  Jobs = {j1}
  Installers = {i1, i2}
  Requests = {r1, r2}
  Amounts = {0, 1}
  StagesLogged = {"assigned", "accepted", "client_approved"}
  None = None
SPECIFICATION Spec
SYMMETRY Symmetry
INVARIANTS
  PaymentTypeOK
  PaymentLocksHold
  TotalsMatchLedger
CHECK_DEADLOCK FALSE
