CONSTANTS
  l1 = l1
  e1 = e1
  e2 = e2
  Leaves = {l1}
  Employees = {e1, e2}
  Expenses = {x1}
  Owner <- MCOwner
  Managers = {m1}
  MaxDay = 2
  None = None
SPECIFICATION Spec
INVARIANTS
  StaffTypeOK
  DecidedDatesStand
PROPERTIES
  ReviewStands
CHECK_DEADLOCK FALSE
