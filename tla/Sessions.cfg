CONSTANTS
  Users = {u1}
  Passwords = {1, 2}
  MaxAttempts = 2
  MaxRequests = 3
  MaxFaults = 1
SPECIFICATION SessionsSpec
INVARIANTS
  SessionsTypeOK
  OneSessionPerLogin
  LogoutEndsSessions
PROPERTIES
  LockoutEnds
CHECK_DEADLOCK FALSE
