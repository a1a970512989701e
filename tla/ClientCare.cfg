CONSTANTS
  Leads = {l1}
  FollowUps = {f1}
  Complaints = {c1}
  LeadStatuses = {"new", "finalized", "lost"}
  Managers = {m1, m2}
  Staff = {u1}
  MaxTime = 4
  MaxFaults = 1
  None = None
SPECIFICATION Spec
INVARIANTS
  CareTypeOK
  LostLeadIsLeftAlone
PROPERTIES
  NothingStaysOverdue
CHECK_DEADLOCK FALSE
