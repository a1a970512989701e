----------------------------- MODULE MCStaffTime -----------------------------
EXTENDS StaffTime, TLC

CONSTANTS l1, e1, e2

MCOwner == l1 :> e1
=============================================================================
