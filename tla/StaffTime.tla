------------------------------ MODULE StaffTime ------------------------------
(* Leaves, attendance and expenses of the staff. Every operation is one         *)
(* statement; what is hard is who may still change a row that somebody else has  *)
(* decided on, and a check-in that the client's outbox posts again.              *)
EXTENDS Naturals

CONSTANTS
    Leaves, Employees, Expenses,    \* rows that may be inserted, and whose
    Owner,                          \* the employee a leave belongs to
    Managers,
    MaxDay,                         \* bound: days that pass
    None

ASSUME StaffAssumption ==
    /\ Owner \in [Leaves -> Employees]
    /\ MaxDay \in Nat \ {0}
    /\ None \notin Nat \cup Managers

Days == 1..MaxDay

VARIABLES
    leave,      \* hr_leaves: dates, status, approved_by
    row,        \* attendances, by employee and day
    expense,    \* office_expenses: who logged it
    today,      \* CURRENT_DATE
    decided     \* history: the dates a decided leave was decided on

vars == <<leave, row, expense, today, decided>>
leaves == <<leave, decided>>

Leave == [start : Days, end : Days, approvedBy : Managers \cup {None},
          status : {"pending", "approved", "rejected", "cancelled"}]
Attendance == [status : {"present", "pending_override", "off_site", "absent"},
               override : {"none", "pending", "approved", "rejected"},
               reviewedBy : Managers \cup {None}, out : BOOLEAN]

ASSUME NoneIsNoRow == None \notin Leave \cup Attendance

StaffTypeOK ==
    /\ leave \in [Leaves -> Leave \cup {None}]
    /\ row \in [Employees \X Days -> Attendance \cup {None}]
    /\ expense \in [Expenses -> Employees \cup {None}]
    /\ today \in Days
    /\ decided \in [Leaves -> (Days \X Days) \cup {None}]

Init ==
    /\ leave = [l \in Leaves |-> None]
    /\ row = [x \in Employees \X Days |-> None]
    /\ expense = [x \in Expenses |-> None]
    /\ today = 1
    /\ decided = [l \in Leaves |-> None]

---------------------------------------------------------------------------
(* Leaves *)

NewLeave(start, end) ==
    [start |-> start, end |-> end, approvedBy |-> None, status |-> "pending"]

Request(l, start, end) ==
    /\ leave[l] = None /\ start <= end
    /\ leave' = [leave EXCEPT ![l] = NewLeave(start, end)]
    /\ UNCHANGED <<decided, row, expense, today>>

\* A date that is left out is written as NULL.
Given_Null(d, old) == d

\* Either date may be left out, and then stays as it is.
Given(d, old) == IF d = None THEN old ELSE d
SetDates(l, start, end) ==
    leave' = [leave EXCEPT ![l].start = Given(start, @), ![l].end = Given(end, @)]

\* The status is looked at before the statement, and the statement at the owner only.
EditLeave_ReadsFirst(l, e, start, end) ==
    /\ leave[l] # None /\ Owner[l] = e
    /\ SetDates(l, start, end)
    /\ UNCHANGED <<decided, row, expense, today>>

\* Owner and status are conditions of the statement itself.
OwnPending(l, e) == leave[l] # None /\ Owner[l] = e /\ leave[l].status = "pending"

EditLeave(l, e, start, end) ==
    /\ OwnPending(l, e)
    /\ SetDates(l, start, end)
    /\ UNCHANGED <<decided, row, expense, today>>

Cancel(l, e) ==
    /\ OwnPending(l, e)
    /\ leave' = [leave EXCEPT ![l].status = "cancelled"]
    /\ UNCHANGED <<decided, row, expense, today>>

\* At any status.
AdminEdit(l, start, end) ==
    /\ leave[l] # None
    /\ SetDates(l, start, end)
    /\ decided' = [decided EXCEPT ![l] =
            IF @ = None THEN None ELSE <<Given(start, @[1]), Given(end, @[2])>>]
    /\ UNCHANGED <<row, expense, today>>

\* At any status too: a second decision replaces the first, and a leave that was
\* cancelled in the meantime is decided all the same.
UpdateStatus(l, m, verdict) ==
    leave' = [leave EXCEPT ![l].status = verdict, ![l].approvedBy = m]

ProcessLeave(l, m, verdict) ==
    /\ leave[l] # None
    /\ UpdateStatus(l, m, verdict)
    /\ decided' = [decided EXCEPT ![l] = <<leave[l].start, leave[l].end>>]
    /\ UNCHANGED <<row, expense, today>>

---------------------------------------------------------------------------
(* Attendance *)

CheckedIn(override) ==
    [status |-> IF override THEN "pending_override" ELSE "present",
     override |-> IF override THEN "pending" ELSE "none",
     reviewedBy |-> None, out |-> FALSE]

\* Away from the office only an override is taken.
CheckInAllowed(office, override) == office \/ override

\* ON CONFLICT DO UPDATE
CheckIn_Upserts(e, office, override) ==
    /\ CheckInAllowed(office, override)
    /\ row' = [row EXCEPT ![<<e, today>>] = CheckedIn(override)]
    /\ UNCHANGED <<leaves, expense, today>>

\* Today's row is inserted once; what comes again is refused.
InsertRow(e, override) ==
    /\ row[<<e, today>>] = None
    /\ row' = [row EXCEPT ![<<e, today>>] = CheckedIn(override)]

CheckIn(e, office, override) ==
    /\ CheckInAllowed(office, override)
    /\ InsertRow(e, override)
    /\ UNCHANGED <<leaves, expense, today>>

\* Any row of today takes it, and takes it again.
CheckOut(e) ==
    /\ row[<<e, today>>] # None
    /\ row' = [row EXCEPT ![<<e, today>>].out = TRUE]
    /\ UNCHANGED <<leaves, expense, today>>

PendingOverride(x) == row[x] # None /\ row[x].override = "pending"

ResolveOverride(x, m, verdict) ==
    /\ PendingOverride(x)
    /\ row' = [row EXCEPT ![x].override = verdict, ![x].reviewedBy = m,
                          ![x].status = IF verdict = "rejected" THEN "absent" ELSE "off_site"]
    /\ UNCHANGED <<leaves, expense, today>>

Midnight ==
    /\ today < MaxDay
    /\ today' = today + 1
    /\ UNCHANGED <<leaves, row, expense>>

---------------------------------------------------------------------------
(* Expenses *)

InsertExpense(x, e) == expense' = [expense EXCEPT ![x] = e]

LogExpense(x, e) ==
    /\ expense[x] = None
    /\ InsertExpense(x, e)
    /\ UNCHANGED <<leaves, row, today>>

---------------------------------------------------------------------------
Next ==
    \/ \E l \in Leaves, start, end \in Days : Request(l, start, end)
    \/ \E l \in Leaves, e \in Employees, start, end \in Days \cup {None} :
        EditLeave(l, e, start, end) \/ Cancel(l, e) \/ AdminEdit(l, start, end)
    \/ \E l \in Leaves, m \in Managers, v \in {"approved", "rejected"} : ProcessLeave(l, m, v)
    \/ \E e \in Employees, office, override \in BOOLEAN : CheckIn(e, office, override)
    \/ \E e \in Employees : CheckOut(e) \/ \E x \in Expenses : LogExpense(x, e)
    \/ \E x \in Employees \X Days, m \in Managers, v \in {"approved", "rejected"} :
        ResolveOverride(x, m, v)
    \/ Midnight

Spec == Init /\ [][Next]_vars

---------------------------------------------------------------------------
(* Properties *)

\* Once a leave is decided its owner changes nothing about it (module_flows.md:130):
\* it keeps the dates it was decided on, except for what a manager edits, however the
\* owner's edits and cancellations fall around the decisions.
DecidedDatesStand ==
    \A l \in Leaves : decided[l] # None =>
        /\ leave[l].status \in {"approved", "rejected"}
        /\ decided[l] = <<leave[l].start, leave[l].end>>

\* What a manager made of an override stands: neither another decision nor a check-in
\* that is posted again on the same day opens it again or changes the row's status.
ReviewStands ==
    [][\A x \in Employees \X Days :
        row[x] # None /\ row[x].reviewedBy # None =>
            /\ row'[x] # None
            /\ row'[x] = [row[x] EXCEPT !.out = row'[x].out]]_vars
=============================================================================
