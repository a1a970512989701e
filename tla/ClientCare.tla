----------------------------- MODULE ClientCare -----------------------------
(* Leads, their follow-ups and client complaints: the handlers of the CRM and  *)
(* the worker's cron jobs, which change the same rows. Time is counted in      *)
(* periods of 24 hours, the shorter of the two thresholds.                     *)
EXTENDS Naturals

CONSTANTS
    Leads, FollowUps, Complaints,   \* rows that may be inserted
    LeadStatuses,                   \* values of leads.status in use
    Managers,                       \* who may have a status request in progress
    Staff,                          \* whom a lead or a complaint may be assigned to
    MaxTime,                        \* bound: periods that pass
    MaxFaults,                      \* bound: statements that fail
    None

ASSUME CareAssumption ==
    /\ {"new", "finalized", "lost"} \subseteq LeadStatuses
    /\ "none" \notin LeadStatuses
    /\ None \notin Leads \cup Staff
    /\ MaxTime \in Nat /\ MaxFaults \in Nat

FollowUpMissed == 1         \* FollowUpMissedHours, in periods
ComplaintEscalation == 2    \* ComplaintEscalationHours, in periods

VARIABLES
    lead,       \* leads.status, or "none" where there is no row
    followUp,   \* follow_ups: lead, status and scheduled_for
    complaint,  \* client_complaints: status and created_at
    assignee,   \* assigned_to of leads and complaints
    losing,     \* the lead a manager's request has lost and not yet cleaned up after
    now,        \* the database's clock
    faults,     \* statements that failed
    late,       \* history: follow-ups created while their lead was lost
    abandoned   \* history: leads whose follow-ups could not be cancelled

vars == <<lead, followUp, complaint, assignee, losing, now, faults, late, abandoned>>
leads == <<lead, losing, abandoned>>
followUps == <<followUp, late>>

FollowUp == [lead : Leads, status : {"pending", "completed", "missed", "cancelled"},
             due : 0..MaxTime]
Complaint == [status : {"open", "in_progress", "resolved", "escalated"}, born : 0..MaxTime]

CareTypeOK ==
    /\ lead \in [Leads -> LeadStatuses \cup {"none"}]
    /\ followUp \in [FollowUps -> FollowUp \cup {None}]
    /\ complaint \in [Complaints -> Complaint \cup {None}]
    /\ assignee \in [Leads \cup Complaints -> Staff \cup {None}]
    /\ losing \in [Managers -> Leads \cup {None}]
    /\ now \in 0..MaxTime
    /\ faults \in 0..MaxFaults
    /\ late \subseteq FollowUps
    /\ abandoned \subseteq Leads

Init ==
    /\ lead = [l \in Leads |-> "none"]
    /\ followUp = [f \in FollowUps |-> None]
    /\ complaint = [c \in Complaints |-> None]
    /\ assignee = [x \in Leads \cup Complaints |-> None]
    /\ losing = [m \in Managers |-> None]
    /\ now = 0
    /\ faults = 0
    /\ late = {}
    /\ abandoned = {}

Pending(f) == followUp[f] # None /\ followUp[f].status = "pending"
\* UPDATE follow_ups SET status = s for the rows of S.
SetFollowUps(S, s) ==
    followUp' = [f \in FollowUps |-> IF f \in S THEN [followUp[f] EXCEPT !.status = s]
                                               ELSE followUp[f]]

---------------------------------------------------------------------------
(* Leads *)

InsertLead(l) == lead' = [lead EXCEPT ![l] = "new"]

CreateLead(l) ==
    /\ lead[l] = "none"
    /\ InsertLead(l)
    /\ UNCHANGED <<followUps, complaint, assignee, losing, now, faults, abandoned>>

\* Whoever is assigned already.
Assign(x, u) == assignee' = [assignee EXCEPT ![x] = u]

AssignLead(l, u) ==
    /\ lead[l] # "none"
    /\ Assign(l, u)
    /\ UNCHANGED <<leads, followUps, complaint, now, faults>>

\* Any status may follow any other; a lost lead needs a second statement.
ToCancel(l, s) == IF s = "lost" THEN l ELSE None

UpdateLeadStatus(m, l, s) ==
    /\ losing[m] = None /\ lead[l] # "none"
    /\ lead' = [lead EXCEPT ![l] = s]
    /\ losing' = [losing EXCEPT ![m] = ToCancel(l, s)]
    /\ UNCHANGED <<followUps, complaint, assignee, now, faults, abandoned>>

CancelPendingForLead_Overdue(m) ==
    /\ losing[m] # None
    /\ SetFollowUps({f \in FollowUps : Pending(f) /\ followUp[f].lead = losing[m]
                                                  /\ followUp[f].due < now}, "cancelled")
    /\ losing' = [losing EXCEPT ![m] = None]
    /\ UNCHANGED <<lead, complaint, assignee, now, faults, late, abandoned>>

CancelPendingForLead(m) ==
    /\ losing[m] # None
    /\ SetFollowUps({f \in FollowUps : Pending(f) /\ followUp[f].lead = losing[m]}, "cancelled")
    /\ losing' = [losing EXCEPT ![m] = None]
    /\ UNCHANGED <<lead, complaint, assignee, now, faults, late, abandoned>>

\* The error is logged and the request succeeds; the process may also die in between.
CancelFails(m) ==
    /\ losing[m] # None /\ faults < MaxFaults
    /\ faults' = faults + 1
    /\ abandoned' = abandoned \cup {losing[m]}
    /\ losing' = [losing EXCEPT ![m] = None]
    /\ UNCHANGED <<lead, followUps, complaint, assignee, now>>

---------------------------------------------------------------------------
(* Follow-ups *)

NewFollowUp(l, due) == [lead |-> l, status |-> "pending", due |-> due]

\* The statement does not look at the status of the lead.
CreateFollowUp(f, l, due) ==
    /\ followUp[f] = None /\ lead[l] # "none"
    /\ followUp' = [followUp EXCEPT ![f] = NewFollowUp(l, due)]
    /\ late' = IF lead[l] = "lost" THEN late \cup {f} ELSE late
    /\ UNCHANGED <<leads, complaint, assignee, now, faults>>

Complete_Done(f) ==
    /\ Pending(f)
    /\ SetFollowUps({f}, "done")
    /\ UNCHANGED <<leads, complaint, assignee, now, faults, late>>

Complete(f) ==
    /\ Pending(f)
    /\ SetFollowUps({f}, "completed")
    /\ UNCHANGED <<leads, complaint, assignee, now, faults, late>>

---------------------------------------------------------------------------
(* Complaints *)

NewComplaint == [status |-> "open", born |-> now]

CreateComplaint(c) ==
    /\ complaint[c] = None
    /\ complaint' = [complaint EXCEPT ![c] = NewComplaint]
    /\ UNCHANGED <<leads, followUps, assignee, now, faults>>

AssignComplaint(c, u) ==
    /\ complaint[c] # None
    /\ Assign(c, u)
    /\ UNCHANGED <<leads, followUps, complaint, now, faults>>

UpdateComplaintStatus(c, s) ==
    /\ complaint[c] # None
    /\ complaint' = [complaint EXCEPT ![c].status = s]
    /\ UNCHANGED <<leads, followUps, assignee, now, faults>>

---------------------------------------------------------------------------
(* The worker's cron jobs, each one statement *)

Overdue(f) == Pending(f) /\ followUp[f].due + FollowUpMissed < now

MarkMissed_OfActiveLeads ==
    /\ SetFollowUps({f \in FollowUps : Overdue(f) /\ lead[followUp[f].lead] # "lost"}, "missed")
    /\ UNCHANGED <<leads, complaint, assignee, now, faults, late>>

MarkMissed ==
    /\ SetFollowUps({f \in FollowUps : Overdue(f)}, "missed")
    /\ UNCHANGED <<leads, complaint, assignee, now, faults, late>>

Unresolved(c) == complaint[c] # None /\ complaint[c].status \notin {"resolved", "escalated"}
Old(c) == complaint[c].born + ComplaintEscalation < now

EscalateOld_OnTheDay ==
    /\ complaint' = [c \in Complaints |->
            IF Unresolved(c) /\ complaint[c].born + ComplaintEscalation + 1 = now
            THEN [complaint[c] EXCEPT !.status = "escalated"] ELSE complaint[c]]
    /\ UNCHANGED <<leads, followUps, assignee, now, faults>>

\* Of any priority: backend/module_flows.md:58 names only open complaints of high
\* priority, the comment above the statement every unresolved one.
EscalateOld ==
    /\ complaint' = [c \in Complaints |-> IF Unresolved(c) /\ Old(c)
                        THEN [complaint[c] EXCEPT !.status = "escalated"] ELSE complaint[c]]
    /\ UNCHANGED <<leads, followUps, assignee, now, faults>>

Tick ==
    /\ now < MaxTime
    /\ now' = now + 1
    /\ UNCHANGED <<leads, followUps, complaint, assignee, faults>>

---------------------------------------------------------------------------
Next ==
    \/ \E l \in Leads : CreateLead(l) \/ \E u \in Staff : AssignLead(l, u)
    \/ \E m \in Managers : CancelPendingForLead(m) \/ CancelFails(m)
    \/ \E m \in Managers, l \in Leads, s \in LeadStatuses : UpdateLeadStatus(m, l, s)
    \/ \E f \in FollowUps, l \in Leads, due \in 0..MaxTime : CreateFollowUp(f, l, due)
    \/ \E f \in FollowUps : Complete(f)
    \/ \E c \in Complaints : CreateComplaint(c) \/ \E u \in Staff : AssignComplaint(c, u)
    \/ \E c \in Complaints, s \in {"open", "in_progress", "resolved", "escalated"} :
        UpdateComplaintStatus(c, s)
    \/ MarkMissed \/ EscalateOld \/ Tick

\* Both cron jobs run again and again: at the start of the worker and at every tick.
Spec == Init /\ [][Next]_vars /\ WF_vars(MarkMissed) /\ WF_vars(EscalateOld)

---------------------------------------------------------------------------
(* Properties *)

\* Losing a lead settles its follow-ups (module_flows.md, "lost"): when no request is
\* between the two statements of UpdateStatus, the lead's pending follow-ups are those that
\* were created after the loss, in whatever order the lead was lost and reopened, unless
\* the second statement of one of its losses failed.
LostLeadIsLeftAlone ==
    \A f \in FollowUps :
        Pending(f) /\ lead[followUp[f].lead] = "lost" =>
            \/ f \in late
            \/ followUp[f].lead \in abandoned
            \/ \E m \in Managers : losing[m] = followUp[f].lead

\* What is overdue does not stay so. A pending follow-up that nobody attends to is
\* marked by the job, also when its lead was lost meanwhile and cancelling it failed; an
\* old complaint is escalated, also when it is reopened after that or after it was
\* resolved: every run of the jobs looks at the whole table.
NothingStaysOverdue ==
    /\ \A f \in FollowUps : Overdue(f) ~> ~Pending(f)
    /\ \A c \in Complaints : (Unresolved(c) /\ Old(c)) ~> ~Unresolved(c)
=============================================================================
