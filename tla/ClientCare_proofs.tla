-------------------------- MODULE ClientCare_proofs --------------------------
(* Proofs about ClientCare: losing a lead settles its follow-ups, for any number *)
(* of leads, follow-ups, managers and failed statements. The invariant is the    *)
(* property itself: each of its exceptions is what one action leaves behind.      *)
EXTENDS ClientCare, TLAPS

CareInv == CareTypeOK /\ LostLeadIsLeftAlone

\* Why a pending follow-up of a lost lead may be there.
Excused(f) ==
    \/ f \in late
    \/ followUp[f].lead \in abandoned
    \/ \E m \in Managers : losing[m] = followUp[f].lead

-----------------------------------------------------------------------------
LEMMA InitInv == Init => CareInv
<1> SUFFICES ASSUME Init PROVE CareInv
  OBVIOUS
<1>1. CareTypeOK
  BY CareAssumption DEF Init, CareTypeOK
<1>2. LostLeadIsLeftAlone
  BY DEF Init, LostLeadIsLeftAlone, Pending
<1> QED BY <1>1, <1>2 DEF CareInv

\* A pending follow-up is a row.
LEMMA PendingTyped ==
  ASSUME CareTypeOK, NEW f \in FollowUps, Pending(f)
  PROVE  followUp[f] \in FollowUp /\ followUp[f].lead \in Leads
BY DEF CareTypeOK, Pending, FollowUp

\* What settling some pending follow-ups does: nothing becomes pending, no lead changes.
LEMMA SetFollowUpsSettles ==
  ASSUME CareTypeOK, NEW S \in SUBSET {f \in FollowUps : Pending(f)},
         NEW s \in {"completed", "missed", "cancelled"}, SetFollowUps(S, s)
  PROVE  /\ followUp' \in [FollowUps -> FollowUp \cup {None}]
         /\ \A f \in FollowUps : Pending(f)' =>
                Pending(f) /\ f \notin S /\ followUp'[f] = followUp[f]
<1>1. \A f \in FollowUps :
        /\ f \in S => followUp'[f] = [followUp[f] EXCEPT !.status = s]
        /\ f \notin S => followUp'[f] = followUp[f]
  BY DEF SetFollowUps
<1>2. \A f \in S : followUp'[f] \in FollowUp /\ followUp'[f].status = s
  <2> SUFFICES ASSUME NEW f \in S
               PROVE  followUp'[f] \in FollowUp /\ followUp'[f].status = s
    OBVIOUS
  <2>1. f \in FollowUps /\ followUp[f] \in FollowUp
    BY PendingTyped
  <2>2. followUp'[f] = [followUp[f] EXCEPT !.status = s]
    BY <1>1, <2>1
  <2> QED BY <2>1, <2>2 DEF FollowUp
<1>3. \A f \in FollowUps : followUp'[f] \in FollowUp \cup {None}
  BY <1>1, <1>2 DEF CareTypeOK
<1>4. followUp' = [f \in FollowUps |-> followUp'[f]]
  BY DEF SetFollowUps
<1>5. followUp' \in [FollowUps -> FollowUp \cup {None}]
  BY <1>3, <1>4
<1>6. \A f \in FollowUps : Pending(f)' =>
        Pending(f) /\ f \notin S /\ followUp'[f] = followUp[f]
  BY <1>1, <1>2 DEF Pending
<1> QED BY <1>5, <1>6

\* Completing a follow-up, and the job that marks follow-ups, settle some and touch
\* no lead.
LEMMA SettleInv ==
  ASSUME CareInv, NEW S \in SUBSET {f \in FollowUps : Pending(f)},
         NEW s \in {"completed", "missed"}, SetFollowUps(S, s),
         UNCHANGED <<leads, complaint, assignee, now, faults, late>>
  PROVE  CareInv'
<1>1. /\ followUp' \in [FollowUps -> FollowUp \cup {None}]
      /\ \A f \in FollowUps : Pending(f)' => Pending(f) /\ followUp'[f] = followUp[f]
  BY SetFollowUpsSettles DEF CareInv
<1>2. CareTypeOK'
  BY <1>1 DEF CareInv, CareTypeOK, leads
<1>3. LostLeadIsLeftAlone'
  BY <1>1 DEF CareInv, LostLeadIsLeftAlone, leads
<1> QED BY <1>2, <1>3 DEF CareInv

-----------------------------------------------------------------------------
(* Leads *)

LEMMA CreateLeadInv ==
  ASSUME CareInv, NEW l \in Leads, CreateLead(l)
  PROVE  CareInv'
<1>1. /\ lead' = [lead EXCEPT ![l] = "new"]
      /\ UNCHANGED <<followUp, late, complaint, assignee, losing, now, faults, abandoned>>
  BY DEF CreateLead, InsertLead, followUps
<1>2. lead \in [Leads -> LeadStatuses \cup {"none"}] /\ "new" \in LeadStatuses
  BY CareAssumption DEF CareInv, CareTypeOK
<1>3. CareTypeOK'
  BY <1>1, <1>2 DEF CareInv, CareTypeOK
<1>4. \A k \in Leads : lead'[k] = "lost" => lead[k] = "lost"
  BY <1>1, <1>2
<1>5. \A f \in FollowUps : Pending(f) => followUp[f].lead \in Leads
  BY PendingTyped DEF CareInv
<1>6. LostLeadIsLeftAlone'
  BY <1>1, <1>4, <1>5 DEF CareInv, LostLeadIsLeftAlone, Pending
<1> QED BY <1>3, <1>6 DEF CareInv

LEMMA UpdateLeadStatusInv ==
  ASSUME CareInv, NEW m \in Managers, NEW l \in Leads, NEW s \in LeadStatuses,
         UpdateLeadStatus(m, l, s)
  PROVE  CareInv'
<1>1. /\ losing[m] = None
      /\ lead' = [lead EXCEPT ![l] = s]
      /\ losing' = [losing EXCEPT ![m] = ToCancel(l, s)]
      /\ UNCHANGED <<followUp, late, complaint, assignee, now, faults, abandoned>>
  BY DEF UpdateLeadStatus, followUps
<1>2. /\ lead \in [Leads -> LeadStatuses \cup {"none"}]
      /\ losing \in [Managers -> Leads \cup {None}]
      /\ ToCancel(l, s) \in Leads \cup {None}
  BY DEF CareInv, CareTypeOK, ToCancel
<1>3. CareTypeOK'
  BY <1>1, <1>2 DEF CareInv, CareTypeOK
<1>4. \A k \in Leads : (\E n \in Managers : losing[n] = k) => \E n \in Managers : losing'[n] = k
  BY <1>1, <1>2, CareAssumption
<1>5. ASSUME NEW f \in FollowUps, Pending(f)', lead'[followUp'[f].lead] = "lost"
      PROVE  Excused(f)'
  <2>1. Pending(f) /\ followUp[f].lead \in Leads
    BY <1>1, <1>5, PendingTyped DEF Pending, CareInv
  <2>2. CASE followUp[f].lead = l
    <3>1. s = "lost"
      BY <1>1, <1>2, <1>5, <2>2
    <3>2. losing'[m] = l
      BY <1>1, <1>2, <3>1 DEF ToCancel
    <3> QED BY <1>1, <2>2, <3>2 DEF Excused
  <2>3. CASE followUp[f].lead # l
    <3>1. lead[followUp[f].lead] = "lost"
      BY <1>1, <1>2, <1>5, <2>1, <2>3
    <3>2. Excused(f)
      BY <2>1, <3>1 DEF CareInv, LostLeadIsLeftAlone, Excused
    <3> QED BY <1>1, <1>4, <2>1, <3>2 DEF Excused
  <2> QED BY <2>2, <2>3
<1>6. LostLeadIsLeftAlone'
  BY <1>5 DEF LostLeadIsLeftAlone, Excused
<1> QED BY <1>3, <1>6 DEF CareInv

LEMMA CancelPendingInv ==
  ASSUME CareInv, NEW m \in Managers, CancelPendingForLead(m)
  PROVE  CareInv'
<1> DEFINE S == {f \in FollowUps : Pending(f) /\ followUp[f].lead = losing[m]}
<1>1. /\ losing[m] # None
      /\ SetFollowUps(S, "cancelled")
      /\ losing' = [losing EXCEPT ![m] = None]
      /\ UNCHANGED <<lead, complaint, assignee, now, faults, late, abandoned>>
  BY DEF CancelPendingForLead
<1>2. /\ followUp' \in [FollowUps -> FollowUp \cup {None}]
      /\ \A f \in FollowUps : Pending(f)' =>
            Pending(f) /\ f \notin S /\ followUp'[f] = followUp[f]
  BY <1>1, SetFollowUpsSettles DEF CareInv
<1>3. losing \in [Managers -> Leads \cup {None}]
  BY DEF CareInv, CareTypeOK
<1>4. CareTypeOK'
  BY <1>1, <1>2, <1>3 DEF CareInv, CareTypeOK
<1>5. ASSUME NEW f \in FollowUps, Pending(f)', lead'[followUp'[f].lead] = "lost"
      PROVE  Excused(f)'
  <2>1. Pending(f) /\ followUp'[f] = followUp[f] /\ followUp[f].lead # losing[m]
    BY <1>2, <1>5
  <2>2. Excused(f)
    BY <1>1, <1>5, <2>1 DEF CareInv, LostLeadIsLeftAlone, Excused
  <2>3. \A n \in Managers : losing[n] = followUp[f].lead => losing'[n] = followUp[f].lead
    BY <1>1, <1>3, <2>1
  <2> QED BY <1>1, <2>1, <2>2, <2>3 DEF Excused
<1>6. LostLeadIsLeftAlone'
  BY <1>5 DEF LostLeadIsLeftAlone, Excused
<1> QED BY <1>4, <1>6 DEF CareInv

LEMMA CancelFailsInv ==
  ASSUME CareInv, NEW m \in Managers, CancelFails(m)
  PROVE  CareInv'
<1>1. /\ losing[m] # None /\ faults < MaxFaults /\ faults' = faults + 1
      /\ abandoned' = abandoned \cup {losing[m]}
      /\ losing' = [losing EXCEPT ![m] = None]
      /\ UNCHANGED <<lead, followUp, late, complaint, assignee, now>>
  BY DEF CancelFails, followUps
<1>2. losing \in [Managers -> Leads \cup {None}] /\ faults \in 0..MaxFaults
      /\ losing[m] \in Leads
  BY <1>1 DEF CareInv, CareTypeOK
<1>3. faults' \in 0..MaxFaults
  BY <1>1, <1>2, CareAssumption
<1>4. CareTypeOK'
  BY <1>1, <1>2, <1>3 DEF CareInv, CareTypeOK
<1>5. ASSUME NEW f \in FollowUps, Pending(f)', lead'[followUp'[f].lead] = "lost"
      PROVE  Excused(f)'
  <2>1. Excused(f)
    BY <1>1, <1>5 DEF CareInv, LostLeadIsLeftAlone, Excused, Pending
  <2>2. \A n \in Managers : losing[n] = followUp[f].lead =>
            losing'[n] = followUp[f].lead \/ followUp[f].lead \in abandoned'
    BY <1>1, <1>2
  <2> QED BY <1>1, <2>1, <2>2 DEF Excused
<1>6. LostLeadIsLeftAlone'
  BY <1>5 DEF LostLeadIsLeftAlone, Excused
<1> QED BY <1>4, <1>6 DEF CareInv

-----------------------------------------------------------------------------
(* Follow-ups *)

LEMMA CreateFollowUpInv ==
  ASSUME CareInv, NEW f \in FollowUps, NEW l \in Leads, NEW due \in 0..MaxTime,
         CreateFollowUp(f, l, due)
  PROVE  CareInv'
<1> DEFINE new == NewFollowUp(l, due)
<1>1. /\ followUp' = [followUp EXCEPT ![f] = new]
      /\ late' = IF lead[l] = "lost" THEN late \cup {f} ELSE late
      /\ UNCHANGED <<lead, losing, abandoned, complaint, assignee, now, faults>>
  BY DEF CreateFollowUp, leads
<1>2. new \in FollowUp /\ new.lead = l
  BY DEF NewFollowUp, FollowUp
<1>3. followUp \in [FollowUps -> FollowUp \cup {None}]
  BY DEF CareInv, CareTypeOK
<1> HIDE DEF new
<1>4. followUp' \in [FollowUps -> FollowUp \cup {None}]
  BY <1>1, <1>2, <1>3
<1>5. late' \subseteq FollowUps
  BY <1>1 DEF CareInv, CareTypeOK
<1>6. CareTypeOK'
  BY <1>1, <1>4, <1>5 DEF CareInv, CareTypeOK
<1>7. ASSUME NEW g \in FollowUps, Pending(g)', lead'[followUp'[g].lead] = "lost"
      PROVE  Excused(g)'
  <2>1. CASE g = f
    BY <1>1, <1>2, <1>3, <1>7, <2>1 DEF Excused
  <2>2. CASE g # f
    <3>1. followUp'[g] = followUp[g]
      BY <1>1, <1>3, <2>2
    <3>2. Excused(g)
      BY <1>1, <1>7, <3>1 DEF CareInv, LostLeadIsLeftAlone, Excused, Pending
    <3> QED BY <1>1, <3>1, <3>2 DEF Excused
  <2> QED BY <2>1, <2>2
<1>8. LostLeadIsLeftAlone'
  BY <1>7 DEF LostLeadIsLeftAlone, Excused
<1> QED BY <1>6, <1>8 DEF CareInv

LEMMA CompleteInv ==
  ASSUME CareInv, NEW f \in FollowUps, Complete(f)
  PROVE  CareInv'
<1>1. {f} \in SUBSET {g \in FollowUps : Pending(g)} /\ SetFollowUps({f}, "completed")
      /\ UNCHANGED <<leads, complaint, assignee, now, faults, late>>
  BY DEF Complete
<1> QED BY <1>1, SettleInv

LEMMA MarkMissedInv ==
  ASSUME CareInv, MarkMissed
  PROVE  CareInv'
<1> DEFINE S == {f \in FollowUps : Overdue(f)}
<1>1. S \in SUBSET {g \in FollowUps : Pending(g)}
  BY DEF Overdue
<1>2. SetFollowUps(S, "missed") /\ UNCHANGED <<leads, complaint, assignee, now, faults, late>>
  BY DEF MarkMissed
<1> QED BY <1>1, <1>2, SettleInv

-----------------------------------------------------------------------------
(* Complaints, assignments and the clock touch neither leads nor follow-ups. *)

LEMMA OtherStepInv ==
  ASSUME CareInv, UNCHANGED <<lead, followUp, losing, faults, late, abandoned>>,
         complaint' \in [Complaints -> Complaint \cup {None}],
         assignee' \in [Leads \cup Complaints -> Staff \cup {None}],
         now' \in 0..MaxTime
  PROVE  CareInv'
BY DEF CareInv, CareTypeOK, LostLeadIsLeftAlone, Pending

LEMMA AssignInv ==
  ASSUME CareInv, NEW x \in Leads \cup Complaints, NEW u \in Staff, Assign(x, u),
         UNCHANGED <<lead, followUp, losing, faults, late, abandoned, complaint, now>>
  PROVE  CareInv'
<1>1. /\ assignee' \in [Leads \cup Complaints -> Staff \cup {None}]
      /\ complaint' \in [Complaints -> Complaint \cup {None}]
      /\ now' \in 0..MaxTime
  BY DEF Assign, CareInv, CareTypeOK
<1> QED BY <1>1, OtherStepInv

LEMMA ComplaintStepInv ==
  ASSUME CareInv, complaint' \in [Complaints -> Complaint \cup {None}],
         UNCHANGED <<leads, followUps, assignee, now, faults>>
  PROVE  CareInv'
<1>1. /\ assignee' \in [Leads \cup Complaints -> Staff \cup {None}]
      /\ now' \in 0..MaxTime
  BY DEF CareInv, CareTypeOK
<1> QED BY <1>1, OtherStepInv DEF leads, followUps

LEMMA ComplaintInv ==
  ASSUME CareInv,
         NEW c \in Complaints, NEW s \in {"open", "in_progress", "resolved", "escalated"},
         CreateComplaint(c) \/ UpdateComplaintStatus(c, s)
  PROVE  CareInv'
<1>1. complaint \in [Complaints -> Complaint \cup {None}] /\ now \in 0..MaxTime
  BY DEF CareInv, CareTypeOK
<1>2. CASE CreateComplaint(c)
  <2>1. NewComplaint \in Complaint
    BY <1>1 DEF NewComplaint, Complaint
  <2>2. complaint' \in [Complaints -> Complaint \cup {None}]
    BY <1>1, <1>2, <2>1 DEF CreateComplaint
  <2> QED BY <1>2, <2>2, ComplaintStepInv DEF CreateComplaint
<1>3. CASE UpdateComplaintStatus(c, s)
  <2>1. [complaint[c] EXCEPT !.status = s] \in Complaint
    BY <1>1, <1>3 DEF UpdateComplaintStatus, Complaint
  <2>2. complaint' = [complaint EXCEPT ![c] = [complaint[c] EXCEPT !.status = s]]
    BY <1>1, <1>3 DEF UpdateComplaintStatus
  <2>3. complaint' \in [Complaints -> Complaint \cup {None}]
    BY <1>1, <2>1, <2>2
  <2> QED BY <1>3, <2>3, ComplaintStepInv DEF UpdateComplaintStatus
<1> QED BY <1>2, <1>3

LEMMA EscalateOldInv ==
  ASSUME CareInv, EscalateOld
  PROVE  CareInv'
<1>1. complaint \in [Complaints -> Complaint \cup {None}]
  BY DEF CareInv, CareTypeOK
<1>2. ASSUME NEW c \in Complaints
      PROVE  complaint'[c] \in Complaint \cup {None}
  <2>1. CASE Unresolved(c) /\ Old(c)
    <3>1. complaint[c] \in Complaint
      BY <1>1, <2>1 DEF Unresolved
    <3>2. complaint'[c] = [complaint[c] EXCEPT !.status = "escalated"]
      BY <2>1 DEF EscalateOld
    <3> QED BY <3>1, <3>2 DEF Complaint
  <2>2. CASE ~(Unresolved(c) /\ Old(c))
    BY <1>1, <2>2 DEF EscalateOld
  <2> QED BY <2>1, <2>2
<1>3. complaint' = [c \in Complaints |-> complaint'[c]]
  BY DEF EscalateOld
<1>4. complaint' \in [Complaints -> Complaint \cup {None}]
  BY <1>2, <1>3
<1> QED BY <1>4, ComplaintStepInv DEF EscalateOld

LEMMA TickInv ==
  ASSUME CareInv, Tick
  PROVE  CareInv'
<1>1. now' \in 0..MaxTime
  BY CareAssumption DEF Tick, CareInv, CareTypeOK
<1>2. /\ complaint' \in [Complaints -> Complaint \cup {None}]
      /\ assignee' \in [Leads \cup Complaints -> Staff \cup {None}]
      /\ UNCHANGED <<lead, followUp, losing, faults, late, abandoned>>
  BY DEF Tick, CareInv, CareTypeOK, leads, followUps
<1> QED BY <1>1, <1>2, OtherStepInv

-----------------------------------------------------------------------------
LEMMA NextInv ==
  ASSUME CareInv, [Next]_vars
  PROVE  CareInv'
<1>1. CASE \E l \in Leads : CreateLead(l) \/ \E u \in Staff : AssignLead(l, u)
  BY <1>1, CreateLeadInv, AssignInv DEF AssignLead, leads, followUps
<1>2. CASE \E m \in Managers : CancelPendingForLead(m) \/ CancelFails(m)
  BY <1>2, CancelPendingInv, CancelFailsInv
<1>3. CASE \E m \in Managers, l \in Leads, s \in LeadStatuses : UpdateLeadStatus(m, l, s)
  BY <1>3, UpdateLeadStatusInv
<1>4. CASE \E f \in FollowUps, l \in Leads, due \in 0..MaxTime : CreateFollowUp(f, l, due)
  BY <1>4, CreateFollowUpInv
<1>5. CASE \E f \in FollowUps : Complete(f)
  BY <1>5, CompleteInv
<1>6. CASE \E c \in Complaints : CreateComplaint(c) \/ \E u \in Staff : AssignComplaint(c, u)
  BY <1>6, ComplaintInv, AssignInv DEF AssignComplaint, leads, followUps
<1>7. CASE \E c \in Complaints, s \in {"open", "in_progress", "resolved", "escalated"} :
              UpdateComplaintStatus(c, s)
  BY <1>7, ComplaintInv
<1>8. CASE MarkMissed \/ EscalateOld \/ Tick
  BY <1>8, MarkMissedInv, EscalateOldInv, TickInv
<1>9. CASE UNCHANGED vars
  BY <1>9 DEF vars, CareInv, CareTypeOK, LostLeadIsLeftAlone, Pending
<1> QED BY <1>1, <1>2, <1>3, <1>4, <1>5, <1>6, <1>7, <1>8, <1>9 DEF Next

LEMMA Invariance == Spec => []CareInv
<1>1. CareInv /\ [Next]_vars => CareInv'
  BY NextInv
<1> QED BY InitInv, <1>1, PTL DEF Spec

\* The types of the tables, for any number of rows, managers and periods.
THEOREM CareTypeCorrect == Spec => []CareTypeOK
<1>1. CareInv => CareTypeOK
  BY DEF CareInv
<1> QED BY Invariance, <1>1, PTL

\* Losing a lead settles its follow-ups: those that are still pending came later, or a
\* statement failed, or a request is between its two statements.
THEOREM LossSettlesFollowUps == Spec => []LostLeadIsLeftAlone
<1>1. CareInv => LostLeadIsLeftAlone
  BY DEF CareInv
<1> QED BY Invariance, <1>1, PTL
=============================================================================
