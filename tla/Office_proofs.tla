---------------------------- MODULE Office_proofs ----------------------------
(* Proofs about the office's side. StaffTime: what managers decided on leaves    *)
(* and on overrides stands, for any staff and any number of leaves, days and     *)
(* repeated requests. Workspace: links resolve and answers are whole, for any    *)
(* numbers of quotations, documents, orders, readers and failed calls.           *)
EXTENDS StaffTime, Workspace, FiniteSetTheorems, SequenceTheorems,
        WellFoundedInduction, TLAPS

\* Only leaves that were requested are decided.
DecidedWasRequested == \A l \in Leaves : decided[l] # None => leave[l] # None

\* An override that waits for a decision has no reviewer yet.
PendingIsUnreviewed ==
    \A x \in Employees \X Days : PendingOverride(x) => row[x].reviewedBy = None

StaffInv == StaffTypeOK /\ DecidedWasRequested /\ DecidedDatesStand /\ PendingIsUnreviewed

-----------------------------------------------------------------------------
LEMMA InitInv == Init => StaffInv
<1> SUFFICES ASSUME Init PROVE StaffInv
  OBVIOUS
<1>1. StaffTypeOK
  BY StaffAssumption DEF Init, StaffTypeOK, Days
<1>2. DecidedWasRequested /\ DecidedDatesStand /\ PendingIsUnreviewed
  BY DEF Init, DecidedWasRequested, DecidedDatesStand, PendingIsUnreviewed,
     PendingOverride
<1> QED BY <1>1, <1>2 DEF StaffInv

\* A leave that was requested is a row.
LEMMA LeaveTyped ==
  ASSUME StaffTypeOK, NEW l \in Leaves, leave[l] # None
  PROVE  /\ leave[l] \in Leave
         /\ leave[l].start \in Days /\ leave[l].end \in Days
BY DEF StaffTypeOK, Leave

\* What an edit writes: two days, and the rest of the row as it was.
LEMMA SetDatesWrites ==
  ASSUME StaffTypeOK, NEW l \in Leaves, leave[l] # None,
         NEW start \in Days \cup {None}, NEW end \in Days \cup {None},
         SetDates(l, start, end)
  PROVE  /\ leave' \in [Leaves -> Leave \cup {None}]
         /\ \A k \in Leaves \ {l} : leave'[k] = leave[k]
         /\ leave'[l] \in Leave
         /\ leave'[l].status = leave[l].status
         /\ leave'[l].start = Given(start, leave[l].start)
         /\ leave'[l].end = Given(end, leave[l].end)
<1>1. leave[l] \in Leave /\ leave[l].start \in Days /\ leave[l].end \in Days
  BY LeaveTyped
<1>2. Given(start, leave[l].start) \in Days /\ Given(end, leave[l].end) \in Days
  BY <1>1 DEF Given
<1> DEFINE new == [leave[l] EXCEPT !.start = Given(start, leave[l].start),
                                   !.end = Given(end, leave[l].end)]
<1>3. leave' = [leave EXCEPT ![l] = new]
  BY <1>1 DEF SetDates, StaffTypeOK
<1>4. new \in Leave /\ new.status = leave[l].status
      /\ new.start = Given(start, leave[l].start) /\ new.end = Given(end, leave[l].end)
  BY <1>1, <1>2 DEF Leave
<1> HIDE DEF new
<1>5. leave \in [Leaves -> Leave \cup {None}]
  BY DEF StaffTypeOK
<1> QED BY <1>3, <1>4, <1>5

-----------------------------------------------------------------------------
(* Leaves *)

\* The rows of attendances and the expenses are untouched by a step on leaves.
LEMMA LeaveStepInv ==
  ASSUME StaffInv, NEW l \in Leaves, UNCHANGED <<row, expense, today>>,
         leave' \in [Leaves -> Leave \cup {None}],
         decided' \in [Leaves -> (Days \X Days) \cup {None}],
         \A k \in Leaves \ {l} : leave'[k] = leave[k] /\ decided'[k] = decided[k],
         decided'[l] # None => /\ leave'[l] # None
                               /\ leave'[l].status \in {"approved", "rejected"}
                               /\ decided'[l] = <<leave'[l].start, leave'[l].end>>
  PROVE  StaffInv'
<1>1. StaffTypeOK'
  BY DEF StaffInv, StaffTypeOK
<1>2. DecidedWasRequested'
  BY DEF StaffInv, DecidedWasRequested
<1>3. DecidedDatesStand'
  <2> SUFFICES ASSUME NEW k \in Leaves, decided'[k] # None
               PROVE  /\ leave'[k].status \in {"approved", "rejected"}
                      /\ decided'[k] = <<leave'[k].start, leave'[k].end>>
    BY DEF DecidedDatesStand
  <2>1. CASE k = l
    BY <2>1
  <2>2. CASE k # l
    BY <2>2 DEF StaffInv, DecidedDatesStand
  <2> QED BY <2>1, <2>2
<1>4. PendingIsUnreviewed'
  BY DEF StaffInv, PendingIsUnreviewed, PendingOverride
<1> QED BY <1>1, <1>2, <1>3, <1>4 DEF StaffInv

LEMMA RequestInv ==
  ASSUME StaffInv, NEW l \in Leaves, NEW start \in Days, NEW end \in Days,
         Request(l, start, end)
  PROVE  StaffInv'
<1>1. decided[l] = None /\ decided' = decided
  BY DEF Request, StaffInv, DecidedWasRequested
<1>2. NewLeave(start, end) \in Leave
  BY DEF NewLeave, Leave
<1>3. leave' = [leave EXCEPT ![l] = NewLeave(start, end)] /\ UNCHANGED <<row, expense, today>>
  BY DEF Request
<1>4. /\ leave \in [Leaves -> Leave \cup {None}]
      /\ decided \in [Leaves -> (Days \X Days) \cup {None}]
  BY DEF StaffInv, StaffTypeOK
<1> QED BY <1>1, <1>2, <1>3, <1>4, LeaveStepInv

\* What the owner does needs a leave that is pending, and so not decided.
LEMMA PendingIsUndecided ==
  ASSUME StaffInv, NEW l \in Leaves, NEW e, OwnPending(l, e)
  PROVE  decided[l] = None
BY DEF StaffInv, DecidedDatesStand, OwnPending

LEMMA EditLeaveInv ==
  ASSUME StaffInv, NEW l \in Leaves, NEW e \in Employees,
         NEW start \in Days \cup {None}, NEW end \in Days \cup {None},
         EditLeave(l, e, start, end)
  PROVE  StaffInv'
<1>1. decided[l] = None
  BY PendingIsUndecided DEF EditLeave
<1>2. /\ leave[l] # None /\ SetDates(l, start, end)
      /\ UNCHANGED <<decided, row, expense, today>>
  BY DEF EditLeave, OwnPending
<1>3. StaffTypeOK /\ decided \in [Leaves -> (Days \X Days) \cup {None}]
  BY DEF StaffInv, StaffTypeOK
<1> QED BY <1>1, <1>2, <1>3, SetDatesWrites, LeaveStepInv

LEMMA CancelInv ==
  ASSUME StaffInv, NEW l \in Leaves, NEW e \in Employees, Cancel(l, e)
  PROVE  StaffInv'
<1>1. decided[l] = None
  BY PendingIsUndecided DEF Cancel
<1>2. leave[l] # None /\ UNCHANGED <<decided, row, expense, today>>
      /\ leave' = [leave EXCEPT ![l].status = "cancelled"]
  BY DEF Cancel, OwnPending
<1>3. /\ leave \in [Leaves -> Leave \cup {None}]
      /\ decided \in [Leaves -> (Days \X Days) \cup {None}]
  BY DEF StaffInv, StaffTypeOK
<1>4. [leave[l] EXCEPT !.status = "cancelled"] \in Leave
  BY <1>2, <1>3 DEF Leave
<1>5. /\ leave' \in [Leaves -> Leave \cup {None}]
      /\ \A k \in Leaves \ {l} : leave'[k] = leave[k]
  BY <1>2, <1>3, <1>4
<1> QED BY <1>1, <1>2, <1>3, <1>5, LeaveStepInv

LEMMA AdminEditInv ==
  ASSUME StaffInv, NEW l \in Leaves, NEW start \in Days \cup {None},
         NEW end \in Days \cup {None}, AdminEdit(l, start, end)
  PROVE  StaffInv'
<1>1. /\ leave[l] # None /\ SetDates(l, start, end)
      /\ UNCHANGED <<row, expense, today>>
  BY DEF AdminEdit
<1>2. /\ leave' \in [Leaves -> Leave \cup {None}]
      /\ \A k \in Leaves \ {l} : leave'[k] = leave[k]
      /\ leave'[l] \in Leave
      /\ leave'[l].status = leave[l].status
      /\ leave'[l].start = Given(start, leave[l].start)
      /\ leave'[l].end = Given(end, leave[l].end)
  BY <1>1, SetDatesWrites DEF StaffInv
<1>3. decided \in [Leaves -> (Days \X Days) \cup {None}]
  BY DEF StaffInv, StaffTypeOK
<1> DEFINE edited == <<Given(start, decided[l][1]), Given(end, decided[l][2])>>
<1>4. decided' = [decided EXCEPT ![l] = IF decided[l] = None THEN None ELSE edited]
  BY <1>3 DEF AdminEdit
<1>5. CASE decided[l] = None
  <2>1. decided' = decided
    BY <1>3, <1>4, <1>5
  <2> QED BY <1>1, <1>2, <1>3, <1>5, <2>1, LeaveStepInv
<1>6. CASE decided[l] # None
  <2>1. /\ leave[l].status \in {"approved", "rejected"}
        /\ decided[l] = <<leave[l].start, leave[l].end>>
    BY <1>6 DEF StaffInv, DecidedDatesStand
  <2>2. edited = <<leave'[l].start, leave'[l].end>>
    BY <1>2, <2>1
  <2>3. edited \in Days \X Days
    BY <1>2, <2>2 DEF Leave
  <2> HIDE DEF edited
  <2>4. decided' = [decided EXCEPT ![l] = edited]
    BY <1>4, <1>6
  <2>5. /\ decided' \in [Leaves -> (Days \X Days) \cup {None}]
        /\ decided'[l] = edited
        /\ \A k \in Leaves \ {l} : decided'[k] = decided[k]
    BY <1>3, <2>3, <2>4
  <2>6. leave'[l] # None
    BY <1>2, NoneIsNoRow
  <2> QED BY <1>1, <1>2, <2>1, <2>2, <2>5, <2>6, LeaveStepInv
<1> QED BY <1>5, <1>6

LEMMA ProcessLeaveInv ==
  ASSUME StaffInv, NEW l \in Leaves, NEW m \in Managers,
         NEW v \in {"approved", "rejected"}, ProcessLeave(l, m, v)
  PROVE  StaffInv'
<1>1. /\ leave[l] # None /\ UNCHANGED <<row, expense, today>>
      /\ leave' = [leave EXCEPT ![l].status = v, ![l].approvedBy = m]
      /\ decided' = [decided EXCEPT ![l] = <<leave[l].start, leave[l].end>>]
  BY DEF ProcessLeave, UpdateStatus
<1>2. leave[l] \in Leave /\ leave[l].start \in Days /\ leave[l].end \in Days
  BY <1>1, LeaveTyped DEF StaffInv
<1>3. /\ leave \in [Leaves -> Leave \cup {None}]
      /\ decided \in [Leaves -> (Days \X Days) \cup {None}]
  BY DEF StaffInv, StaffTypeOK
<1> DEFINE new == [leave[l] EXCEPT !.status = v, !.approvedBy = m]
<1>4. new \in Leave /\ new.status = v /\ new.start = leave[l].start /\ new.end = leave[l].end
  BY <1>2 DEF Leave
<1>5. leave' = [leave EXCEPT ![l] = new]
  BY <1>1, <1>3
<1> HIDE DEF new
<1>6. /\ leave' \in [Leaves -> Leave \cup {None}]
      /\ leave'[l] = new
      /\ \A k \in Leaves \ {l} : leave'[k] = leave[k]
  BY <1>3, <1>4, <1>5
<1>7. /\ decided' \in [Leaves -> (Days \X Days) \cup {None}]
      /\ decided'[l] = <<leave[l].start, leave[l].end>>
      /\ \A k \in Leaves \ {l} : decided'[k] = decided[k]
  BY <1>1, <1>2, <1>3
<1>8. new # None
  BY <1>4, NoneIsNoRow
<1> QED BY <1>1, <1>4, <1>6, <1>7, <1>8, LeaveStepInv

-----------------------------------------------------------------------------
(* Attendance *)

LEMMA RowTyped ==
  ASSUME StaffTypeOK, NEW x \in Employees \X Days, row[x] # None
  PROVE  row[x] \in Attendance
BY DEF StaffTypeOK

\* What a reviewer decided stands when one row changes and was not reviewed, or
\* only its check-out does.
Stands ==
    \A x \in Employees \X Days :
        row[x] # None /\ row[x].reviewedBy # None =>
            /\ row'[x] # None
            /\ row'[x] = [row[x] EXCEPT !.out = row'[x].out]

\* A step on one row: the others stay, and the new one is typed.
LEMMA RowStepInv ==
  ASSUME StaffInv, NEW x \in Employees \X Days, NEW new \in Attendance,
         row' = [row EXCEPT ![x] = new], UNCHANGED <<leaves, expense, today>>,
         new.override = "pending" => new.reviewedBy = None,
         row[x] # None /\ row[x].reviewedBy # None => new = [row[x] EXCEPT !.out = new.out]
  PROVE  StaffInv' /\ Stands
<1>1. row \in [Employees \X Days -> Attendance \cup {None}]
  BY DEF StaffInv, StaffTypeOK
<1>2. /\ row' \in [Employees \X Days -> Attendance \cup {None}]
      /\ row'[x] = new
      /\ \A y \in (Employees \X Days) \ {x} : row'[y] = row[y]
  BY <1>1
<1>3. StaffTypeOK'
  BY <1>2 DEF StaffInv, StaffTypeOK, leaves
<1>4. DecidedWasRequested' /\ DecidedDatesStand'
  BY DEF StaffInv, DecidedWasRequested, DecidedDatesStand, leaves
<1>5. PendingIsUnreviewed'
  BY <1>2 DEF StaffInv, PendingIsUnreviewed, PendingOverride
<1>6. Stands
  <2> SUFFICES ASSUME NEW y \in Employees \X Days, row[y] # None, row[y].reviewedBy # None
               PROVE  row'[y] # None /\ row'[y] = [row[y] EXCEPT !.out = row'[y].out]
    BY DEF Stands
  <2>1. CASE y = x
    BY <1>2, <2>1, NoneIsNoRow
  <2>2. CASE y # x
    <3>1. row[y] \in Attendance /\ row'[y] = row[y]
      BY <1>1, <1>2, <2>2
    <3>2. row[y] = [row[y] EXCEPT !.out = row[y].out]
      BY <3>1 DEF Attendance
    <3> QED BY <3>1, <3>2
  <2> QED BY <2>1, <2>2
<1> QED BY <1>3, <1>4, <1>5, <1>6 DEF StaffInv

LEMMA CheckInInv ==
  ASSUME StaffInv, NEW e \in Employees, NEW office \in BOOLEAN, NEW override \in BOOLEAN,
         CheckIn(e, office, override)
  PROVE  StaffInv' /\ Stands
<1> DEFINE new == CheckedIn(override)
<1>1. /\ row[<<e, today>>] = None /\ row' = [row EXCEPT ![<<e, today>>] = new]
      /\ UNCHANGED <<leaves, expense, today>>
  BY DEF CheckIn, InsertRow
<1>2. <<e, today>> \in Employees \X Days
  BY DEF StaffInv, StaffTypeOK
<1>3. new \in Attendance /\ new.reviewedBy = None
  BY DEF CheckedIn, Attendance
<1> HIDE DEF new
<1> QED BY <1>1, <1>2, <1>3, RowStepInv

LEMMA CheckOutInv ==
  ASSUME StaffInv, NEW e \in Employees, CheckOut(e)
  PROVE  StaffInv' /\ Stands
<1> DEFINE x == <<e, today>>
<1> DEFINE new == [row[x] EXCEPT !.out = TRUE]
<1>1. x \in Employees \X Days
  BY DEF StaffInv, StaffTypeOK
<1>2. /\ row[x] # None /\ row' = [row EXCEPT ![x] = new]
      /\ UNCHANGED <<leaves, expense, today>>
  BY DEF CheckOut
<1>3. row[x] \in Attendance
  BY <1>1, <1>2, RowTyped DEF StaffInv
<1>4. /\ new \in Attendance /\ new = [row[x] EXCEPT !.out = new.out]
      /\ new.override = row[x].override /\ new.reviewedBy = row[x].reviewedBy
  BY <1>3 DEF Attendance
<1>5. new.override = "pending" => new.reviewedBy = None
  BY <1>1, <1>2, <1>4 DEF StaffInv, PendingIsUnreviewed, PendingOverride
<1> HIDE DEF new, x
<1> QED BY <1>1, <1>2, <1>4, <1>5, RowStepInv

LEMMA ResolveOverrideInv ==
  ASSUME StaffInv, NEW x \in Employees \X Days, NEW m \in Managers,
         NEW v \in {"approved", "rejected"}, ResolveOverride(x, m, v)
  PROVE  StaffInv' /\ Stands
<1> DEFINE s == IF v = "rejected" THEN "absent" ELSE "off_site"
<1> DEFINE new == [row[x] EXCEPT !.override = v, !.reviewedBy = m, !.status = s]
<1>1. PendingOverride(x) /\ UNCHANGED <<leaves, expense, today>>
  BY DEF ResolveOverride
<1>2. row[x] \in Attendance /\ row[x].reviewedBy = None
  BY <1>1, RowTyped DEF StaffInv, PendingIsUnreviewed, PendingOverride
<1>3. row' = [row EXCEPT ![x] = new]
  BY DEF ResolveOverride, StaffInv, StaffTypeOK
<1>4. new \in Attendance /\ new.override = v
  BY <1>2 DEF Attendance
<1>5. new.override # "pending"
  BY <1>4
<1> HIDE DEF new
<1> QED BY <1>1, <1>2, <1>3, <1>4, <1>5, RowStepInv

-----------------------------------------------------------------------------
\* A step that leaves the attendances alone changes no review.
LEMMA UnchangedStands ==
  ASSUME StaffTypeOK, UNCHANGED row
  PROVE  Stands
<1> SUFFICES ASSUME NEW x \in Employees \X Days, row[x] # None
             PROVE  row[x] = [row[x] EXCEPT !.out = row[x].out]
  BY DEF Stands
<1>1. row[x] \in Attendance
  BY RowTyped
<1> QED BY <1>1 DEF Attendance

\* Time, expenses and stuttering leave the rows as they are.
LEMMA OtherStepInv ==
  ASSUME StaffInv, UNCHANGED <<leave, row, decided>>, today' \in Days,
         expense' \in [Expenses -> Employees \cup {None}]
  PROVE  StaffInv'
BY DEF StaffInv, StaffTypeOK, DecidedWasRequested, DecidedDatesStand, PendingIsUnreviewed,
       PendingOverride

LEMMA StepInv ==
  ASSUME StaffInv, [Next]_vars
  PROVE  StaffInv' /\ Stands
<1> USE DEF StaffInv
<1>1. CASE \E l \in Leaves, start, end \in Days : Request(l, start, end)
  BY <1>1, RequestInv, UnchangedStands DEF Request
<1>2. CASE \E l \in Leaves, e \in Employees, start, end \in Days \cup {None} :
              EditLeave(l, e, start, end) \/ Cancel(l, e) \/ AdminEdit(l, start, end)
  <2> PICK l \in Leaves, e \in Employees, start \in Days \cup {None},
           end \in Days \cup {None} :
              EditLeave(l, e, start, end) \/ Cancel(l, e) \/ AdminEdit(l, start, end)
    BY <1>2
  <2>1. StaffInv'
    BY EditLeaveInv, CancelInv, AdminEditInv
  <2>2. UNCHANGED row
    BY DEF EditLeave, Cancel, AdminEdit
  <2> QED BY <2>1, <2>2, UnchangedStands
<1>3. CASE \E l \in Leaves, m \in Managers, v \in {"approved", "rejected"} : ProcessLeave(l, m, v)
  BY <1>3, ProcessLeaveInv, UnchangedStands DEF ProcessLeave
<1>4. CASE \E e \in Employees, office, override \in BOOLEAN : CheckIn(e, office, override)
  BY <1>4, CheckInInv
<1>5. CASE \E e \in Employees : CheckOut(e)
  BY <1>5, CheckOutInv
<1>6. CASE \E e \in Employees : \E x \in Expenses : LogExpense(x, e)
  <2>1. UNCHANGED <<leave, row, decided>> /\ today' \in Days
    BY <1>6 DEF LogExpense, leaves, StaffTypeOK
  <2>2. expense' \in [Expenses -> Employees \cup {None}]
    BY <1>6 DEF LogExpense, InsertExpense, StaffTypeOK
  <2> QED BY <2>1, <2>2, OtherStepInv, UnchangedStands
<1>7. CASE \E x \in Employees \X Days, m \in Managers, v \in {"approved", "rejected"} :
              ResolveOverride(x, m, v)
  BY <1>7, ResolveOverrideInv
<1>8. CASE Midnight
  <2>1. today' \in Days
    BY <1>8, StaffAssumption DEF Midnight, Days, StaffTypeOK
  <2>2. UNCHANGED <<leave, row, decided, expense>>
    BY <1>8 DEF Midnight, leaves
  <2> QED BY <2>1, <2>2, OtherStepInv, UnchangedStands DEF StaffTypeOK
<1>9. CASE UNCHANGED vars
  BY <1>9, OtherStepInv, UnchangedStands DEF vars, StaffTypeOK
<1> QED BY <1>1, <1>2, <1>3, <1>4, <1>5, <1>6, <1>7, <1>8, <1>9 DEF Next

LEMMA Invariance == Spec => []StaffInv
<1>1. StaffInv /\ [Next]_vars => StaffInv'
  BY StepInv
<1> QED BY InitInv, <1>1, PTL DEF Spec

\* The types of the tables, for any staff.
THEOREM StaffTypeCorrect == Spec => []StaffTypeOK
<1>1. StaffInv => StaffTypeOK
  BY DEF StaffInv
<1> QED BY Invariance, <1>1, PTL

\* A decided leave keeps the dates it was decided on, except for a manager's edits.
THEOREM DecisionsStand == Spec => []DecidedDatesStand
<1>1. StaffInv => DecidedDatesStand
  BY DEF StaffInv
<1> QED BY Invariance, <1>1, PTL

\* No step undoes what a manager made of an override.
THEOREM ReviewsStand == Spec => ReviewStands
<1>1. StaffInv /\ [Next]_vars =>
        [\A x \in Employees \X Days :
            row[x] # None /\ row[x].reviewedBy # None =>
                /\ row'[x] # None
                /\ row'[x] = [row[x] EXCEPT !.out = row'[x].out]]_vars
  BY StepInv DEF Stands
<1> QED BY Invariance, <1>1, PTL DEF Spec, ReviewStands

-----------------------------------------------------------------------------
(***************************************************************************)
(* The workspace.  What the rows and the bucket have in common: an object  *)
(* is stored before anything names it, and none is removed.                *)
(***************************************************************************)
StoredFirst ==
  /\ docs \cup upload \subseteq objects
  /\ \A q \in Quotations : pdf[q] = "stored" \/ create[q] = "link" => q \in objects

(* How far an answer has come, for the quotations, the documents, the      *)
(* order, and what hangs on the order.                                     *)
QuotesRead(r) ==
  /\ answer[r].quotes \subseteq ListByLead(answer[r].ghost)
  /\ seen[r].quotes \subseteq ListByLead(answer[r].ghost)
  /\ "quotes" \in answer[r].read => seen[r].quotes \subseteq answer[r].quotes

DocsRead(r) ==
  /\ answer[r].docs \subseteq docs
  /\ seen[r].docs \subseteq docs
  /\ "docs" \in answer[r].read => seen[r].docs \subseteq answer[r].docs \/ "docs" \in answer[r].cut

OrderRead(r) ==
  /\ at[r] = "order" => seen[r].order <= GetOrderByLeadID(answer[r].ghost)
  /\ at[r] # "order" => seen[r].order <= answer[r].order
  /\ answer[r].order # 0 => answer[r].order \in VisibleOrders(answer[r].ghost)

GotPOs(r) ==
  \A x \in seen[r].parts :
    x[1] = "po" /\ x[2] = answer[r].order => x \in answer[r].parts \/ "po" \in answer[r].cut

GotJob(r) ==
  (\E x \in seen[r].parts : x[1] = "job" /\ x[2] = answer[r].order) =>
    \E y \in answer[r].parts : y[1] = "job"

GotUpdates(r) ==
  \A x \in seen[r].parts :
    x[1] = "update" /\ x[2] = answer[r].order /\ OfItsJob(x, answer[r].parts) =>
      x \in answer[r].parts

OneJob(r) ==
  /\ \A x \in answer[r].parts : x[2] = answer[r].order
  /\ \A x, y \in answer[r].parts : x[1] = "job" /\ y[1] = "job" => x = y
  /\ \A x \in answer[r].parts : x[1] = "update" => OfItsJob(x, answer[r].parts)

PartsRead(r) ==
  /\ answer[r].parts \subseteq parts
  /\ seen[r].parts \subseteq parts
  /\ at[r] \in {"order", "po"} => answer[r].parts = {}
  /\ at[r] = "job" => \A x \in answer[r].parts : x[1] = "po"
  /\ at[r] = "update" => \A x \in answer[r].parts : x[1] \in {"po", "job"}
  /\ OneJob(r)
  /\ at[r] \in {"job", "update", "end"} => GotPOs(r)
  /\ at[r] \in {"update", "end"} => GotJob(r)
  /\ at[r] = "end" => GotUpdates(r)

AnswerInv(r) == QuotesRead(r) /\ DocsRead(r) /\ OrderRead(r) /\ PartsRead(r)

WorkspaceInv ==
  /\ WorkspaceTypeOK
  /\ StoredFirst
  /\ \A r \in Readers : AnswerInv(r)

-----------------------------------------------------------------------------
(* A set of numbers up to n has a largest: the sets of those above each of *)
(* its elements are ordered by inclusion, and that order is well-founded.  *)
LEMMA HasLargest ==
  ASSUME NEW n \in Nat, NEW S \in SUBSET (0 .. n), S # {}
  PROVE  \E o \in S : \A p \in S : p <= o
<1> DEFINE Above(o) == {p \in S : o < p}
           T == {Above(o) : o \in S}
           Less == StrictSubsetOrdering(S)
<1>1. IsFiniteSet(S)
  <2>1. IsFiniteSet(0 .. n)
    BY FS_Interval
  <2>2. QED
    BY <2>1, FS_Subset
<1>2. T \subseteq FiniteSubsetsOf(S) /\ T # {}
  <2>1. \A o \in S : Above(o) \in FiniteSubsetsOf(S)
    <3>1. \A o \in S : Above(o) \in SUBSET S
      OBVIOUS
    <3> HIDE DEF Above
    <3>2. QED
      BY <1>1, <3>1, FS_Subset DEF FiniteSubsetsOf
  <2> HIDE DEF Above
  <2>2. QED
    BY <2>1
<1>3. IsWellFoundedOn(Less, FiniteSubsetsOf(S))
  BY FS_StrictSubsetOrderingWellFounded
<1>4. \A x, y \in SUBSET S : x \subseteq y /\ x # y => <<x, y>> \in Less
  BY DEF StrictSubsetOrdering
<1> HIDE DEF Less
<1>5. \E x \in T : \A y \in T : ~(<<y, x>> \in Less)
  <2> HIDE DEF T
  <2>1. QED
    BY <1>2, <1>3, WFMin
<1>6. PICK o \in S : \A p \in S : ~(<<Above(p), Above(o)>> \in Less)
  BY <1>5
<1>7. ASSUME NEW p \in S, o < p
      PROVE  FALSE
  <2>1. Above(p) \subseteq Above(o) /\ p \in Above(o) /\ p \notin Above(p)
    <3>1. \A q \in S : q \in Nat
      OBVIOUS
    <3>2. p \in Above(o) /\ p \notin Above(p)
      BY <1>7, <3>1
    <3>3. \A q \in S : p < q => o < q
      BY <1>7, <3>1
    <3>4. Above(p) \subseteq Above(o)
      BY <3>3
    <3>5. QED
      BY <3>2, <3>4
  <2>2. QED
    BY <1>4, <1>6, <2>1
<1>8. QED
  BY <1>7

(* ORDER BY created_at DESC LIMIT 1 answers the newest row, or none. *)
LEMMA NewestIs ==
  ASSUME NEW n \in Nat, NEW S \in SUBSET (1 .. n)
  PROVE  Newest(S) \in S \cup {0} /\ \A p \in S : p <= Newest(S)
<1>1. \E o \in S \cup {0} : \A p \in S : p <= o
  <2>1. CASE S = {}
    BY <2>1
  <2>2. CASE S # {}
    <3>1. S \in SUBSET (0 .. n)
      OBVIOUS
    <3>2. QED
      BY <2>2, <3>1, HasLargest
  <2>3. QED
    BY <2>1, <2>2
<1>2. QED
  BY <1>1 DEF Newest

LEMMA OrdersAreRows ==
  ASSUME WorkspaceTypeOK
  PROVE  /\ Len(orders) \in Nat /\ DOMAIN orders = 1 .. Len(orders)
         /\ orders \in [1 .. Len(orders) -> Quotations]
         /\ DOMAIN orders \subseteq Ids
<1>1. /\ Len(orders) \in Nat /\ DOMAIN orders = 1 .. Len(orders)
      /\ orders \in [1 .. Len(orders) -> Quotations]
  BY LenProperties DEF WorkspaceTypeOK
<1>2. QED
  BY <1>1, WorkspaceAssumption DEF WorkspaceTypeOK, Ids

LEMMA OrderIsNewest ==
  ASSUME WorkspaceTypeOK, NEW ghost \in BOOLEAN
  PROVE  /\ GetOrderByLeadID(ghost) \in VisibleOrders(ghost) \cup {0}
         /\ GetOrderByLeadID(ghost) \in 0 .. MaxOrders
         /\ \A o \in VisibleOrders(ghost) : o <= GetOrderByLeadID(ghost)
<1>1. Len(orders) \in Nat /\ DOMAIN orders = 1 .. Len(orders) /\ DOMAIN orders \subseteq Ids
  BY OrdersAreRows
<1>2. VisibleOrders(ghost) \in SUBSET (1 .. Len(orders))
  BY <1>1 DEF VisibleOrders
<1>3. /\ GetOrderByLeadID(ghost) \in VisibleOrders(ghost) \cup {0}
      /\ \A o \in VisibleOrders(ghost) : o <= GetOrderByLeadID(ghost)
  BY <1>1, <1>2, NewestIs DEF GetOrderByLeadID
<1>4. QED
  BY <1>1, <1>2, <1>3, WorkspaceAssumption DEF Ids

-----------------------------------------------------------------------------
(* The steps of the other requests only add: quotations, orders, documents *)
(* and parts, never take one away, and no answer is touched.               *)
Writes ==
  \/ \E q \in Quotations : QuotationRequest(q) \/ NewOrder(q)
  \/ \E d \in Docs : UploadProjectDocument(d)
  \/ \E o \in DOMAIN orders, n \in 1..MaxRows :
       CreatePurchaseOrder(o, n) \/ CreateInstallation(o, n) \/ BulkInsertUpdates(o, n)

Grows ==
  /\ quotes \subseteq quotes' /\ docs \subseteq docs'
  /\ parts \subseteq parts' /\ objects \subseteq objects'
  /\ Len(orders) <= Len(orders')
  /\ \A o \in DOMAIN orders : o \in DOMAIN orders' /\ orders'[o] = orders[o]

RowsTyped ==
  /\ quotes \subseteq Quotations
  /\ pdf \in [Quotations -> {"none", "custom", "stored"}]
  /\ create \in [Quotations -> {"idle", "render", "link"}]
  /\ objects \subseteq Quotations \cup Docs
  /\ docs \subseteq Docs /\ upload \subseteq Docs
  /\ orders \in Seq(Quotations) /\ Len(orders) <= MaxOrders
  /\ parts \subseteq Parts
  /\ faults \in 0 .. MaxFaults

LEMMA FaultTyped ==
  ASSUME WorkspaceTypeOK, UNCHANGED faults \/ Fault
  PROVE  faults' \in 0 .. MaxFaults
<1>1. faults \in 0 .. MaxFaults
  BY DEF WorkspaceTypeOK
<1>2. CASE Fault
  BY <1>1, <1>2, WorkspaceAssumption DEF Fault
<1>3. QED
  BY <1>1, <1>2

LinksTyped ==
  /\ pdf' \in [Quotations -> {"none", "custom", "stored"}]
  /\ create' \in [Quotations -> {"idle", "render", "link"}]
  /\ \A q \in Quotations : pdf'[q] = "stored" \/ create'[q] = "link" => q \in objects'

LEMMA QuotationWrites ==
  ASSUME WorkspaceTypeOK, StoredFirst, NEW q \in Quotations, QuotationRequest(q)
  PROVE  RowsTyped' /\ Grows /\ StoredFirst' /\ UNCHANGED <<reading, parts>>
<1> USE DEF reading
<1>1. UNCHANGED faults \/ Fault
  BY DEF QuotationRequest, CreateQuotation, GenerateAndUploadPDF, UpdatePdfURL, PdfFails
<1>2. UNCHANGED <<reading, parts, orders, docs, upload>>
  BY DEF QuotationRequest, CreateQuotation, GenerateAndUploadPDF, UpdatePdfURL, PdfFails
<1>3. /\ quotes' \subseteq Quotations /\ quotes \subseteq quotes'
      /\ objects' \subseteq Quotations \cup Docs /\ objects \subseteq objects'
  BY DEF QuotationRequest, CreateQuotation, GenerateAndUploadPDF, UpdatePdfURL, PdfFails,
     InsertQuotation, UploadFile, WorkspaceTypeOK
<1>4. LinksTyped
  <2>1. /\ pdf \in [Quotations -> {"none", "custom", "stored"}]
        /\ create \in [Quotations -> {"idle", "render", "link"}]
        /\ \A p \in Quotations : pdf[p] = "stored" \/ create[p] = "link" => p \in objects
    BY DEF WorkspaceTypeOK, StoredFirst
  <2>2. ASSUME NEW ghost \in BOOLEAN, CreateQuotation(q, ghost)
        PROVE  LinksTyped
    BY <2>1, <2>2 DEF CreateQuotation, LinksTyped
  <2>3. CASE GenerateAndUploadPDF(q)
    BY <2>1, <2>3 DEF GenerateAndUploadPDF, UploadFile, LinksTyped
  <2>4. CASE UpdatePdfURL(q)
    BY <2>1, <2>4 DEF UpdatePdfURL, LinksTyped
  <2>5. CASE PdfFails(q)
    BY <2>1, <2>5 DEF PdfFails, LinksTyped
  <2>6. QED
    BY <2>2, <2>3, <2>4, <2>5 DEF QuotationRequest
<1>5. QED
  BY <1>1, <1>2, <1>3, <1>4, FaultTyped
     DEF RowsTyped, Grows, StoredFirst, WorkspaceTypeOK, LinksTyped

LEMMA DocumentWrites ==
  ASSUME WorkspaceTypeOK, StoredFirst, NEW d \in Docs, UploadProjectDocument(d)
  PROVE  RowsTyped' /\ Grows /\ StoredFirst' /\ UNCHANGED <<reading, parts>>
<1> USE DEF reading
<1>1. UNCHANGED faults \/ Fault
  BY DEF UploadProjectDocument, StoreDocument, RecordDocument
<1>2. UNCHANGED <<reading, parts, orders, quotes, pdf, create>>
  BY DEF UploadProjectDocument, StoreDocument, RecordDocument
<1>3. /\ objects' \subseteq Quotations \cup Docs /\ objects \subseteq objects'
      /\ docs' \subseteq Docs /\ upload' \subseteq Docs /\ docs \subseteq docs'
      /\ docs' \cup upload' \subseteq objects'
  BY DEF UploadProjectDocument, StoreDocument, RecordDocument, UploadFile,
     WorkspaceTypeOK, StoredFirst
<1>4. QED
  BY <1>1, <1>2, <1>3, FaultTyped DEF RowsTyped, Grows, StoredFirst, WorkspaceTypeOK

LEMMA OrderWrites ==
  ASSUME WorkspaceTypeOK, StoredFirst, NEW q \in Quotations, NewOrder(q)
  PROVE  RowsTyped' /\ Grows /\ StoredFirst' /\ UNCHANGED <<reading, parts>>
<1>1. UNCHANGED <<written, parts, reading, faults>>
  BY DEF NewOrder
<1>2. orders \in Seq(Quotations) /\ orders' = Append(orders, q) /\ Len(orders) < MaxOrders
  BY DEF NewOrder, WorkspaceTypeOK
<1>3. /\ Len(orders) \in Nat /\ DOMAIN orders = 1 .. Len(orders)
      /\ orders' \in Seq(Quotations) /\ Len(orders') = Len(orders) + 1
      /\ \A o \in 1 .. Len(orders) : orders'[o] = orders[o]
  BY <1>2, AppendProperties, LenProperties
<1>4. DOMAIN orders' = 1 .. Len(orders')
  BY <1>3, LenProperties
<1>5. QED
  BY <1>1, <1>2, <1>3, <1>4, WorkspaceAssumption
     DEF RowsTyped, Grows, StoredFirst, WorkspaceTypeOK, written

LEMMA PartWrites ==
  ASSUME WorkspaceTypeOK, StoredFirst, NEW kind \in {"po", "job", "update"},
         NEW o \in DOMAIN orders, NEW n \in 1 .. MaxRows, NewPart(kind, o, n)
  PROVE  RowsTyped' /\ Grows /\ StoredFirst' /\ UNCHANGED reading
<1>1. /\ UNCHANGED <<written, orders, reading, faults>>
      /\ parts' = parts \cup {<<kind, o, n>>}
  BY DEF NewPart
<1>2. <<kind, o, n>> \in Parts
  BY OrdersAreRows DEF Parts
<1>3. QED
  BY <1>1, <1>2, OrdersAreRows DEF RowsTyped, Grows, StoredFirst, WorkspaceTypeOK, written

LEMMA WritesGrow ==
  ASSUME WorkspaceTypeOK, StoredFirst, Writes
  PROVE  RowsTyped' /\ Grows /\ StoredFirst' /\ UNCHANGED reading
BY QuotationWrites, DocumentWrites, OrderWrites, PartWrites
   DEF Writes, CreatePurchaseOrder, CreateInstallation, BulkInsertUpdates, AnotherOf

(* The board has a stage for every order. *)
LEMMA RowsGiveBoard ==
  /\ RowsTyped => UNION GetPipeline \subseteq
       [order : 0 .. MaxOrders, job : 0 .. MaxRows, stage : Stages]
  /\ RowsTyped' => UNION GetPipeline' \subseteq
       [order : 0 .. MaxOrders, job : 0 .. MaxRows, stage : Stages]
<1>1. \A o, j : Bucket(o, j) \in Stages
  BY DEF Bucket, Stages
<1>2. 0 \in 0 .. MaxOrders /\ 0 \in 0 .. MaxRows
  BY WorkspaceAssumption
<1>3. ASSUME RowsTyped
      PROVE  /\ DOMAIN orders \subseteq 0 .. MaxOrders
             /\ \A o : RowsOf("job", o) \subseteq 0 .. MaxRows
  <2>1. DOMAIN orders \subseteq 0 .. MaxOrders
    BY <1>3, LenProperties, WorkspaceAssumption DEF RowsTyped
  <2>2. \A x \in parts : x[3] \in 1 .. MaxRows
    BY <1>3 DEF RowsTyped, Parts
  <2>3. 1 .. MaxRows \subseteq 0 .. MaxRows
    OBVIOUS
  <2>4. QED
    BY <2>1, <2>2, <2>3 DEF RowsOf
<1>4. ASSUME RowsTyped'
      PROVE  /\ DOMAIN orders' \subseteq 0 .. MaxOrders
             /\ \A o : RowsOf("job", o)' \subseteq 0 .. MaxRows
  <2>1. DOMAIN orders' \subseteq 0 .. MaxOrders
    BY <1>4, LenProperties, WorkspaceAssumption DEF RowsTyped
  <2>2. \A x \in parts' : x[3] \in 1 .. MaxRows
    BY <1>4 DEF RowsTyped, Parts
  <2>3. 1 .. MaxRows \subseteq 0 .. MaxRows
    OBVIOUS
  <2>4. QED
    BY <2>1, <2>2, <2>3 DEF RowsOf
<1>5. UNION GetPipeline \subseteq Cards /\ UNION GetPipeline' \subseteq Cards'
  BY DEF GetPipeline
<1>6. ASSUME RowsTyped
      PROVE  Cards \subseteq [order : 0 .. MaxOrders, job : 0 .. MaxRows, stage : Stages]
  BY <1>1, <1>2, <1>3, <1>6 DEF Cards, Card, LeftJoin
<1>7. ASSUME RowsTyped'
      PROVE  Cards' \subseteq [order : 0 .. MaxOrders, job : 0 .. MaxRows, stage : Stages]
  BY <1>1, <1>2, <1>4, <1>7 DEF Cards, Card, LeftJoin
<1>8. QED
  BY <1>5, <1>6, <1>7

AnswersTyped ==
  /\ at \in [Readers -> {"idle", "order", "po", "job", "update", "end", "failed"}]
  /\ answer \in [Readers -> Answer]
  /\ seen \in [Readers -> Seen]

LEMMA TypesTogether ==
  /\ WorkspaceTypeOK => RowsTyped /\ AnswersTyped
  /\ RowsTyped /\ AnswersTyped => WorkspaceTypeOK
  /\ RowsTyped' /\ AnswersTyped' => WorkspaceTypeOK'
BY RowsGiveBoard DEF WorkspaceTypeOK, RowsTyped, AnswersTyped

-----------------------------------------------------------------------------
(* An answer stays what it is when rows are added. *)
LEMMA GrowthKeepsAnswers ==
  ASSUME WorkspaceTypeOK, WorkspaceTypeOK', Grows, UNCHANGED reading,
         NEW r \in Readers, AnswerInv(r)
  PROVE  AnswerInv(r)'
<1>1. UNCHANGED <<at, answer, seen>>
  BY DEF reading
<1>2. answer[r].ghost \in BOOLEAN /\ seen[r].order \in Nat
  BY DEF WorkspaceTypeOK, Answer, Seen
<1> DEFINE ghost == answer[r].ghost
<1>3. /\ ListByLead(ghost) \subseteq ListByLead(ghost)'
      /\ VisibleOrders(ghost) \subseteq VisibleOrders(ghost)'
  BY <1>1 DEF Grows, ListByLead, VisibleOrders, Visible
<1>4. /\ GetOrderByLeadID(ghost) <= GetOrderByLeadID(ghost)'
      /\ GetOrderByLeadID(ghost) \in Nat /\ GetOrderByLeadID(ghost)' \in Nat
  <2>1. VisibleOrders(ghost)' \in SUBSET (1 .. Len(orders'))
    BY <1>1, LenProperties DEF WorkspaceTypeOK, VisibleOrders
  <2>2. Len(orders') \in Nat
    BY LenProperties DEF WorkspaceTypeOK
  <2>3. /\ GetOrderByLeadID(ghost)' \in VisibleOrders(ghost)' \cup {0}
        /\ \A o \in VisibleOrders(ghost)' : o <= GetOrderByLeadID(ghost)'
    BY <1>1, <2>1, <2>2, NewestIs DEF GetOrderByLeadID
  <2>4. /\ GetOrderByLeadID(ghost) \in VisibleOrders(ghost) \cup {0}
        /\ GetOrderByLeadID(ghost) \in Nat
    BY <1>2, OrderIsNewest
  <2>5. GetOrderByLeadID(ghost)' \in Nat
    BY <2>1, <2>3
  <2> HIDE DEF ghost
  <2>6. QED
    BY <1>3, <2>3, <2>4, <2>5
<1>5. QuotesRead(r)' /\ DocsRead(r)'
  BY <1>1, <1>3 DEF AnswerInv, QuotesRead, DocsRead, Grows
<1>6. OrderRead(r)'
  <2>1. at[r] = "order" => seen[r].order <= GetOrderByLeadID(ghost)'
    BY <1>2, <1>4 DEF AnswerInv, OrderRead
  <2>2. QED
    BY <1>1, <1>3, <2>1 DEF AnswerInv, OrderRead
<1>7. PartsRead(r)'
  BY <1>1 DEF AnswerInv, PartsRead, OneJob, OfItsJob, GotPOs, GotJob, GotUpdates, Grows
<1>8. QED
  BY <1>5, <1>6, <1>7 DEF AnswerInv

-----------------------------------------------------------------------------
(* A reader's step touches its own answer only. *)
Stops == {"idle", "order", "po", "job", "update", "end", "failed"}

OnlyReads(r) ==
  /\ UNCHANGED <<written, orders, parts>>
  /\ faults' \in 0 .. MaxFaults
  /\ AnswersTyped'
  /\ \A p \in Readers : p # r => at'[p] = at[p] /\ answer'[p] = answer[p] /\ seen'[p] = seen[p]

LEMMA RowsAsTheyWere ==
  ASSUME UNCHANGED <<written, orders, parts>>
  PROVE  /\ UNCHANGED <<quotes, pdf, create, objects, docs, upload, orders, parts>>
         /\ \A ghost : /\ ListByLead(ghost)' = ListByLead(ghost)
                       /\ VisibleOrders(ghost)' = VisibleOrders(ghost)
                       /\ GetOrderByLeadID(ghost)' = GetOrderByLeadID(ghost)
BY DEF written, ListByLead, VisibleOrders, GetOrderByLeadID

LEMMA EmptyTyped ==
  ASSUME NEW ghost \in BOOLEAN
  PROVE  /\ Empty(ghost) \in Answer /\ Nothing \in Seen
         /\ Empty(ghost).ghost = ghost /\ Empty(ghost).quotes = {}
         /\ Empty(ghost).docs = {} /\ Empty(ghost).order = 0 /\ Empty(ghost).parts = {}
         /\ Empty(ghost).read = {} /\ Empty(ghost).cut = {}
         /\ Nothing.quotes = {} /\ Nothing.docs = {} /\ Nothing.order = 0
         /\ Nothing.parts = {}
BY WorkspaceAssumption DEF Empty, Nothing, Answer, Seen

LEMMA EmptyIsFine ==
  ASSUME NEW r \in Readers, at'[r] \in {"idle", "failed"},
         answer'[r] = Empty(FALSE), seen'[r] = Nothing
  PROVE  AnswerInv(r)'
<1>1. /\ answer'[r].quotes = {} /\ answer'[r].docs = {} /\ answer'[r].order = 0
      /\ answer'[r].parts = {} /\ answer'[r].read = {}
      /\ seen'[r].quotes = {} /\ seen'[r].docs = {} /\ seen'[r].order = 0
      /\ seen'[r].parts = {}
  BY EmptyTyped
<1>2. QuotesRead(r)' /\ DocsRead(r)'
  BY <1>1 DEF QuotesRead, DocsRead
<1>3. OrderRead(r)'
  <2>1. at'[r] # "order" /\ answer'[r].order = 0 /\ seen'[r].order = 0
    BY <1>1
  <2>2. seen'[r].order <= answer'[r].order
    <3>1. 0 <= 0
      OBVIOUS
    <3>2. QED
      BY <2>1, <3>1, Zenon
  <2>3. QED
    BY <2>1, <2>2 DEF OrderRead
<1>4. PartsRead(r)'
  <2>1. at'[r] \notin {"order", "po", "job", "update", "end"}
    OBVIOUS
  <2>2. QED
    BY <1>1, <2>1 DEF PartsRead, OneJob
<1>5. QED
  BY <1>2, <1>3, <1>4 DEF AnswerInv

LEMMA ArriveKeeps ==
  ASSUME WorkspaceInv, NEW r \in Readers, NEW ghost \in BOOLEAN, Arrive(r, ghost)
  PROVE  OnlyReads(r) /\ AnswerInv(r)'
<1> USE DEF WorkspaceInv
<1> DEFINE s == [quotes |-> ListByLead(ghost), docs |-> docs,
                 order |-> GetOrderByLeadID(ghost),
                 parts |-> {x \in parts : x[2] = GetOrderByLeadID(ghost)}]
<1>1. /\ at' = [at EXCEPT ![r] = "order"]
      /\ answer' = [answer EXCEPT ![r] = Empty(ghost)]
      /\ seen' = [seen EXCEPT ![r] = s]
      /\ UNCHANGED <<written, orders, parts, faults>>
  BY DEF Arrive
<1>2. GetOrderByLeadID(ghost) \in 0 .. MaxOrders
  BY OrderIsNewest
<1>3. /\ s \in Seen /\ s.quotes = ListByLead(ghost) /\ s.docs = docs
      /\ s.order = GetOrderByLeadID(ghost) /\ s.parts \subseteq parts
  BY <1>2 DEF Seen, ListByLead, WorkspaceTypeOK
<1> HIDE DEF s
<1>4. AnswersTyped /\ faults \in 0 .. MaxFaults
  BY DEF WorkspaceTypeOK, AnswersTyped
<1>5. /\ at'[r] = "order" /\ answer'[r] = Empty(ghost) /\ seen'[r] = s
      /\ OnlyReads(r)
  BY <1>1, <1>3, <1>4, EmptyTyped DEF OnlyReads, AnswersTyped
<1>6. QuotesRead(r)' /\ DocsRead(r)'
  BY <1>1, <1>3, <1>5, EmptyTyped, RowsAsTheyWere DEF QuotesRead, DocsRead
<1>7. OrderRead(r)'
  BY <1>1, <1>2, <1>3, <1>5, EmptyTyped, RowsAsTheyWere DEF OrderRead
<1>8. PartsRead(r)'
  BY <1>1, <1>3, <1>5, EmptyTyped, RowsAsTheyWere DEF PartsRead, OneJob
<1>9. QED
  BY <1>5, <1>6, <1>7, <1>8 DEF AnswerInv

LEMMA FailsKeeps ==
  ASSUME WorkspaceInv, NEW r \in Readers, ReadFails(r)
  PROVE  OnlyReads(r) /\ AnswerInv(r)'
<1> USE DEF WorkspaceInv
<1>1. /\ at' = [at EXCEPT ![r] = "failed"]
      /\ answer' = [answer EXCEPT ![r] = Empty(FALSE)]
      /\ seen' = [seen EXCEPT ![r] = Nothing]
      /\ UNCHANGED <<written, orders, parts>> /\ Fault
  BY DEF ReadFails
<1>2. AnswersTyped /\ faults' \in 0 .. MaxFaults
  BY <1>1, FaultTyped DEF WorkspaceTypeOK, AnswersTyped
<1>3. /\ at'[r] = "failed" /\ answer'[r] = Empty(FALSE) /\ seen'[r] = Nothing
      /\ OnlyReads(r)
  BY <1>1, <1>2, EmptyTyped DEF OnlyReads, AnswersTyped
<1>4. QED
  BY <1>3, EmptyIsFine

(* The step of a reader that goes on: what it arrived with stays. *)
LEMMA GoesOnReads ==
  ASSUME WorkspaceInv, NEW r \in Readers, NEW a \in Answer, NEW stop \in Stops,
         answer' = [answer EXCEPT ![r] = a], at' = [at EXCEPT ![r] = stop],
         UNCHANGED <<written, orders, parts, seen>>, UNCHANGED faults \/ Fault
  PROVE  /\ OnlyReads(r)
         /\ answer'[r] = a /\ at'[r] = stop /\ seen'[r] = seen[r]
<1>1. AnswersTyped /\ faults' \in 0 .. MaxFaults
  BY FaultTyped DEF WorkspaceInv, WorkspaceTypeOK, AnswersTyped
<1>2. QED
  BY <1>1 DEF OnlyReads, AnswersTyped, Stops

LEMMA QuotesKeep ==
  ASSUME WorkspaceInv, NEW r \in Readers, ReadQuotes(r)
  PROVE  OnlyReads(r) /\ AnswerInv(r)'
<1> DEFINE old == answer[r]
           new == [old EXCEPT !.quotes = ListByLead(old.ghost),
                              !.read = @ \cup {"quotes"}]
<1>1. old \in Answer /\ at[r] \in Stops /\ AnswerInv(r)
  BY DEF WorkspaceInv, WorkspaceTypeOK, Stops
<1>2. ListByLead(old.ghost) \subseteq Quotations
  BY DEF ListByLead, WorkspaceInv, WorkspaceTypeOK
<1>3. /\ answer' = [answer EXCEPT ![r] = new] /\ at' = [at EXCEPT ![r] = at[r]]
      /\ UNCHANGED <<written, orders, parts, seen, faults>>
  BY DEF ReadQuotes, WorkspaceInv, WorkspaceTypeOK
<1>4. /\ new \in Answer /\ new.quotes = ListByLead(old.ghost)
      /\ new.read = old.read \cup {"quotes"}
      /\ new.ghost = old.ghost /\ new.docs = old.docs /\ new.order = old.order
      /\ new.parts = old.parts /\ new.cut = old.cut
  BY <1>1, <1>2 DEF Answer
<1> HIDE DEF new
<1>5. /\ OnlyReads(r)
      /\ answer'[r] = new /\ at'[r] = at[r] /\ seen'[r] = seen[r]
  BY <1>1, <1>3, <1>4, GoesOnReads
<1>6. QuotesRead(r)' /\ DocsRead(r)'
  BY <1>1, <1>3, <1>4, <1>5, RowsAsTheyWere DEF QuotesRead, DocsRead, AnswerInv
<1>7. OrderRead(r)' /\ PartsRead(r)'
  BY <1>1, <1>3, <1>4, <1>5, RowsAsTheyWere
     DEF OrderRead, PartsRead, OneJob, OfItsJob, GotPOs, GotJob, GotUpdates, AnswerInv
<1>8. QED
  BY <1>5, <1>6, <1>7 DEF AnswerInv

LEMMA DocumentsKeep ==
  ASSUME WorkspaceInv, NEW r \in Readers, ReadDocuments(r)
  PROVE  OnlyReads(r) /\ AnswerInv(r)'
<1> DEFINE old == answer[r]
<1>1. old \in Answer /\ at[r] \in Stops /\ AnswerInv(r) /\ docs \subseteq Docs
  BY DEF WorkspaceInv, WorkspaceTypeOK, Stops
<1>2. PICK S \in SUBSET docs :
        /\ answer' = [answer EXCEPT ![r].docs = S, ![r].read = @ \cup {"docs"},
                                    ![r].cut = IF S = docs THEN @ ELSE @ \cup {"docs"}]
        /\ IF S = docs THEN UNCHANGED faults ELSE Fault
  BY DEF ReadDocuments
<1> DEFINE cut == IF S = docs THEN old.cut ELSE old.cut \cup {"docs"}
           new == [old EXCEPT !.docs = S, !.read = @ \cup {"docs"}, !.cut = cut]
<1>3. answer' = [answer EXCEPT ![r] = new]
  BY <1>2 DEF WorkspaceInv, WorkspaceTypeOK
<1>4. /\ at' = [at EXCEPT ![r] = at[r]] /\ UNCHANGED <<written, orders, parts, seen>>
      /\ UNCHANGED faults \/ Fault
  BY <1>2 DEF ReadDocuments, WorkspaceInv, WorkspaceTypeOK
<1>5. /\ cut \subseteq {"po", "docs"} /\ old.cut \subseteq cut
      /\ S = docs \/ "docs" \in cut
  BY <1>1 DEF Answer
<1> HIDE DEF cut
<1>6. /\ new \in Answer /\ new.docs = S /\ new.cut = cut
      /\ new.read = old.read \cup {"docs"}
      /\ new.ghost = old.ghost /\ new.quotes = old.quotes /\ new.order = old.order
      /\ new.parts = old.parts
  BY <1>1, <1>5 DEF Answer
<1> HIDE DEF new
<1>7. /\ OnlyReads(r)
      /\ answer'[r] = new /\ at'[r] = at[r] /\ seen'[r] = seen[r]
  BY <1>1, <1>3, <1>4, <1>6, GoesOnReads
<1>8. QuotesRead(r)' /\ DocsRead(r)'
  BY <1>1, <1>4, <1>5, <1>6, <1>7, RowsAsTheyWere DEF QuotesRead, DocsRead, AnswerInv
<1>9. OrderRead(r)' /\ PartsRead(r)'
  BY <1>1, <1>4, <1>5, <1>6, <1>7, RowsAsTheyWere
     DEF OrderRead, PartsRead, OneJob, OfItsJob, GotPOs, GotJob, GotUpdates, AnswerInv
<1>10. QED
  BY <1>7, <1>8, <1>9 DEF AnswerInv

LEMMA OrderKeeps ==
  ASSUME WorkspaceInv, NEW r \in Readers, ReadOrder(r)
  PROVE  OnlyReads(r) /\ AnswerInv(r)'
<1> DEFINE old == answer[r]
           o == GetOrderByLeadID(old.ghost)
           new == [old EXCEPT !.order = o]
           stop == IF o = 0 THEN "end" ELSE "po"
<1>1. old \in Answer /\ old.ghost \in BOOLEAN /\ AnswerInv(r)
  BY DEF WorkspaceInv, WorkspaceTypeOK, Answer
<1>2. /\ o \in VisibleOrders(old.ghost) \cup {0} /\ o \in 0 .. MaxOrders
  BY <1>1, OrderIsNewest DEF WorkspaceInv
<1>3. /\ answer' = [answer EXCEPT ![r] = new] /\ at' = [at EXCEPT ![r] = stop]
      /\ UNCHANGED <<written, orders, parts, seen, faults>> /\ at[r] = "order"
  BY DEF ReadOrder, WorkspaceInv, WorkspaceTypeOK
<1>4. stop \in Stops /\ ((stop = "end" /\ o = 0) \/ stop = "po")
  BY DEF Stops
<1>5. /\ seen[r].order <= o /\ old.parts = {}
      /\ \A x \in seen[r].parts : x[2] # 0
  BY <1>1, <1>3 DEF AnswerInv, OrderRead, PartsRead, WorkspaceInv, WorkspaceTypeOK, Parts,
     Ids
<1> HIDE DEF stop, o
<1>6. /\ new \in Answer /\ new.order = o
      /\ new.ghost = old.ghost /\ new.quotes = old.quotes /\ new.docs = old.docs
      /\ new.parts = old.parts /\ new.cut = old.cut /\ new.read = old.read
  BY <1>1, <1>2 DEF Answer
<1> HIDE DEF new
<1>7. /\ OnlyReads(r)
      /\ answer'[r] = new /\ at'[r] = stop /\ seen'[r] = seen[r]
  BY <1>3, <1>4, <1>6, GoesOnReads
<1>8. QuotesRead(r)' /\ DocsRead(r)'
  BY <1>1, <1>3, <1>6, <1>7, RowsAsTheyWere DEF QuotesRead, DocsRead, AnswerInv
<1>9. OrderRead(r)'
  BY <1>2, <1>3, <1>4, <1>5, <1>6, <1>7, RowsAsTheyWere DEF OrderRead
<1>10. PartsRead(r)'
  <2>1. stop = "end" => GotPOs(r)' /\ GotJob(r)' /\ GotUpdates(r)'
    BY <1>4, <1>5, <1>6, <1>7 DEF GotPOs, GotJob, GotUpdates
  <2>2. QED
    BY <1>1, <1>3, <1>4, <1>5, <1>6, <1>7, <2>1, RowsAsTheyWere
       DEF PartsRead, OneJob, AnswerInv
<1>11. QED
  BY <1>7, <1>8, <1>9, <1>10 DEF AnswerInv

LEMMA POsKeep ==
  ASSUME WorkspaceInv, NEW r \in Readers, ReadPOs(r)
  PROVE  OnlyReads(r) /\ AnswerInv(r)'
<1> DEFINE old == answer[r]
           all == PartsOf(r, "po")
<1>1. /\ old \in Answer /\ AnswerInv(r) /\ at[r] = "po" /\ parts \subseteq Parts
      /\ answer \in [Readers -> Answer]
  BY DEF WorkspaceInv, WorkspaceTypeOK, ReadPOs
<1>2. \A x \in all : x \in parts /\ x[1] = "po" /\ x[2] = old.order
  BY DEF PartsOf
<1> HIDE DEF all
<1>3. PICK S \in SUBSET all :
        /\ answer' = [answer EXCEPT ![r].parts = S,
                        ![r].cut = IF S = all THEN @ ELSE @ \cup {"po"}]
        /\ IF S = all THEN UNCHANGED faults ELSE Fault
  BY DEF ReadPOs, all
<1> DEFINE cut == IF S = all THEN old.cut ELSE old.cut \cup {"po"}
           new == [old EXCEPT !.parts = S, !.cut = cut]
<1>4. answer' = [answer EXCEPT ![r] = new]
  BY <1>1, <1>3
<1>5. /\ at' = [at EXCEPT ![r] = "job"] /\ UNCHANGED <<written, orders, parts, seen>>
      /\ UNCHANGED faults \/ Fault
  BY <1>3 DEF ReadPOs
<1>6. /\ cut \subseteq {"po", "docs"} /\ old.cut \subseteq cut
      /\ S = all \/ "po" \in cut
      /\ "docs" \in old.cut => "docs" \in cut
  BY <1>1 DEF Answer
<1> HIDE DEF cut
<1>7. /\ new \in Answer /\ new.parts = S /\ new.cut = cut
      /\ new.ghost = old.ghost /\ new.quotes = old.quotes /\ new.docs = old.docs
      /\ new.order = old.order /\ new.read = old.read
  <2>1. S \subseteq Parts
    BY <1>1, <1>2
  <2>2. QED
    BY <1>1, <1>6, <2>1 DEF Answer
<1> HIDE DEF new
<1>8. /\ OnlyReads(r)
      /\ answer'[r] = new /\ at'[r] = "job" /\ seen'[r] = seen[r]
  BY <1>4, <1>5, <1>7, GoesOnReads DEF Stops
<1>9. QuotesRead(r)' /\ DocsRead(r)' /\ OrderRead(r)'
  BY <1>1, <1>5, <1>6, <1>7, <1>8, RowsAsTheyWere
     DEF QuotesRead, DocsRead, OrderRead, AnswerInv
<1>10. PartsRead(r)'
  <2>1. \A x \in S : x \in parts /\ x[1] = "po" /\ x[2] = old.order
    BY <1>2
  <2>2. \A x \in seen[r].parts : x[1] = "po" /\ x[2] = old.order => x \in all
    BY <1>1 DEF AnswerInv, PartsRead, PartsOf, all
  <2>3. GotPOs(r)'
    BY <1>6, <1>7, <1>8, <2>2 DEF GotPOs
  <2>4. OneJob(r)'
    BY <1>7, <1>8, <2>1 DEF OneJob
  <2>5. /\ answer'[r].parts \subseteq parts' /\ seen'[r].parts \subseteq parts'
        /\ \A x \in answer'[r].parts : x[1] = "po"
    BY <1>1, <1>5, <1>7, <1>8, <2>1 DEF AnswerInv, PartsRead
  <2>6. QED
    BY <1>8, <2>3, <2>4, <2>5 DEF PartsRead
<1>11. QED
  BY <1>8, <1>9, <1>10 DEF AnswerInv

(* A statement that adds rows of the order that was read to an answer.     *)
With(a, X) == [a EXCEPT !.parts = @ \cup X]

Adds(r, X, stop) ==
  /\ X \subseteq parts /\ \A x \in X : x[2] = answer[r].order
  /\ at[r] \in {"job", "update"} /\ stop \in {"update", "end"}
  /\ answer' = [answer EXCEPT ![r] = With(answer[r], X)]
  /\ at' = [at EXCEPT ![r] = stop]
  /\ UNCHANGED <<written, orders, parts, seen, faults>>

Added(r, X, stop) ==
  /\ OnlyReads(r)
  /\ QuotesRead(r)' /\ DocsRead(r)' /\ OrderRead(r)' /\ GotPOs(r)'
  /\ answer'[r].parts = answer[r].parts \cup X /\ answer'[r].order = answer[r].order
  /\ answer'[r].parts \subseteq parts' /\ seen'[r].parts \subseteq parts'
  /\ \A x \in answer'[r].parts : x[2] = answer'[r].order
  /\ at'[r] = stop /\ seen'[r] = seen[r]

LEMMA AddingKeeps ==
  ASSUME WorkspaceInv, NEW r \in Readers, NEW X, NEW stop, Adds(r, X, stop)
  PROVE  Added(r, X, stop)
<1> DEFINE old == answer[r]
           new == With(old, X)
<1>1. old \in Answer /\ AnswerInv(r) /\ parts \subseteq Parts
  BY DEF WorkspaceInv, WorkspaceTypeOK
<1>2. /\ answer' = [answer EXCEPT ![r] = new] /\ at' = [at EXCEPT ![r] = stop]
      /\ X \subseteq parts /\ \A x \in X : x[2] = old.order
      /\ at[r] \in {"job", "update"} /\ stop \in {"update", "end"}
      /\ UNCHANGED <<written, orders, parts, seen, faults>>
  BY DEF Adds
<1>3. /\ new \in Answer /\ new.parts = old.parts \cup X /\ new.cut = old.cut
      /\ new.ghost = old.ghost /\ new.quotes = old.quotes /\ new.docs = old.docs
      /\ new.order = old.order /\ new.read = old.read
  BY <1>1, <1>2 DEF Answer, With
<1> HIDE DEF new
<1>4. /\ OnlyReads(r)
      /\ answer'[r] = new /\ at'[r] = stop /\ seen'[r] = seen[r]
  BY <1>2, <1>3, GoesOnReads DEF Stops
<1>5. QuotesRead(r)' /\ DocsRead(r)' /\ OrderRead(r)'
  BY <1>1, <1>2, <1>3, <1>4, RowsAsTheyWere DEF QuotesRead, DocsRead, OrderRead, AnswerInv
<1>6. /\ answer'[r].parts \subseteq parts' /\ seen'[r].parts \subseteq parts'
      /\ \A x \in answer'[r].parts : x[2] = answer'[r].order
  BY <1>1, <1>2, <1>3, <1>4 DEF AnswerInv, PartsRead, OneJob
<1>7. GotPOs(r)'
  BY <1>1, <1>2, <1>3, <1>4 DEF AnswerInv, PartsRead, GotPOs
<1>8. QED
  BY <1>3, <1>4, <1>5, <1>6, <1>7 DEF Added

LEMMA JobKeeps ==
  ASSUME WorkspaceInv, NEW r \in Readers, ReadJob(r)
  PROVE  OnlyReads(r) /\ AnswerInv(r)'
<1>1. /\ at[r] = "job" /\ AnswerInv(r) /\ seen[r].parts \subseteq parts
      /\ UNCHANGED <<written, orders, parts, seen, faults>>
      /\ \A x \in answer[r].parts : x[1] = "po"
  BY DEF ReadJob, WorkspaceInv, AnswerInv, PartsRead
<1>2. \A x \in PartsOf(r, "job") : x \in parts /\ x[1] = "job" /\ x[2] = answer[r].order
  BY DEF PartsOf
<1>3. CASE /\ PartsOf(r, "job") = {}
           /\ at' = [at EXCEPT ![r] = "end"] /\ UNCHANGED answer
  <2>1. answer' = [answer EXCEPT ![r] = With(answer[r], {})]
    BY <1>3 DEF WorkspaceInv, WorkspaceTypeOK, Answer, With
  <2>2. Adds(r, {}, "end")
    BY <1>1, <1>3, <2>1 DEF Adds
  <2>3. Added(r, {}, "end")
    BY <2>2, AddingKeeps
  <2>4. \A x \in seen[r].parts : ~(x[1] = "job" /\ x[2] = answer[r].order)
    BY <1>1, <1>3 DEF PartsOf
  <2>5. \A x : ~OfItsJob(x, answer[r].parts)
    BY <1>1 DEF OfItsJob
  <2>6. GotJob(r)' /\ GotUpdates(r)' /\ OneJob(r)'
    BY <1>1, <2>3, <2>4, <2>5 DEF Added, GotJob, GotUpdates, OneJob, OfItsJob
  <2>7. QED
    BY <2>3, <2>6 DEF Added, AnswerInv, PartsRead
<1>4. ASSUME NEW j \in PartsOf(r, "job"), at' = [at EXCEPT ![r] = "update"],
             answer' = [answer EXCEPT ![r].parts = @ \cup {j}]
      PROVE  OnlyReads(r) /\ AnswerInv(r)'
  <2>1. answer' = [answer EXCEPT ![r] = With(answer[r], {j})]
    BY <1>4 DEF WorkspaceInv, WorkspaceTypeOK, With
  <2>2. Adds(r, {j}, "update")
    BY <1>1, <1>2, <1>4, <2>1 DEF Adds
  <2>3. Added(r, {j}, "update")
    BY <2>2, AddingKeeps
  <2>4. GotJob(r)' /\ \A x \in answer'[r].parts : x[1] \in {"po", "job"}
    BY <1>1, <1>2, <2>3 DEF Added, GotJob
  <2>5. OneJob(r)'
    BY <1>1, <1>2, <2>3, <2>4 DEF Added, OneJob
  <2>6. QED
    BY <2>3, <2>4, <2>5 DEF Added, AnswerInv, PartsRead
<1>5. QED
  BY <1>3, <1>4 DEF ReadJob

LEMMA UpdatesKeep ==
  ASSUME WorkspaceInv, NEW r \in Readers, ReadUpdates(r)
  PROVE  OnlyReads(r) /\ AnswerInv(r)'
<1> DEFINE X == {x \in PartsOf(r, "update") : OfItsJob(x, answer[r].parts)}
<1>1. /\ at[r] = "update" /\ AnswerInv(r) /\ seen[r].parts \subseteq parts
      /\ UNCHANGED <<written, orders, parts, seen, faults>>
      /\ at' = [at EXCEPT ![r] = "end"]
      /\ answer' = [answer EXCEPT ![r] = With(answer[r], X)]
      /\ X \in SUBSET parts /\ \A x \in X : x[2] = answer[r].order
  BY DEF ReadUpdates, WorkspaceInv, WorkspaceTypeOK, AnswerInv, PartsRead, PartsOf, With
<1>2. /\ \A x \in X : x[1] = "update" /\ OfItsJob(x, answer[r].parts)
      /\ \A x \in parts : /\ x[1] = "update" /\ x[2] = answer[r].order
                          /\ OfItsJob(x, answer[r].parts)
                          => x \in X
  BY DEF PartsOf
<1> HIDE DEF X
<1>3. Adds(r, X, "end")
  BY <1>1 DEF Adds
<1>4. Added(r, X, "end")
  BY <1>3, AddingKeeps
<1>5. \A x : OfItsJob(x, answer'[r].parts) = OfItsJob(x, answer[r].parts)
  <2>1. \A a, b : <<"job", a, b>> \notin X
    BY <1>2
  <2>2. QED
    BY <1>4, <2>1 DEF Added, OfItsJob
<1>6. GotJob(r)'
  BY <1>1, <1>4 DEF Added, AnswerInv, PartsRead, GotJob
<1>7. GotUpdates(r)'
  BY <1>1, <1>2, <1>4, <1>5 DEF Added, GotUpdates
<1>8. OneJob(r)'
  BY <1>1, <1>2, <1>4, <1>5 DEF Added, AnswerInv, PartsRead, OneJob
<1>9. QED
  BY <1>4, <1>6, <1>7, <1>8 DEF Added, AnswerInv, PartsRead

-----------------------------------------------------------------------------
LEMMA ReadsKeep ==
  ASSUME WorkspaceInv, NEW r \in Readers, Read(r)
  PROVE  WorkspaceInv'
<1>1. OnlyReads(r) /\ AnswerInv(r)'
  BY ArriveKeeps, FailsKeeps, QuotesKeep, DocumentsKeep, OrderKeeps, POsKeep, JobKeeps,
     UpdatesKeep DEF Read
<1>2. /\ UNCHANGED <<quotes, pdf, create, objects, docs, upload, orders, parts>>
      /\ \A ghost : /\ ListByLead(ghost)' = ListByLead(ghost)
                    /\ VisibleOrders(ghost)' = VisibleOrders(ghost)
                    /\ GetOrderByLeadID(ghost)' = GetOrderByLeadID(ghost)
  BY <1>1, RowsAsTheyWere DEF OnlyReads
<1>3. RowsTyped'
  BY <1>1, <1>2 DEF OnlyReads, RowsTyped, WorkspaceInv, WorkspaceTypeOK
<1>4. WorkspaceTypeOK' /\ StoredFirst'
  BY <1>1, <1>2, <1>3, TypesTogether
     DEF OnlyReads, WorkspaceInv, StoredFirst
<1>5. ASSUME NEW p \in Readers, p # r
      PROVE  AnswerInv(p)'
  <2>1. /\ at'[p] = at[p] /\ answer'[p] = answer[p] /\ seen'[p] = seen[p] /\ AnswerInv(p)
    BY <1>1, <1>5 DEF OnlyReads, WorkspaceInv
  <2>2. QuotesRead(p)' /\ DocsRead(p)' /\ OrderRead(p)'
    BY <1>2, <2>1 DEF AnswerInv, QuotesRead, DocsRead, OrderRead
  <2>3. PartsRead(p)'
    BY <1>2, <2>1
       DEF AnswerInv, PartsRead, OneJob, OfItsJob, GotPOs, GotJob, GotUpdates
  <2>4. QED
    BY <2>2, <2>3 DEF AnswerInv
<1>6. QED
  BY <1>1, <1>4, <1>5 DEF WorkspaceInv

LEMMA WritesKeep ==
  ASSUME WorkspaceInv, Writes
  PROVE  WorkspaceInv'
<1>1. /\ RowsTyped' /\ Grows /\ StoredFirst'
      /\ UNCHANGED reading
  BY WritesGrow DEF WorkspaceInv
<1>2. AnswersTyped'
  BY <1>1 DEF WorkspaceInv, WorkspaceTypeOK, AnswersTyped, reading
<1>3. WorkspaceTypeOK'
  BY <1>1, <1>2, TypesTogether
<1>4. \A r \in Readers : AnswerInv(r)'
  BY <1>1, <1>3, GrowthKeepsAnswers DEF WorkspaceInv
<1>5. QED
  BY <1>1, <1>3, <1>4 DEF WorkspaceInv

LEMMA StutterKeeps ==
  ASSUME WorkspaceInv, UNCHANGED workspaceVars
  PROVE  WorkspaceInv'
<1>1. UNCHANGED reading /\ UNCHANGED <<written, orders, parts, faults>>
  BY DEF workspaceVars
<1>2. Grows /\ RowsTyped' /\ AnswersTyped' /\ StoredFirst'
  BY <1>1, OrdersAreRows DEF Grows, RowsTyped, AnswersTyped, StoredFirst,
     WorkspaceInv, WorkspaceTypeOK, written, reading
<1>3. WorkspaceTypeOK'
  BY <1>2, TypesTogether
<1>4. \A r \in Readers : AnswerInv(r)'
  BY <1>1, <1>2, <1>3, GrowthKeepsAnswers DEF WorkspaceInv
<1>5. QED
  BY <1>2, <1>3, <1>4 DEF WorkspaceInv

LEMMA WorkspaceInitInv == WorkspaceInit => WorkspaceInv
<1> SUFFICES ASSUME WorkspaceInit PROVE WorkspaceInv
  OBVIOUS
<1>1. orders \in Seq(Quotations) /\ Len(orders) = 0 /\ 0 \in 0 .. MaxFaults
      /\ 0 <= MaxOrders
  BY EmptySeq, WorkspaceAssumption DEF WorkspaceInit
<1>2. RowsTyped
  BY <1>1 DEF WorkspaceInit, RowsTyped
<1>3. AnswersTyped
  BY EmptyTyped DEF WorkspaceInit, AnswersTyped
<1>4. WorkspaceTypeOK
  BY <1>2, <1>3, TypesTogether
<1>5. StoredFirst
  BY DEF WorkspaceInit, StoredFirst
<1>6. ASSUME NEW r \in Readers
      PROVE  AnswerInv(r)
  <2>1. /\ at[r] = "idle"
        /\ answer[r].quotes = {} /\ answer[r].docs = {} /\ answer[r].order = 0
        /\ answer[r].parts = {} /\ answer[r].read = {}
        /\ seen[r].quotes = {} /\ seen[r].docs = {} /\ seen[r].order = 0
        /\ seen[r].parts = {}
    BY EmptyTyped DEF WorkspaceInit
  <2>2. QuotesRead(r) /\ DocsRead(r)
    BY <2>1 DEF QuotesRead, DocsRead
  <2>3. OrderRead(r)
    <3>1. 0 <= 0
      OBVIOUS
    <3>2. seen[r].order <= answer[r].order
      BY <2>1, <3>1, Zenon
    <3>3. QED
      BY <2>1, <3>2 DEF OrderRead
  <2>4. PartsRead(r)
    BY <2>1 DEF PartsRead, OneJob
  <2>5. QED
    BY <2>2, <2>3, <2>4 DEF AnswerInv
<1>7. QED
  BY <1>4, <1>5, <1>6 DEF WorkspaceInv

LEMMA WorkspaceInvariant == WorkspaceSpec => []WorkspaceInv
<1>1. WorkspaceInv /\ [WorkspaceNext]_workspaceVars => WorkspaceInv'
  BY WritesKeep, ReadsKeep, StutterKeeps DEF WorkspaceNext, Writes
<1>2. QED
  BY <1>1, WorkspaceInitInv, PTL DEF WorkspaceSpec

(* The rows, the bucket and the answers have their types, and the board    *)
(* has a stage it names for every order of the project (GetPipeline).      *)
THEOREM WorkspaceTypeCorrect == WorkspaceSpec => []WorkspaceTypeOK
<1>1. WorkspaceInv => WorkspaceTypeOK
  BY DEF WorkspaceInv
<1>2. QED
  BY <1>1, WorkspaceInvariant, PTL

(* Every link that a row or an answer carries can be served: the object is *)
(* stored before generateAndUploadPDF and UploadProjectDocument write down *)
(* where it is, and nothing takes an object away.                          *)
THEOREM LinksAreServed == WorkspaceSpec => []LinksResolve
<1>1. WorkspaceInv => LinksResolve
  BY DEF WorkspaceInv, StoredFirst, AnswerInv, DocsRead, LinksResolve, Links, DownloadFile
<1>2. QED
  BY <1>1, WorkspaceInvariant, PTL

(* An answer of GetProjectDetails has what there was when its request      *)
(* arrived (of several jobs any one with its updates, LIMIT 1), is about   *)
(* one order and one job, and shows nothing of a cash quotation to a caller *)
(* without ghost mode, whatever was inserted between its statements.       *)
THEOREM AnswersAreWhole == WorkspaceSpec => []AnswerIsWhole
<1>1. ASSUME WorkspaceInv, NEW r \in Readers, Answered(r)
      PROVE  Complete(r) /\ Together(r) /\ CashHidden(r)
  <2>1. /\ answer[r] \in Answer /\ AnswerInv(r) /\ parts \subseteq Parts
        /\ at[r] = "end" /\ answer[r].read = {"quotes", "docs"}
    BY <1>1 DEF WorkspaceInv, WorkspaceTypeOK, Answered
  <2>2. Complete(r)
    <3>1. GotPOs(r) /\ GotJob(r) /\ GotUpdates(r)
      BY <2>1 DEF AnswerInv, PartsRead
    <3>2. QED
      BY <2>1, <3>1 DEF Complete, AnswerInv, QuotesRead, DocsRead, OrderRead, GotPOs,
         GotJob, GotUpdates
  <2>3. Together(r)
    <3>1. OneJob(r) /\ answer[r].parts \subseteq parts
      BY <2>1 DEF AnswerInv, PartsRead
    <3>2. ASSUME NEW x \in answer[r].parts, x[1] = "job",
                 NEW c \in UNION GetPipeline, c.order = answer[r].order
          PROVE  c.stage = "Execution"
      <4>1. PICK o \in LeftJoin(DOMAIN orders) : \E j \in LeftJoin(RowsOf("job", o)) :
                c = Card(o, j)
        BY DEF GetPipeline, Cards
      <4>2. PICK j \in LeftJoin(RowsOf("job", o)) : c = Card(o, j)
        BY <4>1
      <4>3. c.order = o /\ c.stage = Bucket(o, j)
        BY <4>2 DEF Card
      <4>4. x \in Parts /\ x[2] = o /\ x[3] \in RowsOf("job", o)
        BY <2>1, <3>1, <3>2, <4>3 DEF OneJob, RowsOf
      <4>5. o # 0
        BY <4>4 DEF Parts, Ids
      <4>6. \A n \in RowsOf("job", o) : n # 0
        BY <2>1 DEF RowsOf, Parts
      <4>7. j # 0
        BY <4>2, <4>4, <4>6 DEF LeftJoin
      <4>8. QED
        BY <4>3, <4>5, <4>7 DEF Bucket
    <3>3. QED
      BY <3>1, <3>2 DEF Together, OneJob
  <2>4. CashHidden(r)
    BY <2>1 DEF CashHidden, AnswerInv, QuotesRead, OrderRead, ListByLead, VisibleOrders,
       Visible
  <2>5. QED
    BY <2>2, <2>3, <2>4
<1>2. WorkspaceInv => AnswerIsWhole
  BY <1>1 DEF AnswerIsWhole
<1>3. QED
  BY <1>2, WorkspaceInvariant, PTL
=============================================================================
