----------------------------- MODULE Fulfilment -----------------------------
(***************************************************************************)
(* From the client's signature on a technician's device to the Financial   *)
(* Lock on the order: the signature waits in the outbox, the sign-off      *)
(* handler writes the job and announces the approval, and the worker       *)
(* completes the order, while managers reassign jobs and the operations    *)
(* team makes purchase orders for the same order.                          *)
(*                                                                         *)
(* The outbox and the queue installation_signoff are two instances of      *)
(* Handoff.  That they take only its steps is the matter of OutboxSync and *)
(* WorkQueue.  The queue also delivers what it has; the outbox owes        *)
(* nothing: it may give a signature up after five failures, being offline  *)
(* included, or keep it without a loop that posts it, and either is a      *)
(* signature that is never posted (again).  Signatures are posted in any   *)
(* order, as those of several devices are.                                 *)
(*                                                                         *)
(* A posted sign-off is a handler of its own, which may start late and     *)
(* outlive the post, and even the signature's row in the outbox.  Orders   *)
(* are there already (OrderHandoff).  The texts, prices and installers are *)
(* left out.  MaxFaults bounds the faults.                                 *)
(***************************************************************************)
EXTENDS Naturals

CONSTANTS
  Orders,
  Jobs,
  Signatures,      \* what clients sign on devices
  Handlers,        \* runs of the sign-off handler
  PurchaseOrders,  \* requests for a purchase order
  MaxFaults,
  None

OrderStatuses == {"procurement", "partially_ordered", "installation_complete"}
JobStatuses == {"assigned", "in_progress", "client_approved", "redo_required"}
Verdicts == {"client_approved", "redo_required"}

JobRows == [order : Orders, status : JobStatuses]
Sheets == [job : Jobs, verdict : Verdicts]

ASSUME FulfilmentAssumption ==
  /\ MaxFaults \in Nat
  /\ None \notin JobRows \cup Sheets \cup Signatures \cup Orders

VARIABLES
  orderStatus,  \* orders.status
  job,          \* the rows of installations
  signature,    \* what was signed, and is or was in the outbox
  sent,         \* the signatures the outbox has removed as sent
  written,      \* how often the handler wrote each signature to its job
  handler,      \* where each handler is
  of,           \* the signature it carries
  announced,    \* the handlers whose event the broker has
  acked,        \* those whose event is acknowledged
  locks,        \* how often the worker completed the order for each event
  purchase,     \* where each purchase order request is
  ordered,      \* the order it is for
  withdrawn,    \* history: jobs that lost a client's approval again
  lost,         \* history: handlers that failed to hand their event to the broker
  faults        \* faults so far

rowVars == <<orderStatus, job, withdrawn>>
outboxVars == <<signature, sent, written>>
handlerVars == <<handler, of>>
eventVars == <<announced, acked, locks, lost>>
purchaseVars == <<purchase, ordered>>

vars == <<rowVars, outboxVars, handlerVars, eventVars, purchaseVars, faults>>

Signed == {s \in Signatures : signature[s] # None}

Outbox == INSTANCE Handoff WITH
  Items <- Signatures, promised <- Signed, settled <- sent, done <- written

Events == INSTANCE Handoff WITH
  Items <- Handlers, promised <- announced, settled <- acked, done <- locks

HandlerStates == {"idle", "fetch", "publish", "answered", "failed"}

FulfilmentTypeOK ==
  /\ orderStatus \in [Orders -> OrderStatuses]
  /\ job \in [Jobs -> JobRows \cup {None}]
  /\ signature \in [Signatures -> Sheets \cup {None}]
  /\ Outbox!TypeOK
  /\ handler \in [Handlers -> HandlerStates]
  /\ of \in [Handlers -> Signatures \cup {None}]
  /\ Events!TypeOK
  /\ purchase \in [PurchaseOrders -> {"idle", "inserted", "done"}]
  /\ ordered \in [PurchaseOrders -> Orders \cup {None}]
  /\ withdrawn \subseteq Jobs
  /\ lost \subseteq Handlers
  /\ faults \in 0 .. MaxFaults

Init ==
  /\ orderStatus = [o \in Orders |-> "procurement"]
  /\ job = [j \in Jobs |-> None]
  /\ signature = [s \in Signatures |-> None]
  /\ sent = {}
  /\ written = [s \in Signatures |-> 0]
  /\ handler = [h \in Handlers |-> "idle"]
  /\ of = [h \in Handlers |-> None]
  /\ Events!Init
  /\ purchase = [p \in PurchaseOrders |-> "idle"]
  /\ ordered = [p \in PurchaseOrders |-> None]
  /\ withdrawn = {}
  /\ lost = {}
  /\ faults = 0

Fault ==
  /\ faults < MaxFaults
  /\ faults' = faults + 1

-----------------------------------------------------------------------------
(* Technical managers. *)

(* Nothing asks whether the order's goods were delivered. *)
CreateInstallation(j) ==
  /\ job[j] = None
  /\ \E o \in Orders :
       job' = [job EXCEPT ![j] = [order |-> o, status |-> "assigned"]]
  /\ UNCHANGED <<orderStatus, withdrawn, outboxVars, handlerVars, eventVars,
                 purchaseVars, faults>>

SetJobStatus(j, s) ==
  /\ job' = [job EXCEPT ![j].status = s]
  /\ withdrawn' = IF job[j].status = "client_approved" /\ s # "client_approved"
                    THEN withdrawn \cup {j} ELSE withdrawn

(* Neither the job's status nor its sign-off is looked at. *)
AssignInstaller(j) ==
  /\ job[j] # None
  /\ SetJobStatus(j, "in_progress")
  /\ UNCHANGED <<orderStatus, outboxVars, handlerVars, eventVars, purchaseVars,
                 faults>>

-----------------------------------------------------------------------------
(* The operations team: the purchase order's row, and then the order's     *)
(* status, whatever it is by now; an error of the second is only logged.   *)

CreatePurchaseOrder(p) ==
  /\ purchase[p] = "idle"
  /\ \E o \in Orders : ordered' = [ordered EXCEPT ![p] = o]
  /\ purchase' = [purchase EXCEPT ![p] = "inserted"]
  /\ UNCHANGED <<rowVars, outboxVars, handlerVars, eventVars, faults>>

(* Mutant: the order takes a status that no other part knows. *)
UpdateOrderStatus_Ordered(p) ==
  /\ purchase[p] = "inserted"
  /\ purchase' = [purchase EXCEPT ![p] = "done"]
  /\ orderStatus' = [orderStatus EXCEPT ![ordered[p]] = "ordered"]
  /\ UNCHANGED <<job, withdrawn, outboxVars, handlerVars, eventVars, ordered,
                 faults>>

UpdateOrderStatus(p) ==
  /\ purchase[p] = "inserted"
  /\ purchase' = [purchase EXCEPT ![p] = "done"]
  /\ orderStatus' = [orderStatus EXCEPT ![ordered[p]] = "partially_ordered"]
  /\ UNCHANGED <<job, withdrawn, outboxVars, handlerVars, eventVars, ordered,
                 faults>>

UpdateOrderStatusFails(p) ==
  /\ purchase[p] = "inserted"
  /\ purchase' = [purchase EXCEPT ![p] = "done"]
  /\ Fault
  /\ UNCHANGED <<rowVars, outboxVars, handlerVars, eventVars, ordered>>

-----------------------------------------------------------------------------
(* The device. *)

SignOnDevice(s) ==
  /\ \E j \in Jobs, v \in Verdicts :
       /\ job[j] # None
       /\ signature' = [signature EXCEPT ![s] = [job |-> j, verdict |-> v]]
  /\ Outbox!Promise(s)
  /\ UNCHANGED <<rowVars, handlerVars, eventVars, purchaseVars, faults>>

(* A request of the outbox arrives.  There is a second one of a signature  *)
(* only when the answer to an earlier one was an error or is missing; it   *)
(* may arrive when the row is gone already.                                *)
Posted(s) == \E h \in Handlers : of[h] = s

PostOf(s, h) ==
  /\ handler[h] = "idle"
  /\ s \in Signed
  /\ IF Posted(s) THEN Fault ELSE UNCHANGED faults
  /\ of' = [of EXCEPT ![h] = s]

(* A success takes the signature out of the outbox. *)
RemoveSent(s) ==
  /\ \E h \in Handlers : of[h] = s /\ handler[h] = "answered"
  /\ UNCHANGED signature
  /\ Outbox!Settle(s)
  /\ UNCHANGED <<rowVars, handlerVars, eventVars, purchaseVars, faults>>

-----------------------------------------------------------------------------
(* The sign-off handler. *)

JobOf(h) == signature[of[h]].job

(* Mutant: the handler announces an approval and leaves the job as it is. *)
Signoff_AnnouncesFirst(s, h) ==
  /\ PostOf(s, h)
  /\ IF signature[s].verdict = "client_approved"
       THEN /\ handler' = [handler EXCEPT ![h] = "fetch"]
            /\ UNCHANGED <<job, withdrawn, written>>
       ELSE /\ handler' = [handler EXCEPT ![h] = "answered"]
            /\ SetJobStatus(signature[s].job, "redo_required")
            /\ written' = [written EXCEPT ![s] = @ + 1]
  /\ UNCHANGED <<orderStatus, signature, sent, eventVars, purchaseVars>>

(* The verdict is written to the job, whoever it is assigned to by now. *)
Signoff(s, h) ==
  /\ PostOf(s, h)
  /\ SetJobStatus(signature[s].job, signature[s].verdict)
  /\ UNCHANGED signature
  /\ Outbox!Perform(s)
  /\ handler' = [handler EXCEPT ![h] =
                   IF signature[s].verdict = "client_approved"
                     THEN "fetch" ELSE "answered"]
  /\ UNCHANGED <<orderStatus, eventVars, purchaseVars>>

(* The statement fails and the post is answered with an error. *)
SignoffFails(s, h) ==
  /\ handler[h] = "idle"
  /\ s \in Signed
  /\ Fault
  /\ of' = [of EXCEPT ![h] = s]
  /\ handler' = [handler EXCEPT ![h] = "failed"]
  /\ UNCHANGED <<rowVars, outboxVars, eventVars, purchaseVars>>

FetchForEvent(h) ==
  /\ handler[h] = "fetch"
  /\ handler' = [handler EXCEPT ![h] = "publish"]
  /\ UNCHANGED <<rowVars, outboxVars, of, eventVars, purchaseVars, faults>>

(* Mutant: the approval is published only while the job is still approved. *)
PublishSignoff_IfStillApproved(h) ==
  /\ handler[h] = "publish"
  /\ handler' = [handler EXCEPT ![h] = "answered"]
  /\ IF job[JobOf(h)].status = "client_approved"
       THEN Events!Promise(h) ELSE UNCHANGED <<announced, acked, locks>>
  /\ UNCHANGED <<rowVars, outboxVars, of, purchaseVars, faults, lost>>

PublishSignoff(h) ==
  /\ handler[h] = "publish"
  /\ handler' = [handler EXCEPT ![h] = "answered"]
  /\ Events!Promise(h)
  /\ UNCHANGED <<rowVars, outboxVars, of, purchaseVars, faults, lost>>

(* The lookup fails, or PublishEvent gives up, with or without a message   *)
(* in the broker's hands: the answer is a success all the same.  Or the    *)
(* process dies and there is no answer.                                    *)
AnnouncementFails(h) ==
  /\ handler[h] \in {"fetch", "publish"}
  /\ Fault
  /\ \E a \in {"answered", "failed"} : handler' = [handler EXCEPT ![h] = a]
  /\ \/ lost' = lost \cup {h} /\ UNCHANGED <<announced, acked, locks>>
     \/ handler[h] = "publish" /\ Events!Promise(h) /\ UNCHANGED lost
  /\ UNCHANGED <<rowVars, outboxVars, of, purchaseVars>>

-----------------------------------------------------------------------------
(* The worker. *)

FinancialLock(o) ==
  orderStatus' = [orderStatus EXCEPT ![o] = "installation_complete"]

(* The job is not looked at any more.  An event is handled again when the  *)
(* first acknowledgement did not arrive.                                   *)
ProcessInstallationSignoff(h) ==
  /\ h \notin acked
  /\ Events!Perform(h)
  /\ IF locks[h] > 0 THEN Fault ELSE UNCHANGED faults
  /\ FinancialLock(job[JobOf(h)].order)
  /\ UNCHANGED <<job, withdrawn, outboxVars, handlerVars, purchaseVars, lost>>

AckSignoff(h) ==
  /\ Events!Settle(h)
  /\ UNCHANGED <<rowVars, outboxVars, handlerVars, purchaseVars, faults, lost>>

-----------------------------------------------------------------------------
HandlerStep(h) == FetchForEvent(h) \/ PublishSignoff(h) \/ AnnouncementFails(h)

Next ==
  \/ \E j \in Jobs : CreateInstallation(j) \/ AssignInstaller(j)
  \/ \E p \in PurchaseOrders :
       CreatePurchaseOrder(p) \/ UpdateOrderStatus(p) \/ UpdateOrderStatusFails(p)
  \/ \E s \in Signatures :
       \/ SignOnDevice(s) \/ RemoveSent(s)
       \/ \E h \in Handlers : Signoff(s, h) \/ SignoffFails(s, h)
  \/ \E h \in Handlers :
       HandlerStep(h) \/ ProcessInstallationSignoff(h) \/ AckSignoff(h)

FulfilmentSafetySpec == Init /\ [][Next]_vars

(* Handlers run to their end, and the queue hands out what it has; nobody  *)
(* else owes a step, the outbox included.                                  *)
FulfilmentSpec ==
  /\ FulfilmentSafetySpec
  /\ \A h \in Handlers : /\ WF_vars(HandlerStep(h))
                         /\ WF_vars(ProcessInstallationSignoff(h))

-----------------------------------------------------------------------------
(* Properties *)

(* The Financial Lock is triggered by an approved installation: an order   *)
(* is completed only when a client has approved one of its jobs, although  *)
(* a redo or a new assignment may have taken the approval back meanwhile.  *)
CompletionFollowsApproval ==
  [][\A o \in Orders :
       orderStatus'[o] = "installation_complete" /\ orderStatus'[o] # orderStatus[o]
         => \E j \in Jobs : /\ job[j] # None
                            /\ job[j].order = o
                            /\ job[j].status = "client_approved" \/ j \in withdrawn]_vars

(* An approval that a handler has written to its job completes the order of *)
(* that job in the end, whatever is done to the job before the event is      *)
(* published or handled (a redo, a new installer), whatever other posts do,  *)
(* and however often the event is delivered.  The one exception is a handler *)
(* whose event the broker never got.                                         *)
ApprovalReachesOrder ==
  \A h \in Handlers :
    handler[h] = "fetch" ~> locks[h] > 0 \/ h \in lost
=============================================================================
