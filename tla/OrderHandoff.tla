---------------------------- MODULE OrderHandoff ----------------------------
(***************************************************************************)
(* The hand-over from sales to logistics: a quotation's status is changed, *)
(* an approval is announced on the queue quote_approved, and the worker    *)
(* creates an order for every announcement it handles.                     *)
(*                                                                         *)
(* The queue is WorkQueue's; a request that approves a quotation is a      *)
(* publisher of it.  The database change of a message is the new order.    *)
(***************************************************************************)
EXTENDS WorkQueue, FiniteSets

CONSTANTS
  Quotations,
  CashQuotations,  \* those with payment_term_type = 'cash'
  NoCall           \* "no request has arrived here yet"

Requests == Publishers

ValidStatuses == {"sent", "client_approved", "rejected"}
Statuses == ValidStatuses \cup {"draft"}

(* What a client may ask for; "approved" is not a status of this system. *)
Calls == [quote : Quotations, to : ValidStatuses \cup {"approved"}, ghost : BOOLEAN]

ASSUME OrderHandoffAssumption ==
  /\ CashQuotations \subseteq Quotations
  /\ NoCall \notin Calls

VARIABLES
  status,  \* quotations.status
  call,    \* what each status request asks, and its caller's ghost mode
  step,    \* where each status request is outside PublishEvent
  orders   \* how many rows of orders each quotation has

handoffVars == <<status, call, step, orders>>
vars == <<queueVars, handoffVars>>

(* "ok" and "refused" are answers to the client, "crashed" has none. *)
StepStates == {"idle", "fetch", "publish", "ok", "refused", "crashed"}

(* The types of the approval hand-over, on top of those of its queue. *)
OrderTypeOK ==
  /\ TypeOK
  /\ status \in [Quotations -> Statuses]
  /\ call \in [Requests -> Calls \cup {NoCall}]
  /\ step \in [Requests -> StepStates]
  /\ orders \in [Quotations -> Nat]

OrderInit ==
  /\ Init
  /\ status = [q \in Quotations |-> "draft"]
  /\ call = [r \in Requests |-> NoCall]
  /\ step = [r \in Requests |-> "idle"]
  /\ orders = [q \in Quotations |-> 0]

-----------------------------------------------------------------------------
(* The status request.  Nothing restricts which status follows which.      *)

(* Mutant: every status change is announced as an approval. *)
UpdateStatus_AlwaysAnnounces(r) ==
  /\ step[r] = "idle"
  /\ \E c \in Calls :
       /\ c.to \in ValidStatuses
       /\ call' = [call EXCEPT ![r] = c]
       /\ status' = [status EXCEPT ![c.quote] = c.to]
       /\ step' = [step EXCEPT ![r] = "fetch"]
  /\ UNCHANGED <<queueVars, orders>>

UpdateStatus(r) ==
  /\ step[r] = "idle"
  /\ \E c \in Calls :
       /\ c.to \in ValidStatuses
       /\ call' = [call EXCEPT ![r] = c]
       /\ status' = [status EXCEPT ![c.quote] = c.to]
       /\ step' = [step EXCEPT ![r] = IF c.to = "client_approved"
                                        THEN "fetch" ELSE "ok"]
  /\ UNCHANGED <<queueVars, orders>>

RefuseStatus(r) ==
  /\ step[r] = "idle"
  /\ \E c \in Calls :
       /\ c.to \notin ValidStatuses
       /\ call' = [call EXCEPT ![r] = c]
  /\ step' = [step EXCEPT ![r] = "refused"]
  /\ UNCHANGED <<queueVars, status, orders>>

(* The database fails, before or after it has committed the update. *)
UpdateFails(r) ==
  /\ step[r] = "idle"
  /\ PublisherStops(r)
  /\ \E c \in Calls :
       /\ c.to \in ValidStatuses
       /\ call' = [call EXCEPT ![r] = c]
       /\ \/ status' = [status EXCEPT ![c.quote] = c.to]
          \/ UNCHANGED status
  /\ step' = [step EXCEPT ![r] = "refused"]
  /\ UNCHANGED orders

(* Mutant: the lookup forgets the ghost filter. *)
Visible_Unfiltered(c) == c \in Calls

(* GetByID hides cash quotations from callers without ghost mode. *)
Visible(c) == c.ghost \/ c.quote \notin CashQuotations

FetchForEvent(r) ==
  /\ step[r] = "fetch"
  /\ Visible(call[r])
  /\ step' = [step EXCEPT ![r] = "publish"]
  /\ StartPublish(r)
  /\ UNCHANGED <<status, call, orders>>

(* Not found: the request succeeds and no event is published. *)
FetchHidden(r) ==
  /\ step[r] = "fetch"
  /\ ~Visible(call[r])
  /\ step' = [step EXCEPT ![r] = "ok"]
  /\ UNCHANGED <<queueVars, status, call, orders>>

(* The database fails, with the same answer, or the process dies. *)
FetchFails(r) ==
  /\ step[r] = "fetch"
  /\ PublisherStops(r)
  /\ \E s \in {"ok", "crashed"} : step' = [step EXCEPT ![r] = s]
  /\ UNCHANGED <<status, call, orders>>

PublishQuoteApproved(r) ==
  /\ step[r] = "publish"
  /\ PublishStep(r)
  /\ UNCHANGED handoffVars

(* The result of PublishEvent is discarded: the answer is a success. *)
Answer(r) ==
  /\ step[r] = "publish"
  /\ pub[r] \in {"confirmed", "gave_up"}
  /\ step' = [step EXCEPT ![r] = "ok"]
  /\ UNCHANGED <<queueVars, status, call, orders>>

-----------------------------------------------------------------------------
(* The worker. *)

QuoteOf(m) == call[m[1]].quote

(* Mutant: the worker skips a quotation that is not approved any more. *)
InsertOrder_IfStillApproved(w) ==
  orders' = IF status[QuoteOf(job[w].msg)] = "client_approved"
              THEN [orders EXCEPT ![QuoteOf(job[w].msg)] = @ + 1] ELSE orders

(* INSERT INTO orders, without a look at the orders that are there already. *)
InsertOrder(w) ==
  orders' = [orders EXCEPT ![QuoteOf(job[w].msg)] = @ + 1]

CreateOrderFromQuotation(w) ==
  /\ \/ /\ HandleCommits(w) \/ HandleReplyLost(w)
        /\ InsertOrder(w)
     \/ /\ HandleFails(w)
        /\ UNCHANGED orders
  /\ UNCHANGED <<status, call, step>>

ConsumeQuoteApproved(w) ==
  /\ ConsumeStep(w)
  /\ UNCHANGED handoffVars

-----------------------------------------------------------------------------
ClientAsks(r) == UpdateStatus(r) \/ RefuseStatus(r) \/ UpdateFails(r)

RequestStep(r) ==
  \/ FetchForEvent(r)
  \/ FetchHidden(r)
  \/ FetchFails(r)
  \/ PublishQuoteApproved(r)
  \/ Answer(r)

WorkerProgress(w) ==
  \/ CreateOrderFromQuotation(w)
  \/ ConsumerProgress(w) /\ UNCHANGED handoffVars

OrderNext ==
  \/ \E r \in Requests : ClientAsks(r) \/ RequestStep(r)
  \/ \E w \in Workers : CreateOrderFromQuotation(w) \/ ConsumeQuoteApproved(w)

OrderSafetySpec == OrderInit /\ [][OrderNext]_vars

(* Requests in progress and the worker go on; clients owe nobody a request. *)
OrderSpec ==
  /\ OrderSafetySpec
  /\ \A r \in Requests : WF_vars(RequestStep(r))
  /\ \A w \in Workers : WF_vars(WorkerProgress(w))

-----------------------------------------------------------------------------
(* Properties *)

Approval(r, q) ==
  /\ call[r] # NoCall
  /\ call[r].quote = q
  /\ call[r].to = "client_approved"

(* Logistics never receives an order for a quotation nobody approved, and   *)
(* an order with cash terms only through a caller in ghost mode.            *)
OrderHasApproval ==
  \A q \in Quotations :
    orders[q] > 0 =>
      \E r \in Requests : /\ Approval(r, q)
                          /\ q \in CashQuotations => call[r].ghost

(* Orders come from approvals, and a quotation has at most one for each     *)
(* time it was approved, as long as no fault made the broker or the worker  *)
(* repeat itself: nothing in the database keeps a second order out.         *)
OrdersMatchApprovals ==
  /\ OrderHasApproval
  /\ failures = 0 =>
       \A q \in Quotations :
         orders[q] <= Cardinality({r \in Requests : Approval(r, q)})

(* An approval whose event was confirmed by the broker leads to an order,   *)
(* even if the quotation is rejected in the meantime.                       *)
AnnouncedApprovalIsOrdered ==
  \A q \in Quotations :
    (\E r \in Requests : Approval(r, q) /\ pub[r] = "confirmed") ~> orders[q] > 0
=============================================================================
