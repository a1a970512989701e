------------------------- MODULE Fulfilment_proofs -------------------------
(***************************************************************************)
(* Proofs about Fulfilment: whatever handlers, managers and the worker do  *)
(* at the same time, an event at the broker is the event of an approval    *)
(* that was written to its job, and so the Financial Lock completes only   *)
(* orders with an approved job.                                            *)
(***************************************************************************)
EXTENDS Fulfilment, TLAPS

(* A client approved the job, even if the approval was taken back since.   *)
WasApproved(j) ==
  /\ job[j] # None
  /\ job[j].status = "client_approved" \/ j \in withdrawn

SignedJobExists ==
  \A s \in Signatures : signature[s] # None => job[signature[s].job] # None

CarriedIsSigned ==
  \A h \in Handlers : of[h] # None => signature[of[h]] # None

IdleIsUnannounced ==
  \A h \in Handlers : handler[h] = "idle" => h \notin announced

(* Handlers that announce, or have announced, an approval. *)
Announcing(h) == handler[h] \in {"fetch", "publish"} \/ h \in announced

AnnouncedIsApproved ==
  \A h \in Handlers :
    Announcing(h) => of[h] # None /\ WasApproved(JobOf(h))

FulfilmentInv ==
  /\ FulfilmentTypeOK
  /\ SignedJobExists
  /\ CarriedIsSigned
  /\ IdleIsUnannounced
  /\ AnnouncedIsApproved

-----------------------------------------------------------------------------
(* What the steps that touch a job do to it. *)

LEMMA JobTyped ==
  ASSUME FulfilmentTypeOK, NEW j \in Jobs, job[j] # None
  PROVE  job[j] \in JobRows
BY DEF FulfilmentTypeOK

LEMMA SheetTyped ==
  ASSUME FulfilmentTypeOK, NEW s \in Signatures, signature[s] # None
  PROVE  signature[s] \in Sheets /\ signature[s].job \in Jobs /\ signature[s].verdict \in Verdicts
BY DEF FulfilmentTypeOK, Sheets

(* A handler that carries a signature carries that of an existing job. *)
LEMMA CarriedJob ==
  ASSUME FulfilmentInv, NEW h \in Handlers, of[h] # None
  PROVE  /\ of[h] \in Signatures
         /\ signature[of[h]] # None
         /\ JobOf(h) \in Jobs
         /\ job[JobOf(h)] \in JobRows
<1>1. of[h] \in Signatures /\ signature[of[h]] # None
  BY DEF FulfilmentInv, FulfilmentTypeOK, CarriedIsSigned
<1>2. JobOf(h) \in Jobs /\ job[JobOf(h)] # None
  BY <1>1, SheetTyped DEF FulfilmentInv, SignedJobExists, JobOf
<1>3. QED
  BY <1>1, <1>2, JobTyped DEF FulfilmentInv

(* Writing a status keeps the rows, and an approval is remembered. *)
LEMMA StatusWritten ==
  ASSUME FulfilmentTypeOK, NEW j \in Jobs, job[j] # None,
         NEW s \in JobStatuses, SetJobStatus(j, s)
  PROVE  /\ job' \in [Jobs -> JobRows \cup {None}]
         /\ withdrawn' \subseteq Jobs
         /\ \A i \in Jobs : job[i] # None => job'[i] # None
         /\ \A i \in Jobs : WasApproved(i) => WasApproved(i)'
         /\ s = "client_approved" => WasApproved(j)'
<1>1. job[j] \in JobRows
  BY JobTyped
<1>2. [job[j] EXCEPT !.status = s] \in JobRows
  BY <1>1 DEF JobRows
<1>3. \A i \in Jobs : job'[i] = IF i = j THEN [job[j] EXCEPT !.status = s] ELSE job[i]
  BY DEF SetJobStatus, FulfilmentTypeOK
<1>4. [job[j] EXCEPT !.status = s] # None
  BY <1>2, FulfilmentAssumption
<1>5. job' \in [Jobs -> JobRows \cup {None}]
  BY <1>2 DEF SetJobStatus, FulfilmentTypeOK
<1>6. withdrawn' \subseteq Jobs /\ withdrawn \subseteq withdrawn'
  BY DEF SetJobStatus, FulfilmentTypeOK
<1>7. \A i \in Jobs : job[i] # None => job'[i] # None
  BY <1>3, <1>4
<1>8. [job[j] EXCEPT !.status = s].status = s
  BY <1>1 DEF JobRows
<1>9. ASSUME NEW i \in Jobs, WasApproved(i) PROVE WasApproved(i)'
  <2>1. job'[i] # None
    BY <1>7, <1>9 DEF WasApproved
  <2>2. CASE i # j
    BY <2>1, <2>2, <1>3, <1>6, <1>9 DEF WasApproved
  <2>3. CASE i = j
    <3>1. job'[j].status = s
      BY <1>3, <1>8
    <3>2. job[j].status = "client_approved" /\ s # "client_approved" => j \in withdrawn'
      BY DEF SetJobStatus
    <3>3. QED
      BY <2>1, <2>3, <3>1, <3>2, <1>6, <1>9 DEF WasApproved
  <2>4. QED
    BY <2>2, <2>3
<1>10. s = "client_approved" => WasApproved(j)'
  <2>1. job'[j].status = s /\ job'[j] # None
    BY <1>3, <1>4, <1>8
  <2>2. QED
    BY <2>1 DEF WasApproved
<1>11. QED
  BY <1>5, <1>6, <1>7, <1>9, <1>10

LEMMA InitFulfilmentInv == Init => FulfilmentInv
<1> SUFFICES ASSUME Init PROVE FulfilmentInv
  OBVIOUS
<1> USE FulfilmentAssumption
<1>1. orderStatus \in [Orders -> OrderStatuses] /\ job \in [Jobs -> JobRows \cup {None}]
  BY DEF Init, OrderStatuses
<1>2. /\ signature \in [Signatures -> Sheets \cup {None}]
      /\ \A s \in Signatures : signature[s] = None
  BY DEF Init
<1>3. Outbox!TypeOK
  BY <1>2 DEF Init, Outbox!TypeOK, Signed
<1>4. /\ handler \in [Handlers -> HandlerStates]
      /\ of \in [Handlers -> Signatures \cup {None}]
      /\ \A h \in Handlers : handler[h] = "idle" /\ of[h] = None
  BY DEF Init, HandlerStates
<1>5. Events!TypeOK /\ announced = {}
  BY DEF Init, Events!Init, Events!TypeOK
<1>6. /\ purchase \in [PurchaseOrders -> {"idle", "inserted", "done"}]
      /\ ordered \in [PurchaseOrders -> Orders \cup {None}]
  BY DEF Init
<1>7. withdrawn \subseteq Jobs /\ lost \subseteq Handlers /\ faults \in 0 .. MaxFaults
  BY DEF Init
<1>8. FulfilmentTypeOK
  BY <1>1, <1>2, <1>3, <1>4, <1>5, <1>6, <1>7 DEF FulfilmentTypeOK
<1>9. SignedJobExists /\ CarriedIsSigned
  BY <1>2, <1>4 DEF SignedJobExists, CarriedIsSigned
<1>10. IdleIsUnannounced /\ AnnouncedIsApproved
  BY <1>4, <1>5 DEF IdleIsUnannounced, AnnouncedIsApproved, Announcing
<1>11. QED
  BY <1>8, <1>9, <1>10 DEF FulfilmentInv

-----------------------------------------------------------------------------
(* Steps that leave signatures, handlers and events alone, and do not undo *)
(* what jobs have been, keep the invariant.                                *)
LEMMA JobsOnlyGrow ==
  ASSUME FulfilmentInv, FulfilmentTypeOK',
         UNCHANGED <<signature, handler, of, announced>>,
         \A i \in Jobs : job[i] # None => job'[i] # None,
         \A i \in Jobs : WasApproved(i) => WasApproved(i)'
  PROVE  FulfilmentInv'
<1>1. SignedJobExists'
  <2>1. \A s \in Signatures : signature[s] # None => signature[s].job \in Jobs
    BY SheetTyped DEF FulfilmentInv
  <2>2. QED
    BY <2>1 DEF FulfilmentInv, SignedJobExists
<1>2. CarriedIsSigned' /\ IdleIsUnannounced'
  BY DEF FulfilmentInv, CarriedIsSigned, IdleIsUnannounced
<1>3. AnnouncedIsApproved'
  <2> SUFFICES ASSUME NEW h \in Handlers, Announcing(h)'
               PROVE  of'[h] # None /\ WasApproved(JobOf(h))'
    BY DEF AnnouncedIsApproved
  <2>1. of[h] # None /\ WasApproved(JobOf(h))
    BY DEF FulfilmentInv, AnnouncedIsApproved, Announcing
  <2>2. JobOf(h) \in Jobs /\ JobOf(h)' = JobOf(h)
    BY <2>1, CarriedJob DEF JobOf
  <2>3. WasApproved(JobOf(h))'
    BY <2>1, <2>2 DEF WasApproved
  <2>4. QED
    BY <2>1, <2>3
<1>4. QED
  BY <1>1, <1>2, <1>3 DEF FulfilmentInv

(* So do steps of one handler that neither start to announce nor drop the  *)
(* signature it carries.                                                   *)
LEMMA HandlerGoesOn ==
  ASSUME FulfilmentInv, FulfilmentTypeOK',
         UNCHANGED <<job, withdrawn, signature, of>>,
         NEW h \in Handlers, Announcing(h),
         announced' \subseteq announced \cup {h},
         \A g \in Handlers \ {h} : handler'[g] = handler[g],
         handler'[h] # "idle"
  PROVE  FulfilmentInv'
<1>1. SignedJobExists' /\ CarriedIsSigned'
  BY DEF FulfilmentInv, SignedJobExists, CarriedIsSigned
<1>2. IdleIsUnannounced'
  BY DEF FulfilmentInv, IdleIsUnannounced
<1>3. \A g \in Handlers : Announcing(g)' => Announcing(g)
  BY DEF Announcing
<1>4. AnnouncedIsApproved'
  BY <1>3 DEF FulfilmentInv, AnnouncedIsApproved, JobOf, WasApproved
<1>5. QED
  BY <1>1, <1>2, <1>4 DEF FulfilmentInv

(* Types, where a step leaves all but one group of variables alone. *)
LEMMA FaultTyped ==
  ASSUME FulfilmentTypeOK, Fault \/ UNCHANGED faults
  PROVE  faults' \in 0 .. MaxFaults
BY FulfilmentAssumption DEF FulfilmentTypeOK, Fault

LEMMA ManagersKeepInv ==
  ASSUME FulfilmentInv, NEW j \in Jobs, CreateInstallation(j) \/ AssignInstaller(j)
  PROVE  FulfilmentInv'
<1>1. CASE CreateInstallation(j)
  <2>1. PICK o \in Orders : job' = [job EXCEPT ![j] = [order |-> o, status |-> "assigned"]]
    BY <1>1 DEF CreateInstallation
  <2>2. [order |-> o, status |-> "assigned"] \in JobRows
    BY DEF JobRows, JobStatuses
  <2>3. \A i \in Jobs : job'[i] = IF i = j THEN [order |-> o, status |-> "assigned"] ELSE job[i]
    BY <2>1 DEF FulfilmentInv, FulfilmentTypeOK
  <2>4. job' \in [Jobs -> JobRows \cup {None}]
    BY <2>1, <2>2 DEF FulfilmentInv, FulfilmentTypeOK
  <2>5. job[j] = None
    BY <1>1 DEF CreateInstallation
  <2>6. UNCHANGED <<orderStatus, withdrawn, outboxVars, handlerVars, eventVars, purchaseVars, faults>>
    BY <1>1 DEF CreateInstallation
  <2>7. FulfilmentTypeOK'
    BY <2>4, <2>6 DEF FulfilmentInv, FulfilmentTypeOK, outboxVars, handlerVars, eventVars,
       purchaseVars, Outbox!TypeOK, Events!TypeOK, Signed
  <2>8. \A i \in Jobs : job[i] # None => job'[i] # None
    BY <2>3, <2>5
  <2>9. \A i \in Jobs : WasApproved(i) => WasApproved(i)'
    BY <2>3, <2>5, <2>6 DEF WasApproved
  <2>10. QED
    BY <2>6, <2>7, <2>8, <2>9, JobsOnlyGrow DEF outboxVars, handlerVars, eventVars
<1>2. CASE AssignInstaller(j)
  <2>1. job[j] # None /\ SetJobStatus(j, "in_progress")
    BY <1>2 DEF AssignInstaller
  <2>2. /\ job' \in [Jobs -> JobRows \cup {None}]
        /\ withdrawn' \subseteq Jobs
        /\ \A i \in Jobs : job[i] # None => job'[i] # None
        /\ \A i \in Jobs : WasApproved(i) => WasApproved(i)'
    BY <2>1, StatusWritten DEF FulfilmentInv, JobStatuses
  <2>3. UNCHANGED <<orderStatus, outboxVars, handlerVars, eventVars, purchaseVars, faults>>
    BY <1>2 DEF AssignInstaller
  <2>4. FulfilmentTypeOK'
    BY <2>2, <2>3 DEF FulfilmentInv, FulfilmentTypeOK, outboxVars, handlerVars, eventVars,
       purchaseVars, Outbox!TypeOK, Events!TypeOK, Signed
  <2>5. QED
    BY <2>2, <2>3, <2>4, JobsOnlyGrow DEF outboxVars, handlerVars, eventVars
<1>3. QED
  BY <1>1, <1>2

LEMMA PurchasesKeepInv ==
  ASSUME FulfilmentInv, NEW p \in PurchaseOrders,
         CreatePurchaseOrder(p) \/ UpdateOrderStatus(p) \/ UpdateOrderStatusFails(p)
  PROVE  FulfilmentInv'
<1>1. UNCHANGED <<job, withdrawn, outboxVars, handlerVars, eventVars>>
  BY DEF CreatePurchaseOrder, UpdateOrderStatus, UpdateOrderStatusFails, rowVars
<1>2. orderStatus' \in [Orders -> OrderStatuses]
  BY DEF FulfilmentInv, FulfilmentTypeOK, OrderStatuses, CreatePurchaseOrder,
     UpdateOrderStatus, UpdateOrderStatusFails, rowVars
<1>3. purchase' \in [PurchaseOrders -> {"idle", "inserted", "done"}]
  BY DEF FulfilmentInv, FulfilmentTypeOK, CreatePurchaseOrder, UpdateOrderStatus,
     UpdateOrderStatusFails
<1>4. ordered' \in [PurchaseOrders -> Orders \cup {None}]
  BY DEF FulfilmentInv, FulfilmentTypeOK, CreatePurchaseOrder, UpdateOrderStatus,
     UpdateOrderStatusFails
<1>5. faults' \in 0 .. MaxFaults
  BY FaultTyped DEF FulfilmentInv, CreatePurchaseOrder, UpdateOrderStatus,
     UpdateOrderStatusFails
<1>6. FulfilmentTypeOK'
  BY <1>1, <1>2, <1>3, <1>4, <1>5 DEF FulfilmentInv, FulfilmentTypeOK, outboxVars,
     handlerVars, eventVars, Outbox!TypeOK, Events!TypeOK, Signed
<1>7. QED
  BY <1>1, <1>6, JobsOnlyGrow DEF outboxVars, handlerVars, eventVars, WasApproved

LEMMA DeviceKeepsInv ==
  ASSUME FulfilmentInv, NEW s \in Signatures, SignOnDevice(s) \/ RemoveSent(s)
  PROVE  FulfilmentInv'
<1>1. UNCHANGED <<rowVars, handlerVars, eventVars, purchaseVars, faults>>
  BY DEF SignOnDevice, RemoveSent
<1>2. CASE SignOnDevice(s)
  <2>1. PICK j \in Jobs, v \in Verdicts :
          job[j] # None /\ signature' = [signature EXCEPT ![s] = [job |-> j, verdict |-> v]]
    BY <1>2 DEF SignOnDevice
  <2>2. [job |-> j, verdict |-> v] \in Sheets
    BY DEF Sheets
  <2>3. signature' \in [Signatures -> Sheets \cup {None}]
    BY <2>1, <2>2 DEF FulfilmentInv, FulfilmentTypeOK
  <2>4. \A i \in Signatures :
          signature'[i] = IF i = s THEN [job |-> j, verdict |-> v] ELSE signature[i]
    BY <2>1 DEF FulfilmentInv, FulfilmentTypeOK
  <2>5. [job |-> j, verdict |-> v] # None
    BY <2>2, FulfilmentAssumption
  <2>6. signature[s] = None /\ UNCHANGED <<sent, written>>
    BY <1>2 DEF SignOnDevice, Outbox!Promise, Signed
  <2>7. FulfilmentTypeOK'
    BY <1>1, <2>3, <2>6 DEF FulfilmentInv, FulfilmentTypeOK, rowVars, handlerVars, eventVars,
       purchaseVars, Outbox!TypeOK, Events!TypeOK, Signed
  <2>8. SignedJobExists'
    BY <1>1, <2>1, <2>4 DEF FulfilmentInv, SignedJobExists, rowVars
  <2>9. CarriedIsSigned' /\ IdleIsUnannounced'
    <3>1. \A h \in Handlers : of[h] # None => of[h] \in Signatures
      BY CarriedJob
    <3>2. QED
      BY <1>1, <2>4, <2>5, <3>1 DEF FulfilmentInv, CarriedIsSigned, IdleIsUnannounced,
         handlerVars, eventVars
  <2>10. AnnouncedIsApproved'
    <3> SUFFICES ASSUME NEW h \in Handlers, Announcing(h)'
                 PROVE  of'[h] # None /\ WasApproved(JobOf(h))'
      BY DEF AnnouncedIsApproved
    <3>1. of[h] # None /\ WasApproved(JobOf(h))
      BY <1>1 DEF FulfilmentInv, AnnouncedIsApproved, Announcing, handlerVars, eventVars
    <3>2. of[h] \in Signatures /\ of[h] # s
      BY <3>1, <2>6, CarriedJob
    <3>3. JobOf(h)' = JobOf(h)
      BY <1>1, <2>4, <3>2 DEF JobOf, handlerVars
    <3>4. QED
      BY <1>1, <3>1, <3>3 DEF WasApproved, rowVars, handlerVars
  <2>11. QED
    BY <2>7, <2>8, <2>9, <2>10 DEF FulfilmentInv
<1>3. CASE RemoveSent(s)
  <2>1. UNCHANGED <<signature, written>> /\ sent' = sent \cup {s}
    BY <1>3 DEF RemoveSent, Outbox!Settle
  <2>2. FulfilmentTypeOK'
    BY <1>1, <2>1 DEF FulfilmentInv, FulfilmentTypeOK, rowVars, handlerVars, eventVars,
       purchaseVars, Outbox!TypeOK, Events!TypeOK, Signed
  <2>3. QED
    BY <1>1, <2>1, <2>2, JobsOnlyGrow DEF rowVars, handlerVars, eventVars, WasApproved
<1>4. QED
  BY <1>2, <1>3

LEMMA SignoffKeepsInv ==
  ASSUME FulfilmentInv, NEW s \in Signatures, NEW h \in Handlers, Signoff(s, h)
  PROVE  FulfilmentInv'
<1> DEFINE j == signature[s].job
<1>1. /\ handler[h] = "idle"
      /\ signature[s] # None
      /\ of' = [of EXCEPT ![h] = s]
      /\ SetJobStatus(j, signature[s].verdict)
      /\ UNCHANGED <<orderStatus, signature, sent, eventVars, purchaseVars>>
      /\ written' = [written EXCEPT ![s] = @ + 1]
  BY DEF Signoff, PostOf, Outbox!Perform, Signed
<1>2. handler' = [handler EXCEPT ![h] = IF signature[s].verdict = "client_approved"
                                          THEN "fetch" ELSE "answered"]
  BY DEF Signoff
<1>3. j \in Jobs /\ signature[s].verdict \in JobStatuses /\ job[j] # None
  BY <1>1, SheetTyped DEF FulfilmentInv, SignedJobExists, Verdicts, JobStatuses
<1>4. /\ job' \in [Jobs -> JobRows \cup {None}]
      /\ withdrawn' \subseteq Jobs
      /\ \A i \in Jobs : job[i] # None => job'[i] # None
      /\ \A i \in Jobs : WasApproved(i) => WasApproved(i)'
      /\ signature[s].verdict = "client_approved" => WasApproved(j)'
  BY <1>1, <1>3, StatusWritten DEF FulfilmentInv
<1>5. \A g \in Handlers :
        /\ of'[g] = IF g = h THEN s ELSE of[g]
        /\ g # h => handler'[g] = handler[g]
  BY <1>1, <1>2 DEF FulfilmentInv, FulfilmentTypeOK
<1>6. FulfilmentTypeOK'
  <2>1. handler' \in [Handlers -> HandlerStates] /\ of' \in [Handlers -> Signatures \cup {None}]
    BY <1>1, <1>2 DEF FulfilmentInv, FulfilmentTypeOK, HandlerStates
  <2>2. Outbox!TypeOK'
    BY <1>1 DEF FulfilmentInv, FulfilmentTypeOK, Outbox!TypeOK, Signed
  <2>3. faults' \in 0 .. MaxFaults
    BY FaultTyped DEF FulfilmentInv, Signoff, PostOf
  <2>4. QED
    BY <1>1, <1>4, <2>1, <2>2, <2>3 DEF FulfilmentInv, FulfilmentTypeOK, eventVars,
       purchaseVars, Events!TypeOK
<1>7. SignedJobExists'
  <2>1. \A r \in Signatures : signature[r] # None => signature[r].job \in Jobs
    BY SheetTyped DEF FulfilmentInv
  <2>2. QED
    BY <1>1, <1>4, <2>1 DEF FulfilmentInv, SignedJobExists
<1>8. h \notin announced /\ announced' = announced
  BY <1>1 DEF FulfilmentInv, IdleIsUnannounced, eventVars
<1>9. CarriedIsSigned' /\ IdleIsUnannounced'
  BY <1>1, <1>5, <1>8 DEF FulfilmentInv, CarriedIsSigned, IdleIsUnannounced
<1>10. AnnouncedIsApproved'
  <2> SUFFICES ASSUME NEW g \in Handlers, Announcing(g)'
               PROVE  of'[g] # None /\ WasApproved(JobOf(g))'
    BY DEF AnnouncedIsApproved
  <2>1. CASE g = h
    <3>1. handler'[h] \in {"fetch", "publish"}
      BY <1>8, <2>1 DEF Announcing
    <3>2. signature[s].verdict = "client_approved"
      BY <1>2, <3>1 DEF FulfilmentInv, FulfilmentTypeOK
    <3>3. JobOf(h)' = j
      BY <1>1, <1>5 DEF JobOf
    <3>4. of'[h] = s /\ s # None
      BY <1>5, FulfilmentAssumption
    <3>5. WasApproved(JobOf(h))'
      BY <1>1, <1>4, <3>2, <3>3 DEF WasApproved
    <3>6. QED
      BY <2>1, <3>4, <3>5
  <2>2. CASE g # h
    <3>1. of[g] # None /\ WasApproved(JobOf(g))
      BY <1>5, <1>8, <2>2 DEF FulfilmentInv, AnnouncedIsApproved, Announcing
    <3>2. JobOf(g) \in Jobs /\ JobOf(g)' = JobOf(g)
      BY <1>1, <1>5, <2>2, <3>1, CarriedJob DEF JobOf
    <3>3. WasApproved(JobOf(g))'
      BY <1>4, <3>1, <3>2 DEF WasApproved
    <3>4. QED
      BY <1>5, <2>2, <3>1, <3>3
  <2>3. QED
    BY <2>1, <2>2
<1>11. QED
  BY <1>6, <1>7, <1>9, <1>10 DEF FulfilmentInv

LEMMA SignoffFailsKeepsInv ==
  ASSUME FulfilmentInv, NEW s \in Signatures, NEW h \in Handlers, SignoffFails(s, h)
  PROVE  FulfilmentInv'
<1>1. /\ handler[h] = "idle"
      /\ signature[s] # None
      /\ of' = [of EXCEPT ![h] = s]
      /\ handler' = [handler EXCEPT ![h] = "failed"]
      /\ UNCHANGED <<rowVars, outboxVars, eventVars, purchaseVars>>
  BY DEF SignoffFails, Signed
<1>2. \A g \in Handlers :
        /\ of'[g] = IF g = h THEN s ELSE of[g]
        /\ handler'[g] = IF g = h THEN "failed" ELSE handler[g]
  BY <1>1 DEF FulfilmentInv, FulfilmentTypeOK
<1>3. FulfilmentTypeOK'
  <2>1. handler' \in [Handlers -> HandlerStates] /\ of' \in [Handlers -> Signatures \cup {None}]
    BY <1>1 DEF FulfilmentInv, FulfilmentTypeOK, HandlerStates
  <2>2. faults' \in 0 .. MaxFaults
    BY FaultTyped DEF FulfilmentInv, SignoffFails
  <2>3. QED
    BY <1>1, <2>1, <2>2 DEF FulfilmentInv, FulfilmentTypeOK, rowVars, outboxVars,
       eventVars, purchaseVars, Outbox!TypeOK, Events!TypeOK, Signed
<1>4. h \notin announced
  BY <1>1 DEF FulfilmentInv, IdleIsUnannounced
<1>5. SignedJobExists' /\ CarriedIsSigned' /\ IdleIsUnannounced'
  BY <1>1, <1>2, <1>4 DEF FulfilmentInv, SignedJobExists, CarriedIsSigned,
     IdleIsUnannounced, rowVars, outboxVars, eventVars
<1>6. AnnouncedIsApproved'
  <2> SUFFICES ASSUME NEW g \in Handlers, Announcing(g)'
               PROVE  of'[g] # None /\ WasApproved(JobOf(g))'
    BY DEF AnnouncedIsApproved
  <2>1. g # h /\ Announcing(g)
    BY <1>1, <1>2, <1>4 DEF Announcing, eventVars
  <2>2. of[g] # None /\ WasApproved(JobOf(g))
    BY <2>1 DEF FulfilmentInv, AnnouncedIsApproved
  <2>3. QED
    BY <1>1, <1>2, <2>1, <2>2 DEF JobOf, WasApproved, rowVars, outboxVars
<1>7. QED
  BY <1>3, <1>5, <1>6 DEF FulfilmentInv

LEMMA HandlerStepKeepsInv ==
  ASSUME FulfilmentInv, NEW h \in Handlers, HandlerStep(h)
  PROVE  FulfilmentInv'
<1>1. /\ handler[h] \in {"fetch", "publish"}
      /\ UNCHANGED <<rowVars, outboxVars, of, purchaseVars>>
  BY DEF HandlerStep, FetchForEvent, PublishSignoff, AnnouncementFails
<1>2. PICK a \in {"publish", "answered", "failed"} : handler' = [handler EXCEPT ![h] = a]
  BY DEF HandlerStep, FetchForEvent, PublishSignoff, AnnouncementFails
<1>3. /\ announced' = announced \/ announced' = announced \cup {h}
      /\ UNCHANGED <<acked, locks>>
      /\ lost' \subseteq lost \cup {h}
  BY DEF HandlerStep, FetchForEvent, PublishSignoff, AnnouncementFails, Events!Promise,
         eventVars
<1>4. FulfilmentTypeOK'
  <2>1. handler' \in [Handlers -> HandlerStates]
    BY <1>2 DEF FulfilmentInv, FulfilmentTypeOK, HandlerStates
  <2>2. Events!TypeOK'
    BY <1>3 DEF FulfilmentInv, FulfilmentTypeOK, Events!TypeOK
  <2>3. faults' \in 0 .. MaxFaults
    BY FaultTyped DEF FulfilmentInv, HandlerStep, FetchForEvent, PublishSignoff, AnnouncementFails
  <2>4. QED
    BY <1>1, <1>3, <2>1, <2>2, <2>3 DEF FulfilmentInv, FulfilmentTypeOK, rowVars,
       outboxVars, purchaseVars, Outbox!TypeOK, Signed
<1>5. /\ \A g \in Handlers \ {h} : handler'[g] = handler[g]
      /\ handler'[h] # "idle"
  BY <1>2 DEF FulfilmentInv, FulfilmentTypeOK
<1>6. announced' \subseteq announced \cup {h}
  BY <1>3
<1>7. Announcing(h)
  BY <1>1 DEF Announcing
<1>8. QED
  BY <1>1, <1>4, <1>5, <1>6, <1>7, HandlerGoesOn DEF rowVars, outboxVars

(* Only the event of an approval is handled. *)
LEMMA LockTyped ==
  ASSUME FulfilmentInv, NEW h \in Handlers, ProcessInstallationSignoff(h)
  PROVE  /\ WasApproved(JobOf(h))
         /\ JobOf(h) \in Jobs
         /\ job[JobOf(h)].order \in Orders
         /\ \A o \in Orders : orderStatus'[o] = IF o = job[JobOf(h)].order
                                                 THEN "installation_complete"
                                                 ELSE orderStatus[o]
<1>1. h \in announced
  BY DEF ProcessInstallationSignoff, Events!Perform
<1>2. of[h] # None /\ WasApproved(JobOf(h))
  BY <1>1 DEF FulfilmentInv, AnnouncedIsApproved, Announcing
<1>3. JobOf(h) \in Jobs /\ job[JobOf(h)] \in JobRows
  BY <1>2, CarriedJob
<1>4. job[JobOf(h)].order \in Orders
  BY <1>3 DEF JobRows
<1>5. QED
  BY <1>2, <1>3, <1>4 DEF ProcessInstallationSignoff, FinancialLock, FulfilmentInv,
     FulfilmentTypeOK

LEMMA WorkerKeepsInv ==
  ASSUME FulfilmentInv, NEW h \in Handlers, ProcessInstallationSignoff(h) \/ AckSignoff(h)
  PROVE  FulfilmentInv'
<1>1. UNCHANGED <<job, withdrawn, outboxVars, handlerVars, purchaseVars, announced, lost>>
  BY DEF ProcessInstallationSignoff, AckSignoff, rowVars, Events!Perform, Events!Settle
<1>2. orderStatus' \in [Orders -> OrderStatuses]
  <2>1. CASE ProcessInstallationSignoff(h)
    BY <2>1 DEF FulfilmentInv, FulfilmentTypeOK, ProcessInstallationSignoff, FinancialLock,
       OrderStatuses
  <2>2. CASE AckSignoff(h)
    BY <2>2 DEF FulfilmentInv, FulfilmentTypeOK, AckSignoff, rowVars
  <2>3. QED
    BY <2>1, <2>2
<1>3. Events!TypeOK'
  BY DEF FulfilmentInv, FulfilmentTypeOK, ProcessInstallationSignoff, AckSignoff,
     Events!TypeOK, Events!Perform, Events!Settle
<1>4. faults' \in 0 .. MaxFaults
  BY FaultTyped DEF FulfilmentInv, ProcessInstallationSignoff, AckSignoff
<1>5. FulfilmentTypeOK'
  BY <1>1, <1>2, <1>3, <1>4 DEF FulfilmentInv, FulfilmentTypeOK, outboxVars, handlerVars,
     purchaseVars, Outbox!TypeOK, Signed
<1>6. QED
  BY <1>1, <1>5, JobsOnlyGrow DEF outboxVars, handlerVars, WasApproved

-----------------------------------------------------------------------------
LEMMA StepFulfilmentInv == FulfilmentInv /\ [Next]_vars => FulfilmentInv'
<1> SUFFICES ASSUME FulfilmentInv, [Next]_vars PROVE FulfilmentInv'
  OBVIOUS
<1>1. CASE \E j \in Jobs : CreateInstallation(j) \/ AssignInstaller(j)
  BY <1>1, ManagersKeepInv
<1>2. CASE \E p \in PurchaseOrders :
             CreatePurchaseOrder(p) \/ UpdateOrderStatus(p) \/ UpdateOrderStatusFails(p)
  BY <1>2, PurchasesKeepInv
<1>3. CASE \E s \in Signatures : SignOnDevice(s) \/ RemoveSent(s)
  BY <1>3, DeviceKeepsInv
<1>4. CASE \E s \in Signatures, h \in Handlers : Signoff(s, h)
  BY <1>4, SignoffKeepsInv
<1>5. CASE \E s \in Signatures, h \in Handlers : SignoffFails(s, h)
  BY <1>5, SignoffFailsKeepsInv
<1>6. CASE \E h \in Handlers : HandlerStep(h)
  BY <1>6, HandlerStepKeepsInv
<1>7. CASE \E h \in Handlers : ProcessInstallationSignoff(h) \/ AckSignoff(h)
  BY <1>7, WorkerKeepsInv
<1>8. CASE UNCHANGED vars
  <2>1. UNCHANGED <<rowVars, outboxVars, handlerVars, eventVars, purchaseVars, faults>>
    BY <1>8 DEF vars
  <2>2. FulfilmentTypeOK'
    BY <2>1 DEF FulfilmentInv, FulfilmentTypeOK, rowVars, outboxVars, handlerVars, eventVars,
       purchaseVars, Outbox!TypeOK, Events!TypeOK, Signed
  <2>3. QED
    BY <2>1, <2>2, JobsOnlyGrow DEF rowVars, outboxVars, handlerVars, eventVars, WasApproved
<1>9. QED
  BY <1>1, <1>2, <1>3, <1>4, <1>5, <1>6, <1>7, <1>8 DEF Next

LEMMA FulfilmentInvariant == FulfilmentSafetySpec => []FulfilmentInv
BY InitFulfilmentInv, StepFulfilmentInv, PTL DEF FulfilmentSafetySpec

(* Type correctness of the fulfilment of orders, for any number of orders, *)
(* jobs, signatures, handlers and faults.                                  *)
THEOREM FulfilmentTypeCorrect == FulfilmentSafetySpec => []FulfilmentTypeOK
<1>1. FulfilmentInv => FulfilmentTypeOK
  BY DEF FulfilmentInv
<1>2. QED
  BY <1>1, FulfilmentInvariant, PTL

(* The worker completes an order only after a client approved one of its   *)
(* jobs, however posts are repeated, answers lost, events delivered again  *)
(* and jobs reassigned in between.                                         *)
THEOREM ApprovalComesFirst == FulfilmentSafetySpec => CompletionFollowsApproval
<1> DEFINE Completes(o) ==
      orderStatus'[o] = "installation_complete" /\ orderStatus'[o] # orderStatus[o]
    Approved(o) ==
      \E j \in Jobs : /\ job[j] # None
                      /\ job[j].order = o
                      /\ job[j].status = "client_approved" \/ j \in withdrawn
    Follows == \A o \in Orders : Completes(o) => Approved(o)
<1>1. ASSUME FulfilmentInv, [Next]_vars PROVE [Follows]_vars
  <2>1. CASE \E h \in Handlers : ProcessInstallationSignoff(h)
    <3>1. PICK h \in Handlers : ProcessInstallationSignoff(h)
      BY <2>1
    <3>2. ASSUME NEW o \in Orders, Completes(o) PROVE Approved(o)
      <4>1. o = job[JobOf(h)].order
        BY <1>1, <3>1, <3>2, LockTyped
      <4>2. JobOf(h) \in Jobs /\ WasApproved(JobOf(h))
        BY <1>1, <3>1, LockTyped
      <4>3. QED
        BY <4>1, <4>2 DEF WasApproved
    <3>3. QED
      BY <3>2
  <2>2. CASE \E p \in PurchaseOrders : UpdateOrderStatus(p)
    <3>1. ASSUME NEW o \in Orders, Completes(o) PROVE FALSE
      BY <1>1, <2>2, <3>1 DEF UpdateOrderStatus, FulfilmentInv, FulfilmentTypeOK
    <3>2. QED
      BY <3>1
  <2>3. CASE orderStatus' = orderStatus
    BY <2>3
  <2>4. QED
    BY <1>1, <2>1, <2>2, <2>3 DEF Next, vars, rowVars, CreateInstallation, AssignInstaller,
       CreatePurchaseOrder, UpdateOrderStatusFails, SignOnDevice, RemoveSent, Signoff,
       SignoffFails, HandlerStep, FetchForEvent, PublishSignoff, AnnouncementFails, AckSignoff
<1>2. FulfilmentSafetySpec => [][Follows]_vars
  BY <1>1, FulfilmentInvariant, PTL DEF FulfilmentSafetySpec
<1>3. QED
  BY <1>2 DEF CompletionFollowsApproval
=============================================================================
