------------------------- MODULE ContractorPayments -------------------------
(***************************************************************************)
(* Paying the installers of installation jobs.  A payment request reads    *)
(* the job's row, applies the business rules to what it read, commits the  *)
(* payment with the job's running totals in one transaction, and then      *)
(* advances installer_job_status in a statement of its own.  Technical     *)
(* managers change the same row at any moment in between.                  *)
(*                                                                         *)
(* A payment request makes at most one row of installer_payments, so a row *)
(* is named by its request.  The agreed price, the payment mode and the    *)
(* texts are left out; amounts are whole paise.                            *)
(***************************************************************************)
EXTENDS Naturals, FiniteSets, FiniteSetsExt

CONSTANTS
  Jobs,
  Installers,
  Requests,     \* payment requests
  Amounts,      \* the amounts asked for
  StagesLogged, \* bound: the values managers write to installer_job_status
  None          \* NULL: no job, no installer, no payment

Statuses == {"assigned", "in_progress", "client_approved", "redo_required"}

validInstallerJobStatuses ==
  {"assigned", "accepted", "advance_disbursed", "en_route", "on_site",
   "in_progress", "completed_pending_signoff", "client_approved",
   "payment_discharged"}

ASSUME ContractorPaymentsAssumption ==
  /\ Amounts \subseteq Nat
  /\ StagesLogged \subseteq validInstallerJobStatuses
  /\ None \notin Installers

PaymentTypes == {"advance", "final_discharge"}

Rows == [installer : Installers \cup {None},
         status : Statuses,
         stage : validInstallerJobStatuses,
         advance : Nat,
         final : Nat]

Asks == [job : Jobs, type : PaymentTypes, amount : Amounts]

Receipts == [job : Jobs, type : PaymentTypes, amount : Amounts, installer : Installers]

ASSUME NoneIsNoRow == None \notin Rows \cup Asks \cup Receipts

VARIABLES
  job,       \* the rows of installations; stage is installer_job_status
  pc,        \* where each payment request is
  ask,       \* what it asks for
  seen,      \* the row as GetInstallation read it
  payment,   \* the row of installer_payments it made
  signed,    \* history: who was assigned to a job when its client approved
  accepted   \* history: the jobs whose stage was ever past 'assigned'

vars == <<job, pc, ask, seen, payment, signed, accepted>>

PaymentTypeOK ==
  /\ job \in [Jobs -> Rows \cup {None}]
  /\ pc \in [Requests -> {"idle", "checked", "recorded", "done", "refused"}]
  /\ ask \in [Requests -> Asks \cup {None}]
  /\ seen \in [Requests -> Rows \cup {None}]
  /\ payment \in [Requests -> Receipts \cup {None}]
  /\ signed \subseteq Jobs \X (Installers \cup {None})
  /\ accepted \subseteq Jobs

Init ==
  /\ job = [j \in Jobs |-> None]
  /\ pc = [r \in Requests |-> "idle"]
  /\ ask = [r \in Requests |-> None]
  /\ seen = [r \in Requests |-> None]
  /\ payment = [r \in Requests |-> None]
  /\ signed = {}
  /\ accepted = {}

-----------------------------------------------------------------------------
(* The technical managers. *)

NewJob == [installer |-> None, status |-> "assigned", stage |-> "assigned",
           advance |-> 0, final |-> 0]

CreateInstallation(j) ==
  /\ job[j] = None
  /\ job' = [job EXCEPT ![j] = NewJob]
  /\ UNCHANGED <<pc, ask, seen, payment, signed, accepted>>

(* Mutant: a new installer inherits the job's status. *)
AssignInstaller_KeepsStatus(j, i) ==
  /\ job[j] # None
  /\ job' = [job EXCEPT ![j].installer = i]
  /\ UNCHANGED <<pc, ask, seen, payment, signed, accepted>>

AssignInstaller(j, i) ==
  /\ job[j] # None
  /\ job' = [job EXCEPT ![j].installer = i, ![j].status = "in_progress"]
  /\ UNCHANGED <<pc, ask, seen, payment, signed, accepted>>

(* Neither the job's status nor its installer is looked at. *)
Signoff(j, s) ==
  /\ job[j] # None
  /\ job' = [job EXCEPT ![j].status = s]
  /\ signed' = IF s = "client_approved"
                 THEN signed \cup {<<j, job[j].installer>>} ELSE signed
  /\ UNCHANGED <<pc, ask, seen, payment, accepted>>

SetStage(j, s) ==
  /\ job' = [job EXCEPT ![j].stage = s]
  /\ accepted' = IF s # "assigned" THEN accepted \cup {j} ELSE accepted

(* Any valid value may follow any other. *)
UpdateInstallerJobStatus(j, s) ==
  /\ job[j] # None
  /\ SetStage(j, s)
  /\ UNCHANGED <<pc, ask, seen, payment, signed>>

-----------------------------------------------------------------------------
(* A payment request. *)

(* Mutant: the stage 'assigned' is allowed too. *)
AdvanceAllowed_FromTheStart == validInstallerJobStatuses

AdvanceAllowed == validInstallerJobStatuses \ {"assigned"}

(* Mutant: the lock looks at the wrong one of the two status columns. *)
Allowed_ByStage(a, row) ==
  /\ a.amount > 0
  /\ row # None
  /\ row.installer # None
  /\ a.type = "advance" => row.stage \in AdvanceAllowed
  /\ a.type = "final_discharge" => row.stage = "client_approved"

Allowed(a, row) ==
  /\ a.amount > 0
  /\ row # None
  /\ row.installer # None
  /\ a.type = "advance" => row.stage \in AdvanceAllowed
  /\ a.type = "final_discharge" => row.status = "client_approved"

CheckPayment(r) ==
  /\ pc[r] = "idle"
  /\ \E a \in Asks :
       /\ Allowed(a, job[a.job])
       /\ ask' = [ask EXCEPT ![r] = a]
       /\ seen' = [seen EXCEPT ![r] = job[a.job]]
  /\ pc' = [pc EXCEPT ![r] = "checked"]
  /\ UNCHANGED <<job, payment, signed, accepted>>

(* A rule is broken, or the row cannot be read. *)
RefusePayment(r) ==
  /\ pc[r] = "idle"
  /\ pc' = [pc EXCEPT ![r] = "refused"]
  /\ UNCHANGED <<job, ask, seen, payment, signed, accepted>>

(* Mutant: the new total is computed from the row read before. *)
AddToTotal_Stale(r) ==
  LET a == ask[r]
  IN  job' = IF a.type = "advance"
               THEN [job EXCEPT ![a.job].advance = seen[r].advance + a.amount]
               ELSE [job EXCEPT ![a.job].final = seen[r].final + a.amount]

AddToTotal(r) ==
  LET a == ask[r]
  IN  job' = IF a.type = "advance"
               THEN [job EXCEPT ![a.job].advance = @ + a.amount]
               ELSE [job EXCEPT ![a.job].final = @ + a.amount]

(* The transaction commits; the commit's reply may be lost, and then the    *)
(* request fails with the payment made.                                     *)
RecordPayment(r) ==
  /\ pc[r] = "checked"
  /\ payment' = [payment EXCEPT ![r] =
       [job |-> ask[r].job, type |-> ask[r].type, amount |-> ask[r].amount,
        installer |-> seen[r].installer]]
  /\ AddToTotal(r)
  /\ \E s \in {"recorded", "refused"} : pc' = [pc EXCEPT ![r] = s]
  /\ UNCHANGED <<ask, seen, signed, accepted>>

RecordFails(r) ==
  /\ pc[r] = "checked"
  /\ pc' = [pc EXCEPT ![r] = "refused"]
  /\ UNCHANGED <<job, ask, seen, payment, signed, accepted>>

(* Mutant: the stage written is not one of the lifecycle. *)
NextStage_Unknown(r) ==
  IF ask[r].type = "final_discharge" THEN {"discharged"} ELSE {"advance_disbursed"}

(* The stage a payment leads to, or the empty set. *)
NextStage(r) ==
  CASE ask[r].type = "final_discharge" -> {"payment_discharged"}
    [] ask[r].type = "advance" /\ seen[r].stage = "accepted" -> {"advance_disbursed"}
    [] OTHER -> {}

AutoAdvance(r) ==
  /\ pc[r] = "recorded"
  /\ \E s \in NextStage(r) : SetStage(ask[r].job, s)
  /\ pc' = [pc EXCEPT ![r] = "done"]
  /\ UNCHANGED <<ask, seen, payment, signed>>

(* Nothing to advance, or the update fails, which nobody looks at. *)
SkipAdvance(r) ==
  /\ pc[r] = "recorded"
  /\ pc' = [pc EXCEPT ![r] = "done"]
  /\ UNCHANGED <<job, ask, seen, payment, signed, accepted>>

-----------------------------------------------------------------------------
ManagerStep(j) ==
  \/ CreateInstallation(j)
  \/ \E i \in Installers : AssignInstaller(j, i)
  \/ \E s \in {"client_approved", "redo_required"} : Signoff(j, s)
  \/ \E s \in StagesLogged : UpdateInstallerJobStatus(j, s)

PaymentStep(r) ==
  \/ CheckPayment(r)
  \/ RefusePayment(r)
  \/ RecordPayment(r)
  \/ RecordFails(r)
  \/ AutoAdvance(r)
  \/ SkipAdvance(r)

Next ==
  \/ \E j \in Jobs : ManagerStep(j)
  \/ \E r \in Requests : PaymentStep(r)

Spec == Init /\ [][Next]_vars

-----------------------------------------------------------------------------
(* Properties *)

(* A final payout goes to an installer who was assigned to the job when its *)
(* client approved it, whoever is assigned by now and whatever the job's    *)
(* status has become.                                                       *)
FinalPayeeIsSignedFor ==
  \A r \in Requests :
    payment[r] # None /\ payment[r].type = "final_discharge" =>
      <<payment[r].job, payment[r].installer>> \in signed

(* No advance for a job nobody has ever accepted. *)
AdvanceHasAcceptance ==
  \A r \in Requests :
    payment[r] # None /\ payment[r].type = "advance" =>
      payment[r].job \in accepted

(* The Final Discharge Lock and the Advance Block of LogPayment hold of     *)
(* every committed payment, although both look at a row read before it.     *)
PaymentLocksHold == FinalPayeeIsSignedFor /\ AdvanceHasAcceptance

Total(j, type) ==
  MapThenSumSet(LAMBDA r : payment[r].amount,
                {r \in Requests : /\ payment[r] # None
                                  /\ payment[r].job = j
                                  /\ payment[r].type = type})

(* The running totals of a job are what its ledger adds up to, however its *)
(* payments interleave.                                                    *)
TotalsMatchLedger ==
  \A j \in Jobs :
    job[j] # None => /\ job[j].advance = Total(j, "advance")
                     /\ job[j].final = Total(j, "final_discharge")
=============================================================================
