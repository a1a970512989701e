---------------------- MODULE ContractorPayments_proofs ----------------------
(***************************************************************************)
(* Proofs about ContractorPayments: although a payment request applies the *)
(* rules to a row it read before its transaction, every committed payment  *)
(* obeys them, and the running totals of a job are what its payments add   *)
(* up to, for any number of jobs, installers and requests.                 *)
(***************************************************************************)
EXTENDS ContractorPayments, FiniteSetTheorems, WellFoundedInduction, TLAPS

(* What the row of a job says of its past: an approved job was approved    *)
(* with the installer it has, a stage past the first was an acceptance.    *)
RowsTellThePast ==
  \A j \in Jobs : job[j] # None =>
    /\ job[j].status = "client_approved" => <<j, job[j].installer>> \in signed
    /\ job[j].stage # "assigned" => j \in accepted

(* Between its check and its end a request holds a row that passed the     *)
(* rules.                                                                  *)
Holds(r) ==
  /\ ask[r] \in Asks
  /\ seen[r] \in Rows
  /\ seen[r].installer \in Installers
  /\ job[ask[r].job] # None
  /\ ask[r].type = "final_discharge" => <<ask[r].job, seen[r].installer>> \in signed
  /\ ask[r].type = "advance" => ask[r].job \in accepted

CheckedWasAllowed ==
  \A r \in Requests : pc[r] \in {"checked", "recorded"} => Holds(r)

PaymentInv ==
  /\ PaymentTypeOK
  /\ RowsTellThePast
  /\ CheckedWasAllowed
  /\ PaymentLocksHold

-----------------------------------------------------------------------------
LEMMA InitInv == Init => PaymentInv
<1> SUFFICES ASSUME Init PROVE PaymentInv
  OBVIOUS
<1>1. PaymentTypeOK
  BY DEF Init, PaymentTypeOK
<1>2. RowsTellThePast /\ CheckedWasAllowed
  BY DEF Init, RowsTellThePast, CheckedWasAllowed
<1>3. PaymentLocksHold
  BY DEF Init, PaymentLocksHold, FinalPayeeIsSignedFor, AdvanceHasAcceptance
<1> QED BY <1>1, <1>2, <1>3 DEF PaymentInv

(* A job that was created is a row. *)
LEMMA JobTyped ==
  ASSUME PaymentTypeOK, NEW j \in Jobs, job[j] # None
  PROVE  job[j] \in Rows
BY DEF PaymentTypeOK

(* As long as jobs stay and the histories grow, what requests and payments  *)
(* rest on stays true: only the rows need a look.                           *)
LEMMA RowStepInv ==
  ASSUME PaymentInv, NEW j \in Jobs, NEW new \in Rows,
         job' = [job EXCEPT ![j] = new],
         signed \subseteq signed', accepted \subseteq accepted',
         signed' \subseteq Jobs \X (Installers \cup {None}), accepted' \subseteq Jobs,
         new.status = "client_approved" => <<j, new.installer>> \in signed',
         new.stage # "assigned" => j \in accepted',
         UNCHANGED <<pc, ask, seen, payment>>
  PROVE  PaymentInv'
<1>1. job \in [Jobs -> Rows \cup {None}]
  BY DEF PaymentInv, PaymentTypeOK
<1>2. /\ job' \in [Jobs -> Rows \cup {None}]
      /\ job'[j] = new
      /\ \A k \in Jobs \ {j} : job'[k] = job[k]
      /\ \A k \in Jobs : job[k] # None => job'[k] # None
  BY <1>1, NoneIsNoRow
<1>3. PaymentTypeOK'
  BY <1>2 DEF PaymentInv, PaymentTypeOK
<1>4. RowsTellThePast'
  BY <1>2 DEF PaymentInv, RowsTellThePast
<1>5. CheckedWasAllowed'
  <2> SUFFICES ASSUME NEW r \in Requests, pc[r] \in {"checked", "recorded"}
               PROVE  Holds(r)'
    BY DEF CheckedWasAllowed
  <2>1. Holds(r)
    BY DEF PaymentInv, CheckedWasAllowed
  <2>2. ask[r].job \in Jobs
    BY <2>1 DEF Holds, Asks
  <2> QED BY <1>2, <2>1, <2>2 DEF Holds
<1>6. PaymentLocksHold'
  BY DEF PaymentInv, PaymentLocksHold, FinalPayeeIsSignedFor, AdvanceHasAcceptance
<1> QED BY <1>3, <1>4, <1>5, <1>6 DEF PaymentInv

-----------------------------------------------------------------------------
(* The technical managers. *)

LEMMA CreateInstallationInv ==
  ASSUME PaymentInv, NEW j \in Jobs, CreateInstallation(j)
  PROVE  PaymentInv'
<1>1. NewJob \in Rows /\ NewJob.status # "client_approved" /\ NewJob.stage = "assigned"
  BY DEF NewJob, Rows, Statuses, validInstallerJobStatuses
<1>2. /\ job' = [job EXCEPT ![j] = NewJob]
      /\ UNCHANGED <<pc, ask, seen, payment, signed, accepted>>
  BY DEF CreateInstallation
<1>3. signed \subseteq Jobs \X (Installers \cup {None}) /\ accepted \subseteq Jobs
  BY DEF PaymentInv, PaymentTypeOK
<1> QED BY <1>1, <1>2, <1>3, RowStepInv

LEMMA AssignInstallerInv ==
  ASSUME PaymentInv, NEW j \in Jobs, NEW i \in Installers, AssignInstaller(j, i)
  PROVE  PaymentInv'
<1> DEFINE new == [job[j] EXCEPT !.installer = i, !.status = "in_progress"]
<1>1. job[j] # None /\ UNCHANGED <<pc, ask, seen, payment, signed, accepted>>
  BY DEF AssignInstaller
<1>2. job[j] \in Rows
  BY <1>1, JobTyped DEF PaymentInv
<1>3. new \in Rows /\ new.status = "in_progress" /\ new.stage = job[j].stage
  BY <1>2 DEF Rows, Statuses
<1>4. job' = [job EXCEPT ![j] = new]
  BY DEF AssignInstaller, PaymentInv, PaymentTypeOK
<1> HIDE DEF new
<1>5. new.stage # "assigned" => j \in accepted
  BY <1>1, <1>3 DEF PaymentInv, RowsTellThePast
<1>6. signed \subseteq Jobs \X (Installers \cup {None}) /\ accepted \subseteq Jobs
  BY DEF PaymentInv, PaymentTypeOK
<1> QED BY <1>1, <1>3, <1>4, <1>5, <1>6, RowStepInv

LEMMA SignoffInv ==
  ASSUME PaymentInv, NEW j \in Jobs, NEW s \in {"client_approved", "redo_required"},
         Signoff(j, s)
  PROVE  PaymentInv'
<1> DEFINE new == [job[j] EXCEPT !.status = s]
<1>1. /\ job[j] # None /\ UNCHANGED <<pc, ask, seen, payment, accepted>>
      /\ signed' = IF s = "client_approved" THEN signed \cup {<<j, job[j].installer>>}
                                            ELSE signed
  BY DEF Signoff
<1>2. job[j] \in Rows
  BY <1>1, JobTyped DEF PaymentInv
<1>3. /\ new \in Rows /\ new.status = s
      /\ new.installer = job[j].installer /\ new.stage = job[j].stage
  BY <1>2 DEF Rows, Statuses
<1>4. job' = [job EXCEPT ![j] = new]
  BY DEF Signoff, PaymentInv, PaymentTypeOK
<1> HIDE DEF new
<1>5. new.status = "client_approved" => <<j, new.installer>> \in signed'
  BY <1>1, <1>3
<1>6. new.stage # "assigned" => j \in accepted'
  BY <1>1, <1>3 DEF PaymentInv, RowsTellThePast
<1>7. job[j].installer \in Installers \cup {None}
  BY <1>2 DEF Rows
<1>8. /\ signed \subseteq signed' /\ signed' \subseteq Jobs \X (Installers \cup {None})
      /\ accepted \subseteq accepted' /\ accepted' \subseteq Jobs
  BY <1>1, <1>7 DEF PaymentInv, PaymentTypeOK
<1> QED BY <1>1, <1>3, <1>4, <1>5, <1>6, <1>8, RowStepInv

(* A stage past the first is an acceptance, whoever writes it. *)
LEMMA SetStageInv ==
  ASSUME PaymentInv, NEW j \in Jobs, job[j] # None,
         NEW s \in validInstallerJobStatuses, SetStage(j, s),
         UNCHANGED <<pc, ask, seen, payment, signed>>
  PROVE  PaymentInv'
<1> DEFINE new == [job[j] EXCEPT !.stage = s]
<1>1. job[j] \in Rows
  BY JobTyped DEF PaymentInv
<1>2. /\ new \in Rows /\ new.stage = s
      /\ new.status = job[j].status /\ new.installer = job[j].installer
  BY <1>1 DEF Rows
<1>3. job' = [job EXCEPT ![j] = new]
  BY DEF SetStage, PaymentInv, PaymentTypeOK
<1> HIDE DEF new
<1>4. new.status = "client_approved" => <<j, new.installer>> \in signed
  BY <1>2 DEF PaymentInv, RowsTellThePast
<1>5. accepted \subseteq Jobs /\ signed \subseteq Jobs \X (Installers \cup {None})
  BY DEF PaymentInv, PaymentTypeOK
<1>6. accepted \subseteq accepted' /\ accepted' \subseteq Jobs /\ (s # "assigned" => j \in accepted')
  BY <1>5 DEF SetStage
<1> QED BY <1>2, <1>3, <1>4, <1>5, <1>6, RowStepInv

-----------------------------------------------------------------------------
(* A payment request. *)

(* What a request that passes the rules has in its hands. *)
LEMMA CheckPaymentInv ==
  ASSUME PaymentInv, NEW r \in Requests, CheckPayment(r)
  PROVE  PaymentInv'
<1>1. PICK a \in Asks :
        /\ Allowed(a, job[a.job])
        /\ ask' = [ask EXCEPT ![r] = a]
        /\ seen' = [seen EXCEPT ![r] = job[a.job]]
  BY DEF CheckPayment
<1>2. pc' = [pc EXCEPT ![r] = "checked"] /\ UNCHANGED <<job, payment, signed, accepted>>
  BY DEF CheckPayment
<1>3. /\ pc \in [Requests -> {"idle", "checked", "recorded", "done", "refused"}]
      /\ ask \in [Requests -> Asks \cup {None}]
      /\ seen \in [Requests -> Rows \cup {None}]
  BY DEF PaymentInv, PaymentTypeOK
<1>4. /\ a.job \in Jobs /\ a.type \in PaymentTypes
      /\ job[a.job] # None /\ job[a.job].installer # None
      /\ a.type = "advance" => job[a.job].stage # "assigned"
      /\ a.type = "final_discharge" => job[a.job].status = "client_approved"
  BY <1>1 DEF Asks, Allowed, AdvanceAllowed
<1>5. job[a.job] \in Rows
  BY <1>4, JobTyped DEF PaymentInv
<1>6. PaymentTypeOK'
  BY <1>1, <1>2, <1>3, <1>5 DEF PaymentInv, PaymentTypeOK
<1>7. /\ ask'[r] = a /\ seen'[r] = job[a.job]
      /\ \A q \in Requests \ {r} : /\ pc'[q] = pc[q] /\ ask'[q] = ask[q]
                                   /\ seen'[q] = seen[q]
  BY <1>1, <1>2, <1>3
<1>8. Holds(r)'
  <2>1. job[a.job].installer \in Installers
    BY <1>4, <1>5 DEF Rows
  <2>2. /\ a.type = "final_discharge" => <<a.job, job[a.job].installer>> \in signed
        /\ a.type = "advance" => a.job \in accepted
    BY <1>4 DEF PaymentInv, RowsTellThePast
  <2> QED BY <1>2, <1>4, <1>5, <1>7, <2>1, <2>2 DEF Holds
<1>9. CheckedWasAllowed'
  <2> SUFFICES ASSUME NEW q \in Requests, pc'[q] \in {"checked", "recorded"}
               PROVE  Holds(q)'
    BY DEF CheckedWasAllowed
  <2>1. CASE q = r
    BY <1>8, <2>1
  <2>2. CASE q # r
    BY <1>2, <1>7, <2>2 DEF PaymentInv, CheckedWasAllowed, Holds
  <2> QED BY <2>1, <2>2
<1>10. RowsTellThePast' /\ PaymentLocksHold'
  BY <1>2 DEF PaymentInv, RowsTellThePast, PaymentLocksHold, FinalPayeeIsSignedFor,
              AdvanceHasAcceptance
<1> QED BY <1>6, <1>9, <1>10 DEF PaymentInv

(* A request that ends, or goes on from a commit, changes nothing else. *)
LEMMA RequestEndsInv ==
  ASSUME PaymentInv, NEW r \in Requests, NEW s \in {"done", "refused"},
         pc' = [pc EXCEPT ![r] = s],
         UNCHANGED <<job, ask, seen, payment, signed, accepted>>
  PROVE  PaymentInv'
<1>1. pc \in [Requests -> {"idle", "checked", "recorded", "done", "refused"}]
  BY DEF PaymentInv, PaymentTypeOK
<1>2. /\ pc' \in [Requests -> {"idle", "checked", "recorded", "done", "refused"}]
      /\ pc'[r] = s
      /\ \A q \in Requests \ {r} : pc'[q] = pc[q]
  BY <1>1
<1>3. PaymentTypeOK'
  BY <1>2 DEF PaymentInv, PaymentTypeOK
<1>4. CheckedWasAllowed'
  BY <1>2 DEF PaymentInv, CheckedWasAllowed, Holds
<1>5. RowsTellThePast' /\ PaymentLocksHold'
  BY DEF PaymentInv, RowsTellThePast, PaymentLocksHold, FinalPayeeIsSignedFor,
         AdvanceHasAcceptance
<1> QED BY <1>3, <1>4, <1>5 DEF PaymentInv

(* The commit: the payment is about what was checked, and the total changes *)
(* nothing the rules look at.                                               *)
LEMMA RecordPaymentInv ==
  ASSUME PaymentInv, NEW r \in Requests, RecordPayment(r)
  PROVE  PaymentInv'
<1> DEFINE a == ask[r]
           j == a.job
           receipt == [job |-> a.job, type |-> a.type, amount |-> a.amount,
                       installer |-> seen[r].installer]
           new == job'[j]
<1>1. /\ pc[r] = "checked"
      /\ payment' = [payment EXCEPT ![r] = receipt]
      /\ AddToTotal(r)
      /\ UNCHANGED <<ask, seen, signed, accepted>>
  BY DEF RecordPayment
<1>2. PICK s \in {"recorded", "refused"} : pc' = [pc EXCEPT ![r] = s]
  BY DEF RecordPayment
<1>3. Holds(r)
  BY <1>1 DEF PaymentInv, CheckedWasAllowed
<1>4. a \in Asks /\ j \in Jobs /\ a.type \in PaymentTypes /\ a.amount \in Nat
  BY <1>3, ContractorPaymentsAssumption DEF Holds, Asks
<1>5. job[j] \in Rows /\ job \in [Jobs -> Rows \cup {None}]
  BY <1>3, <1>4, JobTyped DEF Holds, PaymentInv, PaymentTypeOK
<1>6. /\ new \in Rows
      /\ new.installer = job[j].installer /\ new.status = job[j].status
      /\ new.stage = job[j].stage
      /\ job' = [job EXCEPT ![j] = new]
  <2>1. CASE a.type = "advance"
    <3>1. job' = [job EXCEPT ![j] = [job[j] EXCEPT !.advance = job[j].advance + a.amount]]
      BY <1>1, <1>5, <2>1 DEF AddToTotal
    <3>2. job[j].advance + a.amount \in Nat
      BY <1>4, <1>5 DEF Rows
    <3>3. new = [job[j] EXCEPT !.advance = job[j].advance + a.amount]
      BY <1>4, <1>5, <3>1
    <3>4. /\ new \in Rows
          /\ new.installer = job[j].installer /\ new.status = job[j].status
          /\ new.stage = job[j].stage
      BY <1>5, <3>2, <3>3 DEF Rows
    <3> QED BY <3>1, <3>3, <3>4
  <2>2. CASE a.type # "advance"
    <3>1. job' = [job EXCEPT ![j] = [job[j] EXCEPT !.final = job[j].final + a.amount]]
      BY <1>1, <1>5, <2>2 DEF AddToTotal
    <3>2. job[j].final + a.amount \in Nat
      BY <1>4, <1>5 DEF Rows
    <3>3. new = [job[j] EXCEPT !.final = job[j].final + a.amount]
      BY <1>4, <1>5, <3>1
    <3>4. /\ new \in Rows
          /\ new.installer = job[j].installer /\ new.status = job[j].status
          /\ new.stage = job[j].stage
      BY <1>5, <3>2, <3>3 DEF Rows
    <3> QED BY <3>1, <3>3, <3>4
  <2> QED BY <2>1, <2>2
<1>7. /\ job' \in [Jobs -> Rows \cup {None}]
      /\ \A k \in Jobs \ {j} : job'[k] = job[k]
      /\ \A k \in Jobs : job[k] # None => job'[k] # None
  <2>1. \A k \in Jobs \ {j} : job'[k] = job[k]
    BY <1>5, <1>6
  <2>2. job' \in [Jobs -> Rows \cup {None}]
    BY <1>5, <1>6
  <2> QED BY <1>6, <2>1, <2>2, NoneIsNoRow
<1>8. receipt \in Receipts
  BY <1>3, <1>4 DEF Holds, Asks, Receipts
<1>9. /\ payment \in [Requests -> Receipts \cup {None}]
      /\ pc \in [Requests -> {"idle", "checked", "recorded", "done", "refused"}]
  BY DEF PaymentInv, PaymentTypeOK
<1>10. /\ payment' \in [Requests -> Receipts \cup {None}]
       /\ payment'[r] = receipt
       /\ \A q \in Requests \ {r} : payment'[q] = payment[q]
  BY <1>1, <1>8, <1>9
<1>11. /\ pc' \in [Requests -> {"idle", "checked", "recorded", "done", "refused"}]
       /\ \A q \in Requests \ {r} : pc'[q] = pc[q]
  BY <1>2, <1>9
<1>12. PaymentTypeOK'
  BY <1>1, <1>7, <1>10, <1>11 DEF PaymentInv, PaymentTypeOK
<1>13. RowsTellThePast'
  <2> SUFFICES ASSUME NEW k \in Jobs, job'[k] # None
               PROVE  /\ job'[k].status = "client_approved" => <<k, job'[k].installer>> \in signed
                      /\ job'[k].stage # "assigned" => k \in accepted
    BY <1>1 DEF RowsTellThePast
  <2>1. CASE k = j
    <3>1. job[j] # None
      BY <1>3 DEF Holds
    <3> QED BY <1>4, <1>6, <2>1, <3>1 DEF PaymentInv, RowsTellThePast
  <2>2. CASE k # j
    BY <1>7, <2>2 DEF PaymentInv, RowsTellThePast
  <2> QED BY <2>1, <2>2
<1>14. CheckedWasAllowed'
  <2> SUFFICES ASSUME NEW q \in Requests, pc'[q] \in {"checked", "recorded"}
               PROVE  Holds(q)'
    BY DEF CheckedWasAllowed
  <2>1. Holds(q)
    BY <1>3, <1>11 DEF PaymentInv, CheckedWasAllowed
  <2>2. ask[q].job \in Jobs
    BY <2>1 DEF Holds, Asks
  <2> QED BY <1>1, <1>7, <2>1, <2>2 DEF Holds
<1>15. PaymentLocksHold'
  <2>1. FinalPayeeIsSignedFor'
    BY <1>1, <1>3, <1>10 DEF PaymentInv, PaymentLocksHold, FinalPayeeIsSignedFor, Holds
  <2>2. AdvanceHasAcceptance'
    BY <1>1, <1>3, <1>10 DEF PaymentInv, PaymentLocksHold, AdvanceHasAcceptance, Holds
  <2> QED BY <2>1, <2>2 DEF PaymentLocksHold
<1> QED BY <1>12, <1>13, <1>14, <1>15 DEF PaymentInv

LEMMA NextStageTyped ==
  ASSUME NEW r \in Requests, NEW s \in NextStage(r)
  PROVE  s \in validInstallerJobStatuses
BY DEF NextStage, validInstallerJobStatuses

(* The stage is written by a statement of its own: that is a manager's step *)
(* followed by the end of the request.                                      *)
LEMMA AutoAdvanceInv ==
  ASSUME PaymentInv, NEW r \in Requests, AutoAdvance(r)
  PROVE  PaymentInv'
<1> DEFINE j == ask[r].job
           new == job'[j]
<1>1. PICK s \in NextStage(r) : SetStage(j, s)
  BY DEF AutoAdvance
<1>2. /\ pc[r] = "recorded" /\ pc' = [pc EXCEPT ![r] = "done"]
      /\ UNCHANGED <<ask, seen, payment, signed>>
  BY DEF AutoAdvance
<1>3. Holds(r)
  BY <1>2 DEF PaymentInv, CheckedWasAllowed
<1>4. j \in Jobs /\ job[j] # None
  BY <1>3 DEF Holds, Asks
<1>5. s \in validInstallerJobStatuses
  BY NextStageTyped
<1>6. job[j] \in Rows /\ job \in [Jobs -> Rows \cup {None}]
  BY <1>4, JobTyped DEF PaymentInv, PaymentTypeOK
<1>7. /\ job' = [job EXCEPT ![j] = [job[j] EXCEPT !.stage = s]]
      /\ new = [job[j] EXCEPT !.stage = s]
  BY <1>1, <1>4, <1>6 DEF SetStage
<1>8. /\ new \in Rows /\ new.stage = s
      /\ new.status = job[j].status /\ new.installer = job[j].installer
  BY <1>5, <1>6, <1>7 DEF Rows
<1>9. /\ job' \in [Jobs -> Rows \cup {None}]
      /\ \A k \in Jobs \ {j} : job'[k] = job[k]
      /\ \A k \in Jobs : job[k] # None => job'[k] # None
  <2>1. \A k \in Jobs \ {j} : job'[k] = job[k]
    BY <1>6, <1>7
  <2>2. job' \in [Jobs -> Rows \cup {None}]
    BY <1>6, <1>7, <1>8
  <2> QED BY <1>8, <2>1, <2>2, NoneIsNoRow
<1>10. accepted \subseteq accepted' /\ accepted' \subseteq Jobs /\ (s # "assigned" => j \in accepted')
  BY <1>1, <1>4 DEF SetStage, PaymentInv, PaymentTypeOK
<1>11. pc \in [Requests -> {"idle", "checked", "recorded", "done", "refused"}]
  BY DEF PaymentInv, PaymentTypeOK
<1>12. /\ pc' \in [Requests -> {"idle", "checked", "recorded", "done", "refused"}]
       /\ pc'[r] = "done"
       /\ \A q \in Requests \ {r} : pc'[q] = pc[q]
  BY <1>2, <1>11
<1>13. PaymentTypeOK'
  BY <1>2, <1>9, <1>10, <1>12 DEF PaymentInv, PaymentTypeOK
<1>14. RowsTellThePast'
  <2> SUFFICES ASSUME NEW k \in Jobs, job'[k] # None
               PROVE  /\ job'[k].status = "client_approved" => <<k, job'[k].installer>> \in signed
                      /\ job'[k].stage # "assigned" => k \in accepted'
    BY <1>2 DEF RowsTellThePast
  <2>1. CASE k = j
    BY <1>4, <1>8, <1>10, <2>1 DEF PaymentInv, RowsTellThePast
  <2>2. CASE k # j
    BY <1>9, <1>10, <2>2 DEF PaymentInv, RowsTellThePast
  <2> QED BY <2>1, <2>2
<1>15. CheckedWasAllowed'
  <2> SUFFICES ASSUME NEW q \in Requests, pc'[q] \in {"checked", "recorded"}
               PROVE  Holds(q)'
    BY DEF CheckedWasAllowed
  <2>1. Holds(q)
    BY <1>12 DEF PaymentInv, CheckedWasAllowed
  <2>2. ask[q].job \in Jobs
    BY <2>1 DEF Holds, Asks
  <2> QED BY <1>2, <1>9, <1>10, <2>1, <2>2 DEF Holds
<1>16. PaymentLocksHold'
  BY <1>2, <1>10 DEF PaymentInv, PaymentLocksHold, FinalPayeeIsSignedFor, AdvanceHasAcceptance
<1> QED BY <1>13, <1>14, <1>15, <1>16 DEF PaymentInv

-----------------------------------------------------------------------------
LEMMA ManagerStepInv ==
  ASSUME PaymentInv, NEW j \in Jobs, ManagerStep(j)
  PROVE  PaymentInv'
<1>1. CASE \E s \in StagesLogged : UpdateInstallerJobStatus(j, s)
  BY <1>1, SetStageInv, ContractorPaymentsAssumption DEF UpdateInstallerJobStatus
<1> QED BY <1>1, CreateInstallationInv, AssignInstallerInv, SignoffInv DEF ManagerStep

LEMMA PaymentStepInv ==
  ASSUME PaymentInv, NEW r \in Requests, PaymentStep(r)
  PROVE  PaymentInv'
<1>1. CASE RefusePayment(r) \/ RecordFails(r) \/ SkipAdvance(r)
  BY <1>1, RequestEndsInv DEF RefusePayment, RecordFails, SkipAdvance
<1> QED BY <1>1, CheckPaymentInv, RecordPaymentInv, AutoAdvanceInv DEF PaymentStep

LEMMA StutterInv ==
  ASSUME PaymentInv, UNCHANGED vars
  PROVE  PaymentInv'
<1>1. PaymentTypeOK' /\ RowsTellThePast'
  BY DEF vars, PaymentInv, PaymentTypeOK, RowsTellThePast
<1>2. CheckedWasAllowed'
  BY DEF vars, PaymentInv, CheckedWasAllowed, Holds
<1>3. PaymentLocksHold'
  BY DEF vars, PaymentInv, PaymentLocksHold, FinalPayeeIsSignedFor, AdvanceHasAcceptance
<1> QED BY <1>1, <1>2, <1>3 DEF PaymentInv

LEMMA Invariance == Spec => []PaymentInv
<1>1. PaymentInv /\ [Next]_vars => PaymentInv'
  BY ManagerStepInv, PaymentStepInv, StutterInv DEF Next
<1> QED BY InitInv, <1>1, PTL DEF Spec

(* The types of the jobs and the payments, for any number of either.       *)
THEOREM PaymentTypeCorrect == Spec => []PaymentTypeOK
<1>1. PaymentInv => PaymentTypeOK
  BY DEF PaymentInv
<1> QED BY Invariance, <1>1, PTL

(* The rules of LogPayment hold of every committed payment.                *)
THEOREM LocksHold == Spec => []PaymentLocksHold
<1>1. PaymentInv => PaymentLocksHold
  BY DEF PaymentInv
<1> QED BY Invariance, <1>1, PTL

-----------------------------------------------------------------------------
(* The total of a finite part of the ledger.  MapThenSumSet is a fold: its  *)
(* value is that of the function that recurs over the subsets.  That there  *)
(* is one such function, and what one more payment does to it, follows from *)
(* taking a smallest set for which it fails.                                *)

(* The element the fold takes out of a set. *)
Taken(s) == CHOOSE x \in s : TRUE

(* g is the recursion of the fold over the subsets of S. *)
Adds(p, S, g) ==
  g = [s \in SUBSET S |-> IF s = {} THEN 0
                          ELSE p[Taken(s)].amount + g[s \ {Taken(s)}]]

SumOf(p, S) == (CHOOSE g : Adds(p, S, g))[S]

Paid(p, j, type) ==
  {r \in Requests : p[r] # None /\ p[r].job = j /\ p[r].type = type}

LEMMA TotalIsSum ==
  ASSUME NEW j, NEW type
  PROVE  /\ Total(j, type) = SumOf(payment, Paid(payment, j, type))
         /\ Total(j, type)' = SumOf(payment', Paid(payment', j, type))
BY Zenon DEF Total, MapThenSumSet, MapThenFoldSet, SumOf, Adds, Taken, Paid

(* Among sets of parts of a finite set there is a smallest. *)
LEMMA HasSmallest ==
  ASSUME NEW S, IsFiniteSet(S), NEW T \in SUBSET (SUBSET S), T # {}
  PROVE  \E m \in T : \A n \in T : n \subseteq m => n = m
<1>1. IsWellFoundedOn(StrictSubsetOrdering(S), FiniteSubsetsOf(S))
  BY FS_StrictSubsetOrderingWellFounded
<1>2. T \subseteq FiniteSubsetsOf(S)
  BY FS_FiniteSubsetsOfFinite
<1>3. PICK m \in T : \A n \in T : ~(<<n, m>> \in StrictSubsetOrdering(S))
  BY <1>1, <1>2, WFMin, Zenon
<1>4. \A n \in T : n \subseteq m => n = m
  BY <1>3 DEF StrictSubsetOrdering
<1> QED BY <1>4

LEMMA TakenIsIn ==
  ASSUME NEW s, s # {}
  PROVE  Taken(s) \in s
BY DEF Taken

(* Two recursions over the same amounts agree wherever both are defined. *)
LEMMA RecursionsAgree ==
  ASSUME NEW p, NEW q, NEW B, NEW C, IsFiniteSet(B), NEW g, NEW h,
         Adds(p, B, g), Adds(q, C, h),
         \A x \in B : x \in C => p[x].amount = q[x].amount
  PROVE  \A s \in SUBSET B : s \subseteq C => g[s] = h[s]
<1> DEFINE Bad == {s \in SUBSET (B \cap C) : g[s] # h[s]}
<1> SUFFICES ASSUME Bad # {} PROVE FALSE
  OBVIOUS
<1>1. IsFiniteSet(B \cap C)
  BY FS_Subset
<1>2. PICK s \in Bad : \A n \in Bad : n \subseteq s => n = s
  <2>1. Bad \in SUBSET (SUBSET (B \cap C))
    OBVIOUS
  <2> HIDE DEF Bad
  <2> QED BY <1>1, <2>1, HasSmallest
<1>3. s \in SUBSET B /\ s \in SUBSET C /\ g[s] # h[s]
  OBVIOUS
<1> DEFINE x == Taken(s)
<1>4. /\ g[s] = IF s = {} THEN 0 ELSE p[x].amount + g[s \ {x}]
      /\ h[s] = IF s = {} THEN 0 ELSE q[x].amount + h[s \ {x}]
  BY <1>3 DEF Adds
<1>5. s # {}
  BY <1>3, <1>4
<1>6. x \in s
  BY <1>5, TakenIsIn
<1> HIDE DEF x
<1>7. s \ {x} \in SUBSET (B \cap C) /\ s \ {x} # s
  BY <1>3, <1>6
<1>8. g[s \ {x}] = h[s \ {x}]
  BY <1>2, <1>7
<1>9. p[x].amount = q[x].amount
  BY <1>3, <1>6
<1> QED BY <1>3, <1>4, <1>5, <1>8, <1>9

(* What the sums say once the recursions exist. *)
LEMMA SumUnfolds ==
  ASSUME NEW p, NEW S, IsFiniteSet(S),
         \A T \in SUBSET S : \E g : Adds(p, T, g)
  PROVE  SumOf(p, S) = IF S = {} THEN 0
                       ELSE p[Taken(S)].amount + SumOf(p, S \ {Taken(S)})
<1> DEFINE rec(T) == CHOOSE g : Adds(p, T, g)
           R == S \ {Taken(S)}
<1>1. Adds(p, S, rec(S)) /\ Adds(p, R, rec(R))
  <2>1. S \in SUBSET S /\ R \in SUBSET S
    OBVIOUS
  <2> QED BY <2>1, Zenon
<1>2. SumOf(p, S) = rec(S)[S] /\ SumOf(p, R) = rec(R)[R]
  BY DEF SumOf
<1> HIDE DEF rec
<1>3. rec(S)[S] = IF S = {} THEN 0 ELSE p[Taken(S)].amount + rec(S)[R]
  BY <1>1 DEF Adds
<1>4. rec(S)[R] = rec(R)[R]
  <2>1. R \in SUBSET S /\ R \subseteq R
    OBVIOUS
  <2> HIDE DEF R
  <2>2. \A s \in SUBSET S : s \subseteq R => rec(S)[s] = rec(R)[s]
    BY <1>1, RecursionsAgree
  <2> QED BY <2>1, <2>2
<1> QED BY <1>2, <1>3, <1>4

LEMMA RecursionExists ==
  ASSUME NEW p, NEW S, IsFiniteSet(S)
  PROVE  \E g : Adds(p, S, g)
<1> DEFINE Bad == {T \in SUBSET S : ~ \E g : Adds(p, T, g)}
<1> SUFFICES ASSUME Bad # {} PROVE FALSE
  <2>1. S \in SUBSET S
    OBVIOUS
  <2> QED BY <2>1, Zenon
<1>1. PICK T \in Bad : \A n \in Bad : n \subseteq T => n = T
  <2>1. Bad \in SUBSET (SUBSET S)
    OBVIOUS
  <2> HIDE DEF Bad
  <2> QED BY <2>1, HasSmallest
<1>2. T \in SUBSET S /\ ~ \E g : Adds(p, T, g)
  BY Zenon
<1>3. ASSUME NEW A \in SUBSET T, A # T
      PROVE  \E g : Adds(p, A, g)
  <2>1. A \in SUBSET S /\ A \notin Bad
    BY <1>1, <1>2, <1>3
  <2> QED BY <2>1, Zenon
<1> HIDE DEF Bad
<1> DEFINE g == [s \in SUBSET T |-> IF s = {} THEN 0
                   ELSE p[Taken(s)].amount + SumOf(p, s \ {Taken(s)})]
<1>4. ASSUME NEW A \in SUBSET T, A # T
      PROVE  g[A] = SumOf(p, A)
  <2>1. \A n \in SUBSET A : \E h : Adds(p, n, h)
    <3> SUFFICES ASSUME NEW n \in SUBSET A PROVE \E h : Adds(p, n, h)
      BY Zenon
    <3>1. n \in SUBSET T /\ n # T
      BY <1>4
    <3> QED BY <1>3, <3>1, Zenon
  <2>2. IsFiniteSet(A)
    BY <1>2, FS_Subset
  <2>3. SumOf(p, A) = IF A = {} THEN 0
                      ELSE p[Taken(A)].amount + SumOf(p, A \ {Taken(A)})
    BY <2>1, <2>2, SumUnfolds, Zenon
  <2> QED BY <2>3
<1>5. Adds(p, T, g)
  <2>1. ASSUME NEW s \in SUBSET T, s # {}
        PROVE  g[s \ {Taken(s)}] = SumOf(p, s \ {Taken(s)})
    <3>1. Taken(s) \in s
      BY <2>1, TakenIsIn
    <3>2. s \ {Taken(s)} \in SUBSET T /\ s \ {Taken(s)} # T
      BY <3>1
    <3> HIDE DEF g
    <3> QED BY <1>4, <3>2
  <2>2. g = [s \in SUBSET T |-> IF s = {} THEN 0
                                ELSE p[Taken(s)].amount + g[s \ {Taken(s)}]]
    BY <2>1
  <2> HIDE DEF g
  <2> QED BY <2>2 DEF Adds
<1> QED BY <1>2, <1>5, Zenon

(* The fold takes one element out and adds its amount to the rest. *)
LEMMA SumTakes ==
  ASSUME NEW p, NEW S, IsFiniteSet(S)
  PROVE  SumOf(p, S) = IF S = {} THEN 0
                       ELSE p[Taken(S)].amount + SumOf(p, S \ {Taken(S)})
<1>1. \A T \in SUBSET S : \E g : Adds(p, T, g)
  <2> SUFFICES ASSUME NEW T \in SUBSET S PROVE \E g : Adds(p, T, g)
    BY Zenon
  <2>1. IsFiniteSet(T)
    BY FS_Subset
  <2> QED BY <2>1, RecursionExists, Zenon
<1> QED BY <1>1, SumUnfolds, Zenon

(* The same amounts have the same sum. *)
LEMMA SumOfSame ==
  ASSUME NEW p, NEW q, NEW S, IsFiniteSet(S),
         \A x \in S : p[x].amount = q[x].amount
  PROVE  SumOf(p, S) = SumOf(q, S)
<1> DEFINE g == CHOOSE g : Adds(p, S, g)
           h == CHOOSE h : Adds(q, S, h)
<1>1. Adds(p, S, g) /\ Adds(q, S, h)
  BY RecursionExists, Zenon
<1>2. SumOf(p, S) = g[S] /\ SumOf(q, S) = h[S]
  BY DEF SumOf
<1> HIDE DEF g, h
<1>3. \A s \in SUBSET S : s \subseteq S => g[s] = h[s]
  BY <1>1, RecursionsAgree
<1> QED BY <1>2, <1>3

LEMMA SumIsNat ==
  ASSUME NEW p, NEW S, IsFiniteSet(S), \A x \in S : p[x].amount \in Nat
  PROVE  \A T \in SUBSET S : SumOf(p, T) \in Nat
<1> DEFINE Bad == {T \in SUBSET S : SumOf(p, T) \notin Nat}
<1> SUFFICES ASSUME Bad # {} PROVE FALSE
  OBVIOUS
<1>1. PICK T \in Bad : \A n \in Bad : n \subseteq T => n = T
  <2>1. Bad \in SUBSET (SUBSET S)
    OBVIOUS
  <2> HIDE DEF Bad
  <2> QED BY <2>1, HasSmallest
<1>2. T \in SUBSET S /\ SumOf(p, T) \notin Nat /\ IsFiniteSet(T)
  BY FS_Subset
<1> DEFINE x == Taken(T)
<1>3. SumOf(p, T) = IF T = {} THEN 0 ELSE p[x].amount + SumOf(p, T \ {x})
  BY <1>2, SumTakes
<1>4. T # {}
  BY <1>2, <1>3
<1>5. x \in T
  BY <1>4, TakenIsIn
<1> HIDE DEF x
<1>6. T \ {x} \in SUBSET S /\ T \ {x} \notin Bad
  BY <1>1, <1>2, <1>5
<1>7. SumOf(p, T \ {x}) \in Nat /\ p[x].amount \in Nat
  BY <1>2, <1>5, <1>6
<1> QED BY <1>2, <1>3, <1>4, <1>7

(* One more payment adds its amount, whichever element the fold takes first. *)
LEMMA SumOfOneMore ==
  ASSUME NEW p, NEW S, IsFiniteSet(S), \A z \in S : p[z].amount \in Nat
  PROVE  \A T \in SUBSET S : \A x \in S \ T :
           SumOf(p, T \cup {x}) = SumOf(p, T) + p[x].amount
<1> DEFINE Bad == {T \in SUBSET S : \E x \in S \ T :
                     SumOf(p, T \cup {x}) # SumOf(p, T) + p[x].amount}
<1> SUFFICES ASSUME Bad # {} PROVE FALSE
  OBVIOUS
<1>1. PICK T \in Bad : \A n \in Bad : n \subseteq T => n = T
  <2>1. Bad \in SUBSET (SUBSET S)
    OBVIOUS
  <2> HIDE DEF Bad
  <2> QED BY <2>1, HasSmallest
<1>2. PICK x \in S \ T : SumOf(p, T \cup {x}) # SumOf(p, T) + p[x].amount
  OBVIOUS
<1>3. /\ T \cup {x} \in SUBSET S /\ IsFiniteSet(T \cup {x})
      /\ T \in SUBSET S /\ x \in S /\ x \notin T
  BY FS_Subset
<1>4. ASSUME NEW A \in SUBSET T, A # T, NEW z \in S \ A
      PROVE  SumOf(p, A \cup {z}) = SumOf(p, A) + p[z].amount
  <2>1. A \in SUBSET S /\ A \notin Bad
    BY <1>1, <1>3, <1>4
  <2> QED BY <2>1
<1> HIDE DEF Bad
<1> DEFINE y == Taken(T \cup {x})
<1>5. y \in T \cup {x}
  BY TakenIsIn
<1>6. SumOf(p, T \cup {x}) = p[y].amount + SumOf(p, (T \cup {x}) \ {y})
  <2>1. T \cup {x} # {}
    OBVIOUS
  <2> QED BY <1>3, <2>1, SumTakes
<1> HIDE DEF y
<1>7. \A A \in SUBSET S : SumOf(p, A) \in Nat
  BY SumIsNat
<1>8. p[x].amount \in Nat /\ p[y].amount \in Nat
  BY <1>3, <1>5
<1>9. CASE y = x
  <2>1. (T \cup {x}) \ {y} = T
    BY <1>3, <1>9
  <2>2. SumOf(p, T \cup {x}) = p[x].amount + SumOf(p, T)
    BY <1>6, <1>9, <2>1, Zenon
  <2>3. SumOf(p, T) \in Nat
    BY <1>3, <1>7
  <2> QED BY <1>2, <1>8, <2>2, <2>3
<1>10. CASE y # x
  <2> DEFINE R == T \ {y}
  <2>1. /\ y \in T /\ R \in SUBSET T /\ R # T /\ R \in SUBSET S
        /\ x \in S \ R /\ y \in S \ R
        /\ (T \cup {x}) \ {y} = R \cup {x} /\ R \cup {y} = T
    BY <1>3, <1>5, <1>10
  <2> HIDE DEF R
  <2>2. SumOf(p, R \cup {x}) = SumOf(p, R) + p[x].amount
    BY <1>4, <2>1
  <2>3. SumOf(p, R \cup {y}) = SumOf(p, R) + p[y].amount
    BY <1>4, <2>1
  <2>4. SumOf(p, R) \in Nat
    BY <1>7, <2>1
  <2>5. SumOf(p, T \cup {x}) = p[y].amount + (SumOf(p, R) + p[x].amount)
    BY <1>6, <2>1, <2>2
  <2>6. SumOf(p, T) = SumOf(p, R) + p[y].amount
    BY <2>1, <2>3
  <2> QED BY <1>2, <1>8, <2>4, <2>5, <2>6
<1> QED BY <1>9, <1>10

-----------------------------------------------------------------------------
(* The running totals.  A commit adds the same amount to a job's total and *)
(* to its ledger, and nothing else touches either: the statement adds to   *)
(* what the row holds at the commit, so the row read before plays no part.  *)

Balanced(rows, p) ==
  \A j \in Jobs : rows[j] # None =>
    /\ rows[j].advance = SumOf(p, Paid(p, j, "advance"))
    /\ rows[j].final = SumOf(p, Paid(p, j, "final_discharge"))

(* A request that has not committed has made no payment, payments are about *)
(* jobs that exist, and there are finitely many.                            *)
LedgerInv ==
  /\ IsFiniteSet({r \in Requests : payment[r] # None})
  /\ \A r \in Requests : pc[r] \in {"idle", "checked"} => payment[r] = None
  /\ \A r \in Requests : payment[r] # None => job[payment[r].job] # None
  /\ Balanced(job, payment)

LEMMA BalancedIsMatching ==
  /\ TotalsMatchLedger <=> Balanced(job, payment)
  /\ TotalsMatchLedger' <=> Balanced(job', payment')
<1>1. \A j \in Jobs : /\ Total(j, "advance") = SumOf(payment, Paid(payment, j, "advance"))
                      /\ Total(j, "final_discharge") =
                           SumOf(payment, Paid(payment, j, "final_discharge"))
  BY TotalIsSum
<1>2. \A j \in Jobs : /\ Total(j, "advance")' = SumOf(payment', Paid(payment', j, "advance"))
                      /\ Total(j, "final_discharge")' =
                           SumOf(payment', Paid(payment', j, "final_discharge"))
  BY TotalIsSum
<1>3. TotalsMatchLedger <=> Balanced(job, payment)
  BY <1>1 DEF TotalsMatchLedger, Balanced
<1>4. TotalsMatchLedger' <=> Balanced(job', payment')
  BY <1>2 DEF TotalsMatchLedger, Balanced
<1> QED BY <1>3, <1>4

LEMMA NothingPaid ==
  ASSUME NEW p, NEW S, S = {}
  PROVE  SumOf(p, S) = 0
BY SumTakes, FS_EmptySet

LEMMA InitLedger == Init => LedgerInv
<1> SUFFICES ASSUME Init PROVE LedgerInv
  OBVIOUS
<1>1. \A r \in Requests : payment[r] = None
  BY DEF Init
<1>2. \A j \in Jobs : job[j] = None
  BY DEF Init
<1>3. {r \in Requests : payment[r] # None} = {}
  BY <1>1
<1> QED BY <1>1, <1>2, <1>3, FS_EmptySet DEF LedgerInv, Balanced

(* A step that makes no payment and leaves the totals alone. *)
LEMMA TotalsKept ==
  ASSUME LedgerInv, payment' = payment,
         \A r \in Requests : pc'[r] \in {"idle", "checked"} => pc[r] \in {"idle", "checked"},
         \A j \in Jobs : job[j] # None => job'[j] # None,
         \A j \in Jobs : job'[j] # None => /\ job[j] # None
                                           /\ job'[j].advance = job[j].advance
                                           /\ job'[j].final = job[j].final,
         PaymentTypeOK
  PROVE  LedgerInv'
<1>1. \A r \in Requests : payment[r] # None => payment[r].job \in Jobs
  BY DEF PaymentTypeOK, Receipts
<1>2. Balanced(job', payment')
  BY DEF LedgerInv, Balanced
<1>3. \A r \in Requests : payment[r] # None => job'[payment[r].job] # None
  BY <1>1 DEF LedgerInv
<1> QED BY <1>2, <1>3 DEF LedgerInv

LEMMA CreateKeepsLedger ==
  ASSUME PaymentInv, LedgerInv, NEW j \in Jobs, CreateInstallation(j)
  PROVE  LedgerInv'
<1>1. /\ job[j] = None /\ job' = [job EXCEPT ![j] = NewJob]
      /\ payment' = payment /\ pc' = pc
  BY DEF CreateInstallation
<1>2. job \in [Jobs -> Rows \cup {None}] /\ payment \in [Requests -> Receipts \cup {None}]
  BY DEF PaymentInv, PaymentTypeOK
<1>3. NewJob \in Rows
  BY DEF NewJob, Rows, Statuses, validInstallerJobStatuses
<1>4. /\ job'[j] = NewJob /\ NewJob # None
      /\ \A k \in Jobs \ {j} : job'[k] = job[k]
  BY <1>1, <1>2, <1>3, NoneIsNoRow
<1>5. \A r \in Requests : payment[r] # None => payment[r].job \in Jobs \ {j}
  BY <1>1, <1>2 DEF LedgerInv, Receipts
<1>6. /\ SumOf(payment, Paid(payment, j, "advance")) = 0
      /\ SumOf(payment, Paid(payment, j, "final_discharge")) = 0
  <2>1. /\ Paid(payment, j, "advance") = {}
        /\ Paid(payment, j, "final_discharge") = {}
    BY <1>5 DEF Paid
  <2> QED BY <2>1, NothingPaid
<1>7. Balanced(job', payment)
  <2> SUFFICES ASSUME NEW k \in Jobs, job'[k] # None
               PROVE  /\ job'[k].advance = SumOf(payment, Paid(payment, k, "advance"))
                      /\ job'[k].final = SumOf(payment, Paid(payment, k, "final_discharge"))
    BY DEF Balanced
  <2>1. CASE k = j
    BY <1>4, <1>6, <2>1 DEF NewJob
  <2>2. CASE k # j
    BY <1>4, <2>2 DEF LedgerInv, Balanced
  <2> QED BY <2>1, <2>2
<1>8. \A r \in Requests : payment[r] # None => job'[payment[r].job] # None
  BY <1>4, <1>5 DEF LedgerInv
<1> QED BY <1>1, <1>7, <1>8 DEF LedgerInv

(* What a new row of the ledger does to the sums. *)
LEMMA LedgerGrows ==
  ASSUME NEW p \in [Requests -> Receipts \cup {None}], NEW r \in Requests, p[r] = None,
         IsFiniteSet({x \in Requests : p[x] # None}),
         NEW receipt \in Receipts, NEW q, q[r] = receipt,
         \A x \in Requests \ {r} : q[x] = p[x],
         NEW k, NEW t
  PROVE  /\ receipt.job = k /\ receipt.type = t =>
              SumOf(q, Paid(q, k, t)) = SumOf(p, Paid(p, k, t)) + receipt.amount
         /\ ~(receipt.job = k /\ receipt.type = t) =>
              SumOf(q, Paid(q, k, t)) = SumOf(p, Paid(p, k, t))
<1> DEFINE A == Paid(p, k, t)
<1>1. /\ q[r] = receipt /\ receipt # None
      /\ \A x \in Requests \ {r} : q[x] = p[x]
      /\ receipt.amount \in Nat
      /\ \A x \in Requests : p[x] # None => p[x].amount \in Nat
  BY NoneIsNoRow, ContractorPaymentsAssumption DEF Receipts
<1>2. r \notin A /\ \A x \in A : x \in Requests /\ p[x] # None
  BY DEF Paid
<1>3. IsFiniteSet(A)
  <2>1. A \subseteq {x \in Requests : p[x] # None}
    BY DEF Paid
  <2> HIDE DEF A
  <2> QED BY <2>1, FS_Subset
<1>4. SumOf(p, A) = SumOf(q, A)
  <2>1. \A x \in A : p[x].amount = q[x].amount
    BY <1>1, <1>2
  <2> HIDE DEF A
  <2> QED BY <1>3, <2>1, SumOfSame
<1>5. CASE receipt.job = k /\ receipt.type = t
  <2>1. Paid(q, k, t) = A \cup {r}
    BY <1>1, <1>2, <1>5 DEF Paid
  <2> HIDE DEF A
  <2>2. IsFiniteSet(A \cup {r})
    BY <1>3, FS_AddElement
  <2>3. \A x \in A \cup {r} : q[x].amount \in Nat
    BY <1>1, <1>2
  <2>4. /\ A \in SUBSET (A \cup {r})
        /\ r \in (A \cup {r}) \ A
    BY <1>2
  <2>5. SumOf(q, A \cup {r}) = SumOf(q, A) + q[r].amount
    BY <2>2, <2>3, <2>4, SumOfOneMore
  <2> QED BY <1>1, <1>4, <1>5, <2>1, <2>5 DEF A
<1>6. CASE ~(receipt.job = k /\ receipt.type = t)
  <2>1. Paid(q, k, t) = A
    BY <1>1, <1>2, <1>6 DEF Paid
  <2> QED BY <1>4, <1>6, <2>1
<1> QED BY <1>5, <1>6

(* The statement adds to the total of the job and type that was asked for. *)
LEMMA AddToTotalAdds ==
  ASSUME job \in [Jobs -> Rows \cup {None}], NEW r \in Requests,
         ask[r] \in Asks, job[ask[r].job] # None, AddToTotal(r)
  PROVE  /\ \A k \in Jobs \ {ask[r].job} : job'[k] = job[k]
         /\ ask[r].type = "advance" =>
              /\ job'[ask[r].job].advance = job[ask[r].job].advance + ask[r].amount
              /\ job'[ask[r].job].final = job[ask[r].job].final
         /\ ask[r].type = "final_discharge" =>
              /\ job'[ask[r].job].advance = job[ask[r].job].advance
              /\ job'[ask[r].job].final = job[ask[r].job].final + ask[r].amount
         /\ job'[ask[r].job] \in Rows
<1> DEFINE a == ask[r]
           j == a.job
<1>1. j \in Jobs /\ a.type \in PaymentTypes /\ job[j] \in Rows /\ a.amount \in Nat
  BY ContractorPaymentsAssumption DEF Asks
<1>2. CASE a.type = "advance"
  <2>1. job' = [job EXCEPT ![j] = [job[j] EXCEPT !.advance = job[j].advance + a.amount]]
    BY <1>1, <1>2 DEF AddToTotal
  <2>2. /\ \A k \in Jobs \ {j} : job'[k] = job[k]
        /\ job'[j] = [job[j] EXCEPT !.advance = job[j].advance + a.amount]
    BY <1>1, <2>1
  <2> QED BY <1>1, <1>2, <2>2 DEF Rows
<1>3. CASE a.type = "final_discharge"
  <2>1. job' = [job EXCEPT ![j] = [job[j] EXCEPT !.final = job[j].final + a.amount]]
    BY <1>1, <1>3 DEF AddToTotal
  <2>2. /\ \A k \in Jobs \ {j} : job'[k] = job[k]
        /\ job'[j] = [job[j] EXCEPT !.final = job[j].final + a.amount]
    BY <1>1, <2>1
  <2> QED BY <1>1, <1>3, <2>2 DEF Rows
<1> QED BY <1>1, <1>2, <1>3 DEF PaymentTypes

LEMMA RecordKeepsLedger ==
  ASSUME PaymentInv, PaymentInv', LedgerInv, NEW r \in Requests, RecordPayment(r)
  PROVE  LedgerInv'
<1> DEFINE a == ask[r]
           receipt == [job |-> a.job, type |-> a.type, amount |-> a.amount,
                       installer |-> seen[r].installer]
<1>1. /\ pc[r] = "checked" /\ payment' = [payment EXCEPT ![r] = receipt]
      /\ AddToTotal(r) /\ \E s \in {"recorded", "refused"} : pc' = [pc EXCEPT ![r] = s]
  BY DEF RecordPayment
<1>2. Holds(r) /\ payment[r] = None
  BY <1>1 DEF PaymentInv, CheckedWasAllowed, LedgerInv
<1>3. /\ job \in [Jobs -> Rows \cup {None}] /\ job' \in [Jobs -> Rows \cup {None}]
      /\ payment \in [Requests -> Receipts \cup {None}]
      /\ pc \in [Requests -> {"idle", "checked", "recorded", "done", "refused"}]
  BY DEF PaymentInv, PaymentTypeOK
<1>4. /\ a \in Asks /\ job[a.job] # None
      /\ a.job \in Jobs /\ a.type \in PaymentTypes
  BY <1>2 DEF Holds, Asks
<1>5. receipt \in Receipts
  BY <1>2, <1>4 DEF Holds, Asks, Receipts
<1>6. /\ payment'[r] = receipt
      /\ \A x \in Requests \ {r} : payment'[x] = payment[x]
  BY <1>1, <1>3
<1>7. /\ \A k \in Jobs \ {a.job} : job'[k] = job[k]
      /\ a.type = "advance" => /\ job'[a.job].advance = job[a.job].advance + a.amount
                               /\ job'[a.job].final = job[a.job].final
      /\ a.type = "final_discharge" =>
           /\ job'[a.job].advance = job[a.job].advance
           /\ job'[a.job].final = job[a.job].final + a.amount
      /\ job'[a.job] # None
  BY <1>1, <1>3, <1>4, AddToTotalAdds, NoneIsNoRow
<1>8. receipt.job = a.job /\ receipt.type = a.type /\ receipt.amount = a.amount
  OBVIOUS
<1>9. ASSUME NEW k \in Jobs, NEW t \in PaymentTypes
      PROVE  /\ a.job = k /\ a.type = t =>
                  SumOf(payment', Paid(payment', k, t)) =
                    SumOf(payment, Paid(payment, k, t)) + a.amount
             /\ ~(a.job = k /\ a.type = t) =>
                  SumOf(payment', Paid(payment', k, t)) = SumOf(payment, Paid(payment, k, t))
  <2>1. IsFiniteSet({x \in Requests : payment[x] # None})
    BY DEF LedgerInv
  <2> HIDE DEF receipt
  <2> QED BY <1>2, <1>3, <1>5, <1>6, <1>8, <2>1, LedgerGrows
<1> HIDE DEF receipt
<1>10. Balanced(job', payment')
  <2> SUFFICES ASSUME NEW k \in Jobs, job'[k] # None
               PROVE  /\ job'[k].advance = SumOf(payment', Paid(payment', k, "advance"))
                      /\ job'[k].final = SumOf(payment', Paid(payment', k, "final_discharge"))
    BY DEF Balanced
  <2>1. /\ job[k].advance = SumOf(payment, Paid(payment, k, "advance"))
        /\ job[k].final = SumOf(payment, Paid(payment, k, "final_discharge"))
    BY <1>4, <1>7 DEF LedgerInv, Balanced
  <2>2. "advance" \in PaymentTypes /\ "final_discharge" \in PaymentTypes
    BY DEF PaymentTypes
  <2>3. CASE k # a.job
    BY <1>7, <1>9, <2>1, <2>2, <2>3
  <2>4. CASE k = a.job /\ a.type = "advance"
    BY <1>7, <1>9, <2>1, <2>2, <2>4
  <2>5. CASE k = a.job /\ a.type = "final_discharge"
    BY <1>7, <1>9, <2>1, <2>2, <2>5
  <2> QED BY <1>4, <2>3, <2>4, <2>5 DEF PaymentTypes
<1>11. IsFiniteSet({x \in Requests : payment'[x] # None})
  <2>1. {x \in Requests : payment'[x] # None} \subseteq
          {x \in Requests : payment[x] # None} \cup {r}
    BY <1>6
  <2>2. IsFiniteSet({x \in Requests : payment[x] # None} \cup {r})
    BY FS_AddElement DEF LedgerInv
  <2> QED BY <2>1, <2>2, FS_Subset
<1>12. ASSUME NEW x \in Requests, pc'[x] \in {"idle", "checked"}
       PROVE  payment'[x] = None
  BY <1>1, <1>3, <1>6, <1>12 DEF LedgerInv
<1>13. ASSUME NEW x \in Requests, payment'[x] # None
       PROVE  job'[payment'[x].job] # None
  <2>1. payment'[x].job \in Jobs /\ job[payment'[x].job] # None
    <3>1. CASE x = r
      BY <1>4, <1>6, <1>8, <3>1
    <3>2. CASE x # r
      BY <1>3, <1>6, <1>13, <3>2 DEF LedgerInv, Receipts
    <3> QED BY <3>1, <3>2
  <2> QED BY <1>7, <2>1
<1> QED BY <1>10, <1>11, <1>12, <1>13 DEF LedgerInv

(* The other steps leave the totals of every job as they are. *)
LEMMA RowKeepsLedger ==
  ASSUME PaymentInv, LedgerInv, NEW j \in Jobs, job[j] # None, NEW new \in Rows,
         job' = [job EXCEPT ![j] = new], new.advance = job[j].advance,
         new.final = job[j].final, payment' = payment,
         \A r \in Requests : pc'[r] \in {"idle", "checked"} => pc[r] \in {"idle", "checked"}
  PROVE  LedgerInv'
<1>1. job \in [Jobs -> Rows \cup {None}] /\ PaymentTypeOK
  BY DEF PaymentInv, PaymentTypeOK
<1>2. job'[j] = new /\ new # None /\ \A k \in Jobs \ {j} : job'[k] = job[k]
  BY <1>1, NoneIsNoRow
<1> QED BY <1>1, <1>2, TotalsKept

LEMMA ManagerKeepsLedger ==
  ASSUME PaymentInv, LedgerInv, NEW j \in Jobs, ManagerStep(j)
  PROVE  LedgerInv'
<1>1. job \in [Jobs -> Rows \cup {None}]
  BY DEF PaymentInv, PaymentTypeOK
<1>2. ASSUME NEW i \in Installers, AssignInstaller(j, i)
      PROVE  LedgerInv'
  <2> DEFINE new == [job[j] EXCEPT !.installer = i, !.status = "in_progress"]
  <2>1. /\ job[j] # None /\ job' = [job EXCEPT ![j] = new]
        /\ payment' = payment /\ pc' = pc
    BY <1>1, <1>2 DEF AssignInstaller
  <2>2. new \in Rows /\ new.advance = job[j].advance /\ new.final = job[j].final
    BY <1>1, <2>1 DEF Rows, Statuses
  <2> HIDE DEF new
  <2> QED BY <2>1, <2>2, RowKeepsLedger
<1>3. ASSUME NEW s \in {"client_approved", "redo_required"}, Signoff(j, s)
      PROVE  LedgerInv'
  <2> DEFINE new == [job[j] EXCEPT !.status = s]
  <2>1. /\ job[j] # None /\ job' = [job EXCEPT ![j] = new]
        /\ payment' = payment /\ pc' = pc
    BY <1>1, <1>3 DEF Signoff
  <2>2. new \in Rows /\ new.advance = job[j].advance /\ new.final = job[j].final
    BY <1>1, <2>1 DEF Rows, Statuses
  <2> HIDE DEF new
  <2> QED BY <2>1, <2>2, RowKeepsLedger
<1>4. ASSUME NEW s \in StagesLogged, UpdateInstallerJobStatus(j, s)
      PROVE  LedgerInv'
  <2> DEFINE new == [job[j] EXCEPT !.stage = s]
  <2>1. /\ job[j] # None /\ job' = [job EXCEPT ![j] = new]
        /\ payment' = payment /\ pc' = pc
    BY <1>1, <1>4 DEF UpdateInstallerJobStatus, SetStage
  <2>2. new \in Rows /\ new.advance = job[j].advance /\ new.final = job[j].final
    BY <1>1, <2>1, ContractorPaymentsAssumption DEF Rows
  <2> HIDE DEF new
  <2> QED BY <2>1, <2>2, RowKeepsLedger
<1> QED BY <1>2, <1>3, <1>4, CreateKeepsLedger DEF ManagerStep

LEMMA RequestKeepsLedger ==
  ASSUME PaymentInv, PaymentInv', LedgerInv, NEW r \in Requests, PaymentStep(r)
  PROVE  LedgerInv'
<1>1. /\ job \in [Jobs -> Rows \cup {None}]
      /\ pc \in [Requests -> {"idle", "checked", "recorded", "done", "refused"}]
      /\ PaymentTypeOK
  BY DEF PaymentInv, PaymentTypeOK
<1>2. CASE CheckPayment(r) \/ RefusePayment(r) \/ RecordFails(r) \/ SkipAdvance(r)
  <2>1. job' = job /\ payment' = payment
    BY <1>2 DEF CheckPayment, RefusePayment, RecordFails, SkipAdvance
  <2>2. \A x \in Requests : pc'[x] \in {"idle", "checked"} => pc[x] \in {"idle", "checked"}
    <3>1. CASE CheckPayment(r)
      BY <1>1, <3>1 DEF CheckPayment
    <3>2. CASE ~CheckPayment(r)
      BY <1>1, <1>2, <3>2 DEF RefusePayment, RecordFails, SkipAdvance
    <3> QED BY <3>1, <3>2
  <2> QED BY <1>1, <2>1, <2>2, TotalsKept
<1>3. CASE AutoAdvance(r)
  <2> DEFINE j == ask[r].job
  <2>1. PICK s \in NextStage(r) : SetStage(j, s)
    BY <1>3 DEF AutoAdvance
  <2>2. pc[r] = "recorded" /\ pc' = [pc EXCEPT ![r] = "done"] /\ payment' = payment
    BY <1>3 DEF AutoAdvance
  <2>3. j \in Jobs /\ job[j] # None
    BY <2>2 DEF PaymentInv, CheckedWasAllowed, Holds, Asks
  <2> DEFINE new == [job[j] EXCEPT !.stage = s]
  <2>4. new \in Rows /\ new.advance = job[j].advance /\ new.final = job[j].final
    <3>1. s \in validInstallerJobStatuses
      BY NextStageTyped
    <3> QED BY <1>1, <2>3, <3>1 DEF Rows
  <2>5. job' = [job EXCEPT ![j] = new]
    BY <1>1, <2>1 DEF SetStage
  <2>6. \A x \in Requests : pc'[x] \in {"idle", "checked"} => pc[x] \in {"idle", "checked"}
    BY <1>1, <2>2
  <2> HIDE DEF new, j
  <2> QED BY <2>2, <2>3, <2>4, <2>5, <2>6, RowKeepsLedger
<1> QED BY <1>2, <1>3, RecordKeepsLedger DEF PaymentStep

LEMMA StutterKeepsLedger ==
  ASSUME LedgerInv, UNCHANGED vars
  PROVE  LedgerInv'
BY DEF LedgerInv, Balanced, vars

(* The running totals of every job are what its payments add up to, however *)
(* many there are and however their requests interleave.                    *)
THEOREM TotalsAddUp == Spec => []TotalsMatchLedger
<1>1. PaymentInv /\ PaymentInv' /\ LedgerInv /\ [Next]_vars => LedgerInv'
  BY ManagerKeepsLedger, RequestKeepsLedger, StutterKeepsLedger DEF Next
<1>2. LedgerInv => TotalsMatchLedger
  BY BalancedIsMatching DEF LedgerInv
<1> QED BY Invariance, InitLedger, <1>1, <1>2, PTL DEF Spec
=============================================================================
