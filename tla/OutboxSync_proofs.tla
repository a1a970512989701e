------------------------- MODULE OutboxSync_proofs -------------------------
(***************************************************************************)
(* Proofs about OutboxSync: for any number of mutations, attempts, faults  *)
(* and restarts, nothing vanishes, repeats are bounded, changes are sent   *)
(* in the order made, and the outbox takes only steps of Handoff.          *)
(***************************************************************************)
EXTENDS OutboxSync, TLAPS

(* The re-entrance guard says whether the loop runs.                       *)
GuardIsLoop == isSyncing <=> pc # "idle"

(* The table holds what was made, and the loop what is in the table, except *)
(* for a row that is being reported.                                       *)
RowsWereMade ==
  /\ outbox \subseteq 1 .. made
  /\ pending \subseteq 1 .. made
  /\ \A m \in Mutations : m > made => posts[m] = 0

(* No two rows bear the same time.                                         *)
StampsDiffer ==
  \A m, n \in 1 .. made : stamp[m] = stamp[n] => m = n

PendingIsInTable ==
  \A m \in pending : m \in outbox <=> ~(pc = "report" /\ Current(m))

(* One change was made before another, and the clock says so.              *)
Before(m, n) == m < n /\ stamp[m] < stamp[n]

(* The loop skips no row: what was there before a row it has not come to is *)
(* also still to come.                                                     *)
PendingIsWhole ==
  \A n \in pending : \A m \in outbox : Before(m, n) => m \in pending

(* The row whose post is in progress, or was and is not settled yet.       *)
InFlight(m) == pc \in {"posting", "hung", "remove", "failed"} /\ Current(m)

FlightIsOpen ==
  \A m \in Mutations : InFlight(m) =>
    /\ retries[m] < MaxRetries
    /\ posts[m] > 0
    /\ pc = "remove" => applied[m] > 0

(* What the server did, or may do yet, was asked of it.                    *)
EffectsWereSent ==
  \A m \in Mutations : applied[m] > 0 \/ unanswered[m] > 0 => posts[m] > 0

(* NothingVanishes, also between taking a row out and reporting it.        *)
Accounted ==
  kills = 0 =>
    \A m \in 1 .. made :
      \/ m \in outbox
      \/ applied[m] > 0
      \/ m \in dropped \cup told
      \/ pc = "report" /\ Current(m)

(* Every post of a row was counted, but for the one in flight, a fault or  *)
(* a restart.                                                              *)
PostsCounted ==
  \A m \in outbox :
    /\ posts[m] <= retries[m] + kills + faults + 1
    /\ ~InFlight(m) => posts[m] <= retries[m] + kills + faults

(* Without faults a row that was carried out, or may be yet, is on its way *)
(* out or its post hangs, and it is carried out once.                      *)
CarriedOutLeaves ==
  faults = 0 /\ kills = 0 =>
    \A m \in Mutations :
      /\ applied[m] + unanswered[m] <= 1
      /\ m \in outbox /\ applied[m] + unanswered[m] > 0 =>
           pc \in {"remove", "hung"} /\ Current(m)

(* Nothing made and stamped after a row of the table was sent.             *)
OldestFirst ==
  \A m \in outbox, n \in Mutations : Before(m, n) => posts[n] = 0

OutboxInv ==
  /\ OutboxTypeOK
  /\ GuardIsLoop
  /\ RowsWereMade
  /\ StampsDiffer
  /\ EffectsWereSent
  /\ PendingIsInTable
  /\ PendingIsWhole
  /\ FlightIsOpen
  /\ Accounted
  /\ PostsCounted
  /\ RepeatsBounded
  /\ CarriedOutLeaves
  /\ OldestFirst

-----------------------------------------------------------------------------
(* OutboxTypeOK, value by value.                                            *)
LEMMA Typed ==
  ASSUME OutboxTypeOK
  PROVE  /\ made \in Nat /\ faults \in Nat /\ kills \in Nat /\ MaxRetries \in Nat
         /\ outbox \subseteq Mutations /\ pending \subseteq Mutations
         /\ \A m \in Mutations :
              /\ m \in Nat /\ posts[m] \in Nat /\ retries[m] \in Nat
              /\ stamp[m] \in Nat /\ applied[m] \in Nat /\ unanswered[m] \in Nat
BY OutboxAssumption DEF OutboxTypeOK, Mutations

LEMMA CurrentIsOne ==
  ASSUME OutboxInv, NEW m \in Mutations, NEW n \in Mutations, Current(m), Current(n)
  PROVE  m = n
BY Typed DEF OutboxInv, Current, RowsWereMade, StampsDiffer

LEMMA QueueMutationInv ==
  ASSUME OutboxInv, QueueMutation
  PROVE  OutboxInv'
<1>1. /\ made \in Nat /\ faults \in Nat /\ kills \in Nat /\ MaxRetries \in Nat
      /\ outbox \subseteq Mutations /\ pending \subseteq Mutations
      /\ \A n \in Mutations :
           /\ n \in Nat /\ posts[n] \in Nat /\ retries[n] \in Nat /\ stamp[n] \in Nat
           /\ applied[n] \in Nat /\ unanswered[n] \in Nat
  BY Typed DEF OutboxInv
<1>2. /\ made' = made + 1
      /\ made' \in Mutations
      /\ stamp' \in [Mutations -> 0 .. Count]
      /\ \A n \in 1 .. made : stamp'[n] = stamp[n] /\ stamp[n] # stamp'[made']
      /\ outbox' \subseteq Mutations
      /\ made' \in 0 .. Count
      /\ caller' \in BOOLEAN
  <2>1. made' = made + 1
    BY <1>1, OutboxAssumption DEF QueueMutation, OutboxInv, OutboxTypeOK, Mutations
  <2>2. made' \in Mutations
    BY <1>1, <2>1, OutboxAssumption DEF QueueMutation, OutboxInv, OutboxTypeOK,
       Mutations
  <2>3. stamp' \in [Mutations -> 0 .. Count]
    BY <1>1, <2>1, <2>2, OutboxAssumption DEF QueueMutation, OutboxInv,
       OutboxTypeOK, Mutations
  <2>4. \A n \in 1 .. made : stamp'[n] = stamp[n] /\ stamp[n] # stamp'[made']
    BY <1>1, <2>1, <2>2, <2>3, OutboxAssumption DEF QueueMutation, OutboxInv,
       OutboxTypeOK, Mutations
  <2>5. outbox' \subseteq Mutations
    BY <1>1, <2>1, <2>2, <2>3, <2>4, OutboxAssumption DEF QueueMutation, OutboxInv,
       OutboxTypeOK, Mutations
  <2>6. made' \in 0 .. Count
    BY <1>1, <2>1, <2>2, <2>3, <2>4, <2>5, OutboxAssumption DEF QueueMutation,
       OutboxInv, OutboxTypeOK, Mutations
  <2>7. caller' \in BOOLEAN
    BY <1>1, <2>1, <2>2, <2>3, <2>4, <2>5, <2>6, OutboxAssumption DEF QueueMutation,
       OutboxInv, OutboxTypeOK, Mutations
  <2> QED BY <2>1, <2>2, <2>3, <2>4, <2>5, <2>6, <2>7
<1>3. OutboxTypeOK'
  BY <1>1, <1>2, OutboxAssumption DEF QueueMutation, OutboxInv, OutboxTypeOK,
     Mutations
<1>4. GuardIsLoop' /\ EffectsWereSent' /\ RepeatsBounded'
  BY DEF QueueMutation, OutboxInv, GuardIsLoop, EffectsWereSent, RepeatsBounded
<1>5. RowsWereMade'
  BY <1>1, <1>2 DEF QueueMutation, OutboxInv, RowsWereMade
<1>6. StampsDiffer'
  BY <1>1, <1>2 DEF QueueMutation, OutboxInv, StampsDiffer
<1>7. PendingIsInTable'
  BY <1>1, <1>2 DEF QueueMutation, OutboxInv, PendingIsInTable, Current,
     RowsWereMade, GuardIsLoop, StampsDiffer
<1>8. PendingIsWhole'
  BY <1>1, <1>2 DEF QueueMutation, OutboxInv, PendingIsWhole, Before,
     PendingIsInTable, Current, RowsWereMade
<1>9. FlightIsOpen'
  BY <1>1, <1>2 DEF QueueMutation, OutboxInv, FlightIsOpen, InFlight, Current,
     Exhausted, GuardIsLoop, RowsWereMade
<1>10. Accounted'
  BY <1>1, <1>2 DEF QueueMutation, OutboxInv, Accounted, Current, GuardIsLoop,
     RowsWereMade, FlightIsOpen, InFlight
<1>11. PostsCounted'
  BY <1>1, <1>2 DEF QueueMutation, OutboxInv, PostsCounted, InFlight, Current,
     GuardIsLoop, RowsWereMade, PendingIsInTable, StampsDiffer
<1>12. CarriedOutLeaves'
  BY <1>1, <1>2 DEF QueueMutation, OutboxInv, CarriedOutLeaves, Current,
     GuardIsLoop, RowsWereMade, StampsDiffer, PendingIsInTable, EffectsWereSent
<1>13. OldestFirst'
  BY <1>1, <1>2 DEF QueueMutation, OutboxInv, OldestFirst, Before, RowsWereMade,
     PendingIsWhole, PendingIsInTable, Current
<1> QED BY <1>3, <1>4, <1>5, <1>6, <1>7, <1>8, <1>9, <1>10, <1>11, <1>12, <1>13 DEF
   OutboxInv

(* The four steps that start the loop unless it runs.                       *)
StartsLoop ==
  /\ StartLoop
  /\ online' \in BOOLEAN
  /\ caller' \in BOOLEAN
  /\ UNCHANGED <<made, stamp, outbox, retries, pending, doomed, dropped, told,
                 applied, unanswered, posts, faults, kills>>

LEMMA StartsLoopInv ==
  ASSUME OutboxInv, StartsLoop
  PROVE  OutboxInv'
<1>1. /\ made \in Nat /\ faults \in Nat /\ kills \in Nat /\ MaxRetries \in Nat
      /\ outbox \subseteq Mutations /\ pending \subseteq Mutations
      /\ \A n \in Mutations :
           /\ n \in Nat /\ posts[n] \in Nat /\ retries[n] \in Nat /\ stamp[n] \in Nat
           /\ applied[n] \in Nat /\ unanswered[n] \in Nat
  BY Typed DEF OutboxInv
<1>2. OutboxTypeOK'
  BY <1>1, OutboxAssumption DEF StartsLoop, StartLoop, OutboxInv, OutboxTypeOK,
     Mutations
<1>3. /\ RowsWereMade' /\ StampsDiffer' /\ EffectsWereSent' /\ PendingIsWhole'
      /\ RepeatsBounded' /\ OldestFirst'
  BY DEF StartsLoop, StartLoop, OutboxInv, RowsWereMade, StampsDiffer,
     EffectsWereSent, PendingIsWhole, Before, RepeatsBounded, OldestFirst
<1>4. GuardIsLoop'
  BY <1>1 DEF StartsLoop, StartLoop, OutboxInv, GuardIsLoop
<1>5. PendingIsInTable'
  BY <1>1 DEF StartsLoop, StartLoop, OutboxInv, PendingIsInTable, Current,
     RowsWereMade, GuardIsLoop, StampsDiffer
<1>6. FlightIsOpen'
  BY <1>1 DEF StartsLoop, StartLoop, OutboxInv, FlightIsOpen, InFlight, Current,
     Exhausted, GuardIsLoop
<1>7. Accounted'
  BY <1>1 DEF StartsLoop, StartLoop, OutboxInv, Accounted, Current, GuardIsLoop,
     RowsWereMade, FlightIsOpen, InFlight
<1>8. PostsCounted'
  BY <1>1 DEF StartsLoop, StartLoop, OutboxInv, PostsCounted, InFlight, Current,
     GuardIsLoop, RowsWereMade, PendingIsInTable, StampsDiffer
<1>9. CarriedOutLeaves'
  BY <1>1 DEF StartsLoop, StartLoop, OutboxInv, CarriedOutLeaves, Current,
     GuardIsLoop, RowsWereMade, StampsDiffer, PendingIsInTable
<1> QED BY <1>2, <1>3, <1>4, <1>5, <1>6, <1>7, <1>8, <1>9 DEF OutboxInv

LEMMA PressDismissInv ==
  ASSUME OutboxInv, PressDismiss
  PROVE  OutboxInv'
<1>1. /\ made \in Nat /\ faults \in Nat /\ kills \in Nat /\ MaxRetries \in Nat
      /\ outbox \subseteq Mutations /\ pending \subseteq Mutations
      /\ \A n \in Mutations :
           /\ n \in Nat /\ posts[n] \in Nat /\ retries[n] \in Nat /\ stamp[n] \in Nat
           /\ applied[n] \in Nat /\ unanswered[n] \in Nat
  BY Typed DEF OutboxInv
<1>2. OutboxTypeOK'
  BY <1>1, OutboxAssumption DEF PressDismiss, OutboxInv, OutboxTypeOK, Mutations
<1>3. /\ GuardIsLoop' /\ RowsWereMade' /\ StampsDiffer' /\ EffectsWereSent'
      /\ PendingIsInTable' /\ PendingIsWhole' /\ FlightIsOpen' /\ PostsCounted'
      /\ RepeatsBounded' /\ CarriedOutLeaves' /\ OldestFirst'
  BY DEF PressDismiss, OutboxInv, GuardIsLoop, RowsWereMade, StampsDiffer,
     EffectsWereSent, PendingIsInTable, Current, PendingIsWhole, Before,
     FlightIsOpen, InFlight, PostsCounted, RepeatsBounded, CarriedOutLeaves,
     OldestFirst
<1>4. Accounted'
  BY <1>1 DEF PressDismiss, OutboxInv, Accounted, Current, GuardIsLoop,
     RowsWereMade, FlightIsOpen, InFlight
<1> QED BY <1>2, <1>3, <1>4 DEF OutboxInv

LEMMA NetworkLostInv ==
  ASSUME OutboxInv, NetworkLost
  PROVE  OutboxInv'
<1>1. /\ made \in Nat /\ faults \in Nat /\ kills \in Nat /\ MaxRetries \in Nat
      /\ outbox \subseteq Mutations /\ pending \subseteq Mutations
      /\ \A n \in Mutations :
           /\ n \in Nat /\ posts[n] \in Nat /\ retries[n] \in Nat /\ stamp[n] \in Nat
           /\ applied[n] \in Nat /\ unanswered[n] \in Nat
  BY Typed DEF OutboxInv
<1>2. OutboxTypeOK'
  BY <1>1, OutboxAssumption DEF NetworkLost, OutboxInv, OutboxTypeOK, Mutations
<1>3. /\ GuardIsLoop' /\ RowsWereMade' /\ StampsDiffer' /\ EffectsWereSent'
      /\ PendingIsInTable' /\ PendingIsWhole' /\ FlightIsOpen' /\ Accounted'
      /\ PostsCounted' /\ RepeatsBounded' /\ CarriedOutLeaves' /\ OldestFirst'
  BY DEF NetworkLost, OutboxInv, GuardIsLoop, RowsWereMade, StampsDiffer,
     EffectsWereSent, PendingIsInTable, Current, PendingIsWhole, Before,
     FlightIsOpen, InFlight, Accounted, PostsCounted, RepeatsBounded,
     CarriedOutLeaves, OldestFirst
<1> QED BY <1>2, <1>3 DEF OutboxInv

LEMMA LoadInv ==
  ASSUME OutboxInv, Load
  PROVE  OutboxInv'
<1>1. /\ made \in Nat /\ faults \in Nat /\ kills \in Nat /\ MaxRetries \in Nat
      /\ outbox \subseteq Mutations /\ pending \subseteq Mutations
      /\ \A n \in Mutations :
           /\ n \in Nat /\ posts[n] \in Nat /\ retries[n] \in Nat /\ stamp[n] \in Nat
           /\ applied[n] \in Nat /\ unanswered[n] \in Nat
  BY Typed DEF OutboxInv
<1>2. OutboxTypeOK'
  BY <1>1, OutboxAssumption DEF Load, OutboxInv, OutboxTypeOK, Mutations
<1>3. StampsDiffer' /\ EffectsWereSent' /\ RepeatsBounded' /\ OldestFirst'
  BY DEF Load, OutboxInv, StampsDiffer, EffectsWereSent, RepeatsBounded,
     OldestFirst, Before
<1>4. GuardIsLoop'
  BY <1>1 DEF Load, OutboxInv, GuardIsLoop
<1>5. RowsWereMade'
  BY <1>1 DEF Load, OutboxInv, RowsWereMade
<1>6. PendingIsInTable'
  BY <1>1 DEF Load, OutboxInv, PendingIsInTable, Current, RowsWereMade, GuardIsLoop,
     StampsDiffer
<1>7. PendingIsWhole'
  BY <1>1 DEF Load, OutboxInv, PendingIsWhole, Before, PendingIsInTable, Current,
     RowsWereMade
<1>8. FlightIsOpen'
  BY <1>1 DEF Load, OutboxInv, FlightIsOpen, InFlight, Current, Exhausted,
     GuardIsLoop
<1>9. Accounted'
  BY <1>1 DEF Load, OutboxInv, Accounted, Current, GuardIsLoop, RowsWereMade,
     FlightIsOpen, InFlight
<1>10. PostsCounted'
  BY <1>1 DEF Load, OutboxInv, PostsCounted, InFlight, Current, GuardIsLoop,
     RowsWereMade, PendingIsInTable, StampsDiffer
<1>11. CarriedOutLeaves'
  BY <1>1 DEF Load, OutboxInv, CarriedOutLeaves, Current, GuardIsLoop, RowsWereMade,
     StampsDiffer, PendingIsInTable
<1> QED BY <1>2, <1>3, <1>4, <1>5, <1>6, <1>7, <1>8, <1>9, <1>10, <1>11 DEF
   OutboxInv

LEMMA LoopEndsInv ==
  ASSUME OutboxInv, LoopEnds
  PROVE  OutboxInv'
<1>1. /\ made \in Nat /\ faults \in Nat /\ kills \in Nat /\ MaxRetries \in Nat
      /\ outbox \subseteq Mutations /\ pending \subseteq Mutations
      /\ \A n \in Mutations :
           /\ n \in Nat /\ posts[n] \in Nat /\ retries[n] \in Nat /\ stamp[n] \in Nat
           /\ applied[n] \in Nat /\ unanswered[n] \in Nat
  BY Typed DEF OutboxInv
<1>2. OutboxTypeOK'
  BY <1>1, OutboxAssumption DEF LoopEnds, OutboxInv, OutboxTypeOK, Mutations
<1>3. /\ RowsWereMade' /\ StampsDiffer' /\ EffectsWereSent' /\ PendingIsWhole'
      /\ RepeatsBounded' /\ OldestFirst'
  BY DEF LoopEnds, OutboxInv, RowsWereMade, StampsDiffer, EffectsWereSent,
     PendingIsWhole, Before, RepeatsBounded, OldestFirst
<1>4. GuardIsLoop'
  BY <1>1 DEF LoopEnds, OutboxInv, GuardIsLoop
<1>5. PendingIsInTable'
  BY <1>1 DEF LoopEnds, OutboxInv, PendingIsInTable, Current, RowsWereMade,
     GuardIsLoop, StampsDiffer
<1>6. FlightIsOpen'
  BY <1>1 DEF LoopEnds, OutboxInv, FlightIsOpen, InFlight, Current, Exhausted,
     GuardIsLoop
<1>7. Accounted'
  BY <1>1 DEF LoopEnds, OutboxInv, Accounted, Current, GuardIsLoop, RowsWereMade,
     FlightIsOpen, InFlight
<1>8. PostsCounted'
  BY <1>1 DEF LoopEnds, OutboxInv, PostsCounted, InFlight, Current, GuardIsLoop,
     RowsWereMade, PendingIsInTable, StampsDiffer
<1>9. CarriedOutLeaves'
  BY <1>1 DEF LoopEnds, OutboxInv, CarriedOutLeaves, Current, GuardIsLoop,
     RowsWereMade, StampsDiffer, PendingIsInTable
<1> QED BY <1>2, <1>3, <1>4, <1>5, <1>6, <1>7, <1>8, <1>9 DEF OutboxInv

LEMMA RemoveExhaustedInv ==
  ASSUME OutboxInv, NEW m \in Mutations, RemoveExhausted(m)
  PROVE  OutboxInv'
<1>1. /\ made \in Nat /\ faults \in Nat /\ kills \in Nat /\ MaxRetries \in Nat
      /\ outbox \subseteq Mutations /\ pending \subseteq Mutations
      /\ \A n \in Mutations :
           /\ n \in Nat /\ posts[n] \in Nat /\ retries[n] \in Nat /\ stamp[n] \in Nat
           /\ applied[n] \in Nat /\ unanswered[n] \in Nat
  BY Typed DEF OutboxInv
<1>2. OutboxTypeOK'
  BY <1>1, OutboxAssumption DEF RemoveExhausted, OutboxInv, OutboxTypeOK, Mutations
<1>3. StampsDiffer' /\ EffectsWereSent' /\ RepeatsBounded'
  BY DEF RemoveExhausted, OutboxInv, StampsDiffer, EffectsWereSent, RepeatsBounded
<1>4. GuardIsLoop'
  BY <1>1 DEF RemoveExhausted, OutboxInv, GuardIsLoop
<1>5. RowsWereMade'
  BY <1>1 DEF RemoveExhausted, OutboxInv, RowsWereMade
<1>6. PendingIsInTable'
  BY <1>1 DEF RemoveExhausted, OutboxInv, PendingIsInTable, Current, RowsWereMade,
     GuardIsLoop, StampsDiffer
<1>7. PendingIsWhole'
  BY <1>1 DEF RemoveExhausted, OutboxInv, PendingIsWhole, Before, PendingIsInTable,
     Current, RowsWereMade
<1>8. FlightIsOpen'
  BY <1>1 DEF RemoveExhausted, OutboxInv, FlightIsOpen, InFlight, Current,
     Exhausted, GuardIsLoop
<1>9. Accounted'
  BY <1>1 DEF RemoveExhausted, OutboxInv, Accounted, Current, GuardIsLoop,
     RowsWereMade, FlightIsOpen, InFlight
<1>10. PostsCounted'
  BY <1>1 DEF RemoveExhausted, OutboxInv, PostsCounted, InFlight, Current,
     GuardIsLoop, RowsWereMade, PendingIsInTable, StampsDiffer
<1>11. CarriedOutLeaves'
  BY <1>1 DEF RemoveExhausted, OutboxInv, CarriedOutLeaves, Current, GuardIsLoop,
     RowsWereMade, StampsDiffer, PendingIsInTable
<1>12. OldestFirst'
  BY <1>1 DEF RemoveExhausted, OutboxInv, OldestFirst, Before, RowsWereMade,
     PendingIsWhole, PendingIsInTable, Current
<1> QED BY <1>2, <1>3, <1>4, <1>5, <1>6, <1>7, <1>8, <1>9, <1>10, <1>11, <1>12 DEF
   OutboxInv

LEMMA ReportDroppedInv ==
  ASSUME OutboxInv, NEW m \in Mutations, ReportDropped(m)
  PROVE  OutboxInv'
<1>1. /\ made \in Nat /\ faults \in Nat /\ kills \in Nat /\ MaxRetries \in Nat
      /\ outbox \subseteq Mutations /\ pending \subseteq Mutations
      /\ \A n \in Mutations :
           /\ n \in Nat /\ posts[n] \in Nat /\ retries[n] \in Nat /\ stamp[n] \in Nat
           /\ applied[n] \in Nat /\ unanswered[n] \in Nat
  BY Typed DEF OutboxInv
<1>2. OutboxTypeOK'
  BY <1>1, OutboxAssumption DEF ReportDropped, OutboxInv, OutboxTypeOK, Mutations
<1>3. StampsDiffer' /\ EffectsWereSent' /\ RepeatsBounded' /\ OldestFirst'
  BY DEF ReportDropped, OutboxInv, StampsDiffer, EffectsWereSent, RepeatsBounded,
     OldestFirst, Before
<1>4. GuardIsLoop'
  BY <1>1 DEF ReportDropped, OutboxInv, GuardIsLoop
<1>5. RowsWereMade'
  BY <1>1 DEF ReportDropped, OutboxInv, RowsWereMade
<1>6. PendingIsInTable'
  BY <1>1 DEF ReportDropped, OutboxInv, PendingIsInTable, Current, RowsWereMade,
     GuardIsLoop, StampsDiffer
<1>7. PendingIsWhole'
  BY <1>1 DEF ReportDropped, OutboxInv, PendingIsWhole, Before, PendingIsInTable,
     Current, RowsWereMade
<1>8. FlightIsOpen'
  BY <1>1 DEF ReportDropped, OutboxInv, FlightIsOpen, InFlight, Current, Exhausted,
     GuardIsLoop
<1>9. Accounted'
  BY <1>1 DEF ReportDropped, OutboxInv, Accounted, Current, GuardIsLoop,
     RowsWereMade, FlightIsOpen, InFlight, StampsDiffer
<1>10. PostsCounted'
  BY <1>1 DEF ReportDropped, OutboxInv, PostsCounted, InFlight, Current,
     GuardIsLoop, RowsWereMade, PendingIsInTable, StampsDiffer
<1>11. CarriedOutLeaves'
  BY <1>1 DEF ReportDropped, OutboxInv, CarriedOutLeaves, Current, GuardIsLoop,
     RowsWereMade, StampsDiffer, PendingIsInTable
<1> QED BY <1>2, <1>3, <1>4, <1>5, <1>6, <1>7, <1>8, <1>9, <1>10, <1>11 DEF
   OutboxInv

LEMMA PostInv ==
  ASSUME OutboxInv, NEW m \in Mutations, Post(m)
  PROVE  OutboxInv'
<1>1. /\ made \in Nat /\ faults \in Nat /\ kills \in Nat /\ MaxRetries \in Nat
      /\ outbox \subseteq Mutations /\ pending \subseteq Mutations
      /\ \A n \in Mutations :
           /\ n \in Nat /\ posts[n] \in Nat /\ retries[n] \in Nat /\ stamp[n] \in Nat
           /\ applied[n] \in Nat /\ unanswered[n] \in Nat
  BY Typed DEF OutboxInv
<1>2. /\ posts' \in [Mutations -> Nat]
      /\ \A n \in Mutations : posts'[n] = IF n = m THEN posts[n] + 1 ELSE posts[n]
  <2>1. posts' \in [Mutations -> Nat]
    BY <1>1, OutboxAssumption DEF Post, OutboxInv, OutboxTypeOK, Mutations
  <2>2. \A n \in Mutations : posts'[n] = IF n = m THEN posts[n] + 1 ELSE posts[n]
    BY <1>1, <2>1, OutboxAssumption DEF Post, OutboxInv, OutboxTypeOK, Mutations
  <2> QED BY <2>1, <2>2
<1>3. OutboxTypeOK'
  BY <1>1, <1>2, OutboxAssumption DEF Post, OutboxInv, OutboxTypeOK, Mutations
<1>4. StampsDiffer' /\ PendingIsWhole'
  BY DEF Post, OutboxInv, StampsDiffer, PendingIsWhole, Before
<1>5. GuardIsLoop'
  BY <1>1, <1>2 DEF Post, OutboxInv, GuardIsLoop
<1>6. RowsWereMade'
  BY <1>1, <1>2 DEF Post, OutboxInv, RowsWereMade, Current
<1>7. EffectsWereSent'
  BY <1>1, <1>2 DEF Post, OutboxInv, EffectsWereSent, FlightIsOpen, InFlight
<1>8. PendingIsInTable'
  BY <1>1, <1>2 DEF Post, OutboxInv, PendingIsInTable, Current, RowsWereMade,
     GuardIsLoop, StampsDiffer
<1>9. FlightIsOpen'
  BY <1>1, <1>2 DEF Post, OutboxInv, FlightIsOpen, InFlight, Current, Exhausted,
     GuardIsLoop, StampsDiffer, RowsWereMade
<1>10. Accounted'
  BY <1>1, <1>2 DEF Post, OutboxInv, Accounted, Current, GuardIsLoop, RowsWereMade,
     FlightIsOpen, InFlight
<1>11. PostsCounted'
  BY <1>1, <1>2 DEF Post, OutboxInv, PostsCounted, InFlight, Current, GuardIsLoop,
     RowsWereMade, PendingIsInTable, StampsDiffer
<1>12. RepeatsBounded'
  BY <1>1, <1>2 DEF Post, OutboxInv, RepeatsBounded, PostsCounted, CarriedOutLeaves,
     FlightIsOpen, InFlight, PendingIsInTable, Current, Exhausted
<1>13. CarriedOutLeaves'
  BY <1>1, <1>2 DEF Post, OutboxInv, CarriedOutLeaves, Current, GuardIsLoop,
     RowsWereMade, StampsDiffer, PendingIsInTable
<1>14. OldestFirst'
  BY <1>1, <1>2 DEF Post, OutboxInv, OldestFirst, Before, RowsWereMade,
     PendingIsWhole, PendingIsInTable, Current
<1> QED BY <1>3, <1>4, <1>5, <1>6, <1>7, <1>8, <1>9, <1>10, <1>11, <1>12, <1>13,
   <1>14 DEF OutboxInv

LEMMA PostSucceedsInv ==
  ASSUME OutboxInv, NEW m \in Mutations, PostSucceeds(m)
  PROVE  OutboxInv'
<1>1. /\ made \in Nat /\ faults \in Nat /\ kills \in Nat /\ MaxRetries \in Nat
      /\ outbox \subseteq Mutations /\ pending \subseteq Mutations
      /\ \A n \in Mutations :
           /\ n \in Nat /\ posts[n] \in Nat /\ retries[n] \in Nat /\ stamp[n] \in Nat
           /\ applied[n] \in Nat /\ unanswered[n] \in Nat
  BY Typed DEF OutboxInv
<1>2. /\ applied' \in [Mutations -> Nat]
      /\ \A n \in Mutations : applied'[n] = IF n = m THEN applied[n] + 1 ELSE applied[n]
  <2>1. applied' \in [Mutations -> Nat]
    BY <1>1, OutboxAssumption DEF PostSucceeds, OutboxInv, OutboxTypeOK, Mutations
  <2>2. \A n \in Mutations : applied'[n] = IF n = m THEN applied[n] + 1 ELSE applied[n]
    BY <1>1, <2>1, OutboxAssumption DEF PostSucceeds, OutboxInv, OutboxTypeOK,
       Mutations
  <2> QED BY <2>1, <2>2
<1>3. OutboxTypeOK'
  BY <1>1, <1>2, OutboxAssumption DEF PostSucceeds, OutboxInv, OutboxTypeOK,
     Mutations
<1>4. RowsWereMade' /\ StampsDiffer' /\ PendingIsWhole' /\ OldestFirst'
  BY DEF PostSucceeds, OutboxInv, RowsWereMade, StampsDiffer, PendingIsWhole,
     Before, OldestFirst
<1>5. GuardIsLoop'
  BY <1>1, <1>2 DEF PostSucceeds, OutboxInv, GuardIsLoop
<1>6. EffectsWereSent'
  BY <1>1, <1>2 DEF PostSucceeds, OutboxInv, EffectsWereSent, FlightIsOpen, InFlight
<1>7. PendingIsInTable'
  BY <1>1, <1>2 DEF PostSucceeds, OutboxInv, PendingIsInTable, Current,
     RowsWereMade, GuardIsLoop, StampsDiffer
<1>8. FlightIsOpen'
  BY <1>1, <1>2 DEF PostSucceeds, OutboxInv, FlightIsOpen, InFlight, Current,
     Exhausted, GuardIsLoop, StampsDiffer, RowsWereMade
<1>9. Accounted'
  BY <1>1, <1>2 DEF PostSucceeds, OutboxInv, Accounted, Current, GuardIsLoop,
     RowsWereMade, FlightIsOpen, InFlight
<1>10. PostsCounted'
  BY <1>1, <1>2 DEF PostSucceeds, OutboxInv, PostsCounted, InFlight, Current,
     GuardIsLoop, RowsWereMade, PendingIsInTable, StampsDiffer
<1>11. RepeatsBounded'
  BY <1>1, <1>2 DEF PostSucceeds, OutboxInv, RepeatsBounded, PostsCounted,
     CarriedOutLeaves, FlightIsOpen, InFlight, PendingIsInTable, Current
<1>12. CarriedOutLeaves'
  BY <1>1, <1>2 DEF PostSucceeds, OutboxInv, CarriedOutLeaves, Current, GuardIsLoop,
     RowsWereMade, StampsDiffer, PendingIsInTable
<1> QED BY <1>3, <1>4, <1>5, <1>6, <1>7, <1>8, <1>9, <1>10, <1>11, <1>12 DEF
   OutboxInv

LEMMA PostFailsInv ==
  ASSUME OutboxInv, NEW m \in Mutations, PostFails(m)
  PROVE  OutboxInv'
<1>1. /\ made \in Nat /\ faults \in Nat /\ kills \in Nat /\ MaxRetries \in Nat
      /\ outbox \subseteq Mutations /\ pending \subseteq Mutations
      /\ \A n \in Mutations :
           /\ n \in Nat /\ posts[n] \in Nat /\ retries[n] \in Nat /\ stamp[n] \in Nat
           /\ applied[n] \in Nat /\ unanswered[n] \in Nat
  BY Typed DEF OutboxInv
<1>2. /\ faults' \in 0 .. MaxFaults
      /\ faults' = faults \/ faults' = faults + 1
  <2>1. faults' \in 0 .. MaxFaults
    BY <1>1, OutboxAssumption DEF PostFails, Fault, OutboxInv, OutboxTypeOK,
       Mutations
  <2>2. faults' = faults \/ faults' = faults + 1
    BY <1>1, <2>1, OutboxAssumption DEF PostFails, Fault, OutboxInv, OutboxTypeOK,
       Mutations
  <2> QED BY <2>1, <2>2
<1>3. OutboxTypeOK'
  BY <1>1, <1>2, OutboxAssumption DEF PostFails, Fault, OutboxInv, OutboxTypeOK,
     Mutations
<1>4. /\ RowsWereMade' /\ StampsDiffer' /\ EffectsWereSent' /\ PendingIsWhole'
      /\ OldestFirst'
  BY DEF PostFails, Fault, OutboxInv, RowsWereMade, StampsDiffer, EffectsWereSent,
     PendingIsWhole, Before, OldestFirst
<1>5. GuardIsLoop'
  BY <1>1, <1>2 DEF PostFails, Fault, OutboxInv, GuardIsLoop
<1>6. PendingIsInTable'
  BY <1>1, <1>2 DEF PostFails, Fault, OutboxInv, PendingIsInTable, Current,
     RowsWereMade, GuardIsLoop, StampsDiffer
<1>7. FlightIsOpen'
  BY <1>1, <1>2 DEF PostFails, Fault, OutboxInv, FlightIsOpen, InFlight, Current,
     Exhausted, GuardIsLoop
<1>8. Accounted'
  BY <1>1, <1>2 DEF PostFails, Fault, OutboxInv, Accounted, Current, GuardIsLoop,
     RowsWereMade, FlightIsOpen, InFlight
<1>9. PostsCounted'
  BY <1>1, <1>2 DEF PostFails, Fault, OutboxInv, PostsCounted, InFlight, Current,
     GuardIsLoop, RowsWereMade, PendingIsInTable, StampsDiffer
<1>10. RepeatsBounded'
  BY <1>1, <1>2 DEF PostFails, Fault, OutboxInv, RepeatsBounded, PostsCounted,
     CarriedOutLeaves, FlightIsOpen, InFlight, PendingIsInTable, Current
<1>11. CarriedOutLeaves'
  BY <1>1, <1>2 DEF PostFails, Fault, OutboxInv, CarriedOutLeaves, Current,
     GuardIsLoop, RowsWereMade, StampsDiffer, PendingIsInTable
<1> QED BY <1>3, <1>4, <1>5, <1>6, <1>7, <1>8, <1>9, <1>10, <1>11 DEF OutboxInv

LEMMA PostUnansweredInv ==
  ASSUME OutboxInv, NEW m \in Mutations, PostUnanswered(m)
  PROVE  OutboxInv'
<1>1. /\ made \in Nat /\ faults \in Nat /\ kills \in Nat /\ MaxRetries \in Nat
      /\ outbox \subseteq Mutations /\ pending \subseteq Mutations
      /\ \A n \in Mutations :
           /\ n \in Nat /\ posts[n] \in Nat /\ retries[n] \in Nat /\ stamp[n] \in Nat
           /\ applied[n] \in Nat /\ unanswered[n] \in Nat
  BY Typed DEF OutboxInv
<1>2. /\ faults' = faults + 1
      /\ faults' \in 0 .. MaxFaults
      /\ unanswered' \in [Mutations -> Nat]
      /\ \A n \in Mutations :
            unanswered'[n] = IF n = m THEN unanswered[n] + 1 ELSE unanswered[n]
  <2>1. faults' = faults + 1
    BY <1>1, OutboxAssumption DEF PostUnanswered, Fault, OutboxInv, OutboxTypeOK,
       Mutations
  <2>2. faults' \in 0 .. MaxFaults
    BY <1>1, <2>1, OutboxAssumption DEF PostUnanswered, Fault, OutboxInv,
       OutboxTypeOK, Mutations
  <2>3. unanswered' \in [Mutations -> Nat]
    BY <1>1, <2>1, <2>2, OutboxAssumption DEF PostUnanswered, Fault, OutboxInv,
       OutboxTypeOK, Mutations
  <2>4. \A n \in Mutations :
            unanswered'[n] = IF n = m THEN unanswered[n] + 1 ELSE unanswered[n]
    BY <1>1, <2>1, <2>2, <2>3, OutboxAssumption DEF PostUnanswered, Fault,
       OutboxInv, OutboxTypeOK, Mutations
  <2> QED BY <2>1, <2>2, <2>3, <2>4
<1>3. OutboxTypeOK'
  BY <1>1, <1>2, OutboxAssumption DEF PostUnanswered, Fault, OutboxInv,
     OutboxTypeOK, Mutations
<1>4. RowsWereMade' /\ StampsDiffer' /\ PendingIsWhole' /\ OldestFirst'
  BY DEF PostUnanswered, Fault, OutboxInv, RowsWereMade, StampsDiffer,
     PendingIsWhole, Before, OldestFirst
<1>5. GuardIsLoop'
  BY <1>1, <1>2 DEF PostUnanswered, Fault, OutboxInv, GuardIsLoop
<1>6. EffectsWereSent'
  BY <1>1, <1>2 DEF PostUnanswered, Fault, OutboxInv, EffectsWereSent, FlightIsOpen,
     InFlight
<1>7. PendingIsInTable'
  BY <1>1, <1>2 DEF PostUnanswered, Fault, OutboxInv, PendingIsInTable, Current,
     RowsWereMade, GuardIsLoop, StampsDiffer
<1>8. FlightIsOpen'
  BY <1>1, <1>2 DEF PostUnanswered, Fault, OutboxInv, FlightIsOpen, InFlight,
     Current, Exhausted, GuardIsLoop
<1>9. Accounted'
  BY <1>1, <1>2 DEF PostUnanswered, Fault, OutboxInv, Accounted, Current,
     GuardIsLoop, RowsWereMade, FlightIsOpen, InFlight
<1>10. PostsCounted'
  BY <1>1, <1>2 DEF PostUnanswered, Fault, OutboxInv, PostsCounted, InFlight,
     Current, GuardIsLoop, RowsWereMade, PendingIsInTable, StampsDiffer
<1>11. RepeatsBounded'
  BY <1>1, <1>2 DEF PostUnanswered, Fault, OutboxInv, RepeatsBounded, PostsCounted,
     CarriedOutLeaves, FlightIsOpen, InFlight, PendingIsInTable, Current
<1>12. CarriedOutLeaves'
  BY <1>1, <1>2 DEF PostUnanswered, Fault, OutboxInv, CarriedOutLeaves, Current,
     GuardIsLoop, RowsWereMade, StampsDiffer, PendingIsInTable
<1> QED BY <1>3, <1>4, <1>5, <1>6, <1>7, <1>8, <1>9, <1>10, <1>11, <1>12 DEF
   OutboxInv

LEMMA PostHangsInv ==
  ASSUME OutboxInv, NEW m \in Mutations, PostHangs(m)
  PROVE  OutboxInv'
<1>1. /\ made \in Nat /\ faults \in Nat /\ kills \in Nat /\ MaxRetries \in Nat
      /\ outbox \subseteq Mutations /\ pending \subseteq Mutations
      /\ \A n \in Mutations :
           /\ n \in Nat /\ posts[n] \in Nat /\ retries[n] \in Nat /\ stamp[n] \in Nat
           /\ applied[n] \in Nat /\ unanswered[n] \in Nat
  BY Typed DEF OutboxInv
<1>2. /\ unanswered' \in [Mutations -> Nat]
      /\ \A n \in Mutations :
            unanswered'[n] = IF n = m THEN unanswered[n] + 1 ELSE unanswered[n]
  <2>1. unanswered' \in [Mutations -> Nat]
    BY <1>1, OutboxAssumption DEF PostHangs, OutboxInv, OutboxTypeOK, Mutations
  <2>2. \A n \in Mutations :
            unanswered'[n] = IF n = m THEN unanswered[n] + 1 ELSE unanswered[n]
    BY <1>1, <2>1, OutboxAssumption DEF PostHangs, OutboxInv, OutboxTypeOK,
       Mutations
  <2> QED BY <2>1, <2>2
<1>3. OutboxTypeOK'
  BY <1>1, <1>2, OutboxAssumption DEF PostHangs, OutboxInv, OutboxTypeOK, Mutations
<1>4. /\ RowsWereMade' /\ StampsDiffer' /\ PendingIsWhole' /\ RepeatsBounded'
      /\ OldestFirst'
  BY DEF PostHangs, OutboxInv, RowsWereMade, StampsDiffer, PendingIsWhole, Before,
     RepeatsBounded, OldestFirst
<1>5. GuardIsLoop'
  BY <1>1, <1>2 DEF PostHangs, OutboxInv, GuardIsLoop
<1>6. EffectsWereSent'
  BY <1>1, <1>2 DEF PostHangs, OutboxInv, EffectsWereSent, FlightIsOpen, InFlight
<1>7. PendingIsInTable'
  BY <1>1, <1>2 DEF PostHangs, OutboxInv, PendingIsInTable, Current, RowsWereMade,
     GuardIsLoop, StampsDiffer
<1>8. FlightIsOpen'
  BY <1>1, <1>2 DEF PostHangs, OutboxInv, FlightIsOpen, InFlight, Current,
     Exhausted, GuardIsLoop
<1>9. Accounted'
  BY <1>1, <1>2 DEF PostHangs, OutboxInv, Accounted, Current, GuardIsLoop,
     RowsWereMade, FlightIsOpen, InFlight
<1>10. PostsCounted'
  BY <1>1, <1>2 DEF PostHangs, OutboxInv, PostsCounted, InFlight, Current,
     GuardIsLoop, RowsWereMade, PendingIsInTable, StampsDiffer
<1>11. CarriedOutLeaves'
  BY <1>1, <1>2 DEF PostHangs, OutboxInv, CarriedOutLeaves, Current, GuardIsLoop,
     RowsWereMade, StampsDiffer, PendingIsInTable
<1> QED BY <1>3, <1>4, <1>5, <1>6, <1>7, <1>8, <1>9, <1>10, <1>11 DEF OutboxInv

LEMMA CarriedOutLateInv ==
  ASSUME OutboxInv, NEW m \in Mutations, CarriedOutLate(m)
  PROVE  OutboxInv'
<1>1. /\ made \in Nat /\ faults \in Nat /\ kills \in Nat /\ MaxRetries \in Nat
      /\ outbox \subseteq Mutations /\ pending \subseteq Mutations
      /\ \A n \in Mutations :
           /\ n \in Nat /\ posts[n] \in Nat /\ retries[n] \in Nat /\ stamp[n] \in Nat
           /\ applied[n] \in Nat /\ unanswered[n] \in Nat
  BY Typed DEF OutboxInv
<1>2. /\ applied' \in [Mutations -> Nat]
      /\ \A n \in Mutations : applied'[n] = IF n = m THEN applied[n] + 1 ELSE applied[n]
      /\ unanswered' \in [Mutations -> Nat]
      /\ \A n \in Mutations :
            unanswered'[n] = IF n = m THEN unanswered[n] - 1 ELSE unanswered[n]
  <2>1. applied' \in [Mutations -> Nat]
    BY <1>1, OutboxAssumption DEF CarriedOutLate, OutboxInv, OutboxTypeOK, Mutations
  <2>2. \A n \in Mutations : applied'[n] = IF n = m THEN applied[n] + 1 ELSE applied[n]
    BY <1>1, <2>1, OutboxAssumption DEF CarriedOutLate, OutboxInv, OutboxTypeOK,
       Mutations
  <2>3. unanswered' \in [Mutations -> Nat]
    BY <1>1, <2>1, <2>2, OutboxAssumption DEF CarriedOutLate, OutboxInv,
       OutboxTypeOK, Mutations
  <2>4. \A n \in Mutations :
            unanswered'[n] = IF n = m THEN unanswered[n] - 1 ELSE unanswered[n]
    BY <1>1, <2>1, <2>2, <2>3, OutboxAssumption DEF CarriedOutLate, OutboxInv,
       OutboxTypeOK, Mutations
  <2> QED BY <2>1, <2>2, <2>3, <2>4
<1>3. OutboxTypeOK'
  BY <1>1, <1>2, OutboxAssumption DEF CarriedOutLate, OutboxInv, OutboxTypeOK,
     Mutations
<1>4. /\ GuardIsLoop' /\ RowsWereMade' /\ StampsDiffer' /\ PendingIsInTable'
      /\ PendingIsWhole' /\ PostsCounted' /\ OldestFirst'
  BY DEF CarriedOutLate, OutboxInv, GuardIsLoop, RowsWereMade, StampsDiffer,
     PendingIsInTable, Current, PendingIsWhole, Before, PostsCounted, InFlight,
     OldestFirst
<1>5. EffectsWereSent'
  BY <1>1, <1>2 DEF CarriedOutLate, OutboxInv, EffectsWereSent, FlightIsOpen,
     InFlight
<1>6. FlightIsOpen'
  BY <1>1, <1>2 DEF CarriedOutLate, OutboxInv, FlightIsOpen, InFlight, Current,
     Exhausted, GuardIsLoop
<1>7. Accounted'
  BY <1>1, <1>2 DEF CarriedOutLate, OutboxInv, Accounted, Current, GuardIsLoop,
     RowsWereMade, FlightIsOpen, InFlight
<1>8. RepeatsBounded'
  BY <1>1, <1>2 DEF CarriedOutLate, OutboxInv, RepeatsBounded, PostsCounted,
     CarriedOutLeaves, FlightIsOpen, InFlight, PendingIsInTable, Current
<1>9. CarriedOutLeaves'
  BY <1>1, <1>2 DEF CarriedOutLate, OutboxInv, CarriedOutLeaves, Current,
     GuardIsLoop, RowsWereMade, StampsDiffer, PendingIsInTable
<1> QED BY <1>3, <1>4, <1>5, <1>6, <1>7, <1>8, <1>9 DEF OutboxInv

LEMMA RemoveSentInv ==
  ASSUME OutboxInv, NEW m \in Mutations, RemoveSent(m)
  PROVE  OutboxInv'
<1>1. /\ made \in Nat /\ faults \in Nat /\ kills \in Nat /\ MaxRetries \in Nat
      /\ outbox \subseteq Mutations /\ pending \subseteq Mutations
      /\ \A n \in Mutations :
           /\ n \in Nat /\ posts[n] \in Nat /\ retries[n] \in Nat /\ stamp[n] \in Nat
           /\ applied[n] \in Nat /\ unanswered[n] \in Nat
  BY Typed DEF OutboxInv
<1>2. OutboxTypeOK'
  BY <1>1, OutboxAssumption DEF RemoveSent, OutboxInv, OutboxTypeOK, Mutations
<1>3. StampsDiffer' /\ EffectsWereSent' /\ RepeatsBounded'
  BY DEF RemoveSent, OutboxInv, StampsDiffer, EffectsWereSent, RepeatsBounded
<1>4. GuardIsLoop'
  BY <1>1 DEF RemoveSent, OutboxInv, GuardIsLoop
<1>5. RowsWereMade'
  BY <1>1 DEF RemoveSent, OutboxInv, RowsWereMade
<1>6. PendingIsInTable'
  BY <1>1 DEF RemoveSent, OutboxInv, PendingIsInTable, Current, RowsWereMade,
     GuardIsLoop, StampsDiffer
<1>7. PendingIsWhole'
  BY <1>1 DEF RemoveSent, OutboxInv, PendingIsWhole, Before, PendingIsInTable,
     Current, RowsWereMade
<1>8. FlightIsOpen'
  BY <1>1 DEF RemoveSent, OutboxInv, FlightIsOpen, InFlight, Current, Exhausted,
     GuardIsLoop
<1>9. Accounted'
  BY <1>1 DEF RemoveSent, OutboxInv, Accounted, Current, GuardIsLoop, RowsWereMade,
     FlightIsOpen, InFlight
<1>10. PostsCounted'
  BY <1>1 DEF RemoveSent, OutboxInv, PostsCounted, InFlight, Current, GuardIsLoop,
     RowsWereMade, PendingIsInTable, StampsDiffer
<1>11. CarriedOutLeaves'
  BY <1>1 DEF RemoveSent, OutboxInv, CarriedOutLeaves, Current, GuardIsLoop,
     RowsWereMade, StampsDiffer, PendingIsInTable
<1>12. OldestFirst'
  BY <1>1 DEF RemoveSent, OutboxInv, OldestFirst, Before, RowsWereMade,
     PendingIsWhole, PendingIsInTable, Current
<1> QED BY <1>2, <1>3, <1>4, <1>5, <1>6, <1>7, <1>8, <1>9, <1>10, <1>11, <1>12 DEF
   OutboxInv

LEMMA RemoveFailsInv ==
  ASSUME OutboxInv, NEW m \in Mutations, RemoveFails(m)
  PROVE  OutboxInv'
<1>1. /\ made \in Nat /\ faults \in Nat /\ kills \in Nat /\ MaxRetries \in Nat
      /\ outbox \subseteq Mutations /\ pending \subseteq Mutations
      /\ \A n \in Mutations :
           /\ n \in Nat /\ posts[n] \in Nat /\ retries[n] \in Nat /\ stamp[n] \in Nat
           /\ applied[n] \in Nat /\ unanswered[n] \in Nat
  BY Typed DEF OutboxInv
<1>2. /\ faults' = faults + 1
      /\ faults' \in 0 .. MaxFaults
  <2>1. faults' = faults + 1
    BY <1>1, OutboxAssumption DEF RemoveFails, Fault, OutboxInv, OutboxTypeOK,
       Mutations
  <2>2. faults' \in 0 .. MaxFaults
    BY <1>1, <2>1, OutboxAssumption DEF RemoveFails, Fault, OutboxInv, OutboxTypeOK,
       Mutations
  <2> QED BY <2>1, <2>2
<1>3. OutboxTypeOK'
  BY <1>1, <1>2, OutboxAssumption DEF RemoveFails, Fault, OutboxInv, OutboxTypeOK,
     Mutations
<1>4. /\ RowsWereMade' /\ StampsDiffer' /\ EffectsWereSent' /\ PendingIsWhole'
      /\ OldestFirst'
  BY DEF RemoveFails, Fault, OutboxInv, RowsWereMade, StampsDiffer, EffectsWereSent,
     PendingIsWhole, Before, OldestFirst
<1>5. GuardIsLoop'
  BY <1>1, <1>2 DEF RemoveFails, Fault, OutboxInv, GuardIsLoop
<1>6. PendingIsInTable'
  BY <1>1, <1>2 DEF RemoveFails, Fault, OutboxInv, PendingIsInTable, Current,
     RowsWereMade, GuardIsLoop, StampsDiffer
<1>7. FlightIsOpen'
  BY <1>1, <1>2 DEF RemoveFails, Fault, OutboxInv, FlightIsOpen, InFlight, Current,
     Exhausted, GuardIsLoop
<1>8. Accounted'
  BY <1>1, <1>2 DEF RemoveFails, Fault, OutboxInv, Accounted, Current, GuardIsLoop,
     RowsWereMade, FlightIsOpen, InFlight
<1>9. PostsCounted'
  BY <1>1, <1>2 DEF RemoveFails, Fault, OutboxInv, PostsCounted, InFlight, Current,
     GuardIsLoop, RowsWereMade, PendingIsInTable, StampsDiffer
<1>10. RepeatsBounded'
  BY <1>1, <1>2 DEF RemoveFails, Fault, OutboxInv, RepeatsBounded, PostsCounted,
     CarriedOutLeaves, FlightIsOpen, InFlight, PendingIsInTable, Current
<1>11. CarriedOutLeaves'
  BY <1>1, <1>2 DEF RemoveFails, Fault, OutboxInv, CarriedOutLeaves, Current,
     GuardIsLoop, RowsWereMade, StampsDiffer, PendingIsInTable
<1> QED BY <1>3, <1>4, <1>5, <1>6, <1>7, <1>8, <1>9, <1>10, <1>11 DEF OutboxInv

LEMMA CountFailureInv ==
  ASSUME OutboxInv, NEW m \in Mutations, CountFailure(m)
  PROVE  OutboxInv'
<1>1. /\ made \in Nat /\ faults \in Nat /\ kills \in Nat /\ MaxRetries \in Nat
      /\ outbox \subseteq Mutations /\ pending \subseteq Mutations
      /\ \A n \in Mutations :
           /\ n \in Nat /\ posts[n] \in Nat /\ retries[n] \in Nat /\ stamp[n] \in Nat
           /\ applied[n] \in Nat /\ unanswered[n] \in Nat
  BY Typed DEF OutboxInv
<1>2. /\ retries[m] < MaxRetries
      /\ retries' \in [Mutations -> 0 .. MaxRetries]
      /\ \A n \in Mutations : retries'[n] = IF n = m THEN retries[n] + 1 ELSE retries[n]
  <2>1. retries[m] < MaxRetries
    BY <1>1, OutboxAssumption DEF CountFailure, IncrementRetryCount, OutboxInv,
       OutboxTypeOK, Mutations, FlightIsOpen, InFlight
  <2>2. retries' \in [Mutations -> 0 .. MaxRetries]
    BY <1>1, <2>1 DEF CountFailure, IncrementRetryCount, OutboxInv, OutboxTypeOK
  <2>3. \A n \in Mutations : retries'[n] = IF n = m THEN retries[n] + 1 ELSE retries[n]
    BY <1>1, <2>1, <2>2, OutboxAssumption DEF CountFailure, IncrementRetryCount,
       OutboxInv, OutboxTypeOK, Mutations
  <2> QED BY <2>1, <2>2, <2>3
<1>3. OutboxTypeOK'
  BY <1>1, <1>2, OutboxAssumption DEF CountFailure, IncrementRetryCount, OutboxInv,
     OutboxTypeOK, Mutations
<1>4. StampsDiffer' /\ EffectsWereSent' /\ RepeatsBounded' /\ OldestFirst'
  BY DEF CountFailure, IncrementRetryCount, OutboxInv, StampsDiffer,
     EffectsWereSent, RepeatsBounded, OldestFirst, Before
<1>5. GuardIsLoop'
  BY <1>1, <1>2 DEF CountFailure, IncrementRetryCount, OutboxInv, GuardIsLoop
<1>6. RowsWereMade'
  BY <1>1, <1>2 DEF CountFailure, IncrementRetryCount, OutboxInv, RowsWereMade
<1>7. PendingIsInTable'
  BY <1>1, <1>2 DEF CountFailure, IncrementRetryCount, OutboxInv, PendingIsInTable,
     Current, RowsWereMade, GuardIsLoop, StampsDiffer
<1>8. PendingIsWhole'
  BY <1>1, <1>2 DEF CountFailure, IncrementRetryCount, OutboxInv, PendingIsWhole,
     Before, PendingIsInTable, Current, RowsWereMade
<1>9. FlightIsOpen'
  BY <1>1, <1>2 DEF CountFailure, IncrementRetryCount, OutboxInv, FlightIsOpen,
     InFlight, Current, Exhausted, GuardIsLoop
<1>10. Accounted'
  BY <1>1, <1>2 DEF CountFailure, IncrementRetryCount, OutboxInv, Accounted,
     Current, GuardIsLoop, RowsWereMade, FlightIsOpen, InFlight
<1>11. PostsCounted'
  BY <1>1, <1>2 DEF CountFailure, IncrementRetryCount, OutboxInv, PostsCounted,
     InFlight, Current, GuardIsLoop, RowsWereMade, PendingIsInTable, StampsDiffer
<1>12. CarriedOutLeaves'
  BY <1>1, <1>2 DEF CountFailure, IncrementRetryCount, OutboxInv, CarriedOutLeaves,
     Current, GuardIsLoop, RowsWereMade, StampsDiffer, PendingIsInTable
<1> QED BY <1>3, <1>4, <1>5, <1>6, <1>7, <1>8, <1>9, <1>10, <1>11, <1>12 DEF
   OutboxInv

LEMMA LoopThrowsInv ==
  ASSUME OutboxInv, LoopThrows
  PROVE  OutboxInv'
<1>1. /\ made \in Nat /\ faults \in Nat /\ kills \in Nat /\ MaxRetries \in Nat
      /\ outbox \subseteq Mutations /\ pending \subseteq Mutations
      /\ \A n \in Mutations :
           /\ n \in Nat /\ posts[n] \in Nat /\ retries[n] \in Nat /\ stamp[n] \in Nat
           /\ applied[n] \in Nat /\ unanswered[n] \in Nat
  BY Typed DEF OutboxInv
<1>2. /\ faults' = faults + 1
      /\ faults' \in 0 .. MaxFaults
  <2>1. faults' = faults + 1
    BY <1>1, OutboxAssumption DEF LoopThrows, Fault, OutboxInv, OutboxTypeOK,
       Mutations
  <2>2. faults' \in 0 .. MaxFaults
    BY <1>1, <2>1, OutboxAssumption DEF LoopThrows, Fault, OutboxInv, OutboxTypeOK,
       Mutations
  <2> QED BY <2>1, <2>2
<1>3. OutboxTypeOK'
  BY <1>1, <1>2, OutboxAssumption DEF LoopThrows, Fault, OutboxInv, OutboxTypeOK,
     Mutations
<1>4. StampsDiffer' /\ EffectsWereSent' /\ OldestFirst'
  BY DEF LoopThrows, Fault, OutboxInv, StampsDiffer, EffectsWereSent, OldestFirst,
     Before
<1>5. GuardIsLoop'
  BY <1>1, <1>2 DEF LoopThrows, Fault, OutboxInv, GuardIsLoop
<1>6. RowsWereMade'
  BY <1>1, <1>2 DEF LoopThrows, Fault, OutboxInv, RowsWereMade
<1>7. PendingIsInTable'
  BY <1>1, <1>2 DEF LoopThrows, Fault, OutboxInv, PendingIsInTable, Current,
     RowsWereMade, GuardIsLoop, StampsDiffer
<1>8. PendingIsWhole'
  BY <1>1, <1>2 DEF LoopThrows, Fault, OutboxInv, PendingIsWhole, Before,
     PendingIsInTable, Current, RowsWereMade
<1>9. FlightIsOpen'
  BY <1>1, <1>2 DEF LoopThrows, Fault, OutboxInv, FlightIsOpen, InFlight, Current,
     Exhausted, GuardIsLoop
<1>10. Accounted'
  BY <1>1, <1>2 DEF LoopThrows, Fault, OutboxInv, Accounted, Current, GuardIsLoop,
     RowsWereMade, FlightIsOpen, InFlight
<1>11. PostsCounted'
  BY <1>1, <1>2 DEF LoopThrows, Fault, OutboxInv, PostsCounted, InFlight, Current,
     GuardIsLoop, RowsWereMade, PendingIsInTable, StampsDiffer
<1>12. RepeatsBounded'
  BY <1>1, <1>2 DEF LoopThrows, Fault, OutboxInv, RepeatsBounded, PostsCounted,
     CarriedOutLeaves, FlightIsOpen, InFlight, PendingIsInTable, Current
<1>13. CarriedOutLeaves'
  BY <1>1, <1>2 DEF LoopThrows, Fault, OutboxInv, CarriedOutLeaves, Current,
     GuardIsLoop, RowsWereMade, StampsDiffer, PendingIsInTable
<1> QED BY <1>3, <1>4, <1>5, <1>6, <1>7, <1>8, <1>9, <1>10, <1>11, <1>12, <1>13 DEF
   OutboxInv

LEMMA AppKilledInv ==
  ASSUME OutboxInv, AppKilled
  PROVE  OutboxInv'
<1>1. /\ made \in Nat /\ faults \in Nat /\ kills \in Nat /\ MaxRetries \in Nat
      /\ outbox \subseteq Mutations /\ pending \subseteq Mutations
      /\ \A n \in Mutations :
           /\ n \in Nat /\ posts[n] \in Nat /\ retries[n] \in Nat /\ stamp[n] \in Nat
           /\ applied[n] \in Nat /\ unanswered[n] \in Nat
  BY Typed DEF OutboxInv
<1>2. /\ kills' = kills + 1
      /\ kills' \in 0 .. MaxKills
      /\ unanswered' \in [Mutations -> Nat]
      /\ \A n \in Mutations : unanswered'[n] > 0 => unanswered[n] > 0 \/ InFlight(n)
  <2>1. kills' = kills + 1
    BY <1>1, OutboxAssumption DEF AppKilled, InFlight, OutboxInv, OutboxTypeOK,
       Mutations
  <2>2. kills' \in 0 .. MaxKills
    BY <1>1, <2>1, OutboxAssumption DEF AppKilled, InFlight, OutboxInv,
       OutboxTypeOK, Mutations
  <2>3. unanswered' \in [Mutations -> Nat]
    <3> DEFINE more(n) ==
          IF pc = "posting" /\ Current(n) THEN unanswered[n] + 1 ELSE unanswered[n]
    <3>1. \A n \in Mutations : more(n) \in Nat
      BY <1>1
    <3>2. unanswered' = [n \in Mutations |-> more(n)]
      BY DEF AppKilled
    <3> HIDE DEF more
    <3>3. QED
      BY <3>1, <3>2
  <2>4. \A n \in Mutations : unanswered'[n] > 0 => unanswered[n] > 0 \/ InFlight(n)
    BY <1>1 DEF AppKilled, InFlight
  <2> QED BY <2>1, <2>2, <2>3, <2>4
<1>3. OutboxTypeOK'
  BY <1>1, <1>2, OutboxAssumption DEF AppKilled, InFlight, OutboxInv, OutboxTypeOK,
     Mutations
<1>4. StampsDiffer' /\ OldestFirst'
  BY DEF AppKilled, InFlight, OutboxInv, StampsDiffer, OldestFirst, Before
<1>5. GuardIsLoop'
  BY <1>1, <1>2 DEF AppKilled, InFlight, OutboxInv, GuardIsLoop
<1>6. RowsWereMade'
  BY <1>1, <1>2 DEF AppKilled, InFlight, OutboxInv, RowsWereMade
<1>7. EffectsWereSent'
  BY <1>1, <1>2 DEF AppKilled, InFlight, OutboxInv, EffectsWereSent, FlightIsOpen
<1>8. PendingIsInTable'
  BY <1>1, <1>2 DEF AppKilled, InFlight, OutboxInv, PendingIsInTable, Current,
     RowsWereMade, GuardIsLoop, StampsDiffer
<1>9. PendingIsWhole'
  BY <1>1, <1>2 DEF AppKilled, InFlight, OutboxInv, PendingIsWhole, Before,
     PendingIsInTable, Current, RowsWereMade
<1>10. FlightIsOpen'
  BY <1>1, <1>2 DEF AppKilled, InFlight, OutboxInv, FlightIsOpen, Current,
     Exhausted, GuardIsLoop
<1>11. Accounted'
  BY <1>1, <1>2 DEF AppKilled, InFlight, OutboxInv, Accounted, Current, GuardIsLoop,
     RowsWereMade, FlightIsOpen
<1>12. PostsCounted'
  BY <1>1, <1>2 DEF AppKilled, InFlight, OutboxInv, PostsCounted, Current,
     GuardIsLoop, RowsWereMade, PendingIsInTable, StampsDiffer
<1>13. RepeatsBounded'
  BY <1>1, <1>2 DEF AppKilled, InFlight, OutboxInv, RepeatsBounded, PostsCounted,
     CarriedOutLeaves, FlightIsOpen, PendingIsInTable, Current
<1>14. CarriedOutLeaves'
  BY <1>1, <1>2 DEF AppKilled, InFlight, OutboxInv, CarriedOutLeaves, Current,
     GuardIsLoop, RowsWereMade, StampsDiffer, PendingIsInTable
<1> QED BY <1>3, <1>4, <1>5, <1>6, <1>7, <1>8, <1>9, <1>10, <1>11, <1>12, <1>13,
   <1>14 DEF OutboxInv

-----------------------------------------------------------------------------
LEMMA InitInv == Init => OutboxInv
<1> SUFFICES ASSUME Init PROVE OutboxInv
  OBVIOUS
<1>1. OutboxTypeOK
  <2>1. retries \in [Mutations -> 0 .. MaxRetries]
    BY OutboxAssumption DEF Init
  <2>2. /\ applied \in [Mutations -> Nat] /\ posts \in [Mutations -> Nat]
        /\ unanswered \in [Mutations -> Nat] /\ stamp \in [Mutations -> 0 .. Count]
    BY OutboxAssumption DEF Init
  <2>3. made \in 0 .. Count /\ faults \in 0 .. MaxFaults /\ kills \in 0 .. MaxKills
    BY OutboxAssumption DEF Init
  <2> QED BY <2>1, <2>2, <2>3 DEF Init, OutboxTypeOK
<1>2. GuardIsLoop /\ RowsWereMade /\ PendingIsInTable /\ PendingIsWhole
  BY DEF Init, GuardIsLoop, RowsWereMade, PendingIsInTable, PendingIsWhole
<1>3. FlightIsOpen /\ Accounted /\ PostsCounted
  BY DEF Init, FlightIsOpen, InFlight, Current, Accounted, PostsCounted
<1>4. RepeatsBounded
  BY OutboxAssumption DEF Init, RepeatsBounded
<1>5. CarriedOutLeaves /\ OldestFirst /\ StampsDiffer /\ EffectsWereSent
  BY DEF Init, CarriedOutLeaves, OldestFirst, StampsDiffer, EffectsWereSent
<1> QED BY <1>1, <1>2, <1>3, <1>4, <1>5 DEF OutboxInv

LEMMA NextInv ==
  ASSUME OutboxInv, [Next]_vars
  PROVE  OutboxInv'
<1>1. CASE TriggerAfterQueueing \/ NetworkChanges \/ PressRetry \/ NetworkReturns
  <2>1. StartsLoop
    BY <1>1 DEF TriggerAfterQueueing, NetworkChanges, PressRetry, NetworkReturns,
                StartsLoop, OutboxInv, OutboxTypeOK
  <2> QED BY <2>1, StartsLoopInv
<1>2. CASE QueueMutation
  BY <1>2, QueueMutationInv
<1>3. CASE PressDismiss \/ NetworkLost
  BY <1>3, PressDismissInv, NetworkLostInv
<1>4. CASE Load \/ LoopEnds \/ LoopThrows \/ AppKilled
  BY <1>4, LoadInv, LoopEndsInv, LoopThrowsInv, AppKilledInv
<1>5. ASSUME NEW m \in Mutations,
             RemoveExhausted(m) \/ ReportDropped(m) \/ Post(m)
      PROVE  OutboxInv'
  BY <1>5, RemoveExhaustedInv, ReportDroppedInv, PostInv
<1>6. ASSUME NEW m \in Mutations,
             \/ PostSucceeds(m) \/ PostFails(m) \/ PostUnanswered(m)
             \/ PostHangs(m) \/ CarriedOutLate(m)
      PROVE  OutboxInv'
  BY <1>6, PostSucceedsInv, PostFailsInv, PostUnansweredInv, PostHangsInv,
     CarriedOutLateInv
<1>7. ASSUME NEW m \in Mutations,
             RemoveSent(m) \/ RemoveFails(m) \/ CountFailure(m)
      PROVE  OutboxInv'
  BY <1>7, RemoveSentInv, RemoveFailsInv, CountFailureInv
<1>8. CASE UNCHANGED vars
  BY <1>8 DEF vars, OutboxInv, OutboxTypeOK, GuardIsLoop, RowsWereMade,
     PendingIsInTable, PendingIsWhole, FlightIsOpen, InFlight, Current, StampsDiffer,
     EffectsWereSent, Before, Accounted, PostsCounted, RepeatsBounded, CarriedOutLeaves,
     OldestFirst
<1> QED BY <1>1, <1>2, <1>3, <1>4, <1>5, <1>6, <1>7, <1>8 DEF Next, LoopStep

LEMMA Invariance == SafetySpec => []OutboxInv
<1>1. OutboxInv /\ [Next]_vars => OutboxInv'
  BY NextInv
<1> QED BY InitInv, <1>1, PTL DEF SafetySpec

\* The types of the outbox's state, and that no retry count passes MaxRetries.
THEOREM OutboxTypeCorrect == SafetySpec => []OutboxTypeOK
<1>1. OutboxInv => OutboxTypeOK
  BY DEF OutboxInv
<1> QED BY Invariance, <1>1, PTL

\* No change vanishes silently, for any number of changes, attempts and faults.
THEOREM ChangesAreAccountedFor == SafetySpec => []NothingVanishes
<1>1. OutboxInv => NothingVanishes
  BY DEF OutboxInv, Accounted, NothingVanishes
<1> QED BY Invariance, <1>1, PTL

\* What bounds the posts of a mutation, and that it takes a fault to repeat one.
THEOREM RepeatsAreBounded == SafetySpec => []RepeatsBounded
<1>1. OutboxInv => RepeatsBounded
  BY DEF OutboxInv
<1> QED BY Invariance, <1>1, PTL

-----------------------------------------------------------------------------
(* The two steps that carry a mutation out: it was made, and is a row of   *)
(* the table unless nobody waits for the request any more.                 *)
CarriesOut(m) == PostSucceeds(m) \/ CarriedOutLate(m)

LEMMA CarryingOut ==
  ASSUME OutboxInv, NEW m \in Mutations, CarriesOut(m)
  PROVE  /\ applied' = [applied EXCEPT ![m] = @ + 1]
         /\ m \in 1 .. made
         /\ m \in outbox \/ unanswered[m] > 0
         /\ UNCHANGED <<made, outbox, retries>>
<1>1. CASE PostSucceeds(m)
  BY <1>1 DEF PostSucceeds, OutboxInv, PendingIsInTable, Current, RowsWereMade
<1>2. CASE CarriedOutLate(m)
  <2>1. made \in Nat /\ m \in Nat /\ m > 0 /\ posts[m] > 0
    BY <1>2, Typed DEF CarriedOutLate, OutboxInv, EffectsWereSent, Mutations
  <2>2. m \in 1 .. made
    BY <2>1 DEF OutboxInv, RowsWereMade
  <2> QED BY <1>2, <2>2 DEF CarriedOutLate
<1> QED BY <1>1, <1>2 DEF CarriesOut

(* All other steps leave what was carried out alone.                       *)
LEMMA OnlyPostsCarryOut ==
  ASSUME [Next]_vars, applied' # applied
  PROVE  \E m \in Mutations : CarriesOut(m)
BY DEF Next, LoopStep, vars, QueueMutation, NetworkChanges, PressRetry, PressDismiss,
       NetworkReturns, NetworkLost, TriggerAfterQueueing, Load, LoopEnds, LoopThrows,
       RemoveExhausted, ReportDropped, Post, PostFails, PostUnanswered, PostHangs,
       RemoveSent, RemoveFails, CountFailure, AppKilled, CarriesOut

(* And only Post sends.                                                    *)
LEMMA OnlyPostSends ==
  ASSUME [Next]_vars, posts' # posts
  PROVE  \E m \in Mutations : Post(m)
BY DEF Next, LoopStep, vars, QueueMutation, NetworkChanges, PressRetry, PressDismiss,
       NetworkReturns, NetworkLost, TriggerAfterQueueing, Load, LoopEnds, LoopThrows,
       RemoveExhausted, ReportDropped, PostSucceeds, PostFails, PostUnanswered,
       PostHangs, CarriedOutLate, RemoveSent, RemoveFails, CountFailure, AppKilled

\* Changes are sent in the order they were made, for any number of changes, attempts,
\* faults and restarts: what was sent and stamped later finds no earlier row in the table,
\* and without a row only a request that nobody waits for can still be carried out.
THEOREM OlderGoFirst == SafetySpec => OrderKept
<1> DEFINE InOrder == \A m, n \in Mutations :
                        m < n /\ stamp[m] < stamp[n] =>
                          /\ posts[n] > 0 => posts'[m] = posts[m]
                          /\ applied[n] > 0 /\ unanswered[m] = 0 =>
                               applied'[m] = applied[m]
<1>1. ASSUME OutboxInv, [Next]_vars
      PROVE  InOrder
  <2>1. SUFFICES ASSUME NEW m \in Mutations, NEW n \in Mutations, Before(m, n),
                        posts[n] > 0
                 PROVE  /\ posts'[m] = posts[m]
                        /\ unanswered[m] = 0 => applied'[m] = applied[m]
    BY <1>1, Typed DEF Before, OutboxInv, EffectsWereSent
  <2>2. m \notin outbox
    BY <1>1, <2>1, Typed DEF OutboxInv, OldestFirst
  <2>3. posts'[m] = posts[m]
    <3>1. SUFFICES ASSUME posts'[m] # posts[m] PROVE FALSE
      OBVIOUS
    <3>2. PICK k \in Mutations : Post(k)
      BY <1>1, <3>1, OnlyPostSends
    <3>3. k \in outbox /\ posts' = [posts EXCEPT ![k] = @ + 1]
      BY <1>1, <3>2 DEF Post, OutboxInv, PendingIsInTable, Current
    <3> QED BY <1>1, <2>2, <3>1, <3>3 DEF OutboxInv, OutboxTypeOK
  <2>4. ASSUME unanswered[m] = 0, applied'[m] # applied[m]
        PROVE  FALSE
    <3>1. PICK k \in Mutations : CarriesOut(k)
      BY <1>1, <2>4, OnlyPostsCarryOut
    <3>2. /\ k \in outbox \/ unanswered[k] > 0
          /\ applied' = [applied EXCEPT ![k] = @ + 1]
      BY <1>1, <3>1, CarryingOut
    <3>3. k = m
      BY <1>1, <2>4, <3>2 DEF OutboxInv, OutboxTypeOK
    <3> QED BY <2>2, <2>4, <3>2, <3>3
  <2> QED BY <2>3, <2>4
<1>2. OutboxInv /\ [Next]_vars => [InOrder]_vars
  BY <1>1
<1>3. [][InOrder]_vars => OrderKept
  BY DEF InOrder, OrderKept
<1> HIDE DEF InOrder
<1>4. []OutboxInv /\ [][Next]_vars => [][InOrder]_vars
  BY <1>2, PTL
<1> QED BY Invariance, <1>3, <1>4, PTL DEF SafetySpec

-----------------------------------------------------------------------------
LEMMA StepKeepsPromise ==
  ASSUME OutboxInv, [Next]_vars
  PROVE  [Promised!Next]_(Promised!vars)
<1> DEFINE promised == 1 .. made
           settled == {m \in 1 .. made : m \notin outbox /\ ~Exhausted(m)}
<1>1. CASE QueueMutation
  <2>1. made \in Nat /\ made + 1 \in Mutations
    BY <1>1, OutboxAssumption DEF QueueMutation, OutboxInv, OutboxTypeOK, Mutations
  <2>2. promised' = promised \cup {made + 1} /\ made + 1 \notin promised
    BY <1>1, <2>1 DEF QueueMutation
  <2>3. settled' = settled
    BY <1>1, <2>1 DEF QueueMutation, Exhausted
  <2>4. Promised!Promise(made + 1)
    BY <1>1, <2>2, <2>3 DEF QueueMutation, Promised!Promise
  <2> QED BY <2>1, <2>4 DEF Promised!Next
<1>2. ASSUME NEW m \in Mutations, CarriesOut(m)
      PROVE  [Promised!Next]_(Promised!vars)
  <2>1. /\ applied' = [applied EXCEPT ![m] = @ + 1]
        /\ m \in promised
        /\ promised' = promised /\ settled' = settled
    BY <1>2, CarryingOut DEF Exhausted
  <2>2. Promised!Perform(m)
    BY <2>1 DEF Promised!Perform
  <2> QED BY <2>2 DEF Promised!Next
<1>3. ASSUME NEW m \in Mutations, RemoveSent(m)
      PROVE  [Promised!Next]_(Promised!vars)
  <2>1. m \in outbox /\ m \in promised /\ applied[m] > 0 /\ ~Exhausted(m)
    BY <1>3, Typed DEF RemoveSent, OutboxInv, PendingIsInTable, FlightIsOpen,
       InFlight,
                       RowsWereMade, Current, Exhausted
  <2>2. settled' = settled \cup {m}
    BY <1>3, <2>1 DEF RemoveSent, Exhausted
  <2>3. Promised!Settle(m)
    BY <1>3, <2>1, <2>2 DEF RemoveSent, Promised!Settle
  <2> QED BY <2>3 DEF Promised!Next
<1>4. ASSUME NEW m \in Mutations, CountFailure(m)
      PROVE  UNCHANGED Promised!vars
  <2>1. m \in outbox
    BY <1>4 DEF CountFailure, OutboxInv, PendingIsInTable, Current
  <2>2. \A n \in Mutations : n # m => retries'[n] = retries[n]
    BY <1>4 DEF CountFailure, IncrementRetryCount, OutboxInv, OutboxTypeOK
  <2>3. promised \subseteq Mutations
    BY OutboxAssumption DEF OutboxInv, OutboxTypeOK, Mutations
  <2>4. settled' = settled
    BY <1>4, <2>1, <2>2, <2>3 DEF CountFailure, Exhausted
  <2> QED BY <1>4, <2>4 DEF CountFailure, Promised!vars
<1>5. ASSUME NEW m \in Mutations, RemoveExhausted(m)
      PROVE  UNCHANGED Promised!vars
  <2>1. settled' = settled
    BY <1>5 DEF RemoveExhausted, Exhausted
  <2> QED BY <1>5, <2>1 DEF RemoveExhausted, Promised!vars
<1>6. ASSUME UNCHANGED <<made, outbox, retries, applied>>
      PROVE  UNCHANGED Promised!vars
  BY <1>6 DEF Exhausted, Promised!vars
<1>7. ASSUME NEW m \in Mutations,
             \/ ReportDropped(m) \/ Post(m) \/ PostFails(m) \/ PostUnanswered(m)
             \/ PostHangs(m) \/ RemoveFails(m)
      PROVE  UNCHANGED <<made, outbox, retries, applied>>
  BY <1>7 DEF ReportDropped, Post, PostFails, PostUnanswered, PostHangs, RemoveFails
<1>8. ASSUME \/ TriggerAfterQueueing \/ NetworkChanges \/ PressRetry
             \/ NetworkReturns \/ NetworkLost \/ PressDismiss
             \/ Load \/ LoopEnds \/ LoopThrows \/ AppKilled \/ UNCHANGED vars
      PROVE  UNCHANGED <<made, outbox, retries, applied>>
  BY <1>8 DEF TriggerAfterQueueing, NetworkChanges, PressRetry, NetworkReturns,
              NetworkLost, PressDismiss, Load, LoopEnds, LoopThrows, AppKilled, vars
<1> QED BY <1>1, <1>2, <1>3, <1>4, <1>5, <1>6, <1>7, <1>8
           DEF Next, LoopStep, CarriesOut

\* The outbox implements Handoff: making a change promises it, an accepted post performs
\* it, taking its row out after the answer settles it, and every other step is
\* invisible, giving a mutation up included.
THEOREM OutboxKeepsPromise == SafetySpec => HandoffSafety
<1>1. Init => Promised!Init
  BY DEF Init, Promised!Init
<1> QED BY <1>1, StepKeepsPromise, Invariance, PTL
        DEF SafetySpec, HandoffSafety, Promised!SafetySpec
=============================================================================
