------------------------ MODULE OrderHandoff_proofs ------------------------
(***************************************************************************)
(* Proofs about the approval hand-over and the queue it runs on, for any   *)
(* number of requests, quotations, workers, attempts and faults.           *)
(*                                                                         *)
(* First the queue alone (WorkQueue): where a message is, that nothing     *)
(* confirmed is lost, that repeats come from faults, that Handoff is       *)
(* implemented.  Then the hand-over (OrderHandoff): it runs the queue as   *)
(* WorkQueue specifies it, so all of that holds there too; an order is     *)
(* always the work of a request that approved the quotation and could see  *)
(* it, and without faults there are no more orders than approvals.         *)
(***************************************************************************)
EXTENDS OrderHandoff, FiniteSetTheorems, TLAPS

(***************************************************************************)
(* The inductive invariant.  Its parts say where a message can be when a   *)
(* worker has it: the broker's view (place) and the worker's (buffer, job) *)
(* agree while the channel is open, and only then.                         *)
(***************************************************************************)
AttemptsAreLeft ==
  \A p \in Publishers :
    pub[p] \in {"idle", "publishing"} => tries[p] < MaxPublishAttempts

FreshIsUnsent ==
  \A p \in Publishers, n \in 1 .. MaxPublishAttempts :
    n > tries[p] => place[<<p, n>>] = "unsent"

IdleHasNoMessage ==
  \A w \in Workers : job[w].pc = "idle" <=> job[w].msg = NoMessage

ClosedHoldsNothing ==
  \A w \in Workers :
    channel[w] = "closed" => buffer[w] = {} /\ job[w].pc = "idle"

Has(w, m) == m \in buffer[w] \/ job[w].msg = m

OneCopyPerWorker ==
  \A w \in Workers : job[w].msg \notin buffer[w]

OpenAgrees ==
  \A w \in Workers, m \in Messages :
    place[m] = w <=> channel[w] = "open" /\ Has(w, m)

HeldWasSent ==
  \A w \in Workers, m \in Messages : Has(w, m) => place[m] # "unsent"

AckAfterEffect ==
  \A w \in Workers : job[w].pc = "ack" => effects[job[w].msg] > 0

EffectWasSent ==
  \A m \in Messages : effects[m] > 0 => place[m] # "unsent"

QueueInv ==
  /\ TypeOK
  /\ AttemptsAreLeft
  /\ FreshIsUnsent
  /\ IdleHasNoMessage
  /\ ClosedHoldsNothing
  /\ OneCopyPerWorker
  /\ OpenAgrees
  /\ HeldWasSent
  /\ AckAfterEffect
  /\ EffectWasSent
  /\ AckedAfterEffect

-----------------------------------------------------------------------------
(* A worker is not the name of a spot, and no message is NoMessage. *)
LEMMA WorkersAreNotSpots ==
  ASSUME NEW w \in Workers
  PROVE  w \notin {"unsent", "ready", "acked"}
BY WorkQueueAssumption DEF Spots

LEMMA InitQueueInv == Init => QueueInv
BY WorkQueueAssumption, WorkersAreNotSpots
   DEF Init, QueueInv, TypeOK, Messages, Spots, PubStates, ChannelStates,
       JobStates, NoJob, AttemptsAreLeft, FreshIsUnsent, IdleHasNoMessage, ClosedHoldsNothing,
       Has, OneCopyPerWorker, OpenAgrees, HeldWasSent, AckAfterEffect,
       EffectWasSent, AckedAfterEffect

(* What the publishing side does to the broker: at most one message that   *)
(* was never sent becomes ready, and nothing else of a consumer's changes. *)
LEMMA PublishKeepsQueueInv ==
  ASSUME QueueInv, NEW p \in Publishers, StartPublish(p) \/ PublishStep(p)
  PROVE  QueueInv'
<1> USE WorkQueueAssumption DEF QueueInv, TypeOK
<1>1. /\ pub' \in [Publishers -> PubStates]
      /\ tries' \in [Publishers -> 0 .. MaxPublishAttempts]
      /\ failures' \in 0 .. MaxFailures
      /\ AttemptsAreLeft'
      /\ UNCHANGED <<channel, buffer, job, effects>>
      /\ \A x \in Publishers : tries'[x] >= tries[x]
  BY DEF AttemptsAreLeft, PubStates, StartPublish, PublishStep, PublishConfirmed,
     PublishUnconfirmed, PublishRefused, PublisherStops, AttemptFails, Fault
<1>2. CASE UNCHANGED place
  <2>1. FreshIsUnsent'
    BY <1>1, <1>2 DEF FreshIsUnsent
  <2>2. QED
    BY <1>1, <1>2, <2>1 DEF IdleHasNoMessage, ClosedHoldsNothing, Has,
       OneCopyPerWorker, OpenAgrees, HeldWasSent, AckAfterEffect, EffectWasSent,
       AckedAfterEffect
<1>3. CASE Accept(p) /\ (PublishConfirmed(p) \/ PublishUnconfirmed(p))
  <2> DEFINE new == <<p, tries[p] + 1>>
  <2>1. /\ tries[p] + 1 \in 1 .. MaxPublishAttempts
        /\ tries' = [tries EXCEPT ![p] = @ + 1]
    BY <1>3 DEF AttemptsAreLeft, PublishConfirmed, PublishUnconfirmed, AttemptFails
  <2>2. new \in Messages /\ place[new] = "unsent"
    BY <2>1 DEF Messages, FreshIsUnsent
  <2>3. place' = [place EXCEPT ![new] = "ready"]
    BY <1>3 DEF Accept
  <2> HIDE DEF new
  <2>4. place' \in [Messages -> Spots \cup Workers]
    BY <2>2, <2>3 DEF Spots
  <2>5. FreshIsUnsent'
    <3> SUFFICES ASSUME NEW x \in Publishers, NEW n \in 1 .. MaxPublishAttempts,
                        n > tries'[x]
                 PROVE  place'[<<x, n>>] = "unsent"
      BY DEF FreshIsUnsent
    <3>1. n > tries[x] /\ <<x, n>> # new
      BY <1>1, <2>1 DEF new
    <3>2. <<x, n>> \in Messages
      BY DEF Messages
    <3>3. QED
      BY <2>3, <3>1, <3>2 DEF FreshIsUnsent
  <2>6. IdleHasNoMessage' /\ ClosedHoldsNothing' /\ OneCopyPerWorker'
    BY <1>1 DEF IdleHasNoMessage, ClosedHoldsNothing, OneCopyPerWorker
  <2>7. OpenAgrees'
    BY <1>1, <2>2, <2>3, WorkersAreNotSpots DEF OpenAgrees, HeldWasSent, Has
  <2>8. HeldWasSent' /\ EffectWasSent' /\ AckAfterEffect' /\ AckedAfterEffect'
    BY <1>1, <2>2, <2>3 DEF HeldWasSent, Has, EffectWasSent, AckAfterEffect,
       AckedAfterEffect
  <2>9. QED
    BY <1>1, <2>4, <2>5, <2>6, <2>7, <2>8
<1>4. QED
  BY <1>2, <1>3 DEF StartPublish, PublishStep, PublishConfirmed,
     PublishUnconfirmed, PublishRefused, PublisherStops

(* What a consumer may do to the broker: a message that was sent stays      *)
(* sent, and becomes acknowledged only with its effect behind it.           *)
LEMMA ConsumerKeepsFreshUnsent ==
  ASSUME QueueInv, tries' = tries,
         \A m \in Messages : place[m] = "unsent" => place'[m] = "unsent"
  PROVE  FreshIsUnsent'
BY DEF QueueInv, FreshIsUnsent, Messages

LEMMA HandleKeepsQueueInv ==
  ASSUME QueueInv, NEW w \in Workers, HandleStep(w)
  PROVE  QueueInv'
<1> USE WorkQueueAssumption DEF QueueInv, TypeOK
<1> DEFINE m == job[w].msg
<1>1. /\ job[w].pc = "handle"
      /\ UNCHANGED <<pub, tries, place, channel, buffer>>
      /\ \E s \in {"ack", "nack"} :
           /\ job' = [job EXCEPT ![w].pc = s]
           /\ s = "ack" => effects' = [effects EXCEPT ![m] = @ + 1]
      /\ effects' \in {effects, [effects EXCEPT ![m] = @ + 1]}
      /\ failures' \in 0 .. MaxFailures
  BY DEF HandleStep, HandleCommits, HandleReplyLost, HandleFails, Handled,
     TakesEffect, Fault
<1>2. m \in Messages
  BY <1>1 DEF IdleHasNoMessage
<1> HIDE DEF m
<1>3. effects' \in [Messages -> Nat] /\ \A x \in Messages : effects'[x] >= effects[x]
  <2>1. CASE effects' = effects
    BY <2>1
  <2>2. CASE effects' = [effects EXCEPT ![m] = @ + 1]
    BY <2>2, <1>2
  <2>3. QED
    BY <1>1, <2>1, <2>2
<1>4. job' \in [Workers -> [pc : JobStates, msg : Messages \cup {NoMessage}]]
  BY <1>1 DEF JobStates
<1>5. \A v \in Workers : job'[v].msg = job[v].msg /\ (v # w => job'[v] = job[v])
  BY <1>1
<1>6. TypeOK' /\ AttemptsAreLeft' /\ FreshIsUnsent'
  BY <1>1, <1>3, <1>4 DEF AttemptsAreLeft, FreshIsUnsent
<1>7. IdleHasNoMessage' /\ ClosedHoldsNothing' /\ OneCopyPerWorker'
  BY <1>1, <1>2, <1>5 DEF IdleHasNoMessage, ClosedHoldsNothing, OneCopyPerWorker, m
<1>8. OpenAgrees' /\ HeldWasSent'
  BY <1>1, <1>5 DEF OpenAgrees, HeldWasSent, Has
<1>9. AckAfterEffect'
  BY <1>1, <1>2, <1>3, <1>5 DEF AckAfterEffect, IdleHasNoMessage, m, JobStates
<1>10. EffectWasSent' /\ AckedAfterEffect'
  BY <1>1, <1>2, <1>3 DEF EffectWasSent, AckedAfterEffect, HeldWasSent, Has, m
<1>11. QED
  BY <1>6, <1>7, <1>8, <1>9, <1>10

(* A step of the consumer that touches neither publishers nor the database. *)
LEMMA ConsumeKeepsQueueInv ==
  ASSUME QueueInv, NEW w \in Workers, ConsumeStep(w)
  PROVE  QueueInv'
<1> USE WorkQueueAssumption DEF QueueInv, TypeOK
<1>1. UNCHANGED <<pub, tries, effects>> /\ failures' \in 0 .. MaxFailures
  BY DEF ConsumeStep, OpenChannel, Deliver, Take, Ack, NackRequeue, Settle,
     ConnectionDrops, LoopEnds, WorkerCrashes, Fault
<1>2. AttemptsAreLeft'
  BY <1>1 DEF AttemptsAreLeft
<1>3. CASE OpenChannel(w)
  BY <1>1, <1>2, <1>3 DEF OpenChannel, ChannelStates, FreshIsUnsent,
     IdleHasNoMessage, ClosedHoldsNothing, Has, OneCopyPerWorker, OpenAgrees,
     HeldWasSent, AckAfterEffect, EffectWasSent, AckedAfterEffect
<1>4. ASSUME NEW m \in Messages, Deliver(w, m)
      PROVE  QueueInv'
  <2>1. /\ channel[w] = "open" /\ place[m] = "ready"
        /\ place' = [place EXCEPT ![m] = w]
        /\ buffer' = [buffer EXCEPT ![w] = @ \cup {m}]
        /\ UNCHANGED <<channel, job>>
    BY <1>4 DEF Deliver
  <2>2. TypeOK'
    BY <1>1, <2>1
  <2>3. FreshIsUnsent'
    BY <1>1, <2>1, ConsumerKeepsFreshUnsent
  <2>4. IdleHasNoMessage' /\ ClosedHoldsNothing'
    BY <2>1 DEF IdleHasNoMessage, ClosedHoldsNothing
  <2>5. ~Has(w, m)
    BY <2>1, WorkersAreNotSpots DEF OpenAgrees
  <2>6. OneCopyPerWorker'
    BY <2>1, <2>5 DEF OneCopyPerWorker, Has
  <2>7. OpenAgrees'
    BY <2>1, <2>5, WorkersAreNotSpots DEF OpenAgrees, Has
  <2>8. HeldWasSent' /\ AckAfterEffect' /\ EffectWasSent' /\ AckedAfterEffect'
    BY <1>1, <2>1, WorkersAreNotSpots DEF HeldWasSent, Has, AckAfterEffect,
       EffectWasSent, AckedAfterEffect
  <2>9. QED
    BY <1>2, <2>2, <2>3, <2>4, <2>6, <2>7, <2>8
<1>5. ASSUME NEW m \in Messages, Take(w, m)
      PROVE  QueueInv'
  <2>1. /\ job[w].pc = "idle" /\ m \in buffer[w]
        /\ buffer' = [buffer EXCEPT ![w] = @ \ {m}]
        /\ job' = [job EXCEPT ![w] = [pc |-> "handle", msg |-> m]]
        /\ UNCHANGED <<place, channel>>
    BY <1>5 DEF Take
  <2>2. TypeOK' /\ FreshIsUnsent'
    BY <1>1, <2>1 DEF JobStates, FreshIsUnsent
  <2>3. IdleHasNoMessage' /\ ClosedHoldsNothing' /\ OneCopyPerWorker'
    BY <2>1 DEF IdleHasNoMessage, ClosedHoldsNothing, OneCopyPerWorker
  <2>4. \A v \in Workers, x \in Messages : Has(v, x)' <=> Has(v, x)
    BY <2>1 DEF Has, IdleHasNoMessage
  <2>5. OpenAgrees' /\ HeldWasSent'
    BY <2>1, <2>4 DEF OpenAgrees, HeldWasSent
  <2>6. AckAfterEffect' /\ EffectWasSent' /\ AckedAfterEffect'
    BY <1>1, <2>1 DEF AckAfterEffect, EffectWasSent, AckedAfterEffect
  <2>7. QED
    BY <1>2, <2>2, <2>3, <2>5, <2>6
<1>6. CASE Ack(w) \/ NackRequeue(w)
  <2> DEFINE m == job[w].msg
  <2>1. PICK from \in {"ack", "nack"}, to \in {"acked", "ready"} :
          Settle(w, from, to) /\ (to = "acked" => from = "ack")
    BY <1>6 DEF Ack, NackRequeue
  <2>2. /\ job[w].pc = from
        /\ job' = [job EXCEPT ![w] = NoJob]
        /\ channel[w] = "open" => place' = [place EXCEPT ![m] = to]
        /\ channel[w] # "open" => place' = place
        /\ UNCHANGED <<channel, buffer>>
    BY <2>1 DEF Settle
  <2>3. m \in Messages /\ Has(w, m)
    BY <2>2 DEF IdleHasNoMessage, Has
  <2> HIDE DEF m
  <2>4. TypeOK'
    BY <1>1, <2>2, <2>3 DEF NoJob, JobStates, Spots
  <2>5. place[m] # "unsent"
    BY <2>3 DEF HeldWasSent
  <2>6. FreshIsUnsent'
    BY <1>1, <2>2, <2>3, <2>5, ConsumerKeepsFreshUnsent
  <2>7. IdleHasNoMessage' /\ ClosedHoldsNothing' /\ OneCopyPerWorker'
    BY <2>2 DEF IdleHasNoMessage, ClosedHoldsNothing, OneCopyPerWorker, NoJob
  <2>8. \A v \in Workers, x \in Messages :
          Has(v, x)' <=> Has(v, x) /\ ~(v = w /\ x = m)
    BY <2>2, <2>3 DEF Has, NoJob, OneCopyPerWorker, m
  <2>9. OpenAgrees'
    <3>1. CASE channel[w] = "open"
      <4>1. place[m] = w
        BY <3>1, <2>3 DEF OpenAgrees
      <4>2. QED
        BY <3>1, <4>1, <2>2, <2>3, <2>8, WorkersAreNotSpots DEF OpenAgrees
    <3>2. CASE channel[w] # "open"
      BY <3>2, <2>2, <2>8 DEF OpenAgrees
    <3>3. QED
      BY <3>1, <3>2
  <2>10. HeldWasSent' /\ EffectWasSent'
    BY <1>1, <2>2, <2>3, <2>8 DEF HeldWasSent, EffectWasSent
  <2>11. AckAfterEffect'
    BY <1>1, <2>2 DEF AckAfterEffect, NoJob
  <2>12. AckedAfterEffect'
    BY <1>1, <2>1, <2>2, <2>3 DEF AckedAfterEffect, AckAfterEffect, m
  <2>13. QED
    BY <1>2, <2>4, <2>6, <2>7, <2>9, <2>10, <2>11, <2>12
<1>7. CASE ConnectionDrops(w)
  <2>1. /\ channel' = [channel EXCEPT ![w] = "draining"]
        /\ place' = [m \in Messages |-> IF place[m] = w THEN "ready" ELSE place[m]]
        /\ UNCHANGED <<buffer, job>>
    BY <1>7 DEF ConnectionDrops, Requeue
  <2>2. TypeOK'
    BY <1>1, <2>1 DEF ChannelStates, Spots
  <2>3. FreshIsUnsent'
    BY <1>1, <2>1, WorkersAreNotSpots, ConsumerKeepsFreshUnsent
  <2>4. IdleHasNoMessage' /\ ClosedHoldsNothing' /\ OneCopyPerWorker'
    BY <2>1 DEF IdleHasNoMessage, ClosedHoldsNothing, OneCopyPerWorker
  <2>5. OpenAgrees' /\ HeldWasSent'
    BY <2>1, WorkersAreNotSpots DEF OpenAgrees, HeldWasSent, Has
  <2>6. AckAfterEffect' /\ EffectWasSent' /\ AckedAfterEffect'
    BY <1>1, <2>1, WorkersAreNotSpots DEF AckAfterEffect, EffectWasSent,
       AckedAfterEffect
  <2>7. QED
    BY <1>2, <2>2, <2>3, <2>4, <2>5, <2>6
<1>8. CASE LoopEnds(w)
  BY <1>1, <1>2, <1>8 DEF LoopEnds, ChannelStates, FreshIsUnsent,
     IdleHasNoMessage, ClosedHoldsNothing, Has, OneCopyPerWorker, OpenAgrees,
     HeldWasSent, AckAfterEffect, EffectWasSent, AckedAfterEffect
<1>9. CASE WorkerCrashes(w)
  <2>1. /\ channel' = [channel EXCEPT ![w] = "closed"]
        /\ place' = [m \in Messages |-> IF place[m] = w THEN "ready" ELSE place[m]]
        /\ buffer' = [buffer EXCEPT ![w] = {}]
        /\ job' = [job EXCEPT ![w] = NoJob]
    BY <1>9 DEF WorkerCrashes, Requeue
  <2>2. TypeOK'
    BY <1>1, <2>1 DEF ChannelStates, Spots, NoJob, JobStates
  <2>3. FreshIsUnsent'
    BY <1>1, <2>1, WorkersAreNotSpots, ConsumerKeepsFreshUnsent
  <2>4. IdleHasNoMessage' /\ ClosedHoldsNothing' /\ OneCopyPerWorker'
    BY <2>1 DEF IdleHasNoMessage, ClosedHoldsNothing, OneCopyPerWorker, NoJob
  <2>5. OpenAgrees' /\ HeldWasSent'
    BY <2>1, WorkersAreNotSpots DEF OpenAgrees, HeldWasSent, Has, NoJob
  <2>6. AckAfterEffect' /\ EffectWasSent' /\ AckedAfterEffect'
    BY <1>1, <2>1, WorkersAreNotSpots DEF AckAfterEffect, EffectWasSent,
       AckedAfterEffect, NoJob
  <2>7. QED
    BY <1>2, <2>2, <2>3, <2>4, <2>5, <2>6
<1>10. QED
  BY <1>3, <1>4, <1>5, <1>6, <1>7, <1>8, <1>9 DEF ConsumeStep

LEMMA NextKeepsQueueInv ==
  ASSUME QueueInv, [Next]_queueVars
  PROVE  QueueInv'
<1>1. CASE UNCHANGED queueVars
  BY <1>1 DEF queueVars, QueueInv, TypeOK, AttemptsAreLeft, FreshIsUnsent,
     IdleHasNoMessage, ClosedHoldsNothing, Has, OneCopyPerWorker, OpenAgrees,
     HeldWasSent, AckAfterEffect, EffectWasSent, AckedAfterEffect
<1>2. QED
  BY <1>1, PublishKeepsQueueInv, HandleKeepsQueueInv, ConsumeKeepsQueueInv DEF Next

LEMMA QueueInvariant == SafetySpec => []QueueInv
BY InitQueueInv, NextKeepsQueueInv, PTL DEF SafetySpec

(* The variables have their types. *)
THEOREM TypeCorrect == SafetySpec => []TypeOK
<1>1. QueueInv => TypeOK
  BY DEF QueueInv
<1>2. QED
  BY <1>1, QueueInvariant, PTL

(* A message leaves the queue only after its database change is committed, *)
(* however often connections drop and workers crash.                       *)
THEOREM AckedHasEffect == SafetySpec => []AckedAfterEffect
<1>1. QueueInv => AckedAfterEffect
  BY DEF QueueInv
<1>2. QED
  BY <1>1, QueueInvariant, PTL

-----------------------------------------------------------------------------
(***************************************************************************)
(* Nothing confirmed is lost: the message of the confirmed attempt was     *)
(* sent, and what was sent is with the broker or has had its effect.       *)
(***************************************************************************)
ConfirmedWasSent ==
  \A p \in Publishers :
    pub[p] = "confirmed" => /\ tries[p] \in 1 .. MaxPublishAttempts
                            /\ place[<<p, tries[p]>>] # "unsent"

LEMMA SentStaysSent ==
  ASSUME QueueInv, [Next]_queueVars
  PROVE  \A m \in Messages : place[m] # "unsent" => place'[m] # "unsent"
<1> USE WorkQueueAssumption DEF QueueInv, TypeOK
<1>1. ASSUME NEW p \in Publishers, StartPublish(p) \/ PublishStep(p)
      PROVE  \A m \in Messages : place[m] # "unsent" => place'[m] # "unsent"
  BY <1>1 DEF StartPublish, PublishStep, PublishConfirmed, PublishUnconfirmed,
     PublishRefused, PublisherStops, Accept
<1>2. ASSUME NEW w \in Workers, HandleStep(w) \/ ConsumeStep(w)
      PROVE  \A m \in Messages : place[m] # "unsent" => place'[m] # "unsent"
  BY <1>2, WorkersAreNotSpots
     DEF HandleStep, HandleCommits, HandleReplyLost, HandleFails, Handled,
     ConsumeStep, OpenChannel, Deliver, Take, Ack, NackRequeue, Settle,
     ConnectionDrops, LoopEnds, WorkerCrashes, Requeue
<1>3. QED
  BY <1>1, <1>2 DEF Next, queueVars

LEMMA NextKeepsConfirmedWasSent ==
  ASSUME QueueInv, ConfirmedWasSent, [Next]_queueVars
  PROVE  ConfirmedWasSent'
<1> USE WorkQueueAssumption DEF QueueInv, TypeOK
<1> SUFFICES ASSUME NEW p \in Publishers, pub'[p] = "confirmed"
             PROVE  /\ tries'[p] \in 1 .. MaxPublishAttempts
                    /\ place'[<<p, tries'[p]>>] # "unsent"
  BY DEF ConfirmedWasSent
<1>1. CASE pub[p] = "confirmed"
  <2>1. tries'[p] = tries[p]
    BY <1>1 DEF Next, queueVars, StartPublish, PublishStep, PublishConfirmed,
       PublishUnconfirmed, PublishRefused, PublisherStops, AttemptFails,
       HandleStep, HandleCommits, HandleReplyLost, HandleFails, Handled,
       ConsumeStep, OpenChannel, Deliver, Take, Ack, NackRequeue, Settle,
       ConnectionDrops, LoopEnds, WorkerCrashes
  <2>2. <<p, tries[p]>> \in Messages
    BY <1>1 DEF ConfirmedWasSent, Messages
  <2>3. QED
    BY <1>1, <2>1, <2>2, SentStaysSent DEF ConfirmedWasSent
<1>2. CASE pub[p] # "confirmed"
  <2>1. PublishConfirmed(p)
    BY <1>2 DEF Next, queueVars, StartPublish, PublishStep, PublishConfirmed,
       PublishUnconfirmed, PublishRefused, PublisherStops, AttemptFails,
       HandleStep, HandleCommits, HandleReplyLost, HandleFails, Handled,
       ConsumeStep, OpenChannel, Deliver, Take, Ack, NackRequeue, Settle,
       ConnectionDrops, LoopEnds, WorkerCrashes
  <2>2. tries[p] + 1 \in 1 .. MaxPublishAttempts /\ tries'[p] = tries[p] + 1
    BY <2>1 DEF PublishConfirmed, AttemptsAreLeft
  <2>3. <<p, tries[p] + 1>> \in Messages
    BY <2>2 DEF Messages
  <2>4. QED
    BY <2>1, <2>2, <2>3 DEF PublishConfirmed, Accept
<1>3. QED
  BY <1>1, <1>2

(* What PublishEvent reported as published is with the broker, or has      *)
(* changed the database.                                                   *)
THEOREM ConfirmedSurvives == SafetySpec => []ConfirmedIsKept
<1>1. Init => ConfirmedWasSent
  BY DEF Init, ConfirmedWasSent
<1>2. QueueInv /\ ConfirmedWasSent => ConfirmedIsKept
  <2> SUFFICES ASSUME QueueInv, ConfirmedWasSent,
                      NEW p \in Publishers, pub[p] = "confirmed"
               PROVE  \E n \in 1 .. MaxPublishAttempts :
                        InFlight(<<p, n>>) \/ effects[<<p, n>>] > 0
    BY DEF ConfirmedIsKept
  <2>1. /\ tries[p] \in 1 .. MaxPublishAttempts
        /\ place[<<p, tries[p]>>] # "unsent"
        /\ <<p, tries[p]>> \in Messages
    BY DEF ConfirmedWasSent, Messages
  <2>2. InFlight(<<p, tries[p]>>) \/ effects[<<p, tries[p]>>] > 0
    BY <2>1 DEF QueueInv, TypeOK, Spots, InFlight, AckedAfterEffect
  <2>3. QED
    BY <2>1, <2>2
<1>3. QED
  BY <1>1, <1>2, QueueInvariant, NextKeepsConfirmedWasSent, PTL DEF SafetySpec

-----------------------------------------------------------------------------
(***************************************************************************)
(* As long as nothing went wrong a message is in one pair of hands, and    *)
(* its effect has not happened before its handler commits it.              *)
(***************************************************************************)
Faultless ==
  failures = 0 =>
    /\ \A p \in Publishers : /\ tries[p] <= 1
                             /\ pub[p] \in {"idle", "publishing"} => tries[p] = 0
    /\ \A w \in Workers : channel[w] # "draining" /\ job[w].pc # "nack"
    /\ \A m \in Messages : /\ effects[m] <= 1
                           /\ place[m] = "ready" => effects[m] = 0
    /\ \A w \in Workers, m \in Messages :
         place[m] = w /\ effects[m] > 0 => job[w] = [pc |-> "ack", msg |-> m]

LEMMA NextKeepsFaultless ==
  ASSUME QueueInv, Faultless, [Next]_queueVars
  PROVE  Faultless'
<1> SUFFICES ASSUME failures' = 0 PROVE Faultless'
  BY DEF Faultless
<1> USE WorkQueueAssumption DEF QueueInv, TypeOK
<1>1. failures = 0
  BY DEF Next, queueVars, StartPublish, PublishStep, PublishConfirmed,
     PublishUnconfirmed, PublishRefused, PublisherStops, HandleStep,
     HandleCommits, HandleReplyLost, HandleFails, Handled, ConsumeStep,
     OpenChannel, Deliver, Take, Ack, NackRequeue, Settle, ConnectionDrops,
     LoopEnds, WorkerCrashes, Fault
<1>2. ASSUME NEW p \in Publishers, StartPublish(p)
      PROVE  Faultless'
  BY <1>1, <1>2 DEF StartPublish, Faultless
<1>3. ASSUME NEW p \in Publishers, PublishConfirmed(p)
      PROVE  Faultless'
  <2> DEFINE new == <<p, tries[p] + 1>>
  <2>0. tries[p] = 0
    BY <1>1, <1>3 DEF PublishConfirmed, Faultless
  <2>1. tries[p] = 0 /\ tries' = [tries EXCEPT ![p] = 1]
    BY <2>0, <1>3 DEF PublishConfirmed
  <2>2. new \in Messages
    BY <2>1 DEF Messages
  <2>3. place[new] = "unsent"
    BY <2>1 DEF FreshIsUnsent
  <2>4. effects[new] = 0
    BY <2>2, <2>3 DEF EffectWasSent
  <2>5. place' = [place EXCEPT ![new] = "ready"]
    BY <1>3 DEF PublishConfirmed, Accept
  <2> HIDE DEF new
  <2>6. QED
    BY <1>1, <1>3, <2>1, <2>2, <2>4, <2>5, WorkersAreNotSpots
       DEF PublishConfirmed, Faultless
<1>4. ASSUME NEW w \in Workers, HandleCommits(w)
      PROVE  Faultless'
  <2> DEFINE m == job[w].msg
  <2>1. /\ job[w].pc = "handle"
        /\ job' = [job EXCEPT ![w].pc = "ack"]
        /\ effects' = [effects EXCEPT ![m] = @ + 1]
        /\ UNCHANGED <<pub, tries, place, channel>>
    BY <1>4 DEF HandleCommits, Handled, TakesEffect
  <2>2. m \in Messages /\ place[m] = w
    BY <1>1, <2>1 DEF IdleHasNoMessage, ClosedHoldsNothing, OpenAgrees, Has,
       Faultless, ChannelStates
  <2>3. effects[m] = 0
    BY <1>1, <2>1, <2>2 DEF Faultless
  <2>4. job'[w] = [pc |-> "ack", msg |-> m]
    BY <2>1
  <2> HIDE DEF m
  <2>5. QED
    BY <1>1, <2>1, <2>2, <2>3, <2>4, WorkersAreNotSpots DEF Faultless
<1>5. ASSUME NEW w \in Workers, OpenChannel(w) \/ LoopEnds(w)
      PROVE  Faultless'
  BY <1>1, <1>5 DEF OpenChannel, LoopEnds, Faultless
<1>6. ASSUME NEW w \in Workers, NEW m \in Messages, Deliver(w, m)
      PROVE  Faultless'
  BY <1>1, <1>6, WorkersAreNotSpots DEF Deliver, Faultless
<1>7. ASSUME NEW w \in Workers, NEW m \in Messages, Take(w, m)
      PROVE  Faultless'
  BY <1>1, <1>7 DEF Take, Faultless
<1>8. ASSUME NEW w \in Workers, Ack(w)
      PROVE  Faultless'
  <2>1. job[w].pc = "ack" /\ job' = [job EXCEPT ![w] = NoJob]
    BY <1>8 DEF Ack, Settle
  <2>2. channel[w] = "open" /\ job[w].msg \in Messages
    BY <1>1, <2>1 DEF Faultless, ClosedHoldsNothing, ChannelStates, IdleHasNoMessage
  <2>3. place' = [place EXCEPT ![job[w].msg] = "acked"]
    BY <1>8, <2>2 DEF Ack, Settle
  <2>4. UNCHANGED <<pub, tries, channel, effects>>
    BY <1>8 DEF Ack, Settle
  <2>5. QED
    BY <1>1, <2>1, <2>2, <2>3, <2>4, WorkersAreNotSpots DEF Faultless, NoJob
<1>9. ASSUME NEW w \in Workers, NackRequeue(w)
      PROVE  Faultless'
  BY <1>1, <1>9 DEF NackRequeue, Settle, Faultless
<1>10. CASE UNCHANGED queueVars
  BY <1>10 DEF queueVars, Faultless
<1>11. QED
  BY <1>1, <1>2, <1>3, <1>4, <1>5, <1>6, <1>7, <1>8, <1>9, <1>10
     DEF Next, PublishStep, PublishUnconfirmed, PublishRefused, PublisherStops,
     HandleStep, HandleReplyLost, HandleFails, ConsumeStep, ConnectionDrops,
     WorkerCrashes, Fault

LEMMA FaultlessInvariant == SafetySpec => []Faultless
<1>1. Init => Faultless
  BY WorkQueueAssumption, WorkersAreNotSpots DEF Init, Faultless, Messages, NoJob
<1>2. QED
  BY <1>1, QueueInvariant, NextKeepsFaultless, PTL DEF SafetySpec

(* Without faults one call of PublishEvent changes the database once.      *)
THEOREM FaultlessMeansOnce == SafetySpec => []OneEffectWithoutFaults
<1>1. QueueInv /\ Faultless => OneEffectWithoutFaults
  <2> SUFFICES ASSUME QueueInv, Faultless, failures = 0, NEW m \in Messages
               PROVE  effects[m] <= 1 /\ (m[2] > 1 => effects[m] = 0)
    BY DEF OneEffectWithoutFaults
  <2>1. PICK p \in Publishers, n \in 1 .. MaxPublishAttempts : m = <<p, n>>
    BY DEF Messages
  <2>2. n > 1 => effects[m] = 0
    BY <2>1, WorkQueueAssumption
       DEF Faultless, QueueInv, TypeOK, FreshIsUnsent, EffectWasSent
  <2>3. QED
    BY <2>1, <2>2 DEF Faultless
<1>2. QED
  BY <1>1, QueueInvariant, FaultlessInvariant, PTL

-----------------------------------------------------------------------------
LEMMA StepKeepsPromise ==
  ASSUME QueueInv, [Next]_queueVars
  PROVE  [Promised!Next]_(Promised!vars)
<1> DEFINE promised == {m \in Messages : place[m] # "unsent"}
           settled == {m \in Messages : place[m] = "acked"}
<1> USE WorkQueueAssumption
<1> USE DEF QueueInv, TypeOK
<1>1. ASSUME NEW p \in Publishers, StartPublish(p) \/ PublishStep(p)
      PROVE  [Promised!Next]_(Promised!vars)
  <2>1. UNCHANGED effects
    BY <1>1 DEF StartPublish, PublishStep, PublishConfirmed, PublishUnconfirmed,
       PublishRefused, PublisherStops
  <2>2. CASE UNCHANGED place
    BY <2>1, <2>2 DEF Promised!vars
  <2>3. CASE Accept(p) /\ pub[p] = "publishing"
    <3>1a. tries[p] + 1 \in 1 .. MaxPublishAttempts
      BY <2>3 DEF AttemptsAreLeft
    <3>0. PICK new \in Messages : new = <<p, tries[p] + 1>>
      BY <3>1a DEF Messages
    <3>1. place[new] = "unsent"
      BY <3>1a, <3>0 DEF FreshIsUnsent
    <3>2. place' = [place EXCEPT ![new] = "ready"]
      BY <2>3, <3>0 DEF Accept
    <3>3. promised' = promised \cup {new} /\ settled' = settled
      BY <3>1, <3>2
    <3>4. new \notin promised
      BY <3>1
    <3>5. Promised!Promise(new)
      BY <2>1, <3>3, <3>4 DEF Promised!Promise
    <3>6. QED
      BY <3>1, <3>5 DEF Promised!Next
  <2>4. QED
    BY <1>1, <2>2, <2>3 DEF StartPublish, PublishStep, PublishConfirmed,
       PublishUnconfirmed, PublishRefused, PublisherStops
<1>2. ASSUME NEW w \in Workers, HandleStep(w)
      PROVE  [Promised!Next]_(Promised!vars)
  <2>1. UNCHANGED place
    BY <1>2 DEF HandleStep, HandleCommits, HandleReplyLost, HandleFails, Handled
  <2>2. CASE UNCHANGED effects
    BY <2>1, <2>2 DEF Promised!vars
  <2>3. CASE TakesEffect(w) /\ job[w].pc = "handle"
    <3>0. PICK m \in Messages : m = job[w].msg
      BY <2>3 DEF IdleHasNoMessage
    <3>1. place[m] # "unsent"
      BY <2>3, <3>0 DEF HeldWasSent, Has
    <3>2. effects' = [effects EXCEPT ![m] = @ + 1]
      BY <2>3, <3>0 DEF TakesEffect
    <3>3. Promised!Perform(m)
      BY <2>1, <3>1, <3>2 DEF Promised!Perform
    <3>4. QED
      BY <3>1, <3>3 DEF Promised!Next
  <2>4. QED
    BY <1>2, <2>2, <2>3 DEF HandleStep, HandleCommits, HandleReplyLost,
       HandleFails, Handled
<1>3. ASSUME NEW w \in Workers, ConsumeStep(w)
      PROVE  [Promised!Next]_(Promised!vars)
  <2>1. UNCHANGED effects
    BY <1>3 DEF ConsumeStep, OpenChannel, Deliver, Take, Ack, NackRequeue,
       Settle, ConnectionDrops, LoopEnds, WorkerCrashes
  <2>2. CASE Ack(w) /\ channel[w] = "open"
    <3>0. PICK m \in Messages : m = job[w].msg
      BY <2>2 DEF Ack, Settle, IdleHasNoMessage
    <3>1. job[w].pc = "ack" /\ place' = [place EXCEPT ![m] = "acked"]
      BY <2>2, <3>0 DEF Ack, Settle
    <3>2. effects[m] > 0 /\ place[m] = w
      BY <2>2, <3>0, <3>1 DEF AckAfterEffect, OpenAgrees, Has
    <3>3. m \in promised \ settled
      BY <3>2, WorkersAreNotSpots
    <3>4. promised' = promised /\ settled' = settled \cup {m}
      BY <3>1, <3>2, <3>3
    <3>5. Promised!Settle(m)
      BY <2>1, <3>2, <3>3, <3>4 DEF Promised!Settle
    <3>6. QED
      BY <3>2, <3>5 DEF Promised!Next
  <2>3. CASE ~(Ack(w) /\ channel[w] = "open")
    <3>1. \A m \in Messages :
            /\ place'[m] = "unsent" <=> place[m] = "unsent"
            /\ place'[m] = "acked" <=> place[m] = "acked"
      BY <1>3, <2>3, WorkersAreNotSpots
         DEF ConsumeStep, OpenChannel, Deliver, Take, Ack, NackRequeue, Settle,
         ConnectionDrops, LoopEnds, WorkerCrashes, Requeue, OpenAgrees, Has,
         IdleHasNoMessage
    <3>2. promised' = promised
      BY <3>1
    <3>3. settled' = settled
      BY <3>1
    <3>4. QED
      BY <2>1, <3>2, <3>3 DEF Promised!vars
  <2>4. QED
    BY <2>2, <2>3
<1>4. CASE UNCHANGED queueVars
  BY <1>4 DEF queueVars, Promised!vars
<1>5. QED
  BY <1>1, <1>2, <1>3, <1>4 DEF Next
(***************************************************************************)
(* The queue implements Handoff: accepting a message promises it, a        *)
(* committed handler performs it, an acknowledgement that reaches the      *)
(* broker settles it, and every other step is invisible.                   *)
(***************************************************************************)
THEOREM QueueKeepsPromise == SafetySpec => Promised!SafetySpec
<1>1. Init => Promised!Init
  BY DEF Init, Promised!Init
<1>2. QED
  BY <1>1, StepKeepsPromise, QueueInvariant, PTL DEF SafetySpec, Promised!SafetySpec

-----------------------------------------------------------------------------
(* The hand-over of approved quotations. *)

(* The request approves a quotation its caller may see. *)
Announces(r) ==
  /\ call[r] \in Calls
  /\ call[r].to = "client_approved"
  /\ Visible(call[r])

NotAskedYet ==
  \A r \in Requests : step[r] = "idle" => pub[r] = "idle" /\ call[r] = NoCall

FetchIsApproval ==
  \A r \in Requests :
    step[r] = "fetch" => /\ pub[r] = "idle"
                         /\ call[r] \in Calls
                         /\ call[r].to = "client_approved"

PublishIsVisible ==
  \A r \in Requests : step[r] = "publish" => Announces(r)

IdleHasNotTried ==
  \A r \in Requests : pub[r] = "idle" => tries[r] = 0

SentIsAnnounced ==
  \A m \in Messages : place[m] # "unsent" => Announces(m[1])

OrderIsAnnounced ==
  \A q \in Quotations :
    orders[q] > 0 => \E r \in Requests : Announces(r) /\ call[r].quote = q

HandoffInv ==
  /\ OrderTypeOK
  /\ QueueInv
  /\ NotAskedYet
  /\ FetchIsApproval
  /\ PublishIsVisible
  /\ IdleHasNotTried
  /\ SentIsAnnounced
  /\ OrderIsAnnounced

-----------------------------------------------------------------------------
(* Every step of the hand-over is a step of the queue, or invisible to it. *)
LEMMA StepIsQueueStep == [OrderNext]_vars => [Next]_queueVars
BY DEF OrderNext, vars, queueVars, Requests, ClientAsks, UpdateStatus, RefuseStatus,
   UpdateFails, RequestStep, FetchForEvent, FetchHidden, FetchFails, PublishQuoteApproved,
   Answer, CreateOrderFromQuotation, ConsumeQuoteApproved, Next, PublishStep,
   HandleStep

(* The hand-over implements the work queue. *)
THEOREM HandoffRunsQueue == OrderSafetySpec => SafetySpec
<1>1. OrderInit => Init
  BY DEF OrderInit
<1>2. QED
  BY <1>1, StepIsQueueStep, PTL DEF OrderSafetySpec, SafetySpec

(* Nothing is sent for a request that has not come to PublishEvent. *)
LEMMA IdleSentNothing ==
  ASSUME HandoffInv, NEW r \in Requests, pub[r] = "idle", NEW m \in Messages,
         m[1] = r
  PROVE  place[m] = "unsent"
<1>1. PICK p \in Publishers, n \in 1 .. MaxPublishAttempts : m = <<p, n>>
  BY DEF Messages
<1>2. tries[p] = 0 /\ n > 0
  BY <1>1 DEF HandoffInv, IdleHasNotTried
<1>3. QED
  BY <1>1, <1>2 DEF HandoffInv, QueueInv, FreshIsUnsent

LEMMA InitHandoffInv == OrderInit => HandoffInv
<1> SUFFICES ASSUME OrderInit PROVE HandoffInv
  OBVIOUS
<1>1. QueueInv
  BY InitQueueInv DEF OrderInit
<1>2. QED
  BY <1>1 DEF OrderInit, HandoffInv, OrderTypeOK, QueueInv, Init, Requests, Statuses,
     StepStates, NotAskedYet, FetchIsApproval, PublishIsVisible,
     IdleHasNotTried, SentIsAnnounced, OrderIsAnnounced

(* Answered or not, a request stays the request it was. *)
LEMMA AnnouncementsStay ==
  ASSUME HandoffInv, [OrderNext]_vars
  PROVE  \A r \in Requests : Announces(r) => call'[r] = call[r] /\ Announces(r)'
<1> USE OrderHandoffAssumption DEF HandoffInv, OrderTypeOK, Requests
<1>1. ASSUME NEW r \in Requests, ClientAsks(r)
      PROVE  /\ ~Announces(r)
             /\ \A x \in Requests : x # r => call'[x] = call[x]
  BY <1>1 DEF ClientAsks, UpdateStatus, RefuseStatus, UpdateFails, NotAskedYet,
     Announces
<1>2. CASE UNCHANGED call
  BY <1>2 DEF Announces, Visible
<1>3. CASE \E r \in Requests : ClientAsks(r)
  BY <1>1, <1>3 DEF Announces, Visible
<1>4. QED
  BY <1>2, <1>3 DEF OrderNext, vars, handoffVars, RequestStep, FetchForEvent,
     FetchHidden, FetchFails, PublishQuoteApproved, Answer,
     CreateOrderFromQuotation, ConsumeQuoteApproved

(* The publishing side of the invariant; orders are left alone. *)
LEMMA RequestKeepsHandoffInv ==
  ASSUME HandoffInv, NEW r \in Requests,
         ClientAsks(r) \/ RequestStep(r)
  PROVE  HandoffInv'
<1> USE OrderHandoffAssumption, WorkQueueAssumption DEF Requests
<1> USE DEF HandoffInv, OrderTypeOK
<1>1. [OrderNext]_vars
  BY DEF OrderNext
<1>2. QueueInv' /\ TypeOK'
  BY <1>1, StepIsQueueStep, NextKeepsQueueInv DEF QueueInv
<1>3. UNCHANGED orders
  BY DEF ClientAsks, UpdateStatus, RefuseStatus, UpdateFails, RequestStep, FetchForEvent, FetchHidden,
     FetchFails, PublishQuoteApproved, Answer, handoffVars
<1>4. OrderIsAnnounced'
  BY <1>1, <1>3, AnnouncementsStay DEF OrderIsAnnounced
<1>3a. /\ pub \in [Requests -> PubStates]
       /\ tries \in [Requests -> 0 .. MaxPublishAttempts]
  BY DEF TypeOK
<1>5. CASE ClientAsks(r)
  <2>1. PICK c \in Calls :
          /\ call' = [call EXCEPT ![r] = c]
          /\ \/ status' = [status EXCEPT ![c.quote] = c.to] /\ c.to \in ValidStatuses
             \/ UNCHANGED status
          /\ \/ step' = [step EXCEPT ![r] = IF c.to = "client_approved"
                                               THEN "fetch" ELSE "ok"]
                /\ UNCHANGED pub
             \/ step' = [step EXCEPT ![r] = "refused"]
    BY <1>5 DEF ClientAsks, UpdateStatus, RefuseStatus, UpdateFails, queueVars
  <2>2. /\ step[r] = "idle" /\ pub[r] = "idle" /\ UNCHANGED <<tries, place>>
        /\ \/ UNCHANGED pub
           \/ pub' = [pub EXCEPT ![r] = "stopped"]
    BY <1>5 DEF ClientAsks, UpdateStatus, RefuseStatus, UpdateFails, PublisherStops,
       queueVars, NotAskedYet
  <2>3. OrderTypeOK'
    BY <1>2, <1>3, <2>1 DEF Statuses, StepStates, Calls
  <2>4. NotAskedYet' /\ FetchIsApproval' /\ IdleHasNotTried'
    BY <1>3a, <2>1, <2>2 DEF NotAskedYet, FetchIsApproval, IdleHasNotTried
  <2>5. PublishIsVisible'
    BY <2>1, <2>2 DEF PublishIsVisible, Announces, Visible
  <2>6. SentIsAnnounced'
    BY <1>1, <2>2, AnnouncementsStay DEF SentIsAnnounced, Messages
  <2>7. QED
    BY <1>2, <1>4, <2>3, <2>4, <2>5, <2>6
<1>6. CASE RequestStep(r)
  <2>1. UNCHANGED <<status, call>>
    BY <1>6 DEF RequestStep, FetchForEvent, FetchHidden, FetchFails,
       PublishQuoteApproved, Answer, handoffVars
  <2>2. CASE FetchForEvent(r)
    <3>1. /\ step[r] = "fetch" /\ Visible(call[r])
          /\ step' = [step EXCEPT ![r] = "publish"]
          /\ pub' = [pub EXCEPT ![r] = "publishing"]
          /\ UNCHANGED <<tries, place>>
      BY <2>2 DEF FetchForEvent, StartPublish
    <3>2. QED
      BY <1>2, <1>3, <1>4, <2>1, <3>1
         DEF StepStates, NotAskedYet, FetchIsApproval, PublishIsVisible, Announces,
         Visible, IdleHasNotTried, SentIsAnnounced
  <2>3. CASE FetchHidden(r) \/ FetchFails(r) \/ Answer(r)
    <3>1. /\ step[r] \in {"fetch", "publish"}
          /\ \E s \in {"ok", "crashed"} : step' = [step EXCEPT ![r] = s]
          /\ \/ UNCHANGED pub
             \/ pub' = [pub EXCEPT ![r] = "stopped"]
          /\ UNCHANGED <<tries, place>>
      BY <2>3 DEF FetchHidden, FetchFails, Answer, PublisherStops, queueVars
    <3>2. QED
      BY <1>2, <1>3, <1>3a, <1>4, <2>1, <3>1
         DEF StepStates, NotAskedYet, FetchIsApproval, PublishIsVisible, Announces,
         Visible, IdleHasNotTried, SentIsAnnounced
  <2>4. CASE PublishQuoteApproved(r)
    <3>1. step[r] = "publish" /\ PublishStep(r) /\ UNCHANGED step
      BY <2>4 DEF PublishQuoteApproved, handoffVars
    <3>2. /\ \A x \in Requests : x # r => pub'[x] = pub[x] /\ tries'[x] = tries[x]
          /\ pub'[r] # "idle"
      <4>1. \/ UNCHANGED tries
            \/ tries' = [tries EXCEPT ![r] = tries[r] + 1]
        BY <3>1 DEF PublishStep, PublishConfirmed, PublishUnconfirmed,
           PublishRefused, PublisherStops, AttemptFails
      <4>2. PICK s \in {"confirmed", "publishing", "gave_up", "stopped"} :
              pub' = [pub EXCEPT ![r] = s]
        BY <3>1 DEF PublishStep, PublishConfirmed, PublishUnconfirmed,
           PublishRefused, PublisherStops, AttemptFails
      <4>3. \A x \in Requests : x # r => pub'[x] = pub[x]
        BY <1>3a, <4>2
      <4>4. \A x \in Requests : x # r => tries'[x] = tries[x]
        BY <1>3a, <4>1
      <4>5. pub'[r] # "idle"
        BY <1>3a, <4>2
      <4>6. QED
        BY <4>3, <4>4, <4>5
    <3>3. \A m \in Messages : m[1] # r => place'[m] = place[m]
      <4>1. \/ UNCHANGED place
            \/ place' = [place EXCEPT ![<<r, tries[r] + 1>>] = "ready"]
        BY <3>1 DEF PublishStep, PublishConfirmed, PublishUnconfirmed,
           PublishRefused, PublisherStops, Accept
      <4>2. \A m \in Messages : m[1] # r => m # <<r, tries[r] + 1>>
        OBVIOUS
      <4>3. place \in [Messages -> Spots \cup Workers]
        BY DEF TypeOK
      <4>4. QED
        BY <4>1, <4>2, <4>3
    <3>4. Announces(r)
      BY <3>1 DEF PublishIsVisible
    <3>5. SentIsAnnounced'
      BY <2>1, <3>3, <3>4 DEF SentIsAnnounced, Announces, Visible
    <3>6. QED
      BY <1>2, <1>3, <1>3a, <1>4, <2>1, <3>1, <3>2, <3>5
         DEF NotAskedYet, FetchIsApproval, PublishIsVisible, Announces, Visible,
         IdleHasNotTried
  <2>5. QED
    BY <1>6, <2>2, <2>3, <2>4 DEF RequestStep
<1>7. QED
  BY <1>5, <1>6

(* The consuming side: an order appears only for a message that was sent.  *)
LEMMA WorkerKeepsHandoffInv ==
  ASSUME HandoffInv, NEW w \in Workers,
         CreateOrderFromQuotation(w) \/ ConsumeQuoteApproved(w)
  PROVE  HandoffInv'
<1> USE OrderHandoffAssumption, WorkQueueAssumption DEF Requests
<1> USE DEF HandoffInv, OrderTypeOK
<1>1. [OrderNext]_vars
  BY DEF OrderNext
<1>2. QueueInv' /\ TypeOK'
  BY <1>1, StepIsQueueStep, NextKeepsQueueInv DEF QueueInv
<1>3. UNCHANGED <<status, call, step>>
  BY DEF CreateOrderFromQuotation, ConsumeQuoteApproved, handoffVars
<1>4. /\ UNCHANGED <<pub, tries>>
      /\ \A m \in Messages : place[m] = "unsent" => place'[m] = "unsent"
  BY WorkersAreNotSpots
     DEF CreateOrderFromQuotation, HandleCommits, HandleReplyLost, HandleFails,
     Handled, ConsumeQuoteApproved, ConsumeStep, OpenChannel, Deliver, Take,
     Ack, NackRequeue, Settle, ConnectionDrops, LoopEnds, WorkerCrashes, Requeue,
     QueueInv, TypeOK, HeldWasSent, Has, IdleHasNoMessage
<1>5. /\ NotAskedYet' /\ FetchIsApproval' /\ PublishIsVisible'
      /\ IdleHasNotTried' /\ SentIsAnnounced'
  BY <1>3, <1>4 DEF NotAskedYet, FetchIsApproval, PublishIsVisible,
     IdleHasNotTried, SentIsAnnounced, Announces, Visible
<1>6. CASE UNCHANGED orders
  BY <1>1, <1>2, <1>3, <1>5, <1>6, AnnouncementsStay DEF OrderIsAnnounced
<1>7. CASE job[w].pc = "handle" /\ InsertOrder(w)
  <2>1. PICK m \in Messages : m = job[w].msg
    BY <1>7 DEF QueueInv, TypeOK, IdleHasNoMessage
  <2>2. m[1] \in Requests /\ Announces(m[1])
    BY <2>1 DEF QueueInv, HeldWasSent, Has, SentIsAnnounced, Messages
  <2>3. QuoteOf(m) \in Quotations
    BY <2>2 DEF Announces, Calls, QuoteOf
  <2>4. orders' = [orders EXCEPT ![QuoteOf(m)] = @ + 1]
    BY <1>7, <2>1 DEF InsertOrder
  <2>5. OrderIsAnnounced'
    BY <1>1, <1>3, <2>2, <2>3, <2>4, AnnouncementsStay DEF OrderIsAnnounced, QuoteOf
  <2>6. orders' \in [Quotations -> Nat]
    BY <2>3, <2>4
  <2>7. QED
    BY <1>2, <1>3, <1>5, <2>5, <2>6
<1>8. QED
  BY <1>6, <1>7 DEF CreateOrderFromQuotation, HandleCommits, HandleReplyLost,
     Handled, ConsumeQuoteApproved, handoffVars

LEMMA HandoffInvariant == OrderSafetySpec => []HandoffInv
<1>1. HandoffInv /\ [OrderNext]_vars => HandoffInv'
  <2>1. HandoffInv /\ UNCHANGED vars => HandoffInv'
    BY DEF vars, handoffVars, queueVars, HandoffInv, OrderTypeOK, QueueInv, TypeOK,
       AttemptsAreLeft, FreshIsUnsent, IdleHasNoMessage, ClosedHoldsNothing,
       Has, OneCopyPerWorker, OpenAgrees, HeldWasSent, AckAfterEffect,
       EffectWasSent, AckedAfterEffect, NotAskedYet, FetchIsApproval,
       PublishIsVisible, IdleHasNotTried, SentIsAnnounced, OrderIsAnnounced,
       Announces, Visible
  <2>2. QED
    BY <2>1, RequestKeepsHandoffInv, WorkerKeepsHandoffInv DEF OrderNext
<1>2. QED
  BY <1>1, InitHandoffInv, PTL DEF OrderSafetySpec

(* The variables have their types. *)
THEOREM OrderTypeCorrect == OrderSafetySpec => []OrderTypeOK
<1>1. HandoffInv => OrderTypeOK
  BY DEF HandoffInv
<1>2. QED
  BY <1>1, HandoffInvariant, PTL

(* Every order comes from a request that approved its quotation, and one    *)
(* with cash terms from a caller in ghost mode.                            *)
THEOREM OrdersAreApproved == OrderSafetySpec => []OrderHasApproval
<1>1. HandoffInv => OrderHasApproval
  BY OrderHandoffAssumption
     DEF HandoffInv, OrderIsAnnounced, Announces, Visible, OrderHasApproval, Approval
<1>2. QED
  BY <1>1, HandoffInvariant, PTL

-----------------------------------------------------------------------------
(***************************************************************************)
(* Counting orders.  Only finitely many requests have come in, and without *)
(* faults each order stands for one of them: the message of its first      *)
(* attempt is the one that had an effect.                                  *)
(***************************************************************************)
Asked == {r \in Requests : call[r] # NoCall}

Ordered(q) ==
  {r \in Requests : effects[<<r, 1>>] > 0 /\ call[r].quote = q}

OrdersAreCounted ==
  failures = 0 =>
    \A q \in Quotations :
      /\ IsFiniteSet(Ordered(q))
      /\ orders[q] = Cardinality(Ordered(q))

CountInv == IsFiniteSet(Asked) /\ OrdersAreCounted

(* The first attempt of every request names a message. *)
LEMMA FirstAttempt ==
  ASSUME NEW r \in Requests
  PROVE  <<r, 1>> \in Messages
BY WorkQueueAssumption DEF Messages, Requests

(* Handling a message changes the database for it and adds its order; no   *)
(* other step touches either.                                              *)
LEMMA EffectsAndOrders ==
  ASSUME HandoffInv, [OrderNext]_vars, failures' = 0
  PROVE  /\ failures = 0
         /\ \/ UNCHANGED <<effects, orders>>
            \/ /\ UNCHANGED call
               /\ \E w \in Workers : HandleCommits(w) /\ InsertOrder(w)
<1> USE WorkQueueAssumption DEF HandoffInv, OrderTypeOK, TypeOK, Requests
<1>1. ASSUME NEW r \in Requests, ClientAsks(r) \/ RequestStep(r)
      PROVE  failures = 0 /\ UNCHANGED <<effects, orders>>
  BY <1>1 DEF ClientAsks, UpdateStatus, RefuseStatus, UpdateFails, RequestStep,
     FetchForEvent, FetchHidden, FetchFails, PublishQuoteApproved, Answer,
     StartPublish, PublishStep, PublishConfirmed, PublishUnconfirmed,
     PublishRefused, PublisherStops, Fault, queueVars, handoffVars
<1>2. ASSUME NEW w \in Workers, ConsumeQuoteApproved(w)
      PROVE  failures = 0 /\ UNCHANGED <<effects, orders>>
  BY <1>2 DEF ConsumeQuoteApproved, ConsumeStep, OpenChannel, Deliver, Take, Ack,
     NackRequeue, Settle, ConnectionDrops, LoopEnds, WorkerCrashes, Fault,
     handoffVars
<1>3. ASSUME NEW w \in Workers, CreateOrderFromQuotation(w)
      PROVE  failures = 0 /\ UNCHANGED call /\ HandleCommits(w) /\ InsertOrder(w)
  BY <1>3 DEF CreateOrderFromQuotation, HandleCommits, HandleReplyLost,
     HandleFails, Fault
<1>4. CASE UNCHANGED vars
  BY <1>4 DEF vars, queueVars, handoffVars
<1>5. QED
  BY <1>1, <1>2, <1>3, <1>4 DEF OrderNext

(* A request that has had an effect announced an approval. *)
LEMMA EffectIsAnnounced ==
  ASSUME HandoffInv, NEW r \in Requests, effects[<<r, 1>>] > 0
  PROVE  Announces(r)
BY FirstAttempt DEF HandoffInv, QueueInv, EffectWasSent, SentIsAnnounced

(* A step asks at most one new request, so finitely many stay finitely many. *)
LEMMA AskedStaysFinite ==
  ASSUME HandoffInv, IsFiniteSet(Asked), [OrderNext]_vars
  PROVE  IsFiniteSet(Asked)'
<1> USE OrderHandoffAssumption DEF HandoffInv, OrderTypeOK
<1>1. ASSUME NEW r \in Requests, ClientAsks(r)
      PROVE  IsFiniteSet(Asked)'
  <2>1. PICK c \in Calls : call' = [call EXCEPT ![r] = c]
    BY <1>1 DEF ClientAsks, UpdateStatus, RefuseStatus, UpdateFails
  <2>2. Asked' = Asked \cup {r}
    BY <2>1 DEF Asked
  <2>3. QED
    BY <2>2, FS_AddElement
<1>2. CASE UNCHANGED call
  BY <1>2 DEF Asked
<1>3. QED
  BY <1>1, <1>2 DEF OrderNext, vars, handoffVars, RequestStep, FetchForEvent,
     FetchHidden, FetchFails, PublishQuoteApproved, Answer,
     CreateOrderFromQuotation, ConsumeQuoteApproved

(* Without faults the handler commits a message once, and it is the one of *)
(* its request's first attempt.                                            *)
LEMMA CommitIsFirst ==
  ASSUME HandoffInv, Faultless, failures = 0, NEW w \in Workers, HandleCommits(w)
  PROVE  \E r \in Requests :
           /\ job[w].msg = <<r, 1>>
           /\ effects[<<r, 1>>] = 0
           /\ effects' = [effects EXCEPT ![<<r, 1>>] = 1]
           /\ Announces(r)
<1> USE WorkQueueAssumption DEF HandoffInv, QueueInv, TypeOK
<1>1. /\ job[w].pc = "handle"
      /\ effects' = [effects EXCEPT ![job[w].msg] = @ + 1]
  BY DEF HandleCommits, Handled, TakesEffect
<1>2. job[w].msg \in Messages
  BY <1>1 DEF IdleHasNoMessage
<1>3. PICK r \in Requests, n \in 1 .. MaxPublishAttempts : job[w].msg = <<r, n>>
  BY <1>2 DEF Messages, Requests
<1>4. place[<<r, n>>] = w
  BY <1>1, <1>2, <1>3 DEF ClosedHoldsNothing, OpenAgrees, Has, Faultless,
     ChannelStates
<1>5. tries[r] <= 1 /\ tries[r] \in Nat
  BY DEF Faultless, Requests
<1>6. n <= tries[r]
  BY <1>3, <1>4, WorkersAreNotSpots, <1>5 DEF FreshIsUnsent, Requests
<1>7. n = 1
  BY <1>5, <1>6
<1>8. effects[<<r, 1>>] = 0
  <2>1. effects[<<r, 1>>] \in Nat
    BY FirstAttempt
  <2>2. ~(effects[<<r, 1>>] > 0)
    BY <1>1, <1>3, <1>4, <1>7, FirstAttempt DEF Faultless
  <2>3. QED
    BY <2>1, <2>2
<1>9. Announces(r)
  BY <1>4, <1>7, FirstAttempt, WorkersAreNotSpots DEF SentIsAnnounced
<1>10. effects' = [effects EXCEPT ![<<r, 1>>] = 1]
  BY <1>1, <1>3, <1>7, <1>8
<1>11. QED
  BY <1>3, <1>7, <1>8, <1>9, <1>10

LEMMA NextKeepsCount ==
  ASSUME HandoffInv, Faultless, CountInv, [OrderNext]_vars
  PROVE  CountInv'
<1> SUFFICES ASSUME failures' = 0, NEW q \in Quotations
             PROVE  /\ IsFiniteSet(Ordered(q)')
                    /\ orders'[q] = Cardinality(Ordered(q)')
  BY AskedStaysFinite DEF CountInv, OrdersAreCounted
<1>1. failures = 0 /\ IsFiniteSet(Ordered(q)) /\ orders[q] = Cardinality(Ordered(q))
  BY EffectsAndOrders DEF CountInv, OrdersAreCounted
<1>2. CASE UNCHANGED <<effects, orders>>
  <2>1. \A r \in Requests : effects[<<r, 1>>] > 0 => call'[r] = call[r]
    BY AnnouncementsStay, EffectIsAnnounced
  <2>2. Ordered(q)' = Ordered(q)
    BY <1>2, <2>1 DEF Ordered
  <2>3. QED
    BY <1>1, <1>2, <2>2
<1>3. ASSUME UNCHANGED call,
             NEW w \in Workers, HandleCommits(w), InsertOrder(w)
      PROVE  /\ IsFiniteSet(Ordered(q)')
             /\ orders'[q] = Cardinality(Ordered(q)')
  <2>1. PICK r \in Requests :
          /\ job[w].msg = <<r, 1>>
          /\ effects[<<r, 1>>] = 0
          /\ effects' = [effects EXCEPT ![<<r, 1>>] = 1]
          /\ Announces(r)
    BY <1>1, <1>3, CommitIsFirst
  <2>2. \A x \in Requests :
          effects'[<<x, 1>>] = IF x = r THEN 1 ELSE effects[<<x, 1>>]
    BY <2>1, FirstAttempt DEF HandoffInv, QueueInv, TypeOK
  <2>3. orders' = [orders EXCEPT ![call[r].quote] = @ + 1]
    BY <1>3, <2>1 DEF InsertOrder, QuoteOf
  <2>4. CASE call[r].quote = q
    <3>1. Ordered(q)' = Ordered(q) \cup {r} /\ r \notin Ordered(q)
      BY <1>3, <2>1, <2>2, <2>4 DEF Ordered
    <3>2. orders'[q] = orders[q] + 1
      BY <2>3, <2>4 DEF HandoffInv, OrderTypeOK
    <3>3. QED
      BY <1>1, <3>1, <3>2, FS_AddElement
  <2>5. CASE call[r].quote # q
    <3>1. Ordered(q)' = Ordered(q)
      BY <1>3, <2>1, <2>2, <2>5 DEF Ordered
    <3>2. orders'[q] = orders[q]
      BY <2>3, <2>5 DEF HandoffInv, OrderTypeOK
    <3>3. QED
      BY <1>1, <3>1, <3>2
  <2>6. QED
    BY <2>4, <2>5
<1>4. QED
  BY <1>2, <1>3, EffectsAndOrders

LEMMA CountInvariant == OrderSafetySpec => []CountInv
<1>1. OrderInit => CountInv
  <2> SUFFICES ASSUME OrderInit PROVE CountInv
    OBVIOUS
  <2>1. Asked = {}
    BY DEF OrderInit, Asked
  <2>2. \A q \in Quotations : Ordered(q) = {} /\ orders[q] = 0
    BY FirstAttempt DEF OrderInit, Init, Ordered
  <2>3. QED
    BY <2>1, <2>2, FS_EmptySet DEF CountInv, OrdersAreCounted
<1>2. QED
  BY <1>1, HandoffInvariant, HandoffRunsQueue, FaultlessInvariant, NextKeepsCount, PTL
     DEF OrderSafetySpec

(* A quotation has at most one order for each time it was approved, as     *)
(* long as no fault made the broker or the worker repeat itself.           *)
THEOREM OrdersAreCountedOnce == OrderSafetySpec => []OrdersMatchApprovals
<1>1. HandoffInv /\ OrderHasApproval /\ CountInv => OrdersMatchApprovals
  <2> SUFFICES ASSUME HandoffInv, CountInv, failures = 0, NEW q \in Quotations
               PROVE  orders[q] <= Cardinality({r \in Requests : Approval(r, q)})
    BY DEF OrdersMatchApprovals
  <2> DEFINE approvals == {r \in Requests : Approval(r, q)}
  <2>1. approvals \subseteq Asked
    BY DEF Approval, Asked
  <2>2. Ordered(q) \subseteq approvals
    BY EffectIsAnnounced, OrderHandoffAssumption
       DEF Ordered, Announces, Approval
  <2>3. IsFiniteSet(approvals)
    BY <2>1, FS_Subset DEF CountInv
  <2> HIDE DEF approvals
  <2>4. Cardinality(Ordered(q)) <= Cardinality(approvals)
    BY <2>2, <2>3, FS_Subset
  <2>5. QED
    BY <2>4 DEF CountInv, OrdersAreCounted, approvals
<1>2. QED
  BY <1>1, HandoffInvariant, OrdersAreApproved, CountInvariant, PTL
=============================================================================
