----------------------------- MODULE WorkQueue -----------------------------
(***************************************************************************)
(* One durable RabbitMQ work queue with its publishers (PublishEvent, in   *)
(* the API process) and its consumers (a supervised goroutine per worker   *)
(* process, manual acknowledgements).                                      *)
(*                                                                         *)
(* A publisher stands for one call of PublishEvent.  Every attempt of the  *)
(* call that the broker accepts leaves a message of its own on the queue,  *)
(* so a message is named by its publisher and the number of the attempt.   *)
(* The payload is left out: modules that extend this one say what a        *)
(* message is about and what handling it does to the database.             *)
(*                                                                         *)
(* MaxFailures bounds the number of faults (lost confirmations, broker     *)
(* outages, dropped connections, crashes, database errors).                *)
(***************************************************************************)
EXTENDS Naturals

CONSTANTS
  Publishers,          \* calls of PublishEvent
  Workers,             \* worker processes consuming the queue
  MaxPublishAttempts,  \* maxPublishAttempts
  MaxFailures,         \* bound on the number of faults
  NoMessage            \* "the consumer is not handling a message"

Messages == Publishers \X (1 .. MaxPublishAttempts)

Spots == {"unsent", "ready", "acked"}

ASSUME WorkQueueAssumption ==
  /\ MaxPublishAttempts \in Nat \ {0}
  /\ MaxFailures \in Nat
  /\ Workers \cap Spots = {}
  /\ NoMessage \notin Messages

VARIABLES
  pub,      \* where each call of PublishEvent is
  tries,    \* attempts each call has finished
  place,    \* where the broker has each message: a spot, or the worker whose
            \* channel holds it unacknowledged
  channel,  \* the consumer's AMQP channel; "draining" is a channel that is
            \* gone while the consumer still ranges over its deliveries
  buffer,   \* deliveries the client library has received and not handed over
  job,      \* what the consumer's loop body is doing, and with which message
  effects,  \* how often handling each message has changed the database
  failures  \* faults so far

queueVars == <<pub, tries, place, channel, buffer, job, effects, failures>>

PubStates == {"idle", "publishing", "confirmed", "gave_up", "stopped"}
ChannelStates == {"open", "draining", "closed"}
JobStates == {"idle", "handle", "ack", "nack"}

NoJob == [pc |-> "idle", msg |-> NoMessage]

TypeOK ==
  /\ pub \in [Publishers -> PubStates]
  /\ tries \in [Publishers -> 0 .. MaxPublishAttempts]
  /\ place \in [Messages -> Spots \cup Workers]
  /\ channel \in [Workers -> ChannelStates]
  /\ buffer \in [Workers -> SUBSET Messages]
  /\ job \in [Workers -> [pc : JobStates, msg : Messages \cup {NoMessage}]]
  /\ effects \in [Messages -> Nat]
  /\ failures \in 0 .. MaxFailures

Init ==
  /\ pub = [p \in Publishers |-> "idle"]
  /\ tries = [p \in Publishers |-> 0]
  /\ place = [m \in Messages |-> "unsent"]
  /\ channel = [w \in Workers |-> "closed"]
  /\ buffer = [w \in Workers |-> {}]
  /\ job = [w \in Workers |-> NoJob]
  /\ effects = [m \in Messages |-> 0]
  /\ failures = 0

Fault ==
  /\ failures < MaxFailures
  /\ failures' = failures + 1

-----------------------------------------------------------------------------
(* Publishing.  An attempt opens a confirm channel, publishes and waits.   *)

StartPublish(p) ==
  /\ pub[p] = "idle"
  /\ pub' = [pub EXCEPT ![p] = "publishing"]
  /\ UNCHANGED <<tries, place, channel, buffer, job, effects, failures>>

Accept(p) == place' = [place EXCEPT ![<<p, tries[p] + 1>>] = "ready"]

(* Mutant: the attempts are counted from the wrong end, one too many is made. *)
AttemptFails_OneTooMany(p) ==
  /\ tries' = [tries EXCEPT ![p] = @ + 1]
  /\ pub' = [pub EXCEPT ![p] = IF tries[p] = MaxPublishAttempts
                                 THEN "gave_up" ELSE "publishing"]

(* The attempt returns an error: sleep and retry, or give up after the last. *)
AttemptFails(p) ==
  /\ tries' = [tries EXCEPT ![p] = @ + 1]
  /\ pub' = [pub EXCEPT ![p] = IF tries[p] + 1 = MaxPublishAttempts
                                 THEN "gave_up" ELSE "publishing"]

PublishConfirmed(p) ==
  /\ pub[p] = "publishing"
  /\ Accept(p)
  /\ tries' = [tries EXCEPT ![p] = @ + 1]
  /\ pub' = [pub EXCEPT ![p] = "confirmed"]
  /\ UNCHANGED <<channel, buffer, job, effects, failures>>

(* The broker has the message, the caller does not learn it: the           *)
(* confirmation is late, the connection drops or the request is cancelled. *)
PublishUnconfirmed(p) ==
  /\ pub[p] = "publishing"
  /\ Fault
  /\ Accept(p)
  /\ AttemptFails(p)
  /\ UNCHANGED <<channel, buffer, job, effects>>

(* The broker is unreachable, or it refuses the message. *)
PublishRefused(p) ==
  /\ pub[p] = "publishing"
  /\ Fault
  /\ AttemptFails(p)
  /\ UNCHANGED <<place, channel, buffer, job, effects>>

(* The process dies, or what precedes the call fails and it is never made. *)
PublisherStops(p) ==
  /\ pub[p] \in {"idle", "publishing"}
  /\ Fault
  /\ pub' = [pub EXCEPT ![p] = "stopped"]
  /\ UNCHANGED <<tries, place, channel, buffer, job, effects>>

-----------------------------------------------------------------------------
(* Consuming: the broker pushes without a prefetch limit, the consumer     *)
(* handles one delivery at a time.                                         *)

OpenChannel(w) ==
  /\ channel[w] = "closed"
  /\ channel' = [channel EXCEPT ![w] = "open"]
  /\ UNCHANGED <<pub, tries, place, buffer, job, effects, failures>>

(* Mutant: the consumer asks for automatic acknowledgement. *)
Deliver_AutoAck(w, m) ==
  /\ channel[w] = "open"
  /\ place[m] = "ready"
  /\ place' = [place EXCEPT ![m] = "acked"]
  /\ buffer' = [buffer EXCEPT ![w] = @ \cup {m}]
  /\ UNCHANGED <<pub, tries, channel, job, effects, failures>>

Deliver(w, m) ==
  /\ channel[w] = "open"
  /\ place[m] = "ready"
  /\ place' = [place EXCEPT ![m] = w]
  /\ buffer' = [buffer EXCEPT ![w] = @ \cup {m}]
  /\ UNCHANGED <<pub, tries, channel, job, effects, failures>>

Take(w, m) ==
  /\ job[w].pc = "idle"
  /\ m \in buffer[w]
  /\ buffer' = [buffer EXCEPT ![w] = @ \ {m}]
  /\ job' = [job EXCEPT ![w] = [pc |-> "handle", msg |-> m]]
  /\ UNCHANGED <<pub, tries, place, channel, effects, failures>>

Handled(w, outcome) ==
  /\ job[w].pc = "handle"
  /\ job' = [job EXCEPT ![w].pc = outcome]
  /\ UNCHANGED <<pub, tries, place, channel, buffer>>

TakesEffect(w) == effects' = [effects EXCEPT ![job[w].msg] = @ + 1]

HandleCommits(w) ==
  /\ Handled(w, "ack")
  /\ TakesEffect(w)
  /\ UNCHANGED failures

(* The statement is committed and its reply lost: the handler sees an error. *)
HandleReplyLost(w) ==
  /\ Handled(w, "nack")
  /\ TakesEffect(w)
  /\ Fault

(* Mutant: a failed handler acknowledges all the same. *)
HandleFails_Acks(w) ==
  /\ Handled(w, "ack")
  /\ Fault
  /\ UNCHANGED effects

HandleFails(w) ==
  /\ Handled(w, "nack")
  /\ Fault
  /\ UNCHANGED effects

(* Acknowledging reaches the broker only on the channel of the delivery;   *)
(* on a closed one it is an error nobody looks at.                         *)
Settle(w, from, to) ==
  /\ job[w].pc = from
  /\ job' = [job EXCEPT ![w] = NoJob]
  /\ place' = IF channel[w] = "open"
                THEN [place EXCEPT ![job[w].msg] = to] ELSE place
  /\ UNCHANGED <<pub, tries, channel, buffer, effects, failures>>

(* Mutant: the requeue flag is set on the wrong path. *)
Ack_Requeues(w) == Settle(w, "ack", "ready")

Ack(w) == Settle(w, "ack", "acked")

NackRequeue(w) == Settle(w, "nack", "ready")

(* Mutant: the broker forgets what a dead channel had not acknowledged. *)
Requeue_Forgets(w) ==
  place' = [m \in Messages |-> IF place[m] = w THEN "acked" ELSE place[m]]

(* What the broker does with the unacknowledged messages of a dead channel. *)
Requeue(w) ==
  place' = [m \in Messages |-> IF place[m] = w THEN "ready" ELSE place[m]]

ConnectionDrops(w) ==
  /\ channel[w] = "open"
  /\ Fault
  /\ channel' = [channel EXCEPT ![w] = "draining"]
  /\ Requeue(w)
  /\ UNCHANGED <<pub, tries, buffer, job, effects>>

(* Mutant: nobody restarts a consumer whose delivery channel was closed. *)
LoopEnds_Unsupervised(w) ==
  /\ channel[w] = "draining"
  /\ job[w].pc = "idle"
  /\ buffer' = [buffer EXCEPT ![w] = {}]
  /\ UNCHANGED <<pub, tries, place, channel, job, effects, failures>>

(* The range loop sees the closed delivery channel; what the client library *)
(* still held is dropped, and the supervisor opens a channel again later.   *)
LoopEnds(w) ==
  /\ channel[w] = "draining"
  /\ job[w].pc = "idle"
  /\ channel' = [channel EXCEPT ![w] = "closed"]
  /\ buffer' = [buffer EXCEPT ![w] = {}]
  /\ UNCHANGED <<pub, tries, place, job, effects, failures>>

WorkerCrashes(w) ==
  /\ channel[w] # "closed"
  /\ Fault
  /\ channel' = [channel EXCEPT ![w] = "closed"]
  /\ Requeue(w)
  /\ buffer' = [buffer EXCEPT ![w] = {}]
  /\ job' = [job EXCEPT ![w] = NoJob]
  /\ UNCHANGED <<pub, tries, effects>>

-----------------------------------------------------------------------------
PublishStep(p) ==
  \/ PublishConfirmed(p)
  \/ PublishUnconfirmed(p)
  \/ PublishRefused(p)
  \/ PublisherStops(p)

HandleStep(w) == HandleCommits(w) \/ HandleReplyLost(w) \/ HandleFails(w)

ConsumeStep(w) ==
  \/ OpenChannel(w)
  \/ \E m \in Messages : Deliver(w, m) \/ Take(w, m)
  \/ Ack(w)
  \/ NackRequeue(w)
  \/ ConnectionDrops(w)
  \/ LoopEnds(w)
  \/ WorkerCrashes(w)

Next ==
  \/ \E p \in Publishers : StartPublish(p) \/ PublishStep(p)
  \/ \E w \in Workers : HandleStep(w) \/ ConsumeStep(w)

(* The steps of a live consumer; what goes wrong is not owed to anybody.   *)
ConsumerProgress(w) ==
  \/ OpenChannel(w)
  \/ \E m \in Messages : Deliver(w, m) \/ Take(w, m)
  \/ HandleStep(w)
  \/ Ack(w)
  \/ NackRequeue(w)
  \/ LoopEnds(w)

Fairness == \A w \in Workers : WF_queueVars(ConsumerProgress(w))

SafetySpec == Init /\ [][Next]_queueVars

Spec == SafetySpec /\ Fairness

-----------------------------------------------------------------------------
(* Properties *)

InFlight(m) == place[m] \in Workers \cup {"ready"}

(* A consumer acknowledges a message only after the database change it asks *)
(* for is committed (processQuoteApproved and processInstallationSignoff    *)
(* acknowledge last).                                                       *)
AckedAfterEffect ==
  \A m \in Messages : place[m] = "acked" => effects[m] > 0

(* What PublishEvent reported as published is never lost: some attempt's   *)
(* message is still in the broker's hands, or has changed the database.    *)
ConfirmedIsKept ==
  \A p \in Publishers :
    pub[p] = "confirmed" =>
      \E n \in 1 .. MaxPublishAttempts :
        InFlight(<<p, n>>) \/ effects[<<p, n>>] > 0

(* Repeats come from faults only: while nothing has gone wrong, one call of *)
(* PublishEvent puts one message on the queue, and it is handled once.      *)
OneEffectWithoutFaults ==
  failures = 0 =>
    \A m \in Messages : /\ effects[m] <= 1
                        /\ m[2] > 1 => effects[m] = 0

(* The queue keeps the promise of Handoff: what is on it changes the       *)
(* database in the end, whatever connections and workers do meanwhile, and *)
(* is settled only after that.                                             *)
Promised == INSTANCE Handoff WITH
  Items <- Messages,
  promised <- {m \in Messages : place[m] # "unsent"},
  settled <- {m \in Messages : place[m] = "acked"},
  done <- effects

HandoffSpec == Promised!Spec
=============================================================================
