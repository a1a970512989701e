-------------------------- MODULE BrokerConnection --------------------------
(***************************************************************************)
(* The shared RabbitMQ connection of one process (package broker): the     *)
(* global Conn, the publishers that reconnect when they find it closed     *)
(* (currentConn), the watcher goroutine every connection gets              *)
(* (watchAndReconnect), and the consumers that open channels on it.        *)
(*                                                                         *)
(* The API process publishes and never consumes, the worker consumes and   *)
(* never publishes.  The behaviour starts after InitRabbitMQ has returned  *)
(* without an error: before that nothing else runs.                        *)
(*                                                                         *)
(* connect() is two steps, because the connection can be lost between      *)
(* them: Establish is Dial, Channel and declareTopology, Store publishes   *)
(* the globals and starts the watcher.  The watcher of a connection bears  *)
(* the connection's name.  MaxFailures bounds the faults.                  *)
(***************************************************************************)
EXTENDS Naturals

CONSTANTS
  Publishers,   \* goroutines of the API process that publish
  Consumers,    \* supervised consumers of the worker process
  Conns,        \* connections, numbered as they are opened
  MaxFailures,  \* bound on the number of faults
  NoConn        \* nil

ASSUME BrokerAssumption ==
  /\ Conns \subseteq Nat
  /\ 1 \in Conns
  /\ NoConn \notin Conns
  /\ Publishers \cap Conns = {}
  /\ MaxFailures \in Nat

Dialers == Publishers \cup Conns

VARIABLES
  process,   \* which process this is
  up,        \* the broker accepts connections
  conn,      \* what has become of each connection
  shared,    \* the global Conn
  watcher,   \* where the watcher goroutine of each connection is
  mine,      \* the connection a dialer has established and not yet stored
  pc,        \* where each publisher is
  got,       \* the connection currentConn returned to each publisher
  seen,      \* history: connections open at some time during the call
  channel,   \* the connection each consumer ranges over deliveries on
  early,     \* history: a connection was lost before anybody watched it
  failures   \* faults so far

brokerVars == <<process, up, conn, shared, watcher, mine, pc, got, seen,
                channel, early, failures>>

ConnStates == {"unused", "open", "lost"}
WatcherStates == {"none", "starting", "watching", "reconnecting", "ended"}
PublisherStates == {"idle", "connecting", "rereading", "using"}

Open == {c \in Conns : conn[c] = "open"}

BrokerTypeOK ==
  /\ process \in {"api", "worker"}
  /\ up \in BOOLEAN
  /\ conn \in [Conns -> ConnStates]
  /\ shared \in Conns
  /\ watcher \in [Conns -> WatcherStates]
  /\ mine \in [Dialers -> Conns \cup {NoConn}]
  /\ pc \in [Publishers -> PublisherStates]
  /\ got \in [Publishers -> Conns \cup {NoConn}]
  /\ seen \in [Publishers -> SUBSET Conns]
  /\ channel \in [Consumers -> Conns \cup {NoConn}]
  /\ early \in BOOLEAN
  /\ failures \in 0 .. MaxFailures

Init ==
  /\ process \in {"api", "worker"}
  /\ up = TRUE
  /\ conn = [c \in Conns |-> IF c = 1 THEN "open" ELSE "unused"]
  /\ shared = 1
  /\ watcher = [c \in Conns |-> IF c = 1 THEN "starting" ELSE "none"]
  /\ mine = [d \in Dialers |-> NoConn]
  /\ pc = [p \in Publishers |-> "idle"]
  /\ got = [p \in Publishers |-> NoConn]
  /\ seen = [p \in Publishers |-> {}]
  /\ channel = [k \in Consumers |-> NoConn]
  /\ early = FALSE
  /\ failures = 0

-----------------------------------------------------------------------------
(* connect(), called by publishers and watchers.                           *)

Connecting(d) ==
  /\ mine[d] = NoConn
  /\ \/ d \in Publishers /\ pc[d] = "connecting"
     \/ d \in Conns /\ watcher[d] = "reconnecting"

Establish(d) ==
  /\ Connecting(d)
  /\ up
  /\ \E c \in Conns :
       /\ conn[c] = "unused"
       /\ \A b \in Conns : b < c => conn[b] # "unused"
       /\ conn' = [conn EXCEPT ![c] = "open"]
       /\ mine' = [mine EXCEPT ![d] = c]
       /\ seen' = [p \in Publishers |->
                     IF pc[p] = "idle" THEN seen[p] ELSE seen[p] \cup {c}]
  /\ UNCHANGED <<process, up, shared, watcher, pc, got, channel, early,
                 failures>>

(* The attempt fails and the publisher's call returns the error.  A        *)
(* watcher whose attempt fails sleeps and tries again, which changes       *)
(* nothing.                                                                *)
ConnectFails(p) ==
  /\ pc[p] = "connecting"
  /\ mine[p] = NoConn
  /\ \/ ~up /\ UNCHANGED failures
     \/ up /\ failures < MaxFailures /\ failures' = failures + 1
  /\ pc' = [pc EXCEPT ![p] = "idle"]
  /\ seen' = [seen EXCEPT ![p] = {}]
  /\ UNCHANGED <<process, up, conn, shared, watcher, mine, got, channel, early>>

(* Mutant: the connection of a reconnect gets no watcher of its own. *)
Store_Unwatched(d) ==
  /\ mine[d] # NoConn
  /\ shared' = mine[d]
  /\ mine' = [mine EXCEPT ![d] = NoConn]
  /\ watcher' = IF d \in Conns THEN [watcher EXCEPT ![d] = "ended"] ELSE watcher
  /\ pc' = [p \in Publishers |-> IF p = d THEN "rereading" ELSE pc[p]]
  /\ UNCHANGED <<process, up, conn, got, seen, channel, early, failures>>

(* Mutant: the watcher does not return after it has reconnected. *)
Store_WatcherGoesOn(d) ==
  /\ mine[d] # NoConn
  /\ shared' = mine[d]
  /\ mine' = [mine EXCEPT ![d] = NoConn]
  /\ watcher' = [watcher EXCEPT ![mine[d]] = "starting"]
  /\ pc' = [p \in Publishers |-> IF p = d THEN "rereading" ELSE pc[p]]
  /\ UNCHANGED <<process, up, conn, got, seen, channel, early, failures>>

(* Mutant: a reconnecting watcher does not publish the new connection. *)
Store_NotPublished(d) ==
  /\ mine[d] # NoConn
  /\ shared' = IF d \in Conns THEN shared ELSE mine[d]
  /\ mine' = [mine EXCEPT ![d] = NoConn]
  /\ watcher' = [c \in Conns |-> IF c = mine[d] THEN "starting"
                                 ELSE IF c = d THEN "ended" ELSE watcher[c]]
  /\ pc' = [p \in Publishers |-> IF p = d THEN "rereading" ELSE pc[p]]
  /\ UNCHANGED <<process, up, conn, got, seen, channel, early, failures>>

(* The globals are set under the lock, whoever set them meanwhile; the new *)
(* connection's watcher is started; a watcher that reconnected returns.    *)
Store(d) ==
  /\ mine[d] # NoConn
  /\ shared' = mine[d]
  /\ mine' = [mine EXCEPT ![d] = NoConn]
  /\ watcher' = [c \in Conns |-> IF c = mine[d] THEN "starting"
                                 ELSE IF c = d THEN "ended" ELSE watcher[c]]
  /\ pc' = [p \in Publishers |-> IF p = d THEN "rereading" ELSE pc[p]]
  /\ UNCHANGED <<process, up, conn, got, seen, channel, early, failures>>

-----------------------------------------------------------------------------
(* The watcher, and what it watches for.                                   *)

(* The watcher registers with NotifyClose.  The library closes the         *)
(* receiver of a connection that is gone already, which reads as a nil     *)
(* error: the watcher takes the loss for a graceful close and returns.     *)
Watch(c) ==
  /\ watcher[c] = "starting"
  /\ watcher' = [watcher EXCEPT ![c] =
                   IF conn[c] = "open" THEN "watching" ELSE "ended"]
  /\ UNCHANGED <<process, up, conn, shared, mine, pc, got, seen, channel, early,
                 failures>>

(* Between Establish and the watcher's registration. *)
Unwatched(c) ==
  watcher[c] = "starting" \/ \E d \in Dialers : mine[d] = c

(* Connections are lost: their watchers are told, and the deliveries of    *)
(* the consumers on them end, so that the supervisor starts over.          *)
Lose(lost) ==
  /\ failures < MaxFailures
  /\ failures' = failures + 1
  /\ conn' = [c \in Conns |-> IF c \in lost THEN "lost" ELSE conn[c]]
  /\ watcher' = [c \in Conns |->
                   IF c \in lost /\ watcher[c] = "watching"
                     THEN "reconnecting" ELSE watcher[c]]
  /\ channel' = [k \in Consumers |->
                   IF channel[k] \in lost THEN NoConn ELSE channel[k]]
  /\ early' = (early \/ \E c \in lost : Unwatched(c))
  /\ UNCHANGED <<process, shared, mine, pc, got, seen>>

ConnectionDrops(c) ==
  /\ c \in Open
  /\ Lose({c})
  /\ UNCHANGED up

BrokerStops ==
  /\ up
  /\ Lose(Open)
  /\ up' = FALSE

BrokerReturns ==
  /\ ~up
  /\ up' = TRUE
  /\ UNCHANGED <<process, conn, shared, watcher, mine, pc, got, seen, channel,
                 early, failures>>

-----------------------------------------------------------------------------
(* Publishers: currentConn, once per publish attempt.                      *)

(* Mutant: the cached connection is returned without looking whether it is *)
(* closed.                                                                 *)
CurrentConn_Unchecked(p) ==
  /\ process = "api"
  /\ pc[p] = "idle"
  /\ seen' = [seen EXCEPT ![p] = Open]
  /\ pc' = [pc EXCEPT ![p] = "using"]
  /\ got' = [got EXCEPT ![p] = shared]
  /\ UNCHANGED <<process, up, conn, shared, watcher, mine, channel, early,
                 failures>>

(* Mutant: the closed connection is cleared from the global first. *)
CurrentConn_ClearsGlobal(p) ==
  /\ process = "api"
  /\ pc[p] = "idle"
  /\ seen' = [seen EXCEPT ![p] = Open]
  /\ \/ /\ conn[shared] = "open"
        /\ pc' = [pc EXCEPT ![p] = "using"]
        /\ got' = [got EXCEPT ![p] = shared]
        /\ UNCHANGED shared
     \/ /\ conn[shared] # "open"
        /\ pc' = [pc EXCEPT ![p] = "connecting"]
        /\ shared' = NoConn
        /\ UNCHANGED got
  /\ UNCHANGED <<process, up, conn, watcher, mine, channel, early, failures>>

CurrentConn(p) ==
  /\ process = "api"
  /\ pc[p] = "idle"
  /\ seen' = [seen EXCEPT ![p] = Open]
  /\ \/ /\ conn[shared] = "open"
        /\ pc' = [pc EXCEPT ![p] = "using"]
        /\ got' = [got EXCEPT ![p] = shared]
     \/ /\ conn[shared] # "open"
        /\ pc' = [pc EXCEPT ![p] = "connecting"]
        /\ UNCHANGED got
  /\ UNCHANGED <<process, up, conn, shared, watcher, mine, channel, early,
                 failures>>

(* After its own connect() the call returns the global, which need not be  *)
(* the connection it has just opened.                                      *)
Reread(p) ==
  /\ pc[p] = "rereading"
  /\ pc' = [pc EXCEPT ![p] = "using"]
  /\ got' = [got EXCEPT ![p] = shared]
  /\ UNCHANGED <<process, up, conn, shared, watcher, mine, seen, channel, early,
                 failures>>

(* The attempt ends, on a live connection or with an error; what it does   *)
(* to the queue is WorkQueue's matter.                                     *)
AttemptEnds(p) ==
  /\ pc[p] = "using"
  /\ pc' = [pc EXCEPT ![p] = "idle"]
  /\ got' = [got EXCEPT ![p] = NoConn]
  /\ seen' = [seen EXCEPT ![p] = {}]
  /\ UNCHANGED <<process, up, conn, shared, watcher, mine, channel, early,
                 failures>>

(* A consumer reads the global without the lock.  The read returns the     *)
(* pointer before or after a concurrent Store, so it is one step.  On a    *)
(* closed connection it fails, and the supervisor tries again.             *)
Consume(k) ==
  /\ process = "worker"
  /\ channel[k] = NoConn
  /\ conn[shared] = "open"
  /\ channel' = [channel EXCEPT ![k] = shared]
  /\ UNCHANGED <<process, up, conn, shared, watcher, mine, pc, got, seen, early,
                 failures>>

Next ==
  \/ \E d \in Dialers : Establish(d) \/ Store(d)
  \/ \E p \in Publishers :
       CurrentConn(p) \/ ConnectFails(p) \/ Reread(p) \/ AttemptEnds(p)
  \/ \E c \in Conns : Watch(c) \/ ConnectionDrops(c)
  \/ \E k \in Consumers : Consume(k)
  \/ BrokerStops \/ BrokerReturns

BrokerSpec == Init /\ [][Next]_brokerVars

(* Goroutines run and sleeps end; nobody has to publish, and a broker that *)
(* stopped is restarted (docker-compose: restart).                         *)
FairBrokerSpec ==
  /\ BrokerSpec
  /\ \A d \in Dialers : WF_brokerVars(Establish(d)) /\ WF_brokerVars(Store(d))
  /\ \A c \in Conns : WF_brokerVars(Watch(c))
  /\ \A k \in Consumers : WF_brokerVars(Consume(k))
  /\ WF_brokerVars(BrokerReturns)

-----------------------------------------------------------------------------
(* While no connection is lost before its watcher watches it, a shared     *)
(* connection that is gone is always being replaced (the promise of        *)
(* watchAndReconnect), whoever else reconnects meanwhile.                  *)
RepairUnderWay ==
  ~early => conn[shared] = "open" \/ watcher[shared] = "reconnecting"

(* The worker, which never calls currentConn, never has two connections:   *)
(* each watcher replaces its own connection once and returns.              *)
WorkerHasOneConnection ==
  process = "worker" => \A c, d \in Open : c = d

(* The connection currentConn returns was open at some time during the     *)
(* call, also when another goroutine replaced the global meanwhile.        *)
HandsOutLive ==
  ~early => \A p \in Publishers : pc[p] = "using" => got[p] \in seen[p]

(* The consumers of the worker come back after every loss, except possibly *)
(* when a connection was lost before it was watched.                       *)
WatchedConsumersRecover ==
  \A k \in Consumers :
    process = "worker" => []<>(early \/ channel[k] # NoConn)

=============================================================================
