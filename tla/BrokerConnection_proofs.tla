----------------------- MODULE BrokerConnection_proofs -----------------------
(***************************************************************************)
(* Proofs about BrokerConnection, for any number of publishers, consumers, *)
(* connections and faults.                                                 *)
(***************************************************************************)
EXTENDS BrokerConnection, TLAPS

(***************************************************************************)
(* The inductive invariant.  Its first parts say who owns a connection: a  *)
(* dialer, between Establish and Store, or its own watcher afterwards.     *)
(***************************************************************************)
Serving == {"starting", "watching", "reconnecting"}

UnusedIsNobodys ==
  \A c \in Conns :
    conn[c] = "unused" => watcher[c] = "none" /\ \A d \in Dialers : mine[d] # c

MineIsUnwatched ==
  \A d \in Dialers : mine[d] # NoConn => watcher[mine[d]] = "none"

MineIsOnes ==
  \A d, e \in Dialers : mine[d] # NoConn /\ mine[d] = mine[e] => d = e

WatcherDials ==
  \A d \in Conns : mine[d] # NoConn => watcher[d] = "reconnecting"

PublisherDials ==
  \A p \in Publishers : mine[p] # NoConn => pc[p] = "connecting"

ReconnectingIsLost ==
  \A c \in Conns : watcher[c] = "reconnecting" => conn[c] = "lost"

OpenIsOwned ==
  \A c \in Open :
    watcher[c] \in {"starting", "watching"} \/ \E d \in Dialers : mine[d] = c

OwnershipInv ==
  /\ BrokerTypeOK
  /\ UnusedIsNobodys
  /\ MineIsUnwatched
  /\ MineIsOnes
  /\ WatcherDials
  /\ PublisherDials
  /\ ReconnectingIsLost
  /\ OpenIsOwned

(* As long as no connection was lost unwatched. *)
WatchedIsOpen ==
  ~early => /\ \A c \in Conns : watcher[c] \in {"starting", "watching"}
                                  => conn[c] = "open"
            /\ \A d \in Dialers : mine[d] # NoConn => conn[mine[d]] = "open"
            /\ watcher[shared] \in Serving

(* What was open during a call is remembered, the global included. *)
SeenInv ==
  \A p \in Publishers :
    pc[p] # "idle" =>
      /\ Open \subseteq seen[p]
      /\ ~early /\ pc[p] = "rereading" => shared \in seen[p]
      /\ ~early /\ pc[p] = "using" => got[p] \in seen[p]

(* Only the watchers dial in the worker, one of them at a time. *)
WorkerInv ==
  process = "worker" =>
    /\ \A p \in Publishers : pc[p] = "idle"
    /\ \A c, d \in Conns :
         watcher[c] \in Serving /\ watcher[d] \in Serving => c = d

BrokerInv ==
  /\ OwnershipInv
  /\ WatchedIsOpen
  /\ SeenInv
  /\ WorkerInv

-----------------------------------------------------------------------------
LEMMA InitBrokerInv == Init => BrokerInv
<1> SUFFICES ASSUME Init PROVE BrokerInv
  OBVIOUS
<1> USE BrokerAssumption DEF Init
<1>0. /\ conn \in [Conns -> ConnStates]
      /\ watcher \in [Conns -> WatcherStates]
      /\ shared \in Conns
  BY DEF ConnStates, WatcherStates
<1>a. /\ mine \in [Dialers -> Conns \cup {NoConn}]
      /\ pc \in [Publishers -> PublisherStates]
      /\ got \in [Publishers -> Conns \cup {NoConn}]
      /\ seen \in [Publishers -> SUBSET Conns]
      /\ channel \in [Consumers -> Conns \cup {NoConn}]
  BY DEF PublisherStates
<1>b. failures \in 0 .. MaxFailures
  OBVIOUS
<1>d. process \in {"api", "worker"} /\ up \in BOOLEAN /\ early \in BOOLEAN
  BY Zenon
<1>1. BrokerTypeOK
  BY <1>0, <1>a, <1>b, <1>d DEF BrokerTypeOK
<1>2. /\ UnusedIsNobodys /\ MineIsUnwatched /\ MineIsOnes /\ WatcherDials
      /\ PublisherDials /\ ReconnectingIsLost /\ OpenIsOwned
  BY DEF UnusedIsNobodys, MineIsUnwatched, MineIsOnes, WatcherDials,
         PublisherDials, ReconnectingIsLost, OpenIsOwned, Open, Dialers
<1>3. WatchedIsOpen /\ SeenInv /\ WorkerInv
  BY DEF WatchedIsOpen, SeenInv, WorkerInv, Serving, Dialers
<1> QED BY <1>1, <1>2, <1>3 DEF BrokerInv, OwnershipInv

-----------------------------------------------------------------------------
(* A new connection belongs to the dialer that established it. *)
LEMMA EstablishKeepsInv ==
  ASSUME BrokerInv, NEW d \in Dialers, Establish(d)
  PROVE  BrokerInv'
<1> USE BrokerAssumption
<1>t. BrokerTypeOK
  BY DEF BrokerInv, OwnershipInv
<1>1. PICK c \in Conns :
        /\ conn[c] = "unused"
        /\ conn' = [conn EXCEPT ![c] = "open"]
        /\ mine' = [mine EXCEPT ![d] = c]
        /\ seen' = [p \in Publishers |->
                      IF pc[p] = "idle" THEN seen[p] ELSE seen[p] \cup {c}]
  BY DEF Establish
<1>2. UNCHANGED <<process, up, shared, watcher, pc, got, channel, early,
                  failures>>
  BY DEF Establish
<1>3. watcher[c] = "none" /\ \A e \in Dialers : mine[e] # c
  BY <1>1 DEF BrokerInv, OwnershipInv, UnusedIsNobodys
<1>4. /\ mine[d] = NoConn
      /\ d \in Conns => watcher[d] = "reconnecting"
      /\ d \in Publishers => pc[d] = "connecting"
  BY DEF Establish, Connecting
<1>5. BrokerTypeOK'
  BY <1>t, <1>1, <1>2 DEF BrokerTypeOK, ConnStates
<1>6. /\ \A b \in Conns : conn'[b] = IF b = c THEN "open" ELSE conn[b]
      /\ \A e \in Dialers : mine'[e] = IF e = d THEN c ELSE mine[e]
  BY <1>t, <1>1 DEF BrokerTypeOK
<1>7. UnusedIsNobodys' /\ MineIsUnwatched' /\ MineIsOnes'
  BY <1>t, <1>2, <1>3, <1>6 DEF BrokerInv, OwnershipInv, BrokerTypeOK,
     UnusedIsNobodys, MineIsUnwatched, MineIsOnes
<1>8. WatcherDials' /\ PublisherDials' /\ ReconnectingIsLost'
  BY <1>2, <1>3, <1>4, <1>6 DEF BrokerInv, OwnershipInv, Dialers, WatcherDials,
     PublisherDials, ReconnectingIsLost
<1>9. OpenIsOwned'
  <2> SUFFICES ASSUME NEW b \in Open'
               PROVE  \/ watcher'[b] \in {"starting", "watching"}
                      \/ \E e \in Dialers : mine'[e] = b
    BY DEF OpenIsOwned
  <2>1. CASE b = c
    BY <2>1, <1>6
  <2>2. CASE b # c
    <3>1. b \in Open
      BY <2>2, <1>6 DEF Open
    <3>2. CASE watcher[b] \in {"starting", "watching"}
      BY <3>2, <1>2
    <3>3. CASE \E e \in Dialers : mine[e] = b
      <4>1. PICK e \in Dialers : mine[e] = b
        BY <3>3
      <4>2. e # d
        BY <4>1, <1>4, <3>1 DEF Open
      <4> QED BY <4>1, <4>2, <1>6
    <3> QED BY <3>1, <3>2, <3>3 DEF BrokerInv, OwnershipInv, OpenIsOwned
  <2> QED BY <2>1, <2>2
<1>10. WatchedIsOpen'
  <2> SUFFICES ASSUME ~early
               PROVE  WatchedIsOpen'
    BY <1>2 DEF WatchedIsOpen
  <2>0. WatchedIsOpen
    BY DEF BrokerInv
  <2>1. \A b \in Conns : watcher[b] \in {"starting", "watching"} => conn'[b] = "open"
    BY <2>0, <1>6 DEF WatchedIsOpen
  <2>2. \A e \in Dialers : mine'[e] # NoConn => conn'[mine'[e]] = "open"
    <3> SUFFICES ASSUME NEW e \in Dialers, mine'[e] # NoConn
                 PROVE  conn'[mine'[e]] = "open"
      OBVIOUS
    <3>1. CASE e = d
      BY <3>1, <1>1, <1>6
    <3>2. CASE e # d
      <4>1. mine'[e] = mine[e] /\ mine[e] \in Conns
        BY <3>2, <1>t, <1>6 DEF BrokerTypeOK
      <4>2. conn[mine[e]] = "open"
        BY <2>0, <4>1 DEF WatchedIsOpen
      <4> QED BY <4>1, <4>2, <1>6
    <3> QED BY <3>1, <3>2
  <2>3. watcher[shared] \in Serving
    BY <2>0 DEF WatchedIsOpen
  <2> QED BY <2>1, <2>2, <2>3, <1>2 DEF WatchedIsOpen
<1>11. SeenInv'
  BY <1>1, <1>2, <1>6 DEF BrokerInv, SeenInv, Open
<1>12. WorkerInv'
  BY <1>2 DEF BrokerInv, WorkerInv
<1> QED BY <1>5, <1>7, <1>8, <1>9, <1>10, <1>11, <1>12
        DEF BrokerInv, OwnershipInv

(* The connection passes from its dialer to its own watcher, and the       *)
(* watcher that dialled is done: one serves where one served before.       *)
LEMMA StoreKeepsInv ==
  ASSUME BrokerInv, NEW d \in Dialers, Store(d)
  PROVE  BrokerInv'
<1> USE BrokerAssumption
<1>t. BrokerTypeOK
  BY DEF BrokerInv, OwnershipInv
<1> DEFINE c == mine[d]
<1>1. c \in Conns
  BY <1>t DEF BrokerTypeOK, Store
<1>2. /\ shared' = c
      /\ mine' = [mine EXCEPT ![d] = NoConn]
      /\ watcher' = [b \in Conns |-> IF b = c THEN "starting"
                                     ELSE IF b = d THEN "ended" ELSE watcher[b]]
      /\ pc' = [p \in Publishers |-> IF p = d THEN "rereading" ELSE pc[p]]
      /\ UNCHANGED <<process, up, conn, got, seen, channel, early, failures>>
  BY DEF Store
<1>3. watcher[c] = "none" /\ conn[c] # "unused"
  BY <1>t, <1>1 DEF BrokerInv, OwnershipInv, MineIsUnwatched, UnusedIsNobodys,
     BrokerTypeOK
<1>4. /\ d \in Conns => watcher[d] = "reconnecting" /\ conn[d] = "lost"
      /\ d \in Publishers => pc[d] = "connecting"
  BY <1>1 DEF BrokerInv, OwnershipInv, WatcherDials, PublisherDials,
     ReconnectingIsLost
<1>5. BrokerTypeOK'
  BY <1>t, <1>1, <1>2 DEF BrokerTypeOK, WatcherStates, PublisherStates
<1>6. /\ \A b \in Conns : watcher'[b] = IF b = c THEN "starting"
                                        ELSE IF b = d THEN "ended" ELSE watcher[b]
      /\ \A e \in Dialers : mine'[e] = IF e = d THEN NoConn ELSE mine[e]
      /\ \A p \in Publishers : pc'[p] = IF p = d THEN "rereading" ELSE pc[p]
  BY <1>t, <1>2 DEF BrokerTypeOK
<1>c. c # d
  BY <1>1, <1>3, <1>4
<1>7. \A e \in Dialers : e # d => mine[e] # c
  BY <1>1 DEF BrokerInv, OwnershipInv, MineIsOnes
<1>8. UnusedIsNobodys' /\ MineIsUnwatched' /\ MineIsOnes'
  <2>1. UnusedIsNobodys'
    BY <1>2, <1>3, <1>4, <1>6, <1>c DEF BrokerInv, OwnershipInv, UnusedIsNobodys
  <2>2. MineIsUnwatched'
    <3> SUFFICES ASSUME NEW e \in Dialers, mine'[e] # NoConn
                 PROVE  watcher'[mine'[e]] = "none"
      BY DEF MineIsUnwatched
    <3>1. e # d /\ mine'[e] = mine[e] /\ mine[e] \in Conns /\ mine[e] # c
      BY <1>t, <1>6, <1>c, <1>7 DEF BrokerTypeOK
    <3>2. watcher[mine[e]] = "none"
      BY <3>1 DEF BrokerInv, OwnershipInv, MineIsUnwatched
    <3> QED BY <3>1, <3>2, <1>4, <1>6, <1>c
  <2>3. MineIsOnes'
    BY <1>6, <1>c DEF BrokerInv, OwnershipInv, MineIsOnes
  <2> QED BY <2>1, <2>2, <2>3
<1>9. WatcherDials' /\ PublisherDials' /\ ReconnectingIsLost'
  <2>1. WatcherDials'
    <3> SUFFICES ASSUME NEW b \in Conns, mine'[b] # NoConn
                 PROVE  watcher'[b] = "reconnecting"
      BY DEF WatcherDials
    <3>1. b # d /\ mine[b] # NoConn
      BY <1>6, <1>c DEF Dialers
    <3>2. watcher[b] = "reconnecting"
      BY <3>1 DEF BrokerInv, OwnershipInv, WatcherDials
    <3> QED BY <3>1, <3>2, <1>3, <1>6, <1>c
  <2>2. PublisherDials'
    BY <1>6, <1>c DEF BrokerInv, OwnershipInv, PublisherDials, Dialers
  <2>3. ReconnectingIsLost'
    BY <1>2, <1>6, <1>c DEF BrokerInv, OwnershipInv, ReconnectingIsLost
  <2> QED BY <2>1, <2>2, <2>3
<1>10. OpenIsOwned'
  <2> SUFFICES ASSUME NEW b \in Open', b # c
               PROVE  \/ watcher'[b] \in {"starting", "watching"}
                      \/ \E e \in Dialers : mine'[e] = b
    BY <1>1, <1>6, <1>c DEF OpenIsOwned, Open
  <2>1. b \in Open /\ b # d
    BY <1>2, <1>4 DEF Open
  <2>2. CASE watcher[b] \in {"starting", "watching"}
    BY <2>1, <2>2, <1>6, <1>c DEF Open
  <2>3. CASE \E e \in Dialers : mine[e] = b
    BY <2>3, <1>6, <1>c
  <2> QED BY <2>1, <2>2, <2>3 DEF BrokerInv, OwnershipInv, OpenIsOwned
<1>11. WatchedIsOpen'
  <2> SUFFICES ASSUME ~early PROVE WatchedIsOpen'
    BY <1>2 DEF WatchedIsOpen
  <2>1. conn[c] = "open"
    BY <1>1 DEF BrokerInv, WatchedIsOpen
  <2>2. \A e \in Dialers : mine'[e] # NoConn => conn'[mine'[e]] = "open"
    BY <1>2, <1>6, <1>c DEF BrokerInv, WatchedIsOpen
  <2>3. \A b \in Conns : watcher'[b] \in {"starting", "watching"}
                           => conn'[b] = "open"
    BY <1>2, <1>6, <1>c, <2>1 DEF BrokerInv, WatchedIsOpen
  <2> QED BY <2>2, <2>3, <1>1, <1>2, <1>6, <1>c DEF WatchedIsOpen, Serving
<1>12. SeenInv'
  <2> SUFFICES ASSUME NEW p \in Publishers, pc'[p] # "idle"
               PROVE  /\ Open' \subseteq seen'[p]
                      /\ ~early' /\ pc'[p] = "rereading" => shared' \in seen'[p]
                      /\ ~early' /\ pc'[p] = "using" => got'[p] \in seen'[p]
    BY DEF SeenInv
  <2>1. pc[p] # "idle" /\ (pc'[p] = "using" => pc[p] = "using")
    BY <1>4, <1>6, <1>c
  <2>2. ~early => c \in Open
    BY <1>1 DEF BrokerInv, WatchedIsOpen, Open
  <2> QED BY <2>1, <2>2, <1>2 DEF BrokerInv, SeenInv, Open
<1>13. WorkerInv'
  <2> SUFFICES ASSUME process = "worker" PROVE WorkerInv'
    BY <1>2 DEF WorkerInv
  <2>1. \A p \in Publishers : pc[p] = "idle"
    BY DEF BrokerInv, WorkerInv
  <2>2. d \in Conns
    BY <2>1, <1>4 DEF Dialers
  <2>3. \A b \in Conns : watcher[b] \in Serving => b = d
    BY <2>2, <1>4 DEF BrokerInv, WorkerInv, Serving
  <2>4. \A b \in Conns : watcher'[b] \in Serving => b = c
    BY <2>3, <1>6, <1>c DEF Serving
  <2>5. \A p \in Publishers : pc'[p] = "idle"
    BY <2>1, <2>2, <1>6, <1>c
  <2> QED BY <2>4, <2>5 DEF WorkerInv
<1> QED BY <1>5, <1>8, <1>9, <1>10, <1>11, <1>12, <1>13
        DEF BrokerInv, OwnershipInv

(* A watcher that begins, on an open connection or on one that is gone. *)
LEMMA WatchKeepsInv ==
  ASSUME BrokerInv, NEW c \in Conns, Watch(c)
  PROVE  BrokerInv'
<1>t. BrokerTypeOK
  BY DEF BrokerInv, OwnershipInv
<1>1. /\ watcher[c] = "starting"
      /\ \A b \in Conns : watcher'[b] =
           IF b = c THEN IF conn[c] = "open" THEN "watching" ELSE "ended"
                    ELSE watcher[b]
      /\ UNCHANGED <<process, up, conn, shared, mine, pc, got, seen, channel,
                     early, failures>>
  BY <1>t DEF Watch, BrokerTypeOK
<1>2. BrokerTypeOK'
  BY <1>t DEF Watch, BrokerTypeOK, WatcherStates
<1>3. /\ UnusedIsNobodys' /\ MineIsUnwatched' /\ MineIsOnes'
      /\ WatcherDials' /\ PublisherDials' /\ ReconnectingIsLost'
  <2>1. UnusedIsNobodys' /\ MineIsOnes' /\ PublisherDials'
    BY <1>1 DEF BrokerInv, OwnershipInv, UnusedIsNobodys, MineIsOnes,
       PublisherDials
  <2>2. MineIsUnwatched'
    BY <1>t, <1>1 DEF BrokerInv, OwnershipInv, BrokerTypeOK, MineIsUnwatched
  <2>3. WatcherDials' /\ ReconnectingIsLost'
    BY <1>1 DEF BrokerInv, OwnershipInv, WatcherDials, ReconnectingIsLost
  <2> QED BY <2>1, <2>2, <2>3
<1>4. OpenIsOwned'
  <2> SUFFICES ASSUME NEW b \in Open
               PROVE  \/ watcher'[b] \in {"starting", "watching"}
                      \/ \E d \in Dialers : mine'[d] = b
    BY <1>1 DEF OpenIsOwned, Open
  <2>1. CASE b = c
    BY <2>1, <1>1 DEF Open
  <2>2. CASE b # c
    BY <2>2, <1>1 DEF BrokerInv, OwnershipInv, OpenIsOwned, Open
  <2> QED BY <2>1, <2>2
<1>5. WatchedIsOpen' /\ SeenInv' /\ WorkerInv'
  <2>1. WatchedIsOpen'
    BY <1>t, <1>1 DEF BrokerInv, BrokerTypeOK, WatchedIsOpen, Serving
  <2>2. SeenInv'
    BY <1>1 DEF BrokerInv, SeenInv, Open
  <2>3. WorkerInv'
    BY <1>1 DEF BrokerInv, WorkerInv, Serving
  <2> QED BY <2>1, <2>2, <2>3
<1> QED BY <1>2, <1>3, <1>4, <1>5 DEF BrokerInv, OwnershipInv

(* Connections are lost: only those that were watched are replaced, and    *)
(* if all of them were watched, each is.                                   *)
LEMMA LoseKeepsInv ==
  ASSUME BrokerInv, NEW lost \in SUBSET Open, Lose(lost), up' \in BOOLEAN
  PROVE  BrokerInv'
<1>t. BrokerTypeOK
  BY DEF BrokerInv, OwnershipInv
<1>1. /\ \A c \in Conns : conn'[c] = IF c \in lost THEN "lost" ELSE conn[c]
      /\ \A c \in Conns : watcher'[c] =
           IF c \in lost /\ watcher[c] = "watching" THEN "reconnecting"
                                                     ELSE watcher[c]
      /\ early' = (early \/ \E c \in lost : Unwatched(c))
      /\ UNCHANGED <<process, shared, mine, pc, got, seen>>
      /\ lost \subseteq Conns
  BY DEF Lose, Open
<1>2. BrokerTypeOK'
  <2>1. /\ conn' \in [Conns -> ConnStates]
        /\ watcher' \in [Conns -> WatcherStates]
    BY <1>t DEF Lose, BrokerTypeOK, ConnStates, WatcherStates
  <2>2. channel' \in [Consumers -> Conns \cup {NoConn}]
    BY <1>t DEF Lose, BrokerTypeOK
  <2>3. failures' \in 0 .. MaxFailures
    BY <1>t, BrokerAssumption DEF Lose, BrokerTypeOK
  <2>4. early' \in BOOLEAN
    BY <1>1
  <2> QED BY <1>t, <1>1, <2>1, <2>2, <2>3, <2>4 DEF BrokerTypeOK
<1>3. \A c \in lost : conn[c] = "open"
  BY DEF Open
<1>4. UnusedIsNobodys' /\ MineIsOnes' /\ PublisherDials'
  BY <1>1, <1>3 DEF BrokerInv, OwnershipInv, UnusedIsNobodys, MineIsOnes,
     PublisherDials
<1>5. MineIsUnwatched'
  BY <1>t, <1>1 DEF BrokerInv, OwnershipInv, BrokerTypeOK, MineIsUnwatched
<1>6. WatcherDials' /\ ReconnectingIsLost'
  BY <1>1 DEF BrokerInv, OwnershipInv, WatcherDials, ReconnectingIsLost
<1>7. OpenIsOwned'
  <2> SUFFICES ASSUME NEW b \in Open'
               PROVE  \/ watcher'[b] \in {"starting", "watching"}
                      \/ \E d \in Dialers : mine'[d] = b
    BY DEF OpenIsOwned
  <2>1. b \in Open /\ b \notin lost
    BY <1>1 DEF Open
  <2> QED BY <2>1, <1>1 DEF BrokerInv, OwnershipInv, OpenIsOwned, Open
<1>8. WatchedIsOpen'
  <2> SUFFICES ASSUME ~early, \A c \in lost : watcher[c] = "watching"
               PROVE  WatchedIsOpen'
    <3>1. \A c \in lost : ~Unwatched(c) => watcher[c] = "watching"
      BY DEF BrokerInv, OwnershipInv, OpenIsOwned, Unwatched
    <3> QED BY <3>1, <1>1 DEF WatchedIsOpen
  <2>1. \A c \in Conns : watcher'[c] \in {"starting", "watching"}
                           => conn'[c] = "open"
    BY <1>1 DEF BrokerInv, WatchedIsOpen
  <2>2. \A d \in Dialers : mine'[d] # NoConn => conn'[mine'[d]] = "open"
    BY <1>t, <1>1 DEF BrokerInv, OwnershipInv, BrokerTypeOK, MineIsUnwatched,
       WatchedIsOpen
  <2>3. watcher'[shared'] \in Serving
    BY <1>t, <1>1 DEF BrokerInv, BrokerTypeOK, WatchedIsOpen, Serving
  <2> QED BY <2>1, <2>2, <2>3 DEF WatchedIsOpen
<1>9. SeenInv'
  BY <1>1 DEF BrokerInv, SeenInv, Open
<1>10. WorkerInv'
  BY <1>1 DEF BrokerInv, WorkerInv, Serving
<1> QED BY <1>2, <1>4, <1>5, <1>6, <1>7, <1>8, <1>9, <1>10
        DEF BrokerInv, OwnershipInv

(* The steps of a publisher outside connect() touch nobody else's state. *)
LEMMA PublisherKeepsInv ==
  ASSUME BrokerInv, NEW p \in Publishers,
         CurrentConn(p) \/ ConnectFails(p) \/ Reread(p) \/ AttemptEnds(p)
  PROVE  BrokerInv'
<1>t. BrokerTypeOK
  BY DEF BrokerInv, OwnershipInv
<1>1. /\ UNCHANGED <<process, up, conn, shared, watcher, mine, channel, early>>
      /\ \A q \in Publishers \ {p} : pc'[q] = pc[q] /\ got'[q] = got[q]
                                       /\ seen'[q] = seen[q]
      /\ mine[p] = NoConn
  <2>1. CASE CurrentConn(p)
    BY <1>t, <2>1 DEF CurrentConn, BrokerTypeOK, BrokerInv, OwnershipInv,
       PublisherDials
  <2>2. CASE ConnectFails(p)
    BY <1>t, <2>2 DEF ConnectFails, BrokerTypeOK
  <2>3. CASE Reread(p)
    BY <1>t, <2>3 DEF Reread, BrokerTypeOK, BrokerInv, OwnershipInv,
       PublisherDials
  <2>4. CASE AttemptEnds(p)
    BY <1>t, <2>4 DEF AttemptEnds, BrokerTypeOK, BrokerInv, OwnershipInv,
       PublisherDials
  <2> QED BY <2>1, <2>2, <2>3, <2>4
<1>2. BrokerTypeOK'
  <2>1. CASE CurrentConn(p)
    BY <1>t, <2>1 DEF CurrentConn, BrokerTypeOK, PublisherStates, Open
  <2>2. CASE ConnectFails(p)
    <3>1. failures' \in 0 .. MaxFailures
      BY <1>t, <2>2, BrokerAssumption DEF ConnectFails, BrokerTypeOK
    <3> QED BY <1>t, <2>2, <3>1 DEF ConnectFails, BrokerTypeOK, PublisherStates
  <2>3. CASE Reread(p)
    BY <1>t, <2>3 DEF Reread, BrokerTypeOK, PublisherStates
  <2>4. CASE AttemptEnds(p)
    BY <1>t, <2>4 DEF AttemptEnds, BrokerTypeOK, PublisherStates
  <2> QED BY <2>1, <2>2, <2>3, <2>4
<1>3. /\ UnusedIsNobodys' /\ MineIsUnwatched' /\ MineIsOnes'
      /\ WatcherDials' /\ ReconnectingIsLost' /\ OpenIsOwned'
      /\ WatchedIsOpen'
  BY <1>1 DEF BrokerInv, OwnershipInv, UnusedIsNobodys, MineIsUnwatched,
     MineIsOnes, WatcherDials, ReconnectingIsLost, OpenIsOwned, Open,
     WatchedIsOpen
<1>4. PublisherDials'
  BY <1>1 DEF BrokerInv, OwnershipInv, PublisherDials
<1>5. SeenInv'
  <2> SUFFICES ASSUME pc'[p] # "idle"
               PROVE  /\ Open \subseteq seen'[p]
                      /\ ~early /\ pc'[p] = "rereading" => shared \in seen'[p]
                      /\ ~early /\ pc'[p] = "using" => got'[p] \in seen'[p]
    BY <1>1 DEF BrokerInv, SeenInv, Open
  <2>1. CASE CurrentConn(p)
    BY <1>t, <2>1 DEF CurrentConn, BrokerTypeOK, Open
  <2>2. CASE ConnectFails(p)
    BY <1>t, <2>2 DEF ConnectFails, BrokerTypeOK
  <2>3. CASE Reread(p)
    BY <1>t, <2>3 DEF Reread, BrokerTypeOK, BrokerInv, SeenInv
  <2>4. CASE AttemptEnds(p)
    BY <1>t, <2>4 DEF AttemptEnds, BrokerTypeOK
  <2> QED BY <2>1, <2>2, <2>3, <2>4
<1>6. WorkerInv'
  <2> SUFFICES ASSUME process = "worker" PROVE WorkerInv'
    BY <1>1 DEF WorkerInv
  <2>1. pc[p] = "idle"
    BY DEF BrokerInv, WorkerInv
  <2> QED BY <2>1 DEF CurrentConn, ConnectFails, Reread, AttemptEnds
<1> QED BY <1>2, <1>3, <1>4, <1>5, <1>6 DEF BrokerInv, OwnershipInv

(* Every step preserves the invariant. *)
LEMMA NextKeepsInv ==
  ASSUME BrokerInv, [Next]_brokerVars
  PROVE  BrokerInv'
<1>1. ASSUME NEW d \in Dialers, Establish(d) \/ Store(d) PROVE BrokerInv'
  BY <1>1, EstablishKeepsInv, StoreKeepsInv
<1>2. ASSUME NEW p \in Publishers,
             CurrentConn(p) \/ ConnectFails(p) \/ Reread(p) \/ AttemptEnds(p)
      PROVE  BrokerInv'
  BY <1>2, PublisherKeepsInv
<1>3. ASSUME NEW c \in Conns, Watch(c) PROVE BrokerInv'
  BY <1>3, WatchKeepsInv
<1>4. ASSUME NEW c \in Conns, ConnectionDrops(c) PROVE BrokerInv'
  <2>1. {c} \in SUBSET Open /\ Lose({c}) /\ up' \in BOOLEAN
    BY <1>4 DEF ConnectionDrops, BrokerInv, OwnershipInv, BrokerTypeOK
  <2> QED BY <2>1, LoseKeepsInv
<1>5. CASE BrokerStops
  <2>1. Lose(Open) /\ up' \in BOOLEAN
    BY <1>5 DEF BrokerStops
  <2> QED BY <2>1, LoseKeepsInv
<1>6. ASSUME BrokerReturns \/ (\E k \in Consumers : Consume(k))
             \/ UNCHANGED brokerVars
      PROVE  BrokerInv'
  <2>1. UNCHANGED <<process, conn, shared, watcher, mine, pc, got, seen, early,
                    failures>>
    BY <1>6 DEF BrokerReturns, Consume, brokerVars
  <2>2. BrokerTypeOK'
    <3>1. up' \in BOOLEAN /\ channel' \in [Consumers -> Conns \cup {NoConn}]
      BY <1>6 DEF BrokerReturns, Consume, brokerVars, BrokerInv, OwnershipInv,
         BrokerTypeOK
    <3> QED BY <2>1, <3>1 DEF BrokerInv, OwnershipInv, BrokerTypeOK
  <2> QED BY <2>1, <2>2 DEF BrokerInv, OwnershipInv, UnusedIsNobodys,
     MineIsUnwatched, MineIsOnes, WatcherDials, PublisherDials,
     ReconnectingIsLost, OpenIsOwned, Open, WatchedIsOpen, SeenInv, WorkerInv
<1> QED BY <1>1, <1>2, <1>3, <1>4, <1>5, <1>6 DEF Next

LEMMA BrokerInvariant == BrokerSpec => []BrokerInv
<1>1. Init => BrokerInv
  BY InitBrokerInv
<1>2. BrokerInv /\ [Next]_brokerVars => BrokerInv'
  BY NextKeepsInv
<1> QED BY <1>1, <1>2, PTL DEF BrokerSpec

-----------------------------------------------------------------------------
(* The variables of the broker client keep their types. *)
THEOREM BrokerTypeCorrect == BrokerSpec => []BrokerTypeOK
<1>1. BrokerInv => BrokerTypeOK
  BY DEF BrokerInv, OwnershipInv
<1> QED BY <1>1, BrokerInvariant, PTL

(* watchAndReconnect: as long as no connection is lost unwatched, a shared *)
(* connection that is gone is being replaced.                              *)
THEOREM RepairIsUnderWay == BrokerSpec => []RepairUnderWay
<1>1. BrokerInv => RepairUnderWay
  BY DEF BrokerInv, OwnershipInv, BrokerTypeOK, WatchedIsOpen, Serving,
     RepairUnderWay
<1> QED BY <1>1, BrokerInvariant, PTL

(* The worker never has two connections open: the watchers hand over to    *)
(* each other, however often the connection is lost.                       *)
THEOREM OneConnectionInWorker == BrokerSpec => []WorkerHasOneConnection
<1>1. ASSUME BrokerInv, process = "worker", NEW c \in Open, NEW e \in Open
      PROVE  c = e
  <2>1. \A d \in Dialers : mine[d] # NoConn
          => d \in Conns /\ watcher[d] = "reconnecting"
    BY <1>1 DEF BrokerInv, OwnershipInv, WorkerInv, PublisherDials,
       WatcherDials, Dialers
  <2>2. \A b \in Open : \/ watcher[b] \in {"starting", "watching"}
                        \/ \E d \in Dialers : mine[d] = b /\ mine[d] # NoConn
    BY <1>1, BrokerAssumption DEF BrokerInv, OwnershipInv, OpenIsOwned, Open
  <2>3. \A b, d \in Conns : watcher[b] \in Serving /\ watcher[d] \in Serving
                              => b = d
    BY <1>1 DEF BrokerInv, WorkerInv
  <2>4. CASE watcher[c] \in {"starting", "watching"}
    BY <2>1, <2>2, <2>3, <2>4 DEF Serving, Open
  <2>5. CASE \E d \in Dialers : mine[d] = c /\ mine[d] # NoConn
    BY <2>1, <2>2, <2>3, <2>5 DEF Serving, Open
  <2> QED BY <2>2, <2>4, <2>5
<1>2. BrokerInv => WorkerHasOneConnection
  BY <1>1 DEF WorkerHasOneConnection
<1> QED BY <1>2, BrokerInvariant, PTL

(* currentConn: what a publisher is given was open during its call. *)
THEOREM LiveIsHandedOut == BrokerSpec => []HandsOutLive
<1>1. BrokerInv => HandsOutLive
  BY DEF BrokerInv, SeenInv, HandsOutLive
<1> QED BY <1>1, BrokerInvariant, PTL
=============================================================================
