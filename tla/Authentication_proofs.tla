---------------------- MODULE Authentication_proofs ----------------------
(***************************************************************************)
(* Proofs about the two ends of authentication, for any number of users,   *)
(* requests, tokens, failures and kills: first the mobile client's         *)
(* exchange of an expired token (RefreshQueue), then the service's         *)
(* accounts, sessions and lock-outs (Sessions).                            *)
(***************************************************************************)
EXTENDS RefreshQueue, Sessions, SequenceTheorems, FiniteSetTheorems, TLAPS

-----------------------------------------------------------------------------
(***************************************************************************)
(* The client.  The inductive invariant says who waits where: a handler in *)
(* the queue or in its copy belongs to a request that has not been         *)
(* answered, it is in one of the two, and while nobody killed the          *)
(* application the stored refresh token is the server's whenever an        *)
(* exchange may begin.                                                     *)
(***************************************************************************)
Leads(r) == pc[r] \in LeaderStates

OneLeader == \A r, s \in Requests : Leads(r) /\ Leads(s) => r = s

FlagTells == isRefreshing <=> \E r \in Requests : Leads(r)

WaitersAreQueued ==
  /\ \A q \in retryQueue \cup draining : pc[q] = "queued"
  /\ retryQueue \cap draining = {}

OpenIsUnanswered ==
  \A r \in Requests :
    /\ answers[r] <= 1
    /\ pc[r] \notin {"done", "gone"} => answers[r] = 0

TokensFollow ==
  kills = 0 =>
    /\ ~reused
    /\ ~isRefreshing => refresh \in {0, live}
    /\ \A r \in Requests :
         /\ pc[r] = "post" => posted = live
         /\ pc[r] \in {"store_jwt", "store_refresh"} => live = issued
         /\ pc[r] = "drain" => refresh = live

RefreshInv ==
  /\ RefreshQueueTypeOK
  /\ OneLeader
  /\ FlagTells
  /\ WaitersAreQueued
  /\ OpenIsUnanswered
  /\ TokensFollow

PcStates == {"idle", "sent", "denied", "queued", "done", "gone"} \cup LeaderStates

LEMMA InitRefreshInv == Init => RefreshInv
<1> SUFFICES ASSUME Init PROVE RefreshInv
  OBVIOUS
<1>1. {0, 1} \subseteq Tokens /\ 0 \in 0 .. MaxKills
  BY RefreshQueueAssumption DEF Tokens
<1>2. RefreshQueueTypeOK
  BY <1>1 DEF Init, RefreshQueueTypeOK
<1>3. QED
  BY <1>2 DEF Init, RefreshInv, LeaderStates, OneLeader, FlagTells, Leads,
     WaitersAreQueued, OpenIsUnanswered, TokensFollow

(* A request moves between states in which it does not lead, and is not in *)
(* the queue.                                                              *)
LEMMA OutsideKeepsRefreshInv ==
  ASSUME RefreshInv, NEW r \in Requests,
         Send(r) \/ Answered(r) \/ Unauthorized(r) \/ NoRefreshToken(r)
  PROVE  RefreshInv'
<1> USE DEF RefreshInv, RefreshQueueTypeOK
<1>1. PICK from \in {"idle", "sent", "denied"}, to \in {"sent", "denied", "done"} :
        /\ pc[r] = from
        /\ to # from
        /\ \A x \in Requests : pc'[x] = IF x = r THEN to ELSE pc[x]
        /\ \A x \in Requests :
             answers'[x] = IF x = r /\ to = "done" THEN answers[x] + 1 ELSE answers[x]
        /\ pc' \in [Requests -> PcStates]
        /\ answers' \in [Requests -> Nat]
  BY DEF Send, Answered, Unauthorized, NoRefreshToken, Goes, Answer, PcStates
<1>2. /\ UNCHANGED <<isRefreshing, retryQueue, draining, posted, storageVars, serverVars, kills>>
      /\ sentWith' \in [Requests -> Tokens]
  BY DEF Send, Answered, Unauthorized, NoRefreshToken
<1>3. RefreshQueueTypeOK'
  BY <1>1, <1>2 DEF PcStates, storageVars, serverVars
<1>4. OneLeader' /\ FlagTells' /\ TokensFollow'
  BY <1>1, <1>2 DEF OneLeader, FlagTells, Leads, LeaderStates, TokensFollow,
     storageVars, serverVars
<1>5. WaitersAreQueued' /\ OpenIsUnanswered'
  BY <1>1, <1>2 DEF WaitersAreQueued, OpenIsUnanswered
<1>6. QED
  BY <1>3, <1>4, <1>5

(* Becoming the leader, or joining its queue. *)
LEMMA EnteringKeepsRefreshInv ==
  ASSUME RefreshInv, NEW r \in Requests, Lead(r) \/ Join(r)
  PROVE  RefreshInv'
<1> USE DEF RefreshInv, RefreshQueueTypeOK
<1>1. CASE Lead(r)
  <2>1. /\ pc[r] = "denied" /\ ~isRefreshing /\ refresh # 0
        /\ isRefreshing' = TRUE /\ posted' = refresh
        /\ \A x \in Requests : pc'[x] = IF x = r THEN "post" ELSE pc[x]
        /\ pc' \in [Requests -> PcStates]
        /\ UNCHANGED <<sentWith, answers, retryQueue, draining, jwt, refresh, live,
                       issued, expired, reused, kills>>
    BY <1>1 DEF Lead, Goes, PcStates, LeaderStates, storageVars, serverVars
  <2>2. \A x \in Requests : ~Leads(x)
    BY <2>1 DEF FlagTells
  <2>3. RefreshQueueTypeOK'
    BY <2>1 DEF PcStates
  <2>4. OneLeader' /\ FlagTells' /\ TokensFollow'
    BY <2>1, <2>2 DEF OneLeader, FlagTells, Leads, LeaderStates, TokensFollow
  <2>5. WaitersAreQueued' /\ OpenIsUnanswered'
    BY <2>1 DEF WaitersAreQueued, OpenIsUnanswered
  <2>6. QED
    BY <2>3, <2>4, <2>5
<1>2. CASE Join(r)
  <2>1. /\ pc[r] = "denied"
        /\ \A x \in Requests : pc'[x] = IF x = r THEN "queued" ELSE pc[x]
        /\ pc' \in [Requests -> PcStates]
        /\ retryQueue' = retryQueue \cup {r}
        /\ UNCHANGED <<sentWith, answers, isRefreshing, draining, posted, jwt, refresh,
                       live, issued, expired, reused, kills>>
    BY <1>2 DEF Join, Goes, PcStates, storageVars, serverVars
  <2>2. RefreshQueueTypeOK'
    BY <2>1 DEF PcStates
  <2>3. OneLeader' /\ FlagTells' /\ TokensFollow'
    BY <2>1 DEF OneLeader, FlagTells, Leads, LeaderStates, TokensFollow
  <2>4. WaitersAreQueued' /\ OpenIsUnanswered'
    BY <2>1 DEF WaitersAreQueued, OpenIsUnanswered
  <2>5. QED
    BY <2>2, <2>3, <2>4
<1>3. QED
  BY <1>1, <1>2

(* The leader's steps between its first and its last: it stays the leader, *)
(* and nobody is answered.                                                 *)
LEMMA LeadingKeepsRefreshInv ==
  ASSUME RefreshInv, NEW r \in Requests,
         RefreshGranted(r) \/ RefreshDenied(r) \/ RefreshUnanswered(r) \/ StoreJwt(r)
           \/ StoreRefresh(r) \/ Throws(r) \/ DropJwt(r)
  PROVE  RefreshInv'
<1> USE RefreshQueueAssumption DEF RefreshInv, RefreshQueueTypeOK
<1>1. PICK to \in LeaderStates \ {"post"} :
        /\ \A x \in Requests : pc'[x] = IF x = r THEN to ELSE pc[x]
        /\ pc' \in [Requests -> PcStates]
  BY DEF RefreshGranted, RefreshDenied, RefreshUnanswered, StoreJwt, StoreRefresh,
     Throws, DropJwt, Goes, LeaderStates, PcStates
<1>2. /\ Leads(r)
      /\ UNCHANGED <<sentWith, answers, isRefreshing, posted, kills>>
  BY DEF RefreshGranted, RefreshDenied, RefreshUnanswered, StoreJwt, StoreRefresh,
     Throws, DropJwt, Goes, Leads, LeaderStates
<1>3. \A x \in Requests : x # r => ~Leads(x) /\ ~Leads(x)'
  BY <1>1, <1>2 DEF OneLeader, Leads
<1>4. OneLeader' /\ FlagTells'
  BY <1>1, <1>2, <1>3 DEF OneLeader, FlagTells, Leads
<1>5. OpenIsUnanswered'
  BY <1>1, <1>2 DEF OpenIsUnanswered, Leads, LeaderStates
<1>6. \/ UNCHANGED <<retryQueue, draining>>
      \/ retryQueue' = {} /\ draining' = retryQueue
  BY DEF RefreshGranted, RefreshDenied, RefreshUnanswered, StoreJwt, StoreRefresh,
     Throws, DropJwt
<1>7. WaitersAreQueued'
  BY <1>1, <1>2, <1>6 DEF WaitersAreQueued, Leads, LeaderStates
<1>8. /\ jwt' \in Tokens /\ refresh' \in Tokens /\ live' \in Tokens
      /\ issued' \in Tokens /\ expired' \subseteq Tokens /\ reused' \in BOOLEAN
  <2>1. /\ issued' \in {issued, issued + 1} /\ (issued' # issued => issued < MaxTokens)
        /\ live' \in {live, 0, issued'}
        /\ jwt' \in {jwt, 0, issued} /\ refresh' \in {refresh, issued}
        /\ expired' = expired /\ reused' \in {reused, TRUE}
    BY DEF RefreshGranted, RefreshDenied, RefreshUnanswered, StoreJwt, StoreRefresh,
       Throws, DropJwt, Rotate, storageVars, serverVars
  <2>2. 0 \in Tokens /\ issued' \in Tokens
    BY <2>1 DEF Tokens
  <2>3. QED
    BY <2>1, <2>2
<1>9. RefreshQueueTypeOK'
  BY <1>1, <1>2, <1>6, <1>8 DEF PcStates
<1>10. ASSUME kills = 0
       PROVE  /\ ~reused'
              /\ to \in {"store_jwt", "store_refresh"} => live' = issued'
              /\ to = "drain" => refresh' = live'
  <2>1. CASE RefreshGranted(r) \/ RefreshUnanswered(r)
    BY <1>1, <1>10, <2>1 DEF RefreshGranted, RefreshUnanswered, Goes, Rotate,
       TokensFollow, serverVars
  <2>2. CASE RefreshDenied(r)
    BY <1>10, <2>2 DEF RefreshDenied, Goes, TokensFollow
  <2>3. CASE StoreJwt(r) \/ StoreRefresh(r) \/ Throws(r) \/ DropJwt(r)
    BY <1>1, <1>10, <2>3 DEF StoreJwt, StoreRefresh, Throws, DropJwt, Goes,
       TokensFollow, storageVars, serverVars
  <2>4. QED
    BY <2>1, <2>2, <2>3
<1>11. TokensFollow'
  BY <1>1, <1>2, <1>3, <1>4, <1>10 DEF TokensFollow, Leads, LeaderStates, FlagTells
<1>12. QED
  BY <1>4, <1>5, <1>7, <1>9, <1>11

(* The leader answers handlers: one of the copy, itself, or itself and the *)
(* queue.  Each of them was waiting, and waits no more.                    *)
LEMMA AnsweringKeepsRefreshInv ==
  ASSUME RefreshInv, NEW r \in Requests,
         RetryQueued(r) \/ RetrySucceeds(r) \/ DropRefresh(r)
  PROVE  RefreshInv'
<1> USE DEF RefreshInv, RefreshQueueTypeOK
<1>1. Leads(r) /\ \A x \in Requests : x # r => ~Leads(x)
  BY DEF RetryQueued, RetrySucceeds, DropRefresh, Leads, LeaderStates, OneLeader
<1>2. PICK rs \in SUBSET Requests :
        /\ Answer(rs)
        /\ rs \subseteq retryQueue \cup draining \cup {r}
        /\ retryQueue' \subseteq retryQueue \ rs
        /\ draining' \subseteq draining \ rs
        /\ isRefreshing' = (r \notin rs)
        /\ refresh' = refresh \/ (r \in rs /\ refresh' = 0)
  <2>1. CASE RetryQueued(r)
    <3>1. PICK q \in draining : Answer({q}) /\ draining' = draining \ {q}
      BY <2>1 DEF RetryQueued
    <3>2. q # r /\ q \notin retryQueue
      BY <1>1, <3>1 DEF WaitersAreQueued, Leads, LeaderStates
    <3>3. isRefreshing
      BY <1>1 DEF FlagTells
    <3>4. WITNESS {q} \in SUBSET Requests
    <3>5. QED
      BY <2>1, <3>1, <3>2, <3>3 DEF RetryQueued, storageVars
  <2>2. CASE RetrySucceeds(r)
    <3>1. r \notin retryQueue
      BY <1>1 DEF WaitersAreQueued, Leads, LeaderStates
    <3>2. WITNESS {r} \in SUBSET Requests
    <3>3. QED
      BY <2>2, <3>1 DEF RetrySucceeds, storageVars
  <2>3. CASE DropRefresh(r)
    <3>1. r \notin draining
      BY <1>1 DEF WaitersAreQueued, Leads, LeaderStates
    <3>2. WITNESS retryQueue \cup {r} \in SUBSET Requests
    <3>3. QED
      BY <2>3, <3>1 DEF DropRefresh, WaitersAreQueued
  <2>4. QED
    BY <2>1, <2>2, <2>3
<1>3. UNCHANGED <<sentWith, posted, jwt, live, issued, expired, reused, kills>>
  BY DEF RetryQueued, RetrySucceeds, DropRefresh, storageVars, serverVars
<1>4. /\ \A x \in Requests : pc'[x] = IF x \in rs THEN "done" ELSE pc[x]
      /\ \A x \in Requests : answers'[x] = IF x \in rs THEN answers[x] + 1 ELSE answers[x]
      /\ pc' \in [Requests -> PcStates]
      /\ answers' \in [Requests -> Nat]
  BY <1>2 DEF Answer, PcStates
<1>5. \A x \in rs : answers[x] = 0
  BY <1>1, <1>2 DEF WaitersAreQueued, OpenIsUnanswered, Leads, LeaderStates
<1>6. RefreshQueueTypeOK'
  <2>1. 0 \in Tokens
    BY RefreshQueueAssumption DEF Tokens
  <2>2. QED
    BY <1>2, <1>3, <1>4, <2>1 DEF PcStates
<1>7. WaitersAreQueued' /\ OpenIsUnanswered'
  BY <1>2, <1>4, <1>5 DEF WaitersAreQueued, OpenIsUnanswered
<1>8. \A x \in Requests : Leads(x)' <=> x = r /\ r \notin rs
  BY <1>1, <1>4 DEF Leads, LeaderStates
<1>9. OneLeader' /\ FlagTells'
  BY <1>2, <1>8 DEF OneLeader, FlagTells
<1>10. TokensFollow'
  <2> SUFFICES ASSUME kills = 0 PROVE TokensFollow'
    BY <1>3 DEF TokensFollow
  <2>1. ~isRefreshing' => refresh' \in {0, live}
    BY <1>1, <1>2 DEF RetryQueued, RetrySucceeds, DropRefresh, TokensFollow,
       storageVars, Leads
  <2>2. \A x \in Requests : x \notin rs /\ refresh' # refresh => ~Leads(x)
    BY <1>1, <1>2
  <2>3. QED
    BY <1>3, <1>4, <2>1, <2>2 DEF TokensFollow, Leads, LeaderStates
<1>11. QED
  BY <1>6, <1>7, <1>9, <1>10

(* A token expires, or the application ends. *)
LEMMA EnvironmentKeepsRefreshInv ==
  ASSUME RefreshInv, Expire \/ AppKilled
  PROVE  RefreshInv'
<1> USE RefreshQueueAssumption DEF RefreshInv, RefreshQueueTypeOK
<1>1. CASE Expire
  <2>1. /\ UNCHANGED <<pc, sentWith, answers, isRefreshing, retryQueue, draining, posted,
                       jwt, refresh, live, issued, reused, kills>>
        /\ expired' = expired \cup {issued}
    BY <1>1 DEF Expire, clientVars, storageVars
  <2>2. QED
    BY <2>1 DEF OneLeader, FlagTells, Leads, WaitersAreQueued, OpenIsUnanswered,
       TokensFollow
<1>2. CASE AppKilled
  <2>1. /\ \A x \in Requests :
             pc'[x] = IF pc[x] \in {"idle", "done"} THEN pc[x] ELSE "gone"
        /\ pc' \in [Requests -> PcStates]
        /\ isRefreshing' = FALSE /\ retryQueue' = {} /\ draining' = {}
        /\ kills' \in 0 .. MaxKills /\ kills' # 0
        /\ UNCHANGED <<sentWith, answers, posted, jwt, refresh, live, issued, expired,
                       reused>>
    BY <1>2 DEF AppKilled, PcStates, storageVars, serverVars
  <2>2. RefreshQueueTypeOK'
    BY <2>1 DEF PcStates
  <2>3. \A x \in Requests : ~Leads(x)'
    BY <2>1 DEF Leads, LeaderStates
  <2>4. OneLeader' /\ FlagTells' /\ WaitersAreQueued' /\ TokensFollow'
    BY <2>1, <2>3 DEF OneLeader, FlagTells, WaitersAreQueued, TokensFollow
  <2>5. OpenIsUnanswered'
    BY <2>1 DEF OpenIsUnanswered
  <2>6. QED
    BY <2>2, <2>4, <2>5
<1>3. QED
  BY <1>1, <1>2

LEMMA RefreshInvariant == SafetySpec => []RefreshInv
<1>1. RefreshInv /\ [Next]_vars => RefreshInv'
  <2>1. RefreshInv /\ UNCHANGED vars => RefreshInv'
    BY DEF vars, clientVars, storageVars, serverVars, RefreshInv, RefreshQueueTypeOK,
       OneLeader, FlagTells, Leads, WaitersAreQueued, OpenIsUnanswered, TokensFollow
  <2>2. QED
    BY <2>1, OutsideKeepsRefreshInv, EnteringKeepsRefreshInv, LeadingKeepsRefreshInv,
       AnsweringKeepsRefreshInv, EnvironmentKeepsRefreshInv
       DEF Next, Progress, Handle401
<1>2. QED
  BY <1>1, InitRefreshInv, PTL DEF SafetySpec

(* The client's variables have their types. *)
THEOREM RefreshTypeCorrect == SafetySpec => []RefreshQueueTypeOK
<1>1. RefreshInv => RefreshQueueTypeOK
  BY DEF RefreshInv
<1>2. QED
  BY <1>1, RefreshInvariant, PTL

(* _handle401Error runs one exchange at a time, and presents no refresh    *)
(* token twice unless the application was killed.                          *)
THEOREM ExchangesOneByOne == SafetySpec => []OneExchange
<1>1. RefreshInv => OneExchange
  <2> SUFFICES ASSUME RefreshInv PROVE OneExchange
    OBVIOUS
  <2>1. kills > 0 \/ kills = 0
    BY DEF RefreshInv, RefreshQueueTypeOK
  <2>2. QED
    BY <2>1 DEF RefreshInv, OneLeader, FlagTells, Leads, TokensFollow, OneExchange
<1>2. QED
  BY <1>1, RefreshInvariant, PTL

(* No handler is completed twice, whichever branch the exchanges take.     *)
THEOREM HandlersAnsweredOnce == SafetySpec => []HandlerAnsweredOnce
<1>1. RefreshInv => HandlerAnsweredOnce
  BY DEF RefreshInv, OpenIsUnanswered, HandlerAnsweredOnce
<1>2. QED
  BY <1>1, RefreshInvariant, PTL

-----------------------------------------------------------------------------
(***************************************************************************)
(* The service.  First what is true of the list of requests: each is at a  *)
(* step its operation has, an exchange presents a token that was issued to *)
(* its user, and a request makes one code or counts one failure, and one   *)
(* more for each count of its that was not answered.                       *)
(***************************************************************************)
Fits(op, step) ==
  \/ op \in {"login", "pin", "reset"} /\ step \in {"verify", "count", "window", "clear"}
  \/ op = "login" /\ step = "insert"
  \/ op = "reset" /\ step \in {"update", "drop", "void"}
  \/ op = "change" /\ step = "update"
  \/ op = "forgot" /\ step \in {"store", "clear"}
  \/ op = "refresh" /\ step \in Exchanging \cup {"revokeAll"}
  \/ op = "logout" /\ step = "revokeAll"
  \/ op = "none" /\ step = "done"

RequestsFit == \A r \in DOMAIN req : Fits(req[r].op, req[r].step)

Pending(k) == {r \in DOMAIN req : Counter(r) = k /\ req[r].step \in {"verify", "count"}}

Storing == {r \in DOMAIN req : req[r].step = "store"}

EachCountsOnce ==
  /\ \A k \in Counters : fails[k].n + Cardinality(Pending(k)) <= Len(req) + faults
  /\ codes + Cardinality(Storing) <= Len(req)

ShapeInv == SessionsTypeOK /\ RequestsFit /\ EachCountsOnce

(* A fact to cite: the lists are functions on their positions. *)
LEMMA ListsAreFunctions ==
  ASSUME SessionsTypeOK
  PROVE  /\ Len(req) \in Nat /\ DOMAIN req = 1 .. Len(req)
         /\ req \in [1 .. Len(req) -> Request]
         /\ Len(tokens) \in Nat /\ DOMAIN tokens = 1 .. Len(tokens)
         /\ tokens \in [1 .. Len(tokens) -> RefreshToken]
         /\ \A t \in DOMAIN tokens : tokens[t].root \in DOMAIN tokens
<1>1. /\ Len(req) \in Nat /\ DOMAIN req = 1 .. Len(req)
      /\ req \in [1 .. Len(req) -> Request]
  BY LenProperties DEF SessionsTypeOK
<1>2. /\ Len(tokens) \in Nat /\ DOMAIN tokens = 1 .. Len(tokens)
      /\ tokens \in [1 .. Len(tokens) -> RefreshToken]
  BY LenProperties DEF SessionsTypeOK
<1>3. \A t \in DOMAIN tokens : tokens[t].root \in DOMAIN tokens
  BY <1>2 DEF SessionsTypeOK
<1>4. QED
  BY <1>1, <1>2, <1>3

(* What Begin does: the new request is the last, the others stay. *)
LEMMA BeginAppends ==
  ASSUME SessionsTypeOK, NEW op \in Ops, NEW u \in Users,
         NEW arg \in Nat \cup Passwords, NEW step \in Steps, Begin(op, u, arg, step)
  PROVE  /\ req' \in Seq(Request)
         /\ Len(req) < MaxRequests /\ Len(req') = Len(req) + 1
         /\ DOMAIN req' = DOMAIN req \cup {Len(req) + 1}
         /\ Len(req) + 1 \notin DOMAIN req
         /\ \A i \in DOMAIN req : req'[i] = req[i]
         /\ req'[Len(req) + 1].op = op /\ req'[Len(req) + 1].user = u
         /\ req'[Len(req) + 1].arg = arg /\ req'[Len(req) + 1].step = step
<1> DEFINE new == [op |-> op, user |-> u, arg |-> arg, step |-> step]
<1>1. /\ new \in Request
      /\ new.op = op /\ new.user = u /\ new.arg = arg /\ new.step = step
  BY DEF Request
<1>2. req' = Append(req, new) /\ Len(req) < MaxRequests
  BY DEF Begin
<1>3. req \in Seq(Request)
  BY DEF SessionsTypeOK
<1> HIDE DEF new
<1>4. /\ Append(req, new) \in Seq(Request)
      /\ Len(Append(req, new)) = Len(req) + 1
      /\ \A i \in 1 .. Len(req) : Append(req, new)[i] = req[i]
      /\ Append(req, new)[Len(req) + 1] = new
  BY <1>1, <1>3, AppendProperties
<1>5. Len(req) \in Nat /\ DOMAIN req = 1 .. Len(req)
  BY ListsAreFunctions
<1>6. DOMAIN req' = 1 .. Len(req) + 1
  BY <1>2, <1>4, LenProperties
<1>7. QED
  BY <1>1, <1>2, <1>4, <1>5, <1>6

(* What Goto does: the request is at the new step, or answered and         *)
(* forgotten.                                                              *)
LEMMA GotoMoves ==
  ASSUME SessionsTypeOK, NEW r \in DOMAIN req, NEW step \in Steps, Goto(r, step)
  PROVE  /\ req' \in Seq(Request)
         /\ Len(req') = Len(req) /\ DOMAIN req' = DOMAIN req
         /\ \A i \in DOMAIN req : i # r => req'[i] = req[i]
         /\ req'[r].step = step /\ req'[r].user = req[r].user
         /\ step # "done" => req'[r].op = req[r].op /\ req'[r].arg = req[r].arg
         /\ step = "done" => req'[r].op = "none" /\ req'[r].arg = 0
<1> DEFINE new == IF step = "done"
                    THEN [op |-> "none", user |-> req[r].user, arg |-> 0, step |-> step]
                    ELSE [req[r] EXCEPT !.step = step]
<1>1. req[r] \in Request /\ DOMAIN req = 1 .. Len(req)
  BY ListsAreFunctions
<1>2. /\ new \in Request /\ new.step = step /\ new.user = req[r].user
      /\ step # "done" => new.op = req[r].op /\ new.arg = req[r].arg
      /\ step = "done" => new.op = "none" /\ new.arg = 0
  BY <1>1 DEF Request, Ops
<1>3. req' = [req EXCEPT ![r] = new]
  BY DEF Goto
<1>4. req \in Seq(Request)
  BY DEF SessionsTypeOK
<1> HIDE DEF new
<1>5. /\ req' \in Seq(Request) /\ Len(req') = Len(req)
      /\ \A j \in 1 .. Len(req) : req'[j] = IF j = r THEN new ELSE req[j]
  BY <1>1, <1>2, <1>3, <1>4, ExceptSeq
<1>6. DOMAIN req' = DOMAIN req
  BY <1>3
<1>7. QED
  BY <1>1, <1>2, <1>5, <1>6

-----------------------------------------------------------------------------
(* Every request that begins is at a first step of its operation. *)
Begins ==
  \E op \in Ops, u \in Users, arg \in Nat \cup Passwords, step \in Steps :
    /\ Begin(op, u, arg, step)
    /\ Fits(op, step)
    /\ op = "refresh" => arg \in DOMAIN tokens /\ u = tokens[arg].user

(* Every request that goes on goes to a step of its operation; it does not *)
(* start again, it counts after it verified or because its count was not     *)
(* answered, and an exchange stays one.                                    *)
Moves(r) ==
  \E step \in Steps \ {"verify", "store", "user", "revokeAll"} :
    /\ Goto(r, step)
    /\ step # "done" => Fits(req[r].op, step)
    /\ step = "count" => req[r].step \in {"verify", "count"}

Starts ==
  \/ \E u \in Users, p \in Passwords : StartLogin(u, p) \/ StartChangePassword(u, p)
  \/ \E u \in Users : StartForgot(u)
  \/ \E u \in Users, pin \in 0..2 : StartPin(u, pin)
  \/ \E u \in Users, c \in 0..codes : StartReset(u, c)
  \/ \E t \in DOMAIN tokens : StartRefresh(t) \/ StartLogout(t)

GoesOn(r) == Proceed(r) \/ RequestFails(r) \/ CountUnanswered(r) \/ DelFails(r)

LEMMA StartsBegin ==
  ASSUME SessionsTypeOK, Starts
  PROVE  Begins
<1> USE DEF Fits, Ops, Steps, Exchanging
<1>1. ASSUME NEW u \in Users, NEW p \in Passwords,
             StartLogin(u, p) \/ StartChangePassword(u, p)
      PROVE  Begins
  BY <1>1 DEF StartLogin, StartChangePassword, Begins
<1>2. ASSUME NEW u \in Users, StartForgot(u)
      PROVE  Begins
  BY <1>2 DEF StartForgot, Begins
<1>3. ASSUME NEW u \in Users, NEW pin \in 0..2, StartPin(u, pin)
      PROVE  Begins
  BY <1>3 DEF StartPin, Begins
<1>4. ASSUME NEW u \in Users, NEW c \in 0..codes, StartReset(u, c)
      PROVE  Begins
  BY <1>4 DEF StartReset, Begins
<1>5. ASSUME NEW t \in DOMAIN tokens, StartRefresh(t) \/ StartLogout(t)
      PROVE  Begins
  <2>1. tokens[t].user \in Users /\ t \in Nat
    BY ListsAreFunctions DEF RefreshToken
  <2>2. QED
    BY <1>5, <2>1 DEF StartRefresh, StartLogout, Begins
<1>6. QED
  BY <1>1, <1>2, <1>3, <1>4, <1>5 DEF Starts

LEMMA GoingOnMoves ==
  ASSUME RequestsFit, NEW r \in DOMAIN req, GoesOn(r)
  PROVE  Moves(r)
<1> USE DEF Fits, Steps, Exchanging
<1>0. Fits(req[r].op, req[r].step)
  BY DEF RequestsFit
<1>1. CASE VerifyLogin(r) \/ VerifyPin(r) \/ VerifyCode(r)
  BY <1>1 DEF VerifyLogin, VerifyPin, VerifyCode, At, Moves
<1>2. CASE Count(r) \/ SetExpiry(r) \/ ClearFailures(r)
  BY <1>0, <1>2 DEF Count, SetExpiry, ClearFailures, AfterClear, Moves
<1>3. CASE StoreCode(r) \/ DropCode(r) \/ \E p \in Passwords : UpdatePassword(r, p)
  BY <1>0, <1>3 DEF StoreCode, DropCode, UpdatePassword, Moves
<1>4. CASE \/ CheckUser(r) \/ RevokeRefreshToken(r) \/ InsertRefreshToken(r)
           \/ RevokeAllUserRefreshTokens(r)
  BY <1>4 DEF CheckUser, RevokeRefreshToken, InsertRefreshToken,
     RevokeAllUserRefreshTokens, At, Moves
<1>5. CASE RequestFails(r) \/ CountUnanswered(r) \/ DelFails(r)
  BY <1>0, <1>5 DEF RequestFails, CountUnanswered, DelFails, AfterClear, Moves
<1>6. QED
  BY <1>1, <1>2, <1>3, <1>4, <1>5 DEF GoesOn, Proceed

-----------------------------------------------------------------------------
(* What the three statements on refresh_tokens do to its rows. *)
LEMMA InsertAppends ==
  ASSUME SessionsTypeOK, RequestsFit, NEW r \in DOMAIN req, InsertRefreshToken(r)
  PROVE  LET new == Len(tokens) + 1
         IN  /\ tokens' \in Seq(RefreshToken)
             /\ DOMAIN tokens' = DOMAIN tokens \cup {new}
             /\ new \notin DOMAIN tokens
             /\ \A t \in DOMAIN tokens : tokens'[t] = tokens[t]
             /\ tokens'[new].user = req[r].user
             /\ tokens'[new].live
             /\ tokens'[new].root \in 1 .. new
             /\ \/ req[r].op = "login" /\ tokens'[new].root = new
                \/ /\ req[r].op = "refresh"
                   /\ tokens'[new].root = tokens[req[r].arg].root
<1> DEFINE new == Len(tokens) + 1
           root == IF req[r].op = "login" THEN new ELSE tokens[req[r].arg].root
           row == [user |-> req[r].user, root |-> root, live |-> TRUE]
<1>1. req[r].op \in {"login", "refresh"} /\ req[r].user \in Users
  BY ListsAreFunctions DEF RequestsFit, Fits, InsertRefreshToken, Exchanging, Request
<1>2. /\ new \in Nat /\ DOMAIN tokens = 1 .. Len(tokens) /\ Len(tokens) \in Nat
      /\ new \notin DOMAIN tokens
  BY ListsAreFunctions
<1>3. root \in 1 .. new
  BY <1>1, <1>2, ListsAreFunctions DEF SessionsTypeOK
<1>4. tokens' = Append(tokens, row)
  BY DEF InsertRefreshToken
<1>5. row \in RefreshToken /\ row.user = req[r].user /\ row.root = root /\ row.live
  BY <1>1, <1>2, <1>3 DEF RefreshToken
<1>6. tokens \in Seq(RefreshToken)
  BY DEF SessionsTypeOK
<1> HIDE DEF row
<1>7. /\ tokens' \in Seq(RefreshToken) /\ Len(tokens') = new
      /\ \A t \in 1 .. Len(tokens) : tokens'[t] = tokens[t]
      /\ tokens'[new] = row
  BY <1>4, <1>5, <1>6, AppendProperties
<1>8. DOMAIN tokens' = 1 .. new
  BY <1>7, LenProperties
<1>9. QED
  BY <1>1, <1>2, <1>3, <1>5, <1>7, <1>8

LEMMA RevokeOnlyRevokes ==
  ASSUME SessionsTypeOK, RequestsFit, NEW r \in DOMAIN req, RevokeRefreshToken(r)
  PROVE  /\ tokens' \in Seq(RefreshToken)
         /\ DOMAIN tokens' = DOMAIN tokens
         /\ req[r].arg \in DOMAIN tokens
         /\ \A t \in DOMAIN tokens :
              /\ tokens'[t].user = tokens[t].user
              /\ tokens'[t].root = tokens[t].root
              /\ tokens'[t].live = (tokens[t].live /\ t # req[r].arg)
<1>1. req[r].op = "refresh" /\ req[r].arg \in DOMAIN tokens
  BY DEF RevokeRefreshToken, At, SessionsTypeOK
<1>2. PICK a \in DOMAIN tokens : a = req[r].arg
  BY <1>1
<1>3. tokens' = [tokens EXCEPT ![a] = [tokens[a] EXCEPT !.live = FALSE]]
  BY <1>2 DEF RevokeRefreshToken
<1>4. tokens \in Seq(RefreshToken) /\ DOMAIN tokens = 1 .. Len(tokens)
  BY ListsAreFunctions DEF SessionsTypeOK
<1>5. \A t \in DOMAIN tokens : tokens[t] \in RefreshToken
  BY ListsAreFunctions
<1>6. [tokens[a] EXCEPT !.live = FALSE] \in RefreshToken
  BY <1>5 DEF RefreshToken
<1>7. tokens' \in Seq(RefreshToken) /\ DOMAIN tokens' = DOMAIN tokens
  BY <1>2, <1>3, <1>4, <1>6, ExceptSeq
<1>8. QED
  BY <1>1, <1>2, <1>3, <1>5, <1>7 DEF RefreshToken

LEMMA RevokeAllOnlyRevokes ==
  ASSUME SessionsTypeOK, NEW r \in DOMAIN req, RevokeAllUserRefreshTokens(r)
  PROVE  /\ tokens' \in Seq(RefreshToken)
         /\ DOMAIN tokens' = DOMAIN tokens
         /\ \A t \in DOMAIN tokens :
              /\ tokens'[t].user = tokens[t].user
              /\ tokens'[t].root = tokens[t].root
              /\ tokens'[t].live = (tokens[t].live /\ tokens[t].user # req[r].user)
<1> DEFINE own == {t \in DOMAIN tokens : tokens[t].user = req[r].user}
<1>1. tokens' = [t \in DOMAIN tokens |-> [tokens[t] EXCEPT !.live = @ /\ t \notin own]]
  BY DEF RevokeAllUserRefreshTokens
<1>2. /\ Len(tokens) \in Nat /\ DOMAIN tokens = 1 .. Len(tokens)
      /\ \A t \in DOMAIN tokens : tokens[t] \in RefreshToken
  BY ListsAreFunctions
<1>3. \A t \in DOMAIN tokens :
        /\ [tokens[t] EXCEPT !.live = @ /\ t \notin own] \in RefreshToken
        /\ [tokens[t] EXCEPT !.live = @ /\ t \notin own].user = tokens[t].user
        /\ [tokens[t] EXCEPT !.live = @ /\ t \notin own].root = tokens[t].root
        /\ [tokens[t] EXCEPT !.live = @ /\ t \notin own].live
             = (tokens[t].live /\ tokens[t].user # req[r].user)
  BY <1>2 DEF RefreshToken
<1>4. tokens' \in [1 .. Len(tokens) -> RefreshToken]
  BY <1>1, <1>2, <1>3
<1>5. tokens' \in Seq(RefreshToken)
  BY <1>2, <1>4, SeqDef
<1>6. QED
  BY <1>1, <1>3, <1>5

(* Rows stay, and every row's login is that of an earlier row or its own. *)
RowsStay ==
  /\ tokens' \in Seq(RefreshToken)
  /\ DOMAIN tokens \subseteq DOMAIN tokens'
  /\ \A t \in DOMAIN tokens :
       tokens'[t].user = tokens[t].user /\ tokens'[t].root = tokens[t].root
  /\ \A t \in DOMAIN tokens' : tokens'[t].root \in 1 .. t

LEMMA NextKeepsRows ==
  ASSUME SessionsTypeOK, RequestsFit, [SessionsNext]_sessionsVars
  PROVE  RowsStay
<1>1. CASE UNCHANGED tokens
  BY <1>1 DEF RowsStay, SessionsTypeOK
<1>2. ASSUME NEW r \in DOMAIN req, InsertRefreshToken(r)
      PROVE  RowsStay
  BY <1>2, InsertAppends DEF RowsStay, SessionsTypeOK
<1>3. ASSUME NEW r \in DOMAIN req, RevokeRefreshToken(r) \/ RevokeAllUserRefreshTokens(r)
      PROVE  RowsStay
  BY <1>3, RevokeOnlyRevokes, RevokeAllOnlyRevokes DEF RowsStay, SessionsTypeOK
<1>4. QED
  BY <1>1, <1>2, <1>3 DEF SessionsNext, sessionsVars, sessions, CreateUser, StartLogin,
     StartChangePassword, SetupPins, StartForgot, CodeExpires, UpdateStatus, StartPin,
     StartReset, StartRefresh, StartLogout, WindowEnds, Proceed, VerifyLogin, VerifyPin,
     VerifyCode, Count, SetExpiry, ClearFailures, StoreCode, DropCode, UpdatePassword,
     CheckUser, Stumble, RequestFails, CountUnanswered, DelFails

(* The list of requests keeps its type, and its requests their steps. *)
LEMMA NextKeepsRequests ==
  ASSUME SessionsTypeOK, RequestsFit, [SessionsNext]_sessionsVars
  PROVE  /\ req' \in Seq(Request)
         /\ Len(req') \in Nat /\ Len(req') <= MaxRequests
         /\ \A r \in DOMAIN req' : req'[r].op = "refresh" => req'[r].arg \in DOMAIN tokens'
         /\ RequestsFit'
<1>1. RowsStay /\ Len(req) \in Nat
  BY NextKeepsRows, ListsAreFunctions
<1>2. CASE UNCHANGED req
  BY <1>1, <1>2 DEF SessionsTypeOK, RequestsFit, RowsStay
<1>3. CASE Starts
  <2>1. PICK op \in Ops, u \in Users, arg \in Nat \cup Passwords, step \in Steps :
          /\ Begin(op, u, arg, step)
          /\ Fits(op, step)
          /\ op = "refresh" => arg \in DOMAIN tokens /\ u = tokens[arg].user
    BY <1>3, StartsBegin DEF Begins
  <2> DEFINE new == Len(req) + 1
  <2>2. /\ req' \in Seq(Request) /\ Len(req') = new /\ Len(req) < MaxRequests
        /\ DOMAIN req' = DOMAIN req \cup {new}
        /\ \A i \in DOMAIN req : req'[i] = req[i]
        /\ req'[new].op = op /\ req'[new].arg = arg /\ req'[new].step = step
    BY <2>1, BeginAppends
  <2>3. Len(req') \in Nat /\ Len(req') <= MaxRequests
    BY <1>1, <2>2, SessionsAssumption
  <2> HIDE DEF new
  <2>4. \A i \in DOMAIN req' : req'[i].op = "refresh" => req'[i].arg \in DOMAIN tokens'
    BY <1>1, <2>1, <2>2 DEF SessionsTypeOK, RowsStay
  <2>5. RequestsFit'
    BY <2>1, <2>2 DEF RequestsFit
  <2>6. QED
    BY <2>2, <2>3, <2>4, <2>5
<1>4. ASSUME NEW r \in DOMAIN req, GoesOn(r)
      PROVE  /\ req' \in Seq(Request)
             /\ Len(req') \in Nat /\ Len(req') <= MaxRequests
             /\ \A i \in DOMAIN req' :
                  req'[i].op = "refresh" => req'[i].arg \in DOMAIN tokens'
             /\ RequestsFit'
  <2>1. PICK step \in Steps :
          /\ Goto(r, step)
          /\ step # "done" => Fits(req[r].op, step)
    BY <1>4, GoingOnMoves DEF Moves
  <2>2. \A i \in DOMAIN req : req'[i].op = "refresh" =>
          req[i].op = "refresh" /\ req'[i].arg = req[i].arg
    BY <2>1, GotoMoves
  <2>3. \A i \in DOMAIN req' : Fits(req'[i].op, req'[i].step)
    BY <2>1, GotoMoves DEF RequestsFit, Fits
  <2>4. QED
    BY <1>1, <2>1, <2>2, <2>3, GotoMoves DEF SessionsTypeOK, RequestsFit, RowsStay
<1>5. QED
  BY <1>2, <1>3, <1>4
     DEF SessionsNext, sessionsVars, CreateUser, SetupPins, CodeExpires, UpdateStatus,
     WindowEnds, Starts, GoesOn, Stumble

-----------------------------------------------------------------------------
(***************************************************************************)
(* Each request counts at most once: the failures of a counter and the     *)
(* requests that may still add one are no more than all requests.          *)
(***************************************************************************)
LEMMA WaitingIsFinite ==
  ASSUME SessionsTypeOK
  PROVE  /\ IsFiniteSet(Storing) /\ Cardinality(Storing) \in Nat
         /\ \A k \in Counters : IsFiniteSet(Pending(k)) /\ Cardinality(Pending(k)) \in Nat
<1>1. IsFiniteSet(DOMAIN req)
  BY ListsAreFunctions, FS_Interval
<1>2. Storing \subseteq DOMAIN req /\ \A k \in Counters : Pending(k) \subseteq DOMAIN req
  BY DEF Storing, Pending
<1>3. \A S \in SUBSET DOMAIN req : IsFiniteSet(S) /\ Cardinality(S) \in Nat
  BY <1>1, FS_Subset, FS_CardinalityType
<1>4. QED
  BY <1>2, <1>3

(* A set of requests that gains at most the newest one, or loses some. *)
LEMMA CountGrows ==
  ASSUME NEW S, IsFiniteSet(S), NEW T, NEW x, T \subseteq S \cup {x}
  PROVE  Cardinality(T) \in Nat /\ Cardinality(T) <= Cardinality(S) + 1
<1>1. /\ IsFiniteSet(S \cup {x}) /\ Cardinality(S) \in Nat
      /\ Cardinality(S \cup {x}) <= Cardinality(S) + 1
  <2>1. Cardinality(S) \in Nat
    BY FS_CardinalityType
  <2>2. /\ IsFiniteSet(S \cup {x})
        /\ \/ Cardinality(S \cup {x}) = Cardinality(S)
           \/ Cardinality(S \cup {x}) = Cardinality(S) + 1
    BY FS_AddElement, Zenon
  <2>3. QED
    BY <2>1, <2>2
<1>2. IsFiniteSet(T) /\ Cardinality(T) <= Cardinality(S \cup {x})
  BY <1>1, FS_Subset
<1>3. Cardinality(T) \in Nat /\ Cardinality(S \cup {x}) \in Nat
  BY <1>1, <1>2, FS_CardinalityType
<1>4. QED
  BY <1>1, <1>2, <1>3

LEMMA CountShrinks ==
  ASSUME NEW S, IsFiniteSet(S), NEW T, T \subseteq S
  PROVE  Cardinality(T) \in Nat /\ Cardinality(T) <= Cardinality(S)
BY FS_Subset, FS_CardinalityType

LEMMA CountLoses ==
  ASSUME NEW S, IsFiniteSet(S), NEW x \in S, NEW T, T \subseteq S \ {x}
  PROVE  Cardinality(T) \in Nat /\ Cardinality(T) + 1 <= Cardinality(S)
<1>1. IsFiniteSet(S \ {x}) /\ Cardinality(S \ {x}) = Cardinality(S) - 1
  BY FS_RemoveElement
<1>2. Cardinality(T) \in Nat /\ Cardinality(T) <= Cardinality(S \ {x})
  BY <1>1, CountShrinks
<1>3. Cardinality(S) \in Nat
  BY FS_CardinalityType
<1>4. QED
  BY <1>1, <1>2, <1>3

(* The counters and codes, pointwise: one failure more, or none left.      *)
CountersKept == UNCHANGED <<fails, codes>>

LEMMA StartsKeepFaults ==
  ASSUME SessionsTypeOK, Starts
  PROVE  faults' \in 0 .. MaxFaults /\ faults' >= faults
<1>1. \/ UNCHANGED faults
      \/ faults < MaxFaults /\ faults' = faults + 1
  BY DEF Starts, StartLogin, StartChangePassword, StartForgot, StartPin, StartReset,
     StartRefresh, StartLogout, SeesLocked, Fails
<1>2. QED
  BY <1>1, SessionsAssumption DEF SessionsTypeOK

LEMMA GoingOnKeepsFaults ==
  ASSUME SessionsTypeOK, NEW r \in DOMAIN req, GoesOn(r)
  PROVE  faults' \in 0 .. MaxFaults /\ faults' >= faults
<1>1. \/ UNCHANGED faults
      \/ faults < MaxFaults /\ faults' = faults + 1
  BY DEF GoesOn, Proceed, VerifyLogin, VerifyPin, VerifyCode, Count, SetExpiry,
     ClearFailures, StoreCode, DropCode, UpdatePassword, CheckUser, RevokeRefreshToken,
     InsertRefreshToken, RevokeAllUserRefreshTokens, RequestFails, CountUnanswered,
     DelFails, SeesLocked, Fails
<1>2. QED
  BY <1>1, SessionsAssumption DEF SessionsTypeOK

LEMMA StartsKeepCounts ==
  ASSUME ShapeInv, Starts
  PROVE  EachCountsOnce' /\ CountersKept
<1>1. CountersKept
  BY DEF Starts, StartLogin, StartChangePassword, StartForgot, StartPin, StartReset,
     StartRefresh, StartLogout, redis, CountersKept
<1>2. PICK op \in Ops, u \in Users, arg \in Nat \cup Passwords, step \in Steps :
        Begin(op, u, arg, step)
  BY StartsBegin DEF Begins, ShapeInv
<1> DEFINE new == Len(req) + 1
<1>3. /\ Len(req') = new /\ DOMAIN req' = DOMAIN req \cup {new}
      /\ \A i \in DOMAIN req : req'[i] = req[i]
  BY <1>2, BeginAppends DEF ShapeInv
<1>4. Storing' \subseteq Storing \cup {new}
  BY <1>3 DEF Storing
<1>5. \A k \in Counters : Pending(k)' \subseteq Pending(k) \cup {new}
  BY <1>3 DEF Pending, Counter
<1>6. /\ Cardinality(Storing') \in Nat
      /\ Cardinality(Storing') <= Cardinality(Storing) + 1
  BY <1>4, WaitingIsFinite, CountGrows DEF ShapeInv
<1>7. ASSUME NEW k \in Counters
      PROVE  /\ Cardinality(Pending(k)') \in Nat
             /\ Cardinality(Pending(k)') <= Cardinality(Pending(k)) + 1
  BY <1>5, WaitingIsFinite, CountGrows DEF ShapeInv
<1>8. /\ Len(req) \in Nat /\ codes \in Nat
      /\ \A k \in Counters : fails[k].n \in Nat
      /\ Cardinality(Storing) \in Nat
      /\ \A k \in Counters : Cardinality(Pending(k)) \in Nat
  BY ListsAreFunctions, WaitingIsFinite DEF ShapeInv, SessionsTypeOK
<1>9. codes' + Cardinality(Storing') <= Len(req')
  BY <1>1, <1>3, <1>6, <1>8 DEF ShapeInv, EachCountsOnce, CountersKept
<1>10. ASSUME NEW k \in Counters
       PROVE  fails'[k].n + Cardinality(Pending(k)') <= Len(req') + faults'
  <2>1. fails'[k].n = fails[k].n
    BY <1>1 DEF CountersKept
  <2>2. fails[k].n + Cardinality(Pending(k)) <= Len(req) + faults
    BY DEF ShapeInv, EachCountsOnce
  <2>3. faults \in Nat /\ faults' \in Nat /\ faults' >= faults
    BY StartsKeepFaults, SessionsAssumption DEF ShapeInv, SessionsTypeOK
  <2>4. QED
    BY <1>3, <1>7, <1>8, <2>1, <2>2, <2>3
<1>11. QED
  BY <1>1, <1>9, <1>10 DEF EachCountsOnce

(* What one request's next step does to the counters and the codes.        *)
LEMMA GoingOnCounts ==
  ASSUME ShapeInv, NEW r \in DOMAIN req, GoesOn(r)
  PROVE  /\ fails' \in [Counters -> [n : Nat, expires : BOOLEAN]]
         /\ codes' \in Nat
         /\ codes' # codes => codes' = codes + 1 /\ req[r].step = "store"
         /\ \A k \in Counters :
              \/ fails'[k].n = fails[k].n
              \/ fails'[k].n = 0
              \/ /\ fails'[k].n = fails[k].n + 1
                 /\ Counter(r) = k /\ req[r].step = "count" /\ req'[r].step # "count"
              \/ fails'[k].n = fails[k].n + 1 /\ faults' = faults + 1
<1>1. /\ fails \in [Counters -> [n : Nat, expires : BOOLEAN]]
      /\ codes \in Nat /\ req[r].user \in Users
  <2>1. req[r] \in Request
    BY ListsAreFunctions DEF ShapeInv
  <2>2. fails \in [Counters -> [n : Nat, expires : BOOLEAN]]
    BY DEF ShapeInv, SessionsTypeOK
  <2>3. codes \in Nat
    BY DEF ShapeInv, SessionsTypeOK
  <2>4. QED
    BY <2>1, <2>2, <2>3 DEF Request
<1>2. Fits(req[r].op, req[r].step)
  BY DEF ShapeInv, RequestsFit
<1>3. CASE Count(r) \/ SetExpiry(r) \/ ClearFailures(r)
  <2>1. \A k \in Counters : fails[k].n \in Nat /\ fails[k].expires \in BOOLEAN
    BY <1>1
  <2>2. UNCHANGED codes
    BY <1>3 DEF Count, SetExpiry, ClearFailures
  <2>3. CASE Count(r) \/ SetExpiry(r)
    <3>1. PICK k \in Counters : k = Counter(r)
      BY <1>1, <1>2, <2>3 DEF Count, SetExpiry, Counter, Counters, Fits, Exchanging
    <3>2. CASE Count(r)
      <4>1. /\ fails' = [fails EXCEPT ![k] = [fails[k] EXCEPT !.n = fails[k].n + 1]]
            /\ req[r].step = "count"
        BY <3>1, <3>2 DEF Count
      <4>2. Goto(r, "window") \/ Goto(r, "done")
        BY <3>2 DEF Count
      <4>3. req'[r].step # "count"
        BY <4>2, GotoMoves DEF ShapeInv, Steps
      <4>4. QED
        BY <1>1, <2>1, <2>2, <3>1, <4>1, <4>3
    <3>3. CASE SetExpiry(r)
      <4>1. fails' = [fails EXCEPT ![k] =
                        [fails[k] EXCEPT !.expires = fails[k].expires \/ fails[k].n > 0]]
        BY <3>1, <3>3 DEF SetExpiry
      <4>2. QED
        BY <1>1, <2>1, <2>2, <3>1, <4>1
    <3>4. QED
      BY <2>3, <3>2, <3>3
  <2>4. CASE ClearFailures(r)
    <3>1. PICK k \in Counters : fails' = [fails EXCEPT ![k] = NoFailures]
      <4>1. CASE req[r].op = "forgot"
        <5>1. fails' = [fails EXCEPT ![<<"reset", req[r].user>>] = NoFailures]
          BY <2>4, <4>1 DEF ClearFailures
        <5>2. <<"reset", req[r].user>> \in Counters
          BY <1>1 DEF Counters
        <5>3. QED
          BY <5>1, <5>2
      <4>2. CASE req[r].op # "forgot"
        <5>1. fails' = [fails EXCEPT ![Counter(r)] = NoFailures] /\ req[r].step = "clear"
          BY <2>4, <4>2 DEF ClearFailures
        <5>2. Counter(r) \in Counters
          BY <1>1, <1>2, <4>2, <5>1 DEF Counter, Counters, Fits, Exchanging
        <5>3. QED
          BY <5>1, <5>2
      <4>3. QED
        BY <4>1, <4>2
    <3>2. QED
      BY <1>1, <2>1, <2>2, <3>1 DEF NoFailures
  <2>5. QED
    BY <1>3, <2>3, <2>4
<1>4. CASE UNCHANGED fails /\ (UNCHANGED codes \/ StoreCode(r))
  BY <1>1, <1>4 DEF StoreCode
<1>5. CASE CountUnanswered(r)
  <2>1. \A k \in Counters : fails[k].n \in Nat /\ fails[k].expires \in BOOLEAN
    BY <1>1
  <2>2. PICK k \in Counters : k = Counter(r)
    BY <1>1, <1>2, <1>5 DEF CountUnanswered, Counter, Counters, Fits, Exchanging
  <2>3. /\ fails' = [fails EXCEPT ![k] = [fails[k] EXCEPT !.n = fails[k].n + 1]]
        /\ UNCHANGED codes /\ faults' = faults + 1
    BY <1>5, <2>2 DEF CountUnanswered, Fails
  <2>4. QED
    BY <1>1, <2>1, <2>3
<1>6. QED
  BY <1>3, <1>4, <1>5 DEF GoesOn, Proceed, VerifyLogin, VerifyPin, VerifyCode,
     StoreCode, DropCode, UpdatePassword, CheckUser, RevokeRefreshToken,
     InsertRefreshToken, RevokeAllUserRefreshTokens, RequestFails, CountUnanswered,
     DelFails, redis

LEMMA GoingOnKeepsCounts ==
  ASSUME ShapeInv, NEW r \in DOMAIN req, GoesOn(r)
  PROVE  EachCountsOnce'
<1>1. PICK step \in Steps \ {"verify", "store"} :
        /\ Goto(r, step)
        /\ step # "done" => Fits(req[r].op, step)
        /\ step = "count" => req[r].step \in {"verify", "count"}
  BY GoingOnMoves DEF Moves, ShapeInv
<1>2. /\ Len(req') = Len(req) /\ DOMAIN req' = DOMAIN req
      /\ \A i \in DOMAIN req : i # r => req'[i] = req[i]
      /\ req'[r].step = step /\ req'[r].user = req[r].user
      /\ step # "done" => req'[r].op = req[r].op
  BY <1>1, GotoMoves DEF ShapeInv
<1>3. Storing' \subseteq Storing \ {r}
  BY <1>1, <1>2 DEF Storing
<1>4. \A k \in Counters : /\ Pending(k)' \subseteq Pending(k)
                          /\ step # "count" => r \notin Pending(k)'
  BY <1>1, <1>2 DEF Pending, Counter
<1>5. /\ Len(req) \in Nat /\ codes \in Nat
      /\ \A k \in Counters : fails[k].n \in Nat
      /\ IsFiniteSet(Storing) /\ Cardinality(Storing) \in Nat
      /\ \A k \in Counters : IsFiniteSet(Pending(k)) /\ Cardinality(Pending(k)) \in Nat
  BY ListsAreFunctions, WaitingIsFinite DEF ShapeInv, SessionsTypeOK
<1>6. codes' + Cardinality(Storing') <= Len(req')
  <2>1. CASE codes' = codes
    <3>1. /\ Cardinality(Storing') \in Nat
          /\ Cardinality(Storing') <= Cardinality(Storing)
      BY <1>3, <1>5, CountShrinks
    <3>2. QED
      BY <1>2, <1>5, <2>1, <3>1 DEF ShapeInv, EachCountsOnce
  <2>2. CASE codes' = codes + 1 /\ req[r].step = "store"
    <3>1. r \in Storing
      BY <2>2 DEF Storing
    <3>2. /\ Cardinality(Storing') \in Nat
          /\ Cardinality(Storing') + 1 <= Cardinality(Storing)
      BY <1>3, <1>5, <3>1, CountLoses
    <3>3. QED
      BY <1>2, <1>5, <2>2, <3>2 DEF ShapeInv, EachCountsOnce
  <2>3. QED
    BY <2>1, <2>2, GoingOnCounts
<1>7. ASSUME NEW k \in Counters
      PROVE  fails'[k].n + Cardinality(Pending(k)') <= Len(req') + faults'
  <2>0. faults \in Nat /\ faults' \in Nat /\ faults' >= faults
    BY GoingOnKeepsFaults, SessionsAssumption DEF ShapeInv, SessionsTypeOK
  <2>1. /\ Cardinality(Pending(k)') \in Nat
        /\ Cardinality(Pending(k)') <= Cardinality(Pending(k))
    BY <1>4, <1>5, CountShrinks
  <2>2. /\ fails[k].n + Cardinality(Pending(k)) <= Len(req) + faults
        /\ Len(req') = Len(req)
    BY <1>2 DEF ShapeInv, EachCountsOnce
  <2>3. \/ fails'[k].n = fails[k].n \/ fails'[k].n = 0
        \/ /\ fails'[k].n = fails[k].n + 1
           /\ Counter(r) = k /\ req[r].step = "count" /\ req'[r].step # "count"
        \/ fails'[k].n = fails[k].n + 1 /\ faults' = faults + 1
    BY GoingOnCounts
  <2>4. fails'[k].n \in Nat
    BY GoingOnCounts
  <2>5. PICK n \in Nat, n2 \in Nat, l \in Nat, c \in Nat, d \in Nat, f \in Nat, f2 \in Nat :
          /\ n = fails[k].n /\ n2 = fails'[k].n /\ l = Len(req)
          /\ c = Cardinality(Pending(k)) /\ d = Cardinality(Pending(k)')
          /\ f = faults /\ f2 = faults'
    BY <1>5, <2>0, <2>1, <2>4
  <2>6. n + c <= l + f /\ d <= c /\ f <= f2
    BY <2>0, <2>1, <2>2, <2>5
  <2>7. ASSUME Counter(r) = k, req[r].step = "count", req'[r].step # "count"
        PROVE  d + 1 <= c
    <3>1. r \in Pending(k) /\ Pending(k)' \subseteq Pending(k) \ {r}
      BY <1>2, <1>4, <2>7 DEF Pending
    <3>2. QED
      BY <1>5, <2>5, <3>1, CountLoses
  <2>8. n2 + d <= l + f2
    <3>1. CASE n2 = n \/ n2 = 0
      BY <2>6, <3>1
    <3>2. CASE n2 = n + 1 /\ d + 1 <= c
      BY <2>6, <3>2
    <3>3. CASE n2 = n + 1 /\ f2 = f + 1
      BY <2>6, <3>3
    <3>4. QED
      BY <2>3, <2>5, <2>7, <3>1, <3>2, <3>3
  <2>9. QED
    BY <2>2, <2>5, <2>8
<1>8. QED
  BY <1>6, <1>7 DEF EachCountsOnce

Passive ==
  \/ \E u \in Users, p \in Passwords : CreateUser(u, p)
  \/ \E u \in Users : SetupPins(u) \/ CodeExpires(u)
  \/ \E u \in Users, status \in {"active", "inactive"} : UpdateStatus(u, status)
  \/ \E k \in Counters : WindowEnds(k)
  \/ UNCHANGED sessionsVars

LEMMA NextIsOneOf ==
  [SessionsNext]_sessionsVars =>
    Starts \/ Passive \/ \E r \in DOMAIN req : GoesOn(r)
BY DEF SessionsNext, Starts, Passive, GoesOn, Stumble

LEMMA PassiveKeepsCounts ==
  ASSUME ShapeInv, Passive
  PROVE  /\ EachCountsOnce' /\ UNCHANGED <<codes, req>>
         /\ fails' \in [Counters -> [n : Nat, expires : BOOLEAN]]
<1>1. UNCHANGED <<codes, req>>
  BY DEF Passive, CreateUser, SetupPins, CodeExpires, UpdateStatus, WindowEnds,
     sessionsVars, redis
<1>2. fails \in [Counters -> [n : Nat, expires : BOOLEAN]]
  BY DEF ShapeInv, SessionsTypeOK
<1>3. /\ fails' \in [Counters -> [n : Nat, expires : BOOLEAN]]
      /\ \A k \in Counters : fails'[k].n = fails[k].n \/ fails'[k].n = 0
  <2>1. \/ UNCHANGED fails
        \/ \E k \in Counters : fails' = [fails EXCEPT ![k] = NoFailures]
    BY DEF Passive, CreateUser, SetupPins, CodeExpires, UpdateStatus, WindowEnds,
       sessionsVars, redis
  <2>2. \A k \in Counters : fails[k].n \in Nat /\ fails[k].expires \in BOOLEAN
    BY <1>2
  <2>3. NoFailures \in [n : Nat, expires : BOOLEAN] /\ NoFailures.n = 0
    BY DEF NoFailures
  <2>4. CASE UNCHANGED fails
    BY <1>2, <2>4
  <2>5. ASSUME NEW k \in Counters, fails' = [fails EXCEPT ![k] = NoFailures]
        PROVE  /\ fails' \in [Counters -> [n : Nat, expires : BOOLEAN]]
               /\ \A c \in Counters : fails'[c].n = fails[c].n \/ fails'[c].n = 0
    BY <1>2, <2>3, <2>5
  <2>6. QED
    BY <2>1, <2>4, <2>5
<1>4. /\ Len(req) \in Nat
      /\ \A k \in Counters : Cardinality(Pending(k)) \in Nat /\ fails[k].n \in Nat
  BY <1>2, ListsAreFunctions, WaitingIsFinite DEF ShapeInv
<1>5. Storing' = Storing /\ \A k \in Counters : Pending(k)' = Pending(k)
  BY <1>1 DEF Storing, Pending, Counter
<1>6. codes' + Cardinality(Storing') <= Len(req')
  BY <1>1, <1>5 DEF ShapeInv, EachCountsOnce
<1>7. ASSUME NEW k \in Counters
      PROVE  fails'[k].n + Cardinality(Pending(k)') <= Len(req') + faults'
  <2>1. faults' = faults /\ faults \in Nat
    BY SessionsAssumption DEF Passive, CreateUser, SetupPins, CodeExpires, UpdateStatus,
       WindowEnds, sessionsVars, ShapeInv, SessionsTypeOK
  <2>2. QED
    BY <1>1, <1>3, <1>4, <1>5, <2>1 DEF ShapeInv, EachCountsOnce
<1>8. QED
  BY <1>1, <1>3, <1>6, <1>7 DEF EachCountsOnce

-----------------------------------------------------------------------------
(* The rows of users, the flags and the histories keep their types. *)
LEMMA ExchangedAreRows ==
  ASSUME SessionsTypeOK
  PROVE  /\ BeingExchanged \subseteq DOMAIN tokens
         /\ \A i \in DOMAIN req : req[i].op = "refresh" /\ req[i].step \in Exchanging =>
              tokens[req[i].arg].root \in BeingExchanged
<1>1. \A x \in BeingExchanged : \E r \in DOMAIN req :
        /\ req[r].op = "refresh"
        /\ x = tokens[req[r].arg].root
  BY DEF BeingExchanged
<1>2. \A r \in DOMAIN req : req[r].op = "refresh" => tokens[req[r].arg].root \in DOMAIN tokens
  BY ListsAreFunctions DEF SessionsTypeOK
<1>3. \A i \in DOMAIN req : req[i].op = "refresh" /\ req[i].step \in Exchanging =>
        tokens[req[i].arg].root \in BeingExchanged
  BY DEF BeingExchanged
<1>4. QED
  BY <1>1, <1>2, <1>3

RestTyped ==
  /\ account' \in [Users -> {"none", "active", "inactive"}]
  /\ password' \in [Users -> Passwords]
  /\ pins' \subseteq Users
  /\ blacklist' \subseteq DOMAIN tokens
  /\ code' \in [Users -> 0 .. codes']
  /\ faults' \in 0 .. MaxFaults
  /\ raced' \subseteq DOMAIN tokens
  /\ ended' \subseteq DOMAIN tokens
  /\ orphaned' \subseteq Counters

LEMMA StartsKeepRest ==
  ASSUME ShapeInv, Starts
  PROVE  /\ UNCHANGED <<account, password, pins, code, ended, orphaned>>
         /\ blacklist' \subseteq DOMAIN tokens
         /\ raced' \subseteq DOMAIN tokens
         /\ faults' \in 0 .. MaxFaults
<1> USE DEF ShapeInv
<1>1. BeingExchanged \subseteq DOMAIN tokens
  BY ExchangedAreRows
<1>2. UNCHANGED <<account, password, pins, code, ended, orphaned>>
  BY DEF Starts, StartLogin, StartChangePassword, StartForgot, StartPin, StartReset,
     StartRefresh, StartLogout, accounts, redis, history
<1>3. blacklist' \subseteq DOMAIN tokens
  BY DEF Starts, StartLogin, StartChangePassword, StartForgot, StartPin, StartReset,
     StartRefresh, StartLogout, Blacklist, sessions, SessionsTypeOK
<1>4. raced' \subseteq DOMAIN tokens
  BY <1>1 DEF Starts, StartLogin, StartChangePassword, StartForgot, StartPin, StartReset,
     StartRefresh, StartLogout, history, SessionsTypeOK
<1>5. faults' \in 0 .. MaxFaults
  BY StartsKeepFaults
<1>6. QED
  BY <1>2, <1>3, <1>4, <1>5

LEMMA PassiveKeepsRest ==
  ASSUME ShapeInv, Passive
  PROVE  /\ account' \in [Users -> {"none", "active", "inactive"}]
         /\ password' \in [Users -> Passwords]
         /\ pins' \subseteq Users
         /\ code' \in [Users -> 0 .. codes]
         /\ UNCHANGED <<blacklist, raced, ended, faults>>
         /\ orphaned' \subseteq Counters
<1> USE DEF ShapeInv, SessionsTypeOK
<1>1. CASE \E u \in Users, p \in Passwords : CreateUser(u, p)
  BY <1>1 DEF CreateUser, sessions, redis, history
<1>2. CASE \E u \in Users : SetupPins(u)
  BY <1>2 DEF SetupPins, sessions, redis, history
<1>3. CASE \E u \in Users : CodeExpires(u)
  BY <1>3 DEF CodeExpires, sessions, accounts, history
<1>4. CASE \E u \in Users, status \in {"active", "inactive"} : UpdateStatus(u, status)
  BY <1>4 DEF UpdateStatus, sessions, redis, history
<1>5. CASE (\E k \in Counters : WindowEnds(k)) \/ UNCHANGED sessionsVars
  BY <1>5 DEF WindowEnds, sessionsVars, sessions, accounts, history
<1>6. QED
  BY <1>1, <1>2, <1>3, <1>4, <1>5 DEF Passive

LEMMA GoingOnKeepsRest ==
  ASSUME ShapeInv, NEW r \in DOMAIN req, GoesOn(r)
  PROVE  /\ UNCHANGED <<account, pins, blacklist>>
         /\ password' \in [Users -> Passwords]
         /\ code' \in [Users -> 0 .. codes']
         /\ raced' \subseteq DOMAIN tokens
         /\ ended' \subseteq DOMAIN tokens
         /\ orphaned' \subseteq Counters
         /\ faults' \in 0 .. MaxFaults
<1> USE DEF ShapeInv
<1>1. BeingExchanged \subseteq DOMAIN tokens
  BY ExchangedAreRows
<1>2. req[r].user \in Users
  BY ListsAreFunctions DEF Request
<1>3. UNCHANGED <<account, pins, blacklist>>
  BY DEF GoesOn, Proceed, VerifyLogin, VerifyPin, VerifyCode, Count, SetExpiry,
     ClearFailures, StoreCode, DropCode, UpdatePassword, CheckUser, RevokeRefreshToken,
     InsertRefreshToken, RevokeAllUserRefreshTokens, RequestFails, CountUnanswered,
     DelFails, accounts, sessions
<1>4. password' \in [Users -> Passwords]
  <2>1. CASE UNCHANGED password
    BY <2>1 DEF SessionsTypeOK
  <2>2. CASE \E p \in Passwords : UpdatePassword(r, p)
    BY <1>2, <2>2 DEF UpdatePassword, SessionsTypeOK
  <2>3. QED
    BY <2>1, <2>2 DEF GoesOn, Proceed, VerifyLogin, VerifyPin, VerifyCode, Count,
       SetExpiry, ClearFailures, StoreCode, DropCode, CheckUser, RevokeRefreshToken,
       InsertRefreshToken, RevokeAllUserRefreshTokens, RequestFails, CountUnanswered,
       DelFails, accounts
<1>5. code' \in [Users -> 0 .. codes']
  <2>1. code \in [Users -> 0 .. codes] /\ codes \in Nat
    BY DEF SessionsTypeOK
  <2>2. CASE UNCHANGED <<code, codes>>
    BY <2>1, <2>2
  <2>3. CASE DropCode(r)
    <3>1. code' = [code EXCEPT ![req[r].user] = 0] /\ codes' = codes
      BY <2>3 DEF DropCode
    <3>2. 0 \in 0 .. codes
      BY <2>1
    <3>3. QED
      BY <2>1, <3>1, <3>2
  <2>4. CASE StoreCode(r)
    <3>1. code' = [code EXCEPT ![req[r].user] = codes + 1] /\ codes' = codes + 1
      BY <2>4 DEF StoreCode
    <3>2. \A u \in Users : code[u] \in 0 .. codes + 1
      BY <2>1
    <3>3. codes + 1 \in 0 .. codes + 1
      BY <2>1
    <3>4. QED
      BY <2>1, <3>1, <3>2, <3>3
  <2>5. QED
    BY <2>2, <2>3, <2>4 DEF GoesOn, Proceed, VerifyLogin, VerifyPin, VerifyCode, Count,
       SetExpiry, ClearFailures, UpdatePassword, CheckUser, RevokeRefreshToken,
       InsertRefreshToken, RevokeAllUserRefreshTokens, RequestFails, CountUnanswered,
       DelFails, redis
<1>6. raced' \subseteq DOMAIN tokens /\ ended' \subseteq DOMAIN tokens
  <2>1. CASE UNCHANGED <<raced, ended>>
    BY <2>1 DEF SessionsTypeOK
  <2>2. CASE RevokeAllUserRefreshTokens(r)
    <3>1. \A t \in DOMAIN tokens : tokens[t].root \in DOMAIN tokens
      BY ListsAreFunctions
    <3>2. QED
      BY <1>1, <2>2, <3>1 DEF RevokeAllUserRefreshTokens, SessionsTypeOK
  <2>3. QED
    BY <2>1, <2>2 DEF GoesOn, Proceed, VerifyLogin, VerifyPin, VerifyCode, Count,
       SetExpiry, ClearFailures, StoreCode, DropCode, UpdatePassword, CheckUser,
       RevokeRefreshToken, InsertRefreshToken, RequestFails, CountUnanswered, DelFails,
       history
<1>7. orphaned' \subseteq Counters
  <2>1. CASE UNCHANGED orphaned
    BY <2>1 DEF SessionsTypeOK
  <2>2. CASE RequestFails(r) /\ req[r].step = "window"
    <3>1. Counter(r) \in Counters
      BY <1>2, <2>2 DEF RequestsFit, Fits, Exchanging, Counter, Counters
    <3>2. QED
      BY <2>2, <3>1 DEF RequestFails, SessionsTypeOK
  <2>3. CASE CountUnanswered(r)
    <3>1. Counter(r) \in Counters
      BY <1>2, <2>3 DEF CountUnanswered, RequestsFit, Fits, Exchanging, Counter, Counters
    <3>2. QED
      BY <2>3, <3>1 DEF CountUnanswered, SessionsTypeOK
  <2>4. CASE ClearFailures(r)
    BY <2>4 DEF ClearFailures, SessionsTypeOK
  <2>5. QED
    BY <2>1, <2>2, <2>3, <2>4 DEF GoesOn, Proceed, VerifyLogin, VerifyPin, VerifyCode,
       Count, SetExpiry, ClearFailures, StoreCode, DropCode, UpdatePassword, CheckUser,
       RevokeRefreshToken, InsertRefreshToken, RevokeAllUserRefreshTokens, RequestFails,
       CountUnanswered, DelFails, history
<1>8. faults' \in 0 .. MaxFaults
  BY GoingOnKeepsFaults
<1>9. QED
  BY <1>3, <1>4, <1>5, <1>6, <1>7, <1>8

LEMMA NextKeepsShape ==
  ASSUME ShapeInv, [SessionsNext]_sessionsVars
  PROVE  ShapeInv'
<1>1. /\ RowsStay
      /\ req' \in Seq(Request)
      /\ Len(req') \in Nat /\ Len(req') <= MaxRequests
      /\ \A r \in DOMAIN req' : req'[r].op = "refresh" => req'[r].arg \in DOMAIN tokens'
      /\ RequestsFit'
  BY NextKeepsRows, NextKeepsRequests DEF ShapeInv
<1>2. EachCountsOnce' /\ codes' \in Nat
      /\ fails' \in [Counters -> [n : Nat, expires : BOOLEAN]]
  <2>1. fails \in [Counters -> [n : Nat, expires : BOOLEAN]] /\ codes \in Nat
    BY DEF ShapeInv, SessionsTypeOK
  <2>2. QED
    BY <2>1, NextIsOneOf, StartsKeepCounts, PassiveKeepsCounts, GoingOnCounts,
       GoingOnKeepsCounts DEF CountersKept
<1>3. /\ IsFiniteSet(DOMAIN req')
      /\ \A S \in SUBSET DOMAIN req' : Cardinality(S) \in Nat
  <2>1. DOMAIN req' = 1 .. Len(req')
    BY <1>1, LenProperties
  <2>2. IsFiniteSet(DOMAIN req')
    BY <1>1, <2>1, FS_Interval
  <2>3. QED
    BY <2>2, FS_Subset, FS_CardinalityType
<1>4. codes' \in 0 .. MaxRequests
  <2>1. Cardinality(Storing') \in Nat
    BY <1>3 DEF Storing
  <2>2. QED
    BY <1>1, <1>2, <2>1, SessionsAssumption DEF EachCountsOnce
<1>5. fails' \in [Counters -> [n : 0 .. MaxRequests + MaxFaults, expires : BOOLEAN]]
  <2>0. faults' \in Nat /\ faults' <= MaxFaults
    <3>1. faults \in 0 .. MaxFaults /\ (Passive => faults' = faults)
      BY PassiveKeepsRest DEF ShapeInv, SessionsTypeOK
    <3>2. QED
      BY <3>1, NextIsOneOf, StartsKeepFaults, GoingOnKeepsFaults, SessionsAssumption
         DEF ShapeInv
  <2>1. ASSUME NEW k \in Counters
        PROVE  fails'[k].n \in 0 .. MaxRequests + MaxFaults
    <3>1. Cardinality(Pending(k)') \in Nat
      BY <1>3 DEF Pending
    <3>2. fails'[k].n \in Nat
      BY <1>2
    <3>3. fails'[k].n + Cardinality(Pending(k)') <= Len(req') + faults'
      BY <1>2 DEF EachCountsOnce
    <3>4. QED
      BY <1>1, <2>0, <3>1, <3>2, <3>3, SessionsAssumption
  <2>2. \A k \in Counters : fails'[k] \in [n : Nat, expires : BOOLEAN]
    BY <1>2
  <2>3. QED
    BY <1>2, <2>1, <2>2
<1>6. RestTyped
  <2>1. CASE Starts
    BY <2>1, StartsKeepRest, StartsKeepCounts
       DEF CountersKept, ShapeInv, SessionsTypeOK, RestTyped
  <2>2. CASE Passive
    BY <2>2, PassiveKeepsRest, PassiveKeepsCounts DEF ShapeInv, SessionsTypeOK, RestTyped
  <2>3. ASSUME NEW r \in DOMAIN req, GoesOn(r)
        PROVE  RestTyped
    BY <2>3, GoingOnKeepsRest DEF ShapeInv, SessionsTypeOK, RestTyped
  <2>4. QED
    BY <2>1, <2>2, <2>3, NextIsOneOf
<1>7. SessionsTypeOK'
  BY <1>1, <1>4, <1>5, <1>6 DEF SessionsTypeOK, RowsStay, RestTyped
<1>8. QED
  BY <1>1, <1>2, <1>7 DEF ShapeInv

LEMMA InitShape == SessionsInit => ShapeInv
<1> SUFFICES ASSUME SessionsInit PROVE ShapeInv
  OBVIOUS
<1>1. /\ req = <<>> /\ tokens = <<>> /\ codes = 0
      /\ DOMAIN req = {} /\ DOMAIN tokens = {} /\ Len(req) = 0
      /\ req \in Seq(Request) /\ tokens \in Seq(RefreshToken)
  BY EmptySeq DEF SessionsInit
<1>2. (CHOOSE p \in Passwords : TRUE) \in Passwords
  BY SessionsAssumption
<1>3. SessionsTypeOK
  <2>1. 0 \in 0 .. MaxRequests /\ 0 \in 0 .. MaxFaults /\ 0 <= MaxRequests
    BY SessionsAssumption
  <2>2. fails \in [Counters -> [n : 0 .. MaxRequests + MaxFaults, expires : BOOLEAN]]
    BY SessionsAssumption DEF SessionsInit, NoFailures
  <2>3. code \in [Users -> 0 .. codes]
    BY <1>1 DEF SessionsInit
  <2>4. QED
    BY <1>1, <1>2, <2>1, <2>2, <2>3 DEF SessionsInit, SessionsTypeOK
<1>4. RequestsFit
  BY <1>1 DEF RequestsFit
<1>5. Storing = {} /\ \A k \in Counters : Pending(k) = {}
  BY <1>1 DEF Storing, Pending
<1>6. EachCountsOnce
  <2>1. Cardinality({}) = 0
    BY FS_EmptySet
  <2>2. codes + Cardinality(Storing) <= Len(req)
    <3>1. Cardinality(Storing) = 0
      BY <1>5, <2>1
    <3>2. QED
      BY <1>1, <3>1
  <2>3. ASSUME NEW k \in Counters
        PROVE  fails[k].n + Cardinality(Pending(k)) <= Len(req) + faults
    <3>1. Cardinality(Pending(k)) = 0
      BY <1>5, <2>1
    <3>2. fails[k].n = 0 /\ faults = 0
      BY DEF SessionsInit, NoFailures
    <3>3. QED
      BY <1>1, <3>1, <3>2
  <2>4. QED
    BY <2>2, <2>3 DEF EachCountsOnce
<1>7. QED
  BY <1>3, <1>4, <1>6 DEF ShapeInv

LEMMA ShapeInvariant == SessionsSafetySpec => []ShapeInv
BY InitShape, NextKeepsShape, PTL DEF SessionsSafetySpec

(* The service's variables have their types, no more codes than requests,  *)
(* and no counter above the requests and the failed calls: recordFailure   *)
(* counts a request once, and once more for each INCR left unanswered.     *)
THEOREM SessionsTypeCorrect == SessionsSafetySpec => []SessionsTypeOK
<1>1. ShapeInv => SessionsTypeOK
  BY DEF ShapeInv
<1>2. QED
  BY <1>1, ShapeInvariant, PTL

-----------------------------------------------------------------------------
(***************************************************************************)
(* Logins.  RefreshToken reads a token, revokes it and inserts its         *)
(* successor in three statements; what makes them one, for a login whose   *)
(* exchanges were never raced, is that no other exchange of the login is   *)
(* under way, that the token it presents stays the live one until the      *)
(* exchange revokes it, and that no token of the login is live from then   *)
(* until the insert.                                                       *)
(***************************************************************************)
Exchanges(r) == req[r].op = "refresh" /\ req[r].step \in Exchanging

Root(r) == tokens[req[r].arg].root

OneUserPerLogin ==
  /\ \A t \in DOMAIN tokens : tokens[t].user = tokens[tokens[t].root].user
  /\ \A r \in DOMAIN req : req[r].op = "refresh" => req[r].user = tokens[req[r].arg].user

ExchangesDoNotOverlap ==
  \A q, r \in DOMAIN req :
    Exchanges(q) /\ Exchanges(r) /\ Root(q) = Root(r) /\ Root(r) \notin raced => q = r

PresentedIsLive ==
  \A r \in DOMAIN req :
    Exchanges(r) /\ req[r].step # "insert" /\ Root(r) \notin raced => tokens[req[r].arg].live

RevokedBeforeInsert ==
  \A r \in DOMAIN req, t \in DOMAIN tokens :
    Exchanges(r) /\ req[r].step = "insert" /\ Root(r) \notin raced /\ tokens[t].live
      => tokens[t].root # Root(r)

EndedIsNotExchanged ==
  \A r \in DOMAIN req : Exchanges(r) /\ Root(r) \in ended => Root(r) \in raced

LoginInv ==
  /\ OneUserPerLogin
  /\ ExchangesDoNotOverlap
  /\ PresentedIsLive
  /\ RevokedBeforeInsert
  /\ EndedIsNotExchanged
  /\ OneSessionPerLogin
  /\ LogoutEndsSessions

(* The requests' side of a step that begins no exchange and moves none to  *)
(* its insert: an exchange afterwards is one from before.                  *)
NoNewExchange ==
  /\ \A i \in DOMAIN req' :
       req'[i].op = "refresh" =>
         /\ i \in DOMAIN req /\ req[i].op = "refresh"
         /\ req'[i].arg = req[i].arg /\ req'[i].user = req[i].user
  /\ \A i \in DOMAIN req' :
       Exchanges(i)' => Exchanges(i) /\ (req'[i].step = "insert" <=> req[i].step = "insert")

(* A step that leaves the tokens and the histories alone, and begins no    *)
(* exchange, keeps everything.                                             *)
LEMMA QuietKeepsLogins ==
  ASSUME ShapeInv, LoginInv, UNCHANGED <<tokens, raced, ended>>, NoNewExchange
  PROVE  LoginInv'
<1> USE DEF LoginInv
<1>1. \A r \in DOMAIN req' : req'[r].op = "refresh" => Root(r)' = Root(r)
  BY DEF NoNewExchange, Root
<1>2. OneUserPerLogin'
  BY DEF NoNewExchange, OneUserPerLogin
<1>3. \A r \in DOMAIN req' : Exchanges(r)' =>
        /\ r \in DOMAIN req /\ Exchanges(r) /\ Root(r)' = Root(r)
        /\ req'[r].arg = req[r].arg
        /\ req'[r].step = "insert" <=> req[r].step = "insert"
  BY <1>1 DEF NoNewExchange, Exchanges
<1>4. ExchangesDoNotOverlap' /\ PresentedIsLive'
  BY <1>3 DEF ExchangesDoNotOverlap, PresentedIsLive
<1>5. RevokedBeforeInsert' /\ EndedIsNotExchanged'
  BY <1>3 DEF RevokedBeforeInsert, EndedIsNotExchanged
<1>6. OneSessionPerLogin' /\ LogoutEndsSessions'
  BY DEF OneSessionPerLogin, LogoutEndsSessions
<1>7. QED
  BY <1>2, <1>4, <1>5, <1>6

(* Steps that are quiet in that sense. *)
LEMMA BeginIsQuiet ==
  ASSUME ShapeInv, NEW op \in Ops \ {"refresh"}, NEW u \in Users,
         NEW arg \in Nat \cup Passwords, NEW step \in Steps, Begin(op, u, arg, step)
  PROVE  NoNewExchange
BY BeginAppends DEF ShapeInv, NoNewExchange, Exchanges

LEMMA GotoIsQuiet ==
  ASSUME ShapeInv, NEW r \in DOMAIN req, NEW step \in Steps, Goto(r, step),
         req[r].op = "refresh" => step = "done" \/ (req[r].step = "user" /\ step = "revoke")
  PROVE  NoNewExchange
<1>1. /\ DOMAIN req' = DOMAIN req
      /\ \A i \in DOMAIN req : i # r => req'[i] = req[i]
      /\ req'[r].step = step /\ req'[r].user = req[r].user
      /\ step # "done" => req'[r].op = req[r].op /\ req'[r].arg = req[r].arg
      /\ step = "done" => req'[r].op = "none"
  BY GotoMoves DEF ShapeInv
<1>2. QED
  BY <1>1 DEF NoNewExchange, Exchanges, Exchanging

BeginsNoExchange ==
  \E op \in Ops \ {"refresh"}, u \in Users, arg \in Nat \cup Passwords, step \in Steps :
    Begin(op, u, arg, step)

LEMMA StartsAreQuiet ==
  ASSUME ShapeInv, Starts, \A t \in DOMAIN tokens : ~StartRefresh(t)
  PROVE  UNCHANGED <<tokens, raced, ended>> /\ NoNewExchange
<1> USE DEF Ops, Steps
<1>1. UNCHANGED <<tokens, raced, ended>>
  BY DEF Starts, StartLogin, StartChangePassword, StartForgot, StartPin, StartReset,
     StartLogout, sessions, history
<1>2. \A t \in DOMAIN tokens : tokens[t].user \in Users
  BY ListsAreFunctions DEF ShapeInv, RefreshToken
<1>3. ASSUME NEW t \in DOMAIN tokens, StartLogout(t)
      PROVE  BeginsNoExchange
  BY <1>2, <1>3 DEF StartLogout, BeginsNoExchange
<1>4. ASSUME NEW u \in Users, NEW p \in Passwords,
             StartLogin(u, p) \/ StartChangePassword(u, p)
      PROVE  BeginsNoExchange
  BY <1>4 DEF StartLogin, StartChangePassword, BeginsNoExchange
<1>5. ASSUME NEW u \in Users, StartForgot(u)
      PROVE  BeginsNoExchange
  BY <1>5 DEF StartForgot, BeginsNoExchange
<1>6. ASSUME NEW u \in Users, NEW pin \in 0..2, StartPin(u, pin)
      PROVE  BeginsNoExchange
  BY <1>6 DEF StartPin, BeginsNoExchange
<1>7. ASSUME NEW u \in Users, NEW c \in 0..codes, StartReset(u, c)
      PROVE  BeginsNoExchange
  BY <1>7 DEF StartReset, BeginsNoExchange
<1>8. BeginsNoExchange
  BY <1>3, <1>4, <1>5, <1>6, <1>7 DEF Starts
<1>9. QED
  BY <1>1, <1>8, BeginIsQuiet DEF BeginsNoExchange

LEMMA PassiveIsQuiet ==
  ASSUME Passive
  PROVE  UNCHANGED <<tokens, raced, ended>> /\ NoNewExchange
<1>1. UNCHANGED <<tokens, raced, ended, req>>
  BY DEF Passive, CreateUser, SetupPins, CodeExpires, UpdateStatus, WindowEnds,
     sessionsVars, sessions, history
<1>2. QED
  BY <1>1 DEF NoNewExchange, Exchanges

LEMMA GoingOnIsQuiet ==
  ASSUME ShapeInv, NEW r \in DOMAIN req, GoesOn(r), ~RevokeRefreshToken(r),
         ~InsertRefreshToken(r), ~RevokeAllUserRefreshTokens(r)
  PROVE  UNCHANGED <<tokens, raced, ended>> /\ NoNewExchange
<1>1. UNCHANGED <<tokens, raced, ended>>
  BY DEF GoesOn, Proceed, VerifyLogin, VerifyPin, VerifyCode, Count, SetExpiry,
     ClearFailures, StoreCode, DropCode, UpdatePassword, CheckUser, RequestFails,
     CountUnanswered, DelFails, sessions, history
<1>2. req[r].op = "refresh" => CheckUser(r) \/ RequestFails(r)
  BY DEF GoesOn, Proceed, VerifyLogin, VerifyPin, VerifyCode, Count, SetExpiry,
     ClearFailures, StoreCode, DropCode, UpdatePassword, CountUnanswered, DelFails, At,
     ShapeInv, RequestsFit, Fits, Exchanging
<1>3. CASE req[r].op = "refresh"
  <2>1. \E step \in Steps : /\ Goto(r, step)
                            /\ step = "done" \/ (req[r].step = "user" /\ step = "revoke")
    BY <1>2, <1>3 DEF CheckUser, RequestFails, At, Steps, Exchanging
  <2>2. QED
    BY <1>1, <2>1, GotoIsQuiet
<1>4. CASE req[r].op # "refresh"
  <2>1. PICK step \in Steps : Goto(r, step)
    BY GoingOnMoves DEF Moves, ShapeInv
  <2>2. QED
    BY <1>1, <1>4, <2>1, GotoIsQuiet
<1>5. QED
  BY <1>3, <1>4

-----------------------------------------------------------------------------
(* The four statements that are not quiet. *)
LEMMA StartRefreshKeepsLogins ==
  ASSUME ShapeInv, LoginInv, NEW t \in DOMAIN tokens, StartRefresh(t)
  PROVE  LoginInv'
<1> USE DEF LoginInv
<1>1. PICK new :
         /\ DOMAIN req' = DOMAIN req \cup {new} /\ new \notin DOMAIN req
         /\ \A i \in DOMAIN req : req'[i] = req[i]
         /\ req'[new].op = "refresh" /\ req'[new].user = tokens[t].user
         /\ req'[new].arg = t
         /\ tokens[t].live => req'[new].step = "user"
         /\ ~tokens[t].live => req'[new].step = "revokeAll"
  <2> DEFINE step == IF tokens[t].live THEN "user" ELSE "revokeAll"
  <2>1. /\ Begin("refresh", tokens[t].user, t, step)
        /\ tokens[t].user \in Users /\ t \in Nat
        /\ step \in Steps /\ "refresh" \in Ops
    BY ListsAreFunctions DEF ShapeInv, StartRefresh, RefreshToken, Steps, Exchanging, Ops
  <2>2. /\ tokens[t].live => step = "user"
        /\ ~tokens[t].live => step = "revokeAll"
    OBVIOUS
  <2> HIDE DEF step
  <2>3. /\ DOMAIN req' = DOMAIN req \cup {Len(req) + 1} /\ Len(req) + 1 \notin DOMAIN req
        /\ \A i \in DOMAIN req : req'[i] = req[i]
        /\ req'[Len(req) + 1].op = "refresh" /\ req'[Len(req) + 1].step = step
        /\ req'[Len(req) + 1].user = tokens[t].user /\ req'[Len(req) + 1].arg = t
    BY <2>1, BeginAppends DEF ShapeInv
  <2>4. QED
    BY <2>2, <2>3
<1>2. UNCHANGED <<tokens, ended>> /\ raced \subseteq raced'
  BY DEF StartRefresh, sessions
<1>3. \A i \in DOMAIN req : /\ Exchanges(i)' <=> Exchanges(i)
                           /\ Root(i)' = Root(i)
  BY <1>1, <1>2 DEF Exchanges, Root
<1>4. /\ Root(new)' = tokens[t].root
      /\ Exchanges(new)' => tokens[t].live
      /\ Exchanges(new)' => req'[new].step = "user"
  BY <1>1, <1>2 DEF Exchanges, Root, Exchanging
<1>5. Exchanges(new)' /\ Root(new)' \notin raced' =>
        \A i \in DOMAIN req : Exchanges(i) => Root(i) # Root(new)'
  <2>1. \A i \in DOMAIN req : Exchanges(i) => Root(i) \in BeingExchanged
    BY ExchangedAreRows DEF ShapeInv, Exchanges, Root
  <2>2. tokens[t].live /\ tokens[t].root \in BeingExchanged => tokens[t].root \in raced'
    BY DEF StartRefresh
  <2>3. QED
    BY <1>4, <2>1, <2>2
<1>6. OneUserPerLogin'
  <2>1. \A i \in DOMAIN req' :
          req'[i].op = "refresh" => req'[i].user = tokens[req'[i].arg].user
    BY <1>1 DEF OneUserPerLogin
  <2>2. QED
    BY <1>2, <2>1 DEF OneUserPerLogin
<1>7. ExchangesDoNotOverlap'
  <2> SUFFICES ASSUME NEW p \in DOMAIN req', NEW q \in DOMAIN req', Exchanges(p)',
                      Exchanges(q)', Root(p)' = Root(q)', Root(q)' \notin raced'
               PROVE  p = q
    BY DEF ExchangesDoNotOverlap
  <2>1. CASE p = new \/ q = new
    BY <1>1, <1>3, <1>5, <2>1
  <2>2. CASE p # new /\ q # new
    BY <1>1, <1>2, <1>3, <2>2 DEF ExchangesDoNotOverlap
  <2>3. QED
    BY <2>1, <2>2
<1>8. PresentedIsLive'
  <2> SUFFICES ASSUME NEW i \in DOMAIN req', Exchanges(i)', req'[i].step # "insert",
                      Root(i)' \notin raced'
               PROVE  tokens'[req'[i].arg].live
    BY DEF PresentedIsLive
  <2>1. CASE i = new
    BY <1>1, <1>2, <1>4, <2>1
  <2>2. CASE i # new
    BY <1>1, <1>2, <1>3, <2>2 DEF PresentedIsLive
  <2>3. QED
    BY <2>1, <2>2
<1>9. RevokedBeforeInsert'
  <2> SUFFICES ASSUME NEW i \in DOMAIN req', NEW x \in DOMAIN tokens', Exchanges(i)',
                      req'[i].step = "insert", Root(i)' \notin raced', tokens'[x].live
               PROVE  tokens'[x].root # Root(i)'
    BY DEF RevokedBeforeInsert
  <2>1. i # new
    BY <1>4
  <2>2. QED
    BY <1>1, <1>2, <1>3, <2>1 DEF RevokedBeforeInsert
<1>10. EndedIsNotExchanged'
  <2> SUFFICES ASSUME NEW i \in DOMAIN req', Exchanges(i)', Root(i)' \in ended'
               PROVE  Root(i)' \in raced'
    BY DEF EndedIsNotExchanged
  <2>1. CASE i = new
    BY <1>2, <1>4, <2>1 DEF LogoutEndsSessions
  <2>2. CASE i # new
    BY <1>1, <1>2, <1>3, <2>2 DEF EndedIsNotExchanged
  <2>3. QED
    BY <2>1, <2>2
<1>11. OneSessionPerLogin' /\ LogoutEndsSessions'
  BY <1>2 DEF OneSessionPerLogin, LogoutEndsSessions
<1>12. QED
  BY <1>6, <1>7, <1>8, <1>9, <1>10, <1>11

LEMMA RevokeKeepsLogins ==
  ASSUME ShapeInv, LoginInv, NEW r \in DOMAIN req, RevokeRefreshToken(r)
  PROVE  LoginInv'
<1> USE DEF LoginInv
<1>1. /\ req[r].op = "refresh" /\ req[r].step = "revoke" /\ Goto(r, "insert")
      /\ UNCHANGED <<raced, ended>>
  BY DEF RevokeRefreshToken, At, history
<1>2. /\ DOMAIN req' = DOMAIN req
      /\ \A i \in DOMAIN req :
           /\ req'[i].op = req[i].op /\ req'[i].arg = req[i].arg
           /\ req'[i].user = req[i].user
           /\ i = r => req'[i].step = "insert"
           /\ i # r => req'[i].step = req[i].step
  BY <1>1, GotoMoves DEF ShapeInv, Steps, Exchanging
<1>3. /\ DOMAIN tokens' = DOMAIN tokens /\ req[r].arg \in DOMAIN tokens
      /\ \A t \in DOMAIN tokens :
           /\ tokens'[t].user = tokens[t].user
           /\ tokens'[t].root = tokens[t].root
           /\ tokens'[t].live = (tokens[t].live /\ t # req[r].arg)
  BY RevokeOnlyRevokes DEF ShapeInv
<1>4. \A i \in DOMAIN req : req[i].op = "refresh" => req[i].arg \in DOMAIN tokens
  BY DEF ShapeInv, SessionsTypeOK
<1>5. \A i \in DOMAIN req :
        /\ Exchanges(i)' <=> Exchanges(i)
        /\ Exchanges(i) => Root(i)' = Root(i)
  BY <1>1, <1>2, <1>3, <1>4 DEF Exchanges, Root, Exchanging
<1>6. Exchanges(r)
  BY <1>1 DEF Exchanges, Exchanging
<1>7. OneUserPerLogin'
  <2>1. \A t \in DOMAIN tokens : tokens[t].root \in DOMAIN tokens
    BY ListsAreFunctions DEF ShapeInv
  <2>2. \A t \in DOMAIN tokens' : tokens'[t].user = tokens'[tokens'[t].root].user
    BY <1>3, <2>1 DEF OneUserPerLogin
  <2>3. \A i \in DOMAIN req' :
          req'[i].op = "refresh" => req'[i].user = tokens'[req'[i].arg].user
    BY <1>2, <1>3, <1>4 DEF OneUserPerLogin
  <2>4. QED
    BY <2>2, <2>3 DEF OneUserPerLogin
<1>8. ExchangesDoNotOverlap' /\ EndedIsNotExchanged'
  BY <1>1, <1>2, <1>5 DEF ExchangesDoNotOverlap, EndedIsNotExchanged
<1>9. PresentedIsLive'
  <2> SUFFICES ASSUME NEW i \in DOMAIN req, Exchanges(i), i # r, req[i].step # "insert",
                      Root(i) \notin raced
               PROVE  tokens'[req[i].arg].live
    BY <1>1, <1>2, <1>5 DEF PresentedIsLive
  <2>1. Root(i) # Root(r)
    BY <1>6 DEF ExchangesDoNotOverlap
  <2>2. req[i].arg # req[r].arg
    BY <2>1 DEF Root
  <2>3. tokens[req[i].arg].live /\ req[i].arg \in DOMAIN tokens
    BY <1>4 DEF PresentedIsLive, Exchanges
  <2>4. QED
    BY <1>3, <2>2, <2>3
<1>10. RevokedBeforeInsert'
  <2> SUFFICES ASSUME NEW i \in DOMAIN req', NEW t \in DOMAIN tokens', Exchanges(i)',
                      req'[i].step = "insert", Root(i)' \notin raced', tokens'[t].live
               PROVE  tokens'[t].root # Root(i)'
    BY DEF RevokedBeforeInsert
  <2>1. i \in DOMAIN req /\ Exchanges(i) /\ Root(i)' = Root(i) /\ Root(i) \notin raced
    BY <1>1, <1>2, <1>5
  <2>2. /\ t \in DOMAIN tokens /\ tokens'[t].root = tokens[t].root
        /\ tokens[t].live /\ t # req[r].arg
    BY <1>3
  <2>3. CASE i = r
    <3>1. tokens[req[r].arg].live
      BY <1>1, <2>1, <2>3 DEF PresentedIsLive
    <3>2. QED
      BY <1>3, <2>1, <2>2, <2>3, <3>1 DEF OneSessionPerLogin, Root
  <2>4. CASE i # r
    <3>1. req[i].step = "insert"
      BY <1>2, <2>1, <2>4
    <3>2. QED
      BY <2>1, <2>2, <3>1 DEF RevokedBeforeInsert
  <2>5. QED
    BY <2>3, <2>4
<1>11. OneSessionPerLogin' /\ LogoutEndsSessions'
  BY <1>1, <1>3 DEF OneSessionPerLogin, LogoutEndsSessions
<1>12. QED
  BY <1>7, <1>8, <1>9, <1>10, <1>11

LEMMA InsertKeepsLogins ==
  ASSUME ShapeInv, LoginInv, NEW r \in DOMAIN req, InsertRefreshToken(r)
  PROVE  LoginInv'
<1> USE DEF LoginInv
<1> DEFINE new == Len(tokens) + 1
<1>1. req[r].step = "insert" /\ Goto(r, "done") /\ UNCHANGED <<raced, ended>>
  BY DEF InsertRefreshToken, history
<1>2. /\ DOMAIN req' = DOMAIN req
      /\ \A i \in DOMAIN req : i # r => req'[i] = req[i]
      /\ req'[r].op = "none"
  BY <1>1, GotoMoves DEF ShapeInv, Steps
<1>3. /\ DOMAIN tokens' = DOMAIN tokens \cup {new} /\ new \notin DOMAIN tokens
      /\ \A t \in DOMAIN tokens : tokens'[t] = tokens[t]
      /\ tokens'[new].user = req[r].user
      /\ \/ req[r].op = "login" /\ tokens'[new].root = new
         \/ req[r].op = "refresh" /\ tokens'[new].root = Root(r)
  BY InsertAppends DEF ShapeInv, Root
<1> HIDE DEF new
<1>4. /\ \A i \in DOMAIN req : req[i].op = "refresh" => req[i].arg \in DOMAIN tokens
      /\ \A t \in DOMAIN tokens : tokens[t].root \in DOMAIN tokens
      /\ raced \subseteq DOMAIN tokens /\ ended \subseteq DOMAIN tokens
  BY ListsAreFunctions DEF ShapeInv, SessionsTypeOK
<1>5. \A i \in DOMAIN req :
        /\ Exchanges(i)' => i # r /\ Exchanges(i)
        /\ Exchanges(i) => Root(i) \in DOMAIN tokens
        /\ i # r /\ Exchanges(i) => Root(i)' = Root(i)
  BY <1>2, <1>3, <1>4 DEF Exchanges, Root
<1>6. req[r].op = "refresh" => Exchanges(r)
  BY <1>1 DEF Exchanges, Exchanging
<1>7. OneUserPerLogin'
  <2>1. \A t \in DOMAIN tokens' : tokens'[t].user = tokens'[tokens'[t].root].user
    BY <1>3, <1>4 DEF OneUserPerLogin, Root
  <2>2. QED
    BY <1>2, <1>3, <1>4, <2>1 DEF OneUserPerLogin
<1>8. ExchangesDoNotOverlap' /\ EndedIsNotExchanged'
  BY <1>1, <1>2, <1>5 DEF ExchangesDoNotOverlap, EndedIsNotExchanged
<1>9. PresentedIsLive'
  BY <1>1, <1>2, <1>3, <1>4, <1>5 DEF PresentedIsLive, Exchanges
<1>10. RevokedBeforeInsert'
  <2> SUFFICES ASSUME NEW i \in DOMAIN req, i # r, Exchanges(i), req[i].step = "insert",
                      Root(i) \notin raced, NEW t \in DOMAIN tokens', tokens'[t].live
               PROVE  tokens'[t].root # Root(i)
    BY <1>1, <1>2, <1>5 DEF RevokedBeforeInsert
  <2>1. CASE t \in DOMAIN tokens
    BY <1>3, <2>1 DEF RevokedBeforeInsert
  <2>2. CASE t = new
    BY <1>3, <1>5, <1>6, <2>2 DEF ExchangesDoNotOverlap
  <2>3. QED
    BY <1>3, <2>1, <2>2
<1>11. \A t \in DOMAIN tokens :
         tokens[t].live /\ tokens'[new].root \notin raced => tokens[t].root # tokens'[new].root
  BY <1>1, <1>3, <1>4, <1>6 DEF RevokedBeforeInsert
<1>12. OneSessionPerLogin'
  BY <1>1, <1>3, <1>11 DEF OneSessionPerLogin
<1>13. LogoutEndsSessions'
  BY <1>1, <1>3, <1>4, <1>6 DEF LogoutEndsSessions, EndedIsNotExchanged
<1>14. QED
  BY <1>7, <1>8, <1>9, <1>10, <1>12, <1>13

LEMMA RevokeAllKeepsLogins ==
  ASSUME ShapeInv, LoginInv, NEW r \in DOMAIN req, RevokeAllUserRefreshTokens(r)
  PROVE  LoginInv'
<1> USE DEF LoginInv
<1> DEFINE roots == {tokens[t].root : t \in {x \in DOMAIN tokens : tokens[x].user = req[r].user}}
<1>1. /\ req[r].step = "revokeAll" /\ Goto(r, "done")
      /\ ended' = ended \cup roots
      /\ raced' = raced \cup (roots \cap BeingExchanged)
  BY DEF RevokeAllUserRefreshTokens
<1>2. /\ DOMAIN req' = DOMAIN req
      /\ \A i \in DOMAIN req : i # r => req'[i] = req[i]
      /\ req'[r].op = "none"
  BY <1>1, GotoMoves DEF ShapeInv, Steps
<1>3. /\ DOMAIN tokens' = DOMAIN tokens
      /\ \A t \in DOMAIN tokens :
           /\ tokens'[t].user = tokens[t].user
           /\ tokens'[t].root = tokens[t].root
           /\ tokens'[t].live = (tokens[t].live /\ tokens[t].user # req[r].user)
  BY RevokeAllOnlyRevokes DEF ShapeInv
<1>4. /\ \A i \in DOMAIN req : req[i].op = "refresh" => req[i].arg \in DOMAIN tokens
      /\ \A t \in DOMAIN tokens : tokens[t].root \in DOMAIN tokens
  BY ListsAreFunctions DEF ShapeInv, SessionsTypeOK
<1>5. \A i \in DOMAIN req :
        /\ Exchanges(i)' => i # r /\ Exchanges(i)
        /\ i # r /\ Exchanges(i) => Root(i)' = Root(i)
        /\ Exchanges(i) => req[i].arg \in DOMAIN tokens
        /\ Exchanges(i) => Root(i) \in BeingExchanged
  BY <1>2, <1>3, <1>4, ExchangedAreRows DEF ShapeInv, Exchanges, Root
<1>6. \A t \in DOMAIN tokens : tokens[t].user = req[r].user <=> tokens[t].root \in roots
  <2>1. \A t \in DOMAIN tokens : tokens[t].user = req[r].user => tokens[t].root \in roots
    OBVIOUS
  <2>2. \A s, t \in DOMAIN tokens : tokens[s].root = tokens[t].root => tokens[s].user = tokens[t].user
    BY DEF OneUserPerLogin
  <2>3. \A x \in roots : \E s \in DOMAIN tokens :
          tokens[s].user = req[r].user /\ tokens[s].root = x
    OBVIOUS
  <2> HIDE DEF roots
  <2>4. QED
    BY <2>1, <2>2, <2>3
<1> HIDE DEF roots
<1>7. OneUserPerLogin'
  <2>1. \A t \in DOMAIN tokens' : tokens'[t].user = tokens'[tokens'[t].root].user
    BY <1>3, <1>4 DEF OneUserPerLogin
  <2>2. \A i \in DOMAIN req' :
          req'[i].op = "refresh" => req'[i].user = tokens'[req'[i].arg].user
    BY <1>2, <1>3, <1>4 DEF OneUserPerLogin
  <2>3. QED
    BY <2>1, <2>2 DEF OneUserPerLogin
<1>8. ExchangesDoNotOverlap'
  BY <1>1, <1>2, <1>5 DEF ExchangesDoNotOverlap
<1>9. EndedIsNotExchanged'
  BY <1>1, <1>2, <1>5 DEF EndedIsNotExchanged
<1>10. PresentedIsLive'
  <2> SUFFICES ASSUME NEW i \in DOMAIN req', Exchanges(i)', req'[i].step # "insert",
                      Root(i)' \notin raced'
               PROVE  tokens'[req'[i].arg].live
    BY DEF PresentedIsLive
  <2>1. /\ i \in DOMAIN req /\ i # r /\ Exchanges(i) /\ req'[i] = req[i]
        /\ Root(i)' = Root(i) /\ req[i].arg \in DOMAIN tokens
        /\ Root(i) \in BeingExchanged
    BY <1>2, <1>5
  <2>2. Root(i) \notin raced /\ Root(i) \notin roots
    BY <1>1, <2>1
  <2>3. tokens[req[i].arg].live
    BY <2>1, <2>2 DEF PresentedIsLive
  <2>4. tokens[req[i].arg].user # req[r].user
    BY <1>6, <2>1, <2>2 DEF Root
  <2>5. QED
    BY <1>3, <2>1, <2>3, <2>4
<1>11. RevokedBeforeInsert'
  <2> SUFFICES ASSUME NEW i \in DOMAIN req', NEW t \in DOMAIN tokens', Exchanges(i)',
                      req'[i].step = "insert", Root(i)' \notin raced', tokens'[t].live
               PROVE  tokens'[t].root # Root(i)'
    BY DEF RevokedBeforeInsert
  <2>1. /\ i \in DOMAIN req /\ Exchanges(i) /\ req'[i] = req[i] /\ Root(i)' = Root(i)
        /\ t \in DOMAIN tokens /\ tokens[t].live /\ tokens'[t].root = tokens[t].root
    BY <1>2, <1>3, <1>5
  <2>2. Root(i) \notin raced
    BY <1>1, <2>1
  <2>3. QED
    BY <2>1, <2>2 DEF RevokedBeforeInsert
<1>12. OneSessionPerLogin'
  BY <1>1, <1>3 DEF OneSessionPerLogin
<1>13. LogoutEndsSessions'
  BY <1>1, <1>3, <1>6 DEF LogoutEndsSessions
<1>14. QED
  BY <1>7, <1>8, <1>9, <1>10, <1>11, <1>12, <1>13

LEMMA NextKeepsLogins ==
  ASSUME ShapeInv, LoginInv, [SessionsNext]_sessionsVars
  PROVE  LoginInv'
<1>1. CASE Starts
  BY <1>1, StartsAreQuiet, QuietKeepsLogins, StartRefreshKeepsLogins
<1>2. CASE Passive
  BY <1>2, PassiveIsQuiet, QuietKeepsLogins
<1>3. ASSUME NEW r \in DOMAIN req, GoesOn(r)
      PROVE  LoginInv'
  BY <1>3, GoingOnIsQuiet, QuietKeepsLogins, RevokeKeepsLogins, InsertKeepsLogins,
     RevokeAllKeepsLogins
<1>4. QED
  BY <1>1, <1>2, <1>3, NextIsOneOf

LEMMA LoginInvariant == SessionsSafetySpec => []LoginInv
<1>1. SessionsInit => LoginInv
  <2> SUFFICES ASSUME SessionsInit PROVE LoginInv
    OBVIOUS
  <2>1. DOMAIN req = {} /\ DOMAIN tokens = {}
    BY DEF SessionsInit
  <2>2. QED
    BY <2>1 DEF LoginInv, OneUserPerLogin, ExchangesDoNotOverlap, PresentedIsLive,
       RevokedBeforeInsert, EndedIsNotExchanged, OneSessionPerLogin, LogoutEndsSessions
<1>2. QED
  BY <1>1, ShapeInvariant, NextKeepsLogins, PTL DEF SessionsSafetySpec

(* A login whose exchanges were not raced has one refresh token in use:    *)
(* the three statements of RefreshToken then behave as one.                *)
THEOREM LoginsHaveOneSession == SessionsSafetySpec => []OneSessionPerLogin
<1>1. LoginInv => OneSessionPerLogin
  BY DEF LoginInv
<1>2. QED
  BY <1>1, LoginInvariant, PTL

(* Logout, and the reuse of a revoked token, end every earlier login of    *)
(* the user whose exchange was not under way at that moment.               *)
THEOREM SessionsEnd == SessionsSafetySpec => []LogoutEndsSessions
<1>1. LoginInv => LogoutEndsSessions
  BY DEF LoginInv
<1>2. QED
  BY <1>1, LoginInvariant, PTL

-----------------------------------------------------------------------------
(***************************************************************************)
(* Lock-outs.  INCR and EXPIRE are two calls: in every state a counter     *)
(* that counts something has its expiry, or a request is about to set it,  *)
(* or the call that would have set it, or the answer that asks for it, was *)
(* lost since the counter was last at zero.                                *)
(***************************************************************************)
AboutToExpire(k) == \E r \in DOMAIN req : req[r].step = "window" /\ Counter(r) = k

LockoutsHaveAnEnd ==
  \A k \in Counters :
    fails[k].n > 0 => fails[k].expires \/ k \in orphaned \/ AboutToExpire(k)

LEMMA StartsKeepExpiry ==
  ASSUME ShapeInv, LockoutsHaveAnEnd, Starts
  PROVE  LockoutsHaveAnEnd'
<1>1. UNCHANGED <<fails, orphaned>>
  BY StartsKeepCounts, StartsKeepRest DEF CountersKept
<1>2. PICK op \in Ops, u \in Users, arg \in Nat \cup Passwords, step \in Steps :
        Begin(op, u, arg, step)
  BY StartsBegin DEF Begins, ShapeInv
<1>3. DOMAIN req \subseteq DOMAIN req' /\ \A i \in DOMAIN req : req'[i] = req[i]
  BY <1>2, BeginAppends DEF ShapeInv
<1>4. \A k \in Counters : AboutToExpire(k) => AboutToExpire(k)'
  BY <1>3 DEF AboutToExpire, Counter
<1>5. QED
  BY <1>1, <1>4 DEF LockoutsHaveAnEnd

LEMMA PassiveKeepsExpiry ==
  ASSUME ShapeInv, LockoutsHaveAnEnd, Passive
  PROVE  LockoutsHaveAnEnd'
<1>1. UNCHANGED req
  BY PassiveKeepsCounts
<1>2. \A k \in Counters :
        \/ fails'[k] = fails[k] /\ (k \in orphaned => k \in orphaned')
        \/ fails'[k].n = 0
  <2>1. \/ UNCHANGED <<fails, orphaned>>
        \/ \E k \in Counters : /\ fails' = [fails EXCEPT ![k] = NoFailures]
                               /\ orphaned' = orphaned \ {k}
    BY DEF Passive, CreateUser, SetupPins, CodeExpires, UpdateStatus, WindowEnds,
       sessionsVars, redis, history
  <2>2. NoFailures.n = 0
    BY DEF NoFailures
  <2>3. QED
    BY <2>1, <2>2 DEF ShapeInv, SessionsTypeOK
<1>3. \A k \in Counters : AboutToExpire(k)' = AboutToExpire(k)
  BY <1>1 DEF AboutToExpire, Counter
<1>4. QED
  BY <1>1, <1>2, <1>3 DEF LockoutsHaveAnEnd

LEMMA GoingOnKeepsExpiry ==
  ASSUME ShapeInv, LockoutsHaveAnEnd, NEW r \in DOMAIN req, GoesOn(r)
  PROVE  LockoutsHaveAnEnd'
<1>1. fails \in [Counters -> [n : Nat, expires : BOOLEAN]] /\ req[r].user \in Users
  <2>1. req[r] \in Request
    BY ListsAreFunctions DEF ShapeInv
  <2>2. QED
    BY <2>1 DEF Request, ShapeInv, SessionsTypeOK
<1>2. PICK step \in Steps : Goto(r, step)
  BY GoingOnMoves DEF Moves, ShapeInv
<1>3. /\ DOMAIN req' = DOMAIN req /\ \A i \in DOMAIN req : i # r => req'[i] = req[i]
      /\ req'[r].step = step /\ req'[r].user = req[r].user
      /\ step # "done" => req'[r].op = req[r].op
  BY <1>2, GotoMoves DEF ShapeInv
<1>4. ASSUME NEW k \in Counters, AboutToExpire(k),
             req[r].step # "window" \/ Counter(r) # k
      PROVE  AboutToExpire(k)'
  <2>1. PICK w \in DOMAIN req : req[w].step = "window" /\ Counter(w) = k
    BY <1>4 DEF AboutToExpire
  <2>2. w # r
    BY <1>4, <2>1
  <2>3. QED
    BY <1>3, <2>1, <2>2 DEF AboutToExpire, Counter
<1>5. Fits(req[r].op, req[r].step)
  BY DEF ShapeInv, RequestsFit
<1>6. CASE Count(r)
  <2>1. PICK c \in Counters : c = Counter(r)
    BY <1>1, <1>5, <1>6 DEF Count, Fits, Exchanging, Counter, Counters
  <2>2. /\ fails' = [fails EXCEPT ![c].n = @ + 1] /\ UNCHANGED orphaned
        /\ req[r].step = "count" /\ Goto(r, IF fails[c].n = 0 THEN "window" ELSE "done")
    BY <1>6, <2>1 DEF Count, history
  <2>3. \A k \in Counters : /\ fails'[k].expires = fails[k].expires
                            /\ k # c => fails'[k].n = fails[k].n
    BY <1>1, <2>2
  <2>4. fails[c].n = 0 => AboutToExpire(c)'
    <3>1. fails[c].n = 0 => Goto(r, "window")
      BY <2>2
    <3>2. fails[c].n = 0 => req'[r].step = "window" /\ req'[r].op = req[r].op
      BY <3>1, GotoMoves DEF ShapeInv, Steps
    <3>3. QED
      BY <1>3, <2>1, <3>2 DEF AboutToExpire, Counter
  <2>5. ASSUME NEW k \in Counters, fails'[k].n > 0
        PROVE  fails'[k].expires \/ k \in orphaned' \/ AboutToExpire(k)'
    <3>1. CASE k = c /\ fails[c].n = 0
      BY <2>4, <3>1
    <3>2. CASE fails[k].n > 0
      BY <1>4, <2>2, <2>3, <3>2 DEF LockoutsHaveAnEnd
    <3>3. fails[k].n \in Nat
      BY <1>1
    <3>4. QED
      BY <2>3, <2>5, <3>1, <3>2, <3>3
  <2>6. QED
    BY <2>5 DEF LockoutsHaveAnEnd
<1>7. CASE SetExpiry(r)
  <2>1. PICK c \in Counters : c = Counter(r)
    BY <1>1, <1>5, <1>7 DEF SetExpiry, Fits, Exchanging, Counter, Counters
  <2>2. /\ fails' = [fails EXCEPT ![c].expires = (@ \/ fails[c].n > 0)]
        /\ UNCHANGED orphaned
    BY <1>7, <2>1 DEF SetExpiry, history
  <2>3. /\ \A k \in Counters : fails'[k].n = fails[k].n
        /\ \A k \in Counters : k # c => fails'[k].expires = fails[k].expires
        /\ fails[c].n > 0 => fails'[c].expires
    BY <1>1, <2>2
  <2>4. QED
    BY <1>4, <2>1, <2>2, <2>3 DEF LockoutsHaveAnEnd
<1>8. CASE ClearFailures(r)
  <2>1. \A k \in Counters :
          \/ fails'[k] = fails[k] /\ (k \in orphaned => k \in orphaned')
          \/ fails'[k].n = 0
    <3>1. \E k : fails' = [fails EXCEPT ![k] = NoFailures] /\ orphaned' = orphaned \ {k}
      BY <1>8 DEF ClearFailures
    <3>2. NoFailures.n = 0
      BY DEF NoFailures
    <3>3. QED
      BY <1>1, <3>1, <3>2
  <2>2. req[r].step = "clear"
    BY <1>8 DEF ClearFailures
  <2>3. QED
    BY <1>4, <2>1, <2>2 DEF LockoutsHaveAnEnd
<1>9. CASE RequestFails(r)
  <2>1. UNCHANGED fails /\ orphaned \subseteq orphaned'
        /\ (req[r].step = "window" => Counter(r) \in orphaned')
    BY <1>9 DEF RequestFails, redis
  <2>2. QED
    BY <1>4, <2>1 DEF LockoutsHaveAnEnd
<1>10. CASE CountUnanswered(r)
  <2>1. PICK c \in Counters : c = Counter(r)
    BY <1>1, <1>5, <1>10 DEF CountUnanswered, Fits, Exchanging, Counter, Counters
  <2>2. /\ fails' = [fails EXCEPT ![c].n = @ + 1] /\ orphaned \subseteq orphaned'
        /\ req[r].step = "count" /\ (fails[c].n = 0 => c \in orphaned')
    BY <1>10, <2>1 DEF CountUnanswered
  <2>3. \A k \in Counters : /\ fails'[k].expires = fails[k].expires
                            /\ k # c => fails'[k].n = fails[k].n
                            /\ fails[k].n \in Nat
    BY <1>1, <2>2
  <2>4. QED
    BY <1>4, <2>2, <2>3 DEF LockoutsHaveAnEnd
<1>11. ASSUME ~Count(r), ~SetExpiry(r), ~ClearFailures(r), ~RequestFails(r),
              ~CountUnanswered(r)
       PROVE  LockoutsHaveAnEnd'
  <2>1. UNCHANGED <<fails, orphaned>>
    BY <1>11 DEF GoesOn, Proceed, VerifyLogin, VerifyPin, VerifyCode, StoreCode, DropCode,
       UpdatePassword, CheckUser, RevokeRefreshToken, InsertRefreshToken,
       RevokeAllUserRefreshTokens, DelFails, redis, history
  <2>2. req[r].step # "window"
    BY <1>11 DEF GoesOn, Proceed, VerifyLogin, VerifyPin, VerifyCode, StoreCode, DropCode,
       UpdatePassword, CheckUser, RevokeRefreshToken, InsertRefreshToken,
       RevokeAllUserRefreshTokens, DelFails, At
  <2>3. QED
    BY <1>4, <2>1, <2>2 DEF LockoutsHaveAnEnd
<1>12. QED
  BY <1>6, <1>7, <1>8, <1>9, <1>10, <1>11

(* recordFailure leaves no counter that blocks its account for good, in    *)
(* whatever order failures, successes and expiries come, unless the call   *)
(* that sets the expiry, or the answer of INCR that asks for it, is lost:  *)
(* what LockoutEnds needs of the states.                                   *)
THEOREM CountersExpire == SessionsSafetySpec => []LockoutsHaveAnEnd
<1>1. SessionsInit => LockoutsHaveAnEnd
  BY DEF SessionsInit, NoFailures, LockoutsHaveAnEnd
<1>2. ShapeInv /\ LockoutsHaveAnEnd /\ [SessionsNext]_sessionsVars => LockoutsHaveAnEnd'
  BY NextIsOneOf, StartsKeepExpiry, PassiveKeepsExpiry, GoingOnKeepsExpiry
<1>3. QED
  BY <1>1, <1>2, ShapeInvariant, PTL DEF SessionsSafetySpec
=============================================================================
