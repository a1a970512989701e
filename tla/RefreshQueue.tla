---------------------------- MODULE RefreshQueue ----------------------------
(***************************************************************************)
(* The mobile client's handling of expired access tokens: the first        *)
(* request that is answered 401 exchanges the refresh token, requests that *)
(* are answered 401 meanwhile leave their handlers in a queue, and when    *)
(* the exchange is over the queue is retried or rejected.                  *)
(*                                                                         *)
(* Dart runs one piece of code at a time: an action is what runs between   *)
(* two awaits.  The secure storage answers calls in the order they were    *)
(* made, so a read is one action with the code that waits for it.  Tokens  *)
(* are numbered in the order the server issues them, 0 is "none"; the n-th *)
(* refresh token comes with the n-th access token.  The retry queue is a   *)
(* set: the order of the retries makes no difference here.                 *)
(*                                                                         *)
(* The server side (a refresh token can be exchanged once, a second try    *)
(* ends every session) is that of IAMService.RefreshToken.                 *)
(***************************************************************************)
EXTENDS Naturals, FiniteSets

CONSTANTS
  Requests,   \* requests the application makes through the client
  MaxTokens,  \* bound: pairs of tokens the server issues
  MaxKills    \* bound: times the operating system ends the application

ASSUME RefreshQueueAssumption == MaxTokens \in Nat \ {0} /\ MaxKills \in Nat

Tokens == 0 .. MaxTokens

VARIABLES
  pc,            \* where each request is
  sentWith,      \* the access token it carried
  answers,       \* how often its handler was resolved or rejected
  isRefreshing,
  retryQueue,    \* _retryQueue
  draining,      \* the copy of the queue that is being retried
  posted,        \* the refresh token the exchange in progress presents
  jwt, refresh,  \* the tokens in secure storage
  live,          \* server: the refresh token that can be exchanged
  issued,        \* server: the newest pair of tokens
  expired,       \* server: the access tokens that have expired
  reused,        \* history: a refresh token was presented a second time
  kills          \* times the application was ended

clientVars == <<pc, sentWith, answers, isRefreshing, retryQueue, draining, posted>>
storageVars == <<jwt, refresh>>
serverVars == <<live, issued, expired, reused>>
vars == <<clientVars, storageVars, serverVars, kills>>

LeaderStates == {"post", "store_jwt", "store_refresh", "drain", "drop_jwt", "drop_refresh"}

RefreshQueueTypeOK ==
  /\ pc \in [Requests -> {"idle", "sent", "denied", "queued", "done", "gone"}
                           \cup LeaderStates]
  /\ sentWith \in [Requests -> Tokens]
  /\ answers \in [Requests -> Nat]
  /\ isRefreshing \in BOOLEAN
  /\ retryQueue \subseteq Requests
  /\ draining \subseteq Requests
  /\ posted \in Tokens
  /\ jwt \in Tokens
  /\ refresh \in Tokens
  /\ live \in Tokens
  /\ issued \in Tokens
  /\ expired \subseteq Tokens
  /\ reused \in BOOLEAN
  /\ kills \in 0 .. MaxKills

(* The user has logged in. *)
Init ==
  /\ pc = [r \in Requests |-> "idle"]
  /\ sentWith = [r \in Requests |-> 0]
  /\ answers = [r \in Requests |-> 0]
  /\ isRefreshing = FALSE
  /\ retryQueue = {}
  /\ draining = {}
  /\ posted = 0
  /\ jwt = 1
  /\ refresh = 1
  /\ live = 1
  /\ issued = 1
  /\ expired = {}
  /\ reused = FALSE
  /\ kills = 0

-----------------------------------------------------------------------------
(* A request, until it is answered. *)

Goes(r, from, to) == pc[r] = from /\ pc' = [pc EXCEPT ![r] = to]

(* The handlers of rs are completed, and rs are over. *)
Answer(rs) ==
  /\ pc' = [r \in Requests |-> IF r \in rs THEN "done" ELSE pc[r]]
  /\ answers' = [r \in Requests |-> IF r \in rs THEN answers[r] + 1 ELSE answers[r]]

Send(r) ==
  /\ Goes(r, "idle", "sent")
  /\ sentWith' = [sentWith EXCEPT ![r] = jwt]
  /\ UNCHANGED <<answers, isRefreshing, retryQueue, draining, posted, storageVars,
                 serverVars, kills>>

(* An answer other than 401, or none: the handler is not kept. *)
Answered(r) ==
  /\ pc[r] = "sent"
  /\ Answer({r})
  /\ UNCHANGED <<sentWith, isRefreshing, retryQueue, draining, posted, storageVars,
                 serverVars, kills>>

Unauthorized(r) ==
  /\ Goes(r, "sent", "denied")
  /\ sentWith[r] \in expired \cup {0}
  /\ UNCHANGED <<sentWith, answers, isRefreshing, retryQueue, draining, posted,
                 storageVars, serverVars, kills>>

-----------------------------------------------------------------------------
(* _handle401Error *)

NoRefreshToken(r) ==
  /\ pc[r] = "denied"
  /\ refresh = 0
  /\ Answer({r})
  /\ UNCHANGED <<sentWith, isRefreshing, retryQueue, draining, posted, storageVars,
                 serverVars, kills>>

(* Mutant: every request that is answered 401 exchanges the token itself. *)
Lead_Always(r) ==
  /\ Goes(r, "denied", "post")
  /\ refresh # 0
  /\ isRefreshing' = TRUE
  /\ posted' = refresh
  /\ UNCHANGED <<sentWith, answers, retryQueue, draining, storageVars, serverVars, kills>>

Lead(r) ==
  /\ Goes(r, "denied", "post")
  /\ refresh # 0
  /\ ~isRefreshing
  /\ isRefreshing' = TRUE
  /\ posted' = refresh
  /\ UNCHANGED <<sentWith, answers, retryQueue, draining, storageVars, serverVars, kills>>

Join(r) ==
  /\ Goes(r, "denied", "queued")
  /\ refresh # 0
  /\ isRefreshing
  /\ retryQueue' = retryQueue \cup {r}
  /\ UNCHANGED <<sentWith, answers, isRefreshing, draining, posted, storageVars,
                 serverVars, kills>>

(* The server rotates the pair. *)
Rotate ==
  /\ posted = live
  /\ issued < MaxTokens
  /\ issued' = issued + 1
  /\ live' = issued + 1
  /\ UNCHANGED <<expired, reused>>

RefreshGranted(r) ==
  /\ Goes(r, "post", "store_jwt")
  /\ Rotate
  /\ UNCHANGED <<sentWith, answers, isRefreshing, retryQueue, draining, posted,
                 storageVars, kills>>

(* The presented token was exchanged before: all sessions are revoked. *)
RefreshDenied(r) ==
  /\ Goes(r, "post", "drop_jwt")
  /\ posted # live
  /\ live' = 0
  /\ reused' = TRUE
  /\ UNCHANGED <<sentWith, answers, isRefreshing, retryQueue, draining, posted,
                 storageVars, issued, expired, kills>>

(* No answer arrives, from before or after the rotation. *)
RefreshUnanswered(r) ==
  /\ Goes(r, "post", "drop_jwt")
  /\ Rotate \/ UNCHANGED serverVars
  /\ UNCHANGED <<sentWith, answers, isRefreshing, retryQueue, draining, posted,
                 storageVars, kills>>

(* Mutant: what is stored is not the token of the answer. *)
StoreJwt_WrongField(r) ==
  /\ Goes(r, "store_jwt", "store_refresh")
  /\ jwt' = issued + 1
  /\ UNCHANGED <<sentWith, answers, isRefreshing, retryQueue, draining, posted,
                 refresh, serverVars, kills>>

StoreJwt(r) ==
  /\ Goes(r, "store_jwt", "store_refresh")
  /\ jwt' = issued
  /\ UNCHANGED <<sentWith, answers, isRefreshing, retryQueue, draining, posted,
                 refresh, serverVars, kills>>

(* Mutant: the rotated refresh token is not stored. *)
StoreRefresh_Keeps(r) ==
  /\ Goes(r, "store_refresh", "drain")
  /\ draining' = retryQueue
  /\ retryQueue' = {}
  /\ UNCHANGED <<sentWith, answers, isRefreshing, posted, storageVars, serverVars, kills>>

(* Mutant: the queue is copied and not cleared. *)
StoreRefresh_NoClear(r) ==
  /\ Goes(r, "store_refresh", "drain")
  /\ refresh' = issued
  /\ draining' = retryQueue
  /\ UNCHANGED <<sentWith, answers, isRefreshing, retryQueue, posted, jwt, serverVars,
                 kills>>

(* The second token is written, and the queue is copied and cleared. *)
StoreRefresh(r) ==
  /\ Goes(r, "store_refresh", "drain")
  /\ refresh' = issued
  /\ draining' = retryQueue
  /\ retryQueue' = {}
  /\ UNCHANGED <<sentWith, answers, isRefreshing, posted, jwt, serverVars, kills>>

(* One queued request is retried and resolved or rejected. *)
RetryQueued(r) ==
  /\ pc[r] = "drain"
  /\ \E q \in draining :
       /\ Answer({q})
       /\ draining' = draining \ {q}
  /\ UNCHANGED <<sentWith, isRefreshing, retryQueue, posted, storageVars, serverVars, kills>>

RetrySucceeds(r) ==
  /\ pc[r] = "drain"
  /\ draining = {}
  /\ Answer({r})
  /\ isRefreshing' = FALSE
  /\ UNCHANGED <<sentWith, retryQueue, draining, posted, storageVars, serverVars, kills>>

(* A write or the retry throws, and is caught where a failed exchange is.   *)
Throws(r) ==
  /\ \/ Goes(r, "store_jwt", "drop_jwt")
     \/ Goes(r, "store_refresh", "drop_jwt")
     \/ draining = {} /\ Goes(r, "drain", "drop_jwt")
  /\ UNCHANGED <<sentWith, answers, isRefreshing, retryQueue, draining, posted,
                 storageVars, serverVars, kills>>

DropJwt(r) ==
  /\ Goes(r, "drop_jwt", "drop_refresh")
  /\ jwt' = 0
  /\ UNCHANGED <<sentWith, answers, isRefreshing, retryQueue, draining, posted,
                 refresh, serverVars, kills>>

(* Mutant: the requests in the queue are forgotten. *)
DropRefresh_ForgetsQueue(r) ==
  /\ pc[r] = "drop_refresh"
  /\ refresh' = 0
  /\ Answer({r})
  /\ isRefreshing' = FALSE
  /\ UNCHANGED <<sentWith, retryQueue, draining, posted, jwt, serverVars, kills>>

(* The last token is gone: _failQueuedRequests, the request itself, finally. *)
DropRefresh(r) ==
  /\ pc[r] = "drop_refresh"
  /\ refresh' = 0
  /\ Answer(retryQueue \cup {r})
  /\ retryQueue' = {}
  /\ isRefreshing' = FALSE
  /\ UNCHANGED <<sentWith, draining, posted, jwt, serverVars, kills>>

-----------------------------------------------------------------------------
(* The environment. *)

Expire ==
  /\ issued < MaxTokens
  /\ issued \notin expired
  /\ expired' = expired \cup {issued}
  /\ UNCHANGED <<clientVars, storageVars, live, issued, reused, kills>>

(* The application ends and starts again; only the storage survives. *)
AppKilled ==
  /\ kills < MaxKills
  /\ kills' = kills + 1
  /\ pc' = [r \in Requests |-> IF pc[r] \in {"idle", "done"} THEN pc[r] ELSE "gone"]
  /\ isRefreshing' = FALSE
  /\ retryQueue' = {}
  /\ draining' = {}
  /\ UNCHANGED <<sentWith, answers, posted, storageVars, serverVars>>

Handle401(r) ==
  \/ NoRefreshToken(r)
  \/ Lead(r)
  \/ Join(r)
  \/ RefreshGranted(r)
  \/ RefreshDenied(r)
  \/ RefreshUnanswered(r)
  \/ StoreJwt(r)
  \/ StoreRefresh(r)
  \/ RetryQueued(r)
  \/ RetrySucceeds(r)
  \/ Throws(r)
  \/ DropJwt(r)
  \/ DropRefresh(r)

Progress(r) == Answered(r) \/ Unauthorized(r) \/ Handle401(r)

Next ==
  \/ \E r \in Requests : Send(r) \/ Progress(r)
  \/ Expire
  \/ AppKilled

SafetySpec == Init /\ [][Next]_vars

(* The event loop runs what is ready, and the network answers or fails. *)
Spec == SafetySpec /\ \A r \in Requests : WF_vars(Progress(r))

-----------------------------------------------------------------------------
(* Properties *)

(* At most one exchange is in progress, the flag says whether one is, and a *)
(* refresh token is never presented a second time, which would end every    *)
(* session of the user, unless the application was killed in an exchange.   *)
OneExchange ==
  /\ \A r, s \in Requests :
       pc[r] \in LeaderStates /\ pc[s] \in LeaderStates => r = s
  /\ isRefreshing <=> \E r \in Requests : pc[r] \in LeaderStates
  /\ reused => kills > 0

(* No handler is resolved or rejected twice, which would throw, whichever   *)
(* of the success, failure and exception branches the exchanges take.       *)
HandlerAnsweredOnce == \A r \in Requests : answers[r] <= 1

(* A request that is in the queue when the exchange itself ends is          *)
(* answered, or lost with the application.                                  *)
WaitingForExchange(r) ==
  /\ r \in retryQueue
  /\ \E l \in Requests : pc[l] \in LeaderStates \ {"drain"}

EarlyWaiterIsAnswered ==
  \A r \in Requests : WaitingForExchange(r) ~> pc[r] \in {"done", "gone"}

(* "Each entry's handler must be resolved/rejected once the refresh          *)
(* completes, otherwise the original caller's request hangs forever."       *)
EveryWaiterIsAnswered ==
  \A r \in Requests : r \in retryQueue ~> pc[r] \in {"done", "gone"}
=============================================================================
