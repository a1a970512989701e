----------------------------- MODULE OutboxSync -----------------------------
(***************************************************************************)
(* The mobile client's outbox: changes made in the field are stored in a   *)
(* local table and sent to the API in the order they were made, one at a   *)
(* time, by a loop that runs when a change is made, when the connectivity  *)
(* plugin reports a network, or when the user presses Retry.               *)
(*                                                                         *)
(* Dart runs one piece of code at a time: an action is what runs between   *)
(* two awaits.  A mutation is its number in the order of their making.     *)
(* What it asks for and the picture that may go with it are left out.  The *)
(* retry counts read with the table are those of the table, which only the *)
(* loop itself changes.  The table is read in the order of created_at, the *)
(* device's local wall clock, which may be set back (by its user, by the   *)
(* network, at the end of summer time).                                    *)
(*                                                                         *)
(* The loop may stop waiting for a post, and go on, while the request is   *)
(* still on its way: the server carries it out later, or never.  And a     *)
(* post may never end: the HTTP client has no receive timeout, and a       *)
(* request that joins the queue of its 401 handler too late is never       *)
(* answered (RefreshQueue).                                                *)
(*                                                                         *)
(* MaxFaults bounds lost answers, server errors and failing statements,    *)
(* MaxKills how often the operating system ends the application.           *)
(***************************************************************************)
EXTENDS Naturals

CONSTANTS
  Count,       \* bound: mutations the user makes
  Once,        \* those the server carries out once and refuses afterwards
  MaxRetries,  \* attempts after which a mutation is dropped (5 in the code)
  MaxFaults,
  MaxKills

ASSUME OutboxAssumption ==
  /\ Count \in Nat
  /\ Once \subseteq 1 .. Count
  /\ MaxRetries \in Nat
  /\ MaxFaults \in Nat
  /\ MaxKills \in Nat

Mutations == 1 .. Count

VARIABLES
  made,       \* how many mutations the user has made
  stamp,      \* created_at, as the place of this instant among all of them
  caller,     \* the last mutation's caller has not triggered the sync yet
  outbox,     \* the rows of outbox_queue
  retries,    \* their retry_count
  isSyncing,  \* _isSyncing
  pc,         \* where the loop is
  pending,    \* the rows it has read and not come to yet, the current one included
  online,     \* whether there is a network
  doomed,     \* the network was gone at some moment of the post in progress
  dropped,    \* droppedMutations, what the banner shows
  told,       \* history: what the user saw on the banner and dismissed
  applied,    \* server: how often each mutation was carried out
  unanswered, \* posts of each that nobody waits for and the server may carry out yet
  posts,      \* history: how often each mutation was posted
  faults,
  kills

vars == <<made, stamp, caller, outbox, retries, isSyncing, pc, pending, online,
          doomed, dropped, told, applied, unanswered, posts, faults, kills>>

OutboxTypeOK ==
  /\ made \in 0 .. Count
  /\ stamp \in [Mutations -> 0 .. Count]
  /\ caller \in BOOLEAN
  /\ outbox \subseteq Mutations
  /\ retries \in [Mutations -> 0 .. MaxRetries]
  /\ isSyncing \in BOOLEAN
  /\ pc \in {"idle", "load", "next", "posting", "hung", "remove", "report", "failed"}
  /\ pending \subseteq Mutations
  /\ online \in BOOLEAN
  /\ doomed \in BOOLEAN
  /\ dropped \subseteq Mutations
  /\ told \subseteq Mutations
  /\ applied \in [Mutations -> Nat]
  /\ unanswered \in [Mutations -> Nat]
  /\ posts \in [Mutations -> Nat]
  /\ faults \in 0 .. MaxFaults
  /\ kills \in 0 .. MaxKills

Init ==
  /\ made = 0
  /\ stamp = [m \in Mutations |-> 0]
  /\ caller = FALSE
  /\ outbox = {}
  /\ retries = [m \in Mutations |-> 0]
  /\ isSyncing = FALSE
  /\ pc = "idle"
  /\ pending = {}
  /\ online \in BOOLEAN
  /\ doomed = FALSE
  /\ dropped = {}
  /\ told = {}
  /\ applied = [m \in Mutations |-> 0]
  /\ unanswered = [m \in Mutations |-> 0]
  /\ posts = [m \in Mutations |-> 0]
  /\ faults = 0
  /\ kills = 0

Fault ==
  /\ faults < MaxFaults
  /\ faults' = faults + 1

-----------------------------------------------------------------------------
(* What starts the loop. *)

(* Mutant: nothing keeps a second loop from starting over. *)
StartLoop_Reentrant ==
  /\ isSyncing' = TRUE
  /\ pc' = "load"

(* Starts the loop unless it is running. *)
StartLoop ==
  /\ isSyncing' = TRUE
  /\ pc' = IF isSyncing THEN pc ELSE "load"

(* The new row bears the time of the device's clock, which may be before   *)
(* that of rows made earlier.  No two rows bear the same time, to the      *)
(* microsecond.                                                            *)
QueueMutation ==
  /\ made < Count
  /\ ~caller
  /\ made' = made + 1
  /\ \E t \in 1 .. Count :
       /\ \A m \in 1 .. made : stamp[m] # t
       /\ stamp' = [stamp EXCEPT ![made + 1] = t]
  /\ outbox' = outbox \cup {made + 1}
  /\ caller' = TRUE
  /\ UNCHANGED <<retries, isSyncing, pc, pending, online, doomed, dropped, told,
                 applied, unanswered, posts, faults, kills>>

TriggerAfterQueueing ==
  /\ caller
  /\ caller' = FALSE
  /\ StartLoop
  /\ UNCHANGED <<made, stamp, outbox, retries, pending, online, doomed,
                 dropped, told, applied, unanswered, posts, faults, kills>>

(* The plugin reports another kind of network. *)
NetworkChanges ==
  /\ online
  /\ StartLoop
  /\ UNCHANGED <<made, stamp, caller, outbox, retries, pending, online, doomed,
                 dropped, told, applied, unanswered, posts, faults, kills>>

(* The banner offers Retry only when it has nothing discarded to show. *)
PressRetry ==
  /\ outbox # {}
  /\ dropped = {}
  /\ StartLoop
  /\ UNCHANGED <<made, stamp, caller, outbox, retries, pending, online, doomed,
                 dropped, told, applied, unanswered, posts, faults, kills>>

PressDismiss ==
  /\ dropped # {}
  /\ dropped' = {}
  /\ told' = told \cup dropped
  /\ UNCHANGED <<made, stamp, caller, outbox, retries, isSyncing, pc, pending,
                 online, doomed, applied, unanswered, posts, faults, kills>>

NetworkReturns ==
  /\ ~online
  /\ online' = TRUE
  /\ StartLoop
  /\ UNCHANGED <<made, stamp, caller, outbox, retries, pending, doomed,
                 dropped, told, applied, unanswered, posts, faults, kills>>

NetworkLost ==
  /\ online
  /\ online' = FALSE
  /\ doomed' = (pc = "posting" \/ doomed)
  /\ UNCHANGED <<made, stamp, caller, outbox, retries, isSyncing, pc, pending,
                 dropped, told, applied, unanswered, posts, faults, kills>>

-----------------------------------------------------------------------------
(* _syncOutboxQueue *)

(* The row the loop is at: of those left, the one of the earliest time. *)
Current(m) == m \in pending /\ \A n \in pending : stamp[m] <= stamp[n]

Load ==
  /\ pc = "load"
  /\ pending' = outbox
  /\ pc' = "next"
  /\ UNCHANGED <<made, stamp, caller, outbox, retries, isSyncing, online,
                 doomed, dropped, told, applied, unanswered, posts, faults,
                 kills>>

(* Nothing is left, and the finally block runs. *)
LoopEnds ==
  /\ pc = "next"
  /\ pending = {}
  /\ pc' = "idle"
  /\ isSyncing' = FALSE
  /\ UNCHANGED <<made, stamp, caller, outbox, retries, pending, online, doomed,
                 dropped, told, applied, unanswered, posts, faults, kills>>

(* Mutant: one attempt too many. *)
Exhausted_OffByOne(m) == retries[m] > MaxRetries

Exhausted(m) == retries[m] >= MaxRetries

(* Mutant: a mutation that is given up is not put on the banner. *)
RemoveExhausted_Silently(m) ==
  /\ pc = "next"
  /\ Current(m)
  /\ Exhausted(m)
  /\ outbox' = outbox \ {m}
  /\ pending' = pending \ {m}
  /\ UNCHANGED <<made, stamp, caller, retries, isSyncing, pc, online, doomed,
                 dropped, told, applied, unanswered, posts, faults, kills>>

RemoveExhausted(m) ==
  /\ pc = "next"
  /\ Current(m)
  /\ Exhausted(m)
  /\ outbox' = outbox \ {m}
  /\ pc' = "report"
  /\ UNCHANGED <<made, stamp, caller, retries, isSyncing, pending, online,
                 doomed, dropped, told, applied, unanswered, posts, faults,
                 kills>>

ReportDropped(m) ==
  /\ pc = "report"
  /\ Current(m)
  /\ dropped' = dropped \cup {m}
  /\ pending' = pending \ {m}
  /\ pc' = "next"
  /\ UNCHANGED <<made, stamp, caller, outbox, retries, isSyncing, online,
                 doomed, told, applied, unanswered, posts, faults, kills>>

Post(m) ==
  /\ pc = "next"
  /\ Current(m)
  /\ ~Exhausted(m)
  /\ posts' = [posts EXCEPT ![m] = @ + 1]
  /\ doomed' = ~online
  /\ pc' = "posting"
  /\ UNCHANGED <<made, stamp, caller, outbox, retries, isSyncing, pending,
                 online, dropped, told, applied, unanswered, faults, kills>>

(* An attendance override is refused when the day has its row already; a   *)
(* dispatch log or a sign-off overwrites, a leave, an expense or a site    *)
(* update is one more row.                                                 *)
Refused(m) == m \in Once /\ applied[m] > 0

(* The server carries the mutation out, and its answer arrives. *)
PostSucceeds(m) ==
  /\ pc = "posting"
  /\ Current(m)
  /\ online
  /\ ~Refused(m)
  /\ applied' = [applied EXCEPT ![m] = @ + 1]
  /\ pc' = "remove"
  /\ UNCHANGED <<made, stamp, caller, outbox, retries, isSyncing, pending, online,
                 doomed, dropped, told, unanswered, posts, faults, kills>>

(* The request never reached the server, or was refused by it, as a repeat *)
(* or for another reason.                                                  *)
PostFails(m) ==
  /\ pc = "posting"
  /\ Current(m)
  /\ IF doomed \/ Refused(m) THEN UNCHANGED faults ELSE Fault
  /\ pc' = "failed"
  /\ UNCHANGED <<made, stamp, caller, outbox, retries, isSyncing, pending, online,
                 doomed, dropped, told, applied, unanswered, posts, kills>>

(* The connection is lost with the request sent: the loop takes it for a   *)
(* failure, whatever becomes of the request.                               *)
PostUnanswered(m) ==
  /\ pc = "posting"
  /\ Current(m)
  /\ Fault
  /\ unanswered' = [unanswered EXCEPT ![m] = @ + 1]
  /\ pc' = "failed"
  /\ UNCHANGED <<made, stamp, caller, outbox, retries, isSyncing, pending, online,
                 doomed, dropped, told, applied, posts, kills>>

(* The post never ends, and with it the loop, whose guard stays set. *)
PostHangs(m) ==
  /\ pc = "posting"
  /\ Current(m)
  /\ unanswered' = [unanswered EXCEPT ![m] = @ + 1]
  /\ pc' = "hung"
  /\ UNCHANGED <<made, stamp, caller, outbox, retries, isSyncing, pending, online,
                 doomed, dropped, told, applied, posts, faults, kills>>

(* A request nobody waits for reaches the server, whatever the client has  *)
(* done since: counted, posted it again, gone on or given it up.           *)
CarriedOutLate(m) ==
  /\ unanswered[m] > 0
  /\ ~Refused(m)
  /\ unanswered' = [unanswered EXCEPT ![m] = @ - 1]
  /\ applied' = [applied EXCEPT ![m] = @ + 1]
  /\ UNCHANGED <<made, stamp, caller, outbox, retries, isSyncing, pc, pending,
                 online, doomed, dropped, told, posts, faults, kills>>

(* Mutant: what was sent stays in the table. *)
RemoveSent_Keeps(m) ==
  /\ pc = "remove"
  /\ Current(m)
  /\ pending' = pending \ {m}
  /\ pc' = "next"
  /\ UNCHANGED <<made, stamp, caller, outbox, retries, isSyncing, online,
                 doomed, dropped, told, applied, unanswered, posts, faults,
                 kills>>

RemoveSent(m) ==
  /\ pc = "remove"
  /\ Current(m)
  /\ outbox' = outbox \ {m}
  /\ pending' = pending \ {m}
  /\ pc' = "next"
  /\ UNCHANGED <<made, stamp, caller, retries, isSyncing, online, doomed,
                 dropped, told, applied, unanswered, posts, faults, kills>>

(* The delete throws, inside the same try. *)
RemoveFails(m) ==
  /\ pc = "remove"
  /\ Current(m)
  /\ Fault
  /\ pc' = "failed"
  /\ UNCHANGED <<made, stamp, caller, outbox, retries, isSyncing, pending,
                 online, doomed, dropped, told, applied, unanswered, posts,
                 kills>>

IncrementRetryCount(m) == retries' = [retries EXCEPT ![m] = @ + 1]

(* Mutant: the loop goes on with the next row. *)
CountFailure_Continues(m) ==
  /\ pc = "failed"
  /\ Current(m)
  /\ IncrementRetryCount(m)
  /\ pending' = pending \ {m}
  /\ pc' = "next"
  /\ UNCHANGED <<made, stamp, caller, outbox, isSyncing, online, doomed,
                 dropped, told, applied, unanswered, posts, faults, kills>>

(* Mutant: a failed row is taken out of the table. *)
CountFailure_Removes(m) ==
  /\ pc = "failed"
  /\ Current(m)
  /\ outbox' = outbox \ {m}
  /\ pending' = {}
  /\ pc' = "idle"
  /\ isSyncing' = FALSE
  /\ UNCHANGED <<made, stamp, caller, retries, online, doomed, dropped, told,
                 applied, unanswered, posts, faults, kills>>

(* Mutant: the failure is not counted. *)
CountFailure_Forgets(m) ==
  /\ pc = "failed"
  /\ Current(m)
  /\ pending' = {}
  /\ pc' = "idle"
  /\ isSyncing' = FALSE
  /\ UNCHANGED <<made, stamp, caller, outbox, retries, online, doomed, dropped,
                 told, applied, unanswered, posts, faults, kills>>

(* Mutant: the flag is not reset when the loop breaks. *)
CountFailure_NoFinally(m) ==
  /\ pc = "failed"
  /\ Current(m)
  /\ IncrementRetryCount(m)
  /\ pending' = {}
  /\ pc' = "idle"
  /\ UNCHANGED <<made, stamp, caller, outbox, isSyncing, online, doomed,
                 dropped, told, applied, unanswered, posts, faults, kills>>

(* incrementRetryCount, break and the finally block. *)
CountFailure(m) ==
  /\ pc = "failed"
  /\ Current(m)
  /\ IncrementRetryCount(m)
  /\ pending' = {}
  /\ pc' = "idle"
  /\ isSyncing' = FALSE
  /\ UNCHANGED <<made, stamp, caller, outbox, online, doomed, dropped, told,
                 applied, unanswered, posts, faults, kills>>

(* A statement of the loop outside the inner try throws: the finally block *)
(* runs, and nothing has been read, removed or counted.                    *)
LoopThrows ==
  /\ \/ pc \in {"load", "failed"}
     \/ pc = "next" /\ \E m \in pending : Current(m) /\ Exhausted(m)
  /\ Fault
  /\ pending' = {}
  /\ pc' = "idle"
  /\ isSyncing' = FALSE
  /\ UNCHANGED <<made, stamp, caller, outbox, retries, online, doomed, dropped,
                 told, applied, unanswered, posts, kills>>

-----------------------------------------------------------------------------
(* The application ends and starts again; the table survives, and so does  *)
(* a request on its way.                                                   *)
AppKilled ==
  /\ kills < MaxKills
  /\ kills' = kills + 1
  /\ caller' = FALSE
  /\ isSyncing' = FALSE
  /\ pc' = "idle"
  /\ pending' = {}
  /\ dropped' = {}
  /\ unanswered' = [m \in Mutations |->
       IF pc = "posting" /\ Current(m) THEN unanswered[m] + 1 ELSE unanswered[m]]
  /\ UNCHANGED <<made, stamp, outbox, retries, online, doomed, told, applied, posts,
                 faults>>

LoopStep ==
  \/ TriggerAfterQueueing
  \/ Load
  \/ LoopEnds
  \/ LoopThrows
  \/ \E m \in Mutations :
       \/ RemoveExhausted(m)
       \/ ReportDropped(m)
       \/ Post(m)
       \/ PostSucceeds(m)
       \/ PostFails(m)
       \/ PostUnanswered(m)
       \/ PostHangs(m)
       \/ RemoveSent(m)
       \/ RemoveFails(m)
       \/ CountFailure(m)

Next ==
  \/ QueueMutation
  \/ NetworkChanges
  \/ PressRetry
  \/ PressDismiss
  \/ NetworkReturns
  \/ NetworkLost
  \/ LoopStep
  \/ \E m \in Mutations : CarriedOutLate(m)
  \/ AppKilled

SafetySpec == Init /\ [][Next]_vars

(* A loop that runs goes on until it ends, or hangs on a post for good.     *)
(* Nothing makes the server carry out what nobody waits for.                *)
Spec == SafetySpec /\ WF_vars(LoopStep)

(* And the user does what the banner offers. *)
RetriedSpec ==
  /\ Spec
  /\ WF_vars(~isSyncing /\ PressRetry)
  /\ WF_vars(PressDismiss)

-----------------------------------------------------------------------------
(* Properties *)

(* No change made in the field vanishes silently: it is in the table, or    *)
(* the server carried it out, or the banner says, or said until the user    *)
(* dismissed it, that it was discarded.                                     *)
NothingVanishes ==
  kills = 0 /\ pc # "report" =>
    \A m \in 1 .. made : m \in outbox \/ applied[m] > 0 \/ m \in dropped \cup told

(* A mutation is posted at most MaxRetries times, plus once for each time   *)
(* the application was ended, or the table failed, before a failure was     *)
(* counted.  It is carried out twice through faults only.                   *)
RepeatsBounded ==
  /\ \A m \in Mutations : posts[m] <= MaxRetries + kills + faults
  /\ faults = 0 /\ kills = 0 => \A m \in Mutations : applied[m] <= 1

(* Changes are sent in the order they were made (a dispatch's departure     *)
(* before its delivery), as long as the clock was not set back between      *)
(* them: once the later one was sent, the earlier one is not sent any more, *)
(* not even as a repeat.  The server may still carry the earlier one out    *)
(* after the later one, but only as a request the client stopped waiting    *)
(* for: with every post of it answered, its effects are over.               *)
OrderKept ==
  [][\A m, n \in Mutations :
       m < n /\ stamp[m] < stamp[n] =>
         /\ posts[n] > 0 => posts'[m] = posts[m]
         /\ applied[n] > 0 /\ unanswered[m] = 0 => applied'[m] = applied[m]]_vars

(* The outbox keeps the promise of Handoff for all it does not give up: a   *)
(* row leaves the table only after its mutation was carried out.            *)
Promised == INSTANCE Handoff WITH
  Items <- Mutations,
  promised <- 1 .. made,
  settled <- {m \in 1 .. made : m \notin outbox /\ ~Exhausted(m)},
  done <- applied

HandoffSafety == Promised!SafetySpec

(* When the user keeps pressing Retry, no row stays in the table for ever,  *)
(* not even behind one that can never be sent: until the application is     *)
(* restarted, only a post without an end keeps it there.                    *)
EveryMutationLeaves ==
  \A m \in Mutations : m \in outbox ~> m \notin outbox \/ pc = "hung"
=============================================================================
