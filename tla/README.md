# Spacesio Beryl: a verification project

TLA+ modules, TLC configurations and TLAPS proofs for the parts of the
system whose correctness depends on concurrency, failure and ordering.
Every definition is translated from the source; `PROJECT.json` ("map") names
the lines each one stands for.

## 1. The system

An interior-design company's back office: a Go API (`backend/cmd/api`) over
PostgreSQL, Redis, RabbitMQ and MinIO, a Go worker (`backend/cmd/worker`) that
consumes the queues and runs cron jobs, and a Flutter client (`frontend/lib`)
that keeps working without a network.

| component | state | operations | interacts with |
|---|---|---|---|
| Event broker client (`internal/broker`) | one shared connection, durable queues, dead-letter queue | `PublishEvent` (confirm mode, three attempts), supervised consumers with manual acknowledgement, a reconnect watcher | called by quotation approval and sign-off; feeds the worker |
| Quotation approval (`internal/crm`, worker) | `quotations.status`, `orders` | `UpdateStatus`, `CreateOrderFromQuotation` | publishes `quote_approved`; the worker inserts an order |
| Logistics (`internal/logistics`) | `orders`, `purchase_orders`, `dispatches` | purchase orders, dispatches and their time stamps | shares `orders` with the worker |
| Execution and contractor payments (`internal/execution`) | `installations`, `installer_payments`, daily logs, site updates | create, assign, sign off, stage, pay, check in and out | publishes `installation_signoff`; receives offline mutations |
| Authentication (`internal/iam`, `internal/middleware`) | users, `refresh_tokens`, Redis counters | login, PIN, refresh with rotation, logout, password reset | every request; the client's token refresh |
| Leads, follow-ups, complaints (`internal/crm`) | `leads`, `follow_ups`, `client_complaints` | status changes, cron jobs that mark and escalate | the worker's cron jobs write the same rows |
| HR (`internal/hr`) | attendance, expenses, leaves | check in and out, overrides, leave requests and decisions | the client's offline mutations |
| Workspace BFF (`internal/bff`, `internal/storage`) | project documents, object storage | pipeline, project details, uploads, the ghost filter for cash quotations | reads every table |
| WhatsApp notifications (worker) | none | best-effort sends | consumes `whatsapp_queue` |
| API client (`core/network/api_client.dart`) | stored tokens, `_isRefreshing`, `_retryQueue` | attach tokens, refresh on 401, retry what waited | the authentication service |
| Outbox (`core/network/sync_service.dart`, `database_helper.dart`) | `outbox_queue`, `_isSyncing`, the banner | queue, send in order, count failures, give up | every feature that works offline |
| Screens, router, caches (`frontend/lib/features`) | providers, cached tables | input and output | API client, outbox |

### When each part is correct

* **Event broker client.** A publish that was reported as done is not lost; a message is
  acknowledged only after its effect; consumers and publishers survive the loss of
  the connection.
* **Quotation approval.** Every order has an approval behind it; an approval that was
  announced becomes an order; one approval makes one order as long as nothing fails.
* **Logistics, execution, Financial Lock.** An order is completed only after a client's
  approval of one of its jobs; an approval that was written to the job, and whose event the
  broker got, completes the order, whatever happens to the job on the way.
* **Contractor payments.** A final payout goes to an installer whose work was signed for,
  an advance on a job that was accepted (by whoever had it then), and the totals are what the ledger adds up to.
* **Authentication.** A refresh token is exchanged once; a request that waits for an exchange is
  answered once; the fifth failure locks an account out for its period, and for no longer.
* **Leads, follow-ups, complaints.** Losing a lead settles all of its follow-ups; what is
  overdue is marked or escalated by a later run of the cron job.
* **HR.** A leave keeps the dates it was decided on against anything its owner does; what a
  manager made of an attendance override stands, however often the check-in is posted again.
* **Workspace BFF.** An answer put together from several statements is about one order and one
  of its jobs, and whole for these; a caller without ghost mode sees no cash quotation in it; every link can be served.
* **Outbox.** A change leaves the table only when the server has it or the user is told that
  it was given up; changes of one device are sent in the order they were made; the table empties.

### What is hard here

* **Delivery.** A publish can reach the broker without its caller learning it; a
  worker can die between the database commit and the acknowledgement. Messages
  are repeated, and nothing in the database keeps a second order out.
* **Steps that are not one transaction.** A refresh token is read, revoked and replaced in
  three statements; a lead is lost in one and its follow-ups cancelled in another; a file is
  stored before its row; a status is committed before its event
  is published; a payment's rules are checked on a row that was read before the
  payment's transaction; a job's stage is advanced in a statement of its own.
* **Requests that outlive their callers.** Neither the client nor the broker client knows what became
  of a request whose answer is missing: it may be carried out later, after it was repeated or
  after others were made.
* **Awaits.** In the client other code runs at every `await`: several requests
  are answered 401 at once, the network comes back while a loop is ending, the
  operating system kills the application between two writes.
* **Promises over time.** An announced approval must become an order, a waiting
  request must be answered, a row must leave the outbox.

`PROJECT.json` ("hazards") lists these at their lines, with the properties that
would catch each of them.

## 2. Modules

| module | models | composed of |
|---|---|---|
| `Handoff` | the abstract promise: an item is settled only after its effect took place, at least once | |
| `WorkQueue` | one durable queue, its publishers and its consumers | implements `Handoff` |
| `OrderHandoff` | the approval of quotations and the worker that creates orders | extends `WorkQueue` |
| `ContractorPayments` | an installation job and the payments to its installer | |
| `RefreshQueue` | the client's 401 handler | |
| `Fulfilment` | a client's signature, from the device to the completed order | two instances of `Handoff` |
| `BrokerConnection` | the shared broker connection of a process, its watcher, publishers and consumers | |
| `OutboxSync` | the client's outbox | implements the safety part of `Handoff` |
| `Sessions` | accounts, logins, failure counters, reset codes, refresh tokens, logout | |
| `ClientCare` | leads, follow-ups, complaints and the worker's cron jobs | |
| `StaffTime` | leaves, attendance, expenses | |
| `Workspace` | a project's quotations, files, orders, and the answers that show them | |
| `MC...` | the instances TLC checks | |
| `..._proofs` | the TLAPS proofs; three cover two modules each: `OrderHandoff_proofs` also `WorkQueue`, `Authentication_proofs` `RefreshQueue` and `Sessions`, `Office_proofs` `StaffTime` and `Workspace` | |

### WorkQueue

`pub` and `tries` are where a call of `PublishEvent` is; every attempt that reaches
the broker leaves a message of its own, so a message is named `<<publisher,
attempt>>`. `place` is where the broker has it: not sent, ready, acknowledged, or
held by the channel of a worker. `channel`, `buffer` and `job` are a consumer's
AMQP channel, the deliveries its client library has received (there is no
prefetch limit), and what the loop body is doing. A channel that is gone while the
loop still ranges over its deliveries is *draining*: the broker has requeued the
messages already, the consumer handles one more and its acknowledgement goes
nowhere. `effects` counts how often handling a message changed the database.

What goes wrong: a confirmation is lost (`PublishUnconfirmed`), the broker is
unreachable (`PublishRefused`), the caller stops (`PublisherStops`), a statement
fails or its reply is lost (`HandleFails`, `HandleReplyLost`), the connection
drops (`ConnectionDrops`), the worker dies (`WorkerCrashes`). `MaxFailures`
bounds them. How a broker pushes, and requeues what a closed channel had not
acknowledged, is RabbitMQ's behaviour and marked external. The branch that
dead-letters a message whose body cannot be parsed is left out: `PublishEvent`
marshals every body itself, so no message of these queues takes it.

### BrokerConnection

The level below `WorkQueue`, whose `ConnectionDrops` is one step here refined into
what package `broker` does about it. `process` says which process this is: the API
publishes and never consumes, the worker consumes and never publishes, and both
share the code. `shared` is the global `Conn`, `conn` what has become of every
connection ever opened, `watcher` the goroutine each of them gets. `connect()` is
two steps, because the connection can be lost between them: `Establish` (dial,
channel, topology) leaves it in `mine`, `Store` publishes the globals and starts
the watcher, which has to reach `NotifyClose` first (`Watch`). A publisher takes
the connection of each attempt from `currentConn` (`CurrentConn`, `Reread`); a
consumer reads the global without the lock, which returns the pointer before or
after a concurrent `Store` and so is one step (`Consume`). Faults: a connection
drops, the broker stops, an attempt to connect fails. `seen` and `early` are
history variables. The behaviour starts when `InitRabbitMQ` has returned; the
graceful close at the end of the process is left out.

### OrderHandoff

A status request commits the new status, looks the quotation up again (the ghost
filter hides cash quotations from callers without ghost mode), publishes the
event, discards the result and answers with a success. The worker's database
change is one more row of `orders`. Which status follows which is not
restricted, as in the code; requests for other values are refused.

### ContractorPayments

A row of `installations` with its installer, status, stage (`installer_job_status`)
and running totals; managers create jobs, assign installers, sign off and log
stages at any time. A payment request reads the row (`CheckPayment`), commits the
payment with the total (`RecordPayment`) and advances the stage from what it had
read (`AutoAdvance`). `signed` and `accepted` are history variables.

### Fulfilment

The path of a client's signature across three programs. The device puts it in its
outbox (`SignOnDevice`); the sign-off handler writes the verdict to the job
(`Signoff`), fetches the job (`FetchForEvent`) and publishes an approval
(`PublishSignoff`), discarding the result; the worker completes the order
(`ProcessInstallationSignoff`, `FinancialLock`). Beside it managers create and reassign jobs,
and the operations team makes purchase orders, whose two statements are two steps.

The two hops are at-least-once queues, and are here what `Handoff` says of them:
`Outbox` with the signatures removed as sent, `Events` with the events acknowledged. The
modules `OutboxSync` and `WorkQueue` show that the hops implement `Handoff` (the outbox its safety part; what it
promises over time is `EveryMutationLeaves`), so this module
need not repeat their loops and channels. A post whose answer is missing is repeated while
its first handler still runs, which is how two verdicts on a job overtake each other. Nothing makes the
outbox post a signature: it may be given up after five failures, wait for an event that was swallowed,
or stand behind a post that hangs. So the promise over time (`ApprovalReachesOrder`) begins where the
handler has written the approval. `withdrawn` and `lost` are history variables: jobs whose
approval was taken back, and handlers whose event the broker never got. Not stated as properties, because no
line of the code decides them: a purchase order after the sign-off takes the order
back to `partially_ordered`, and an order with several jobs is completed by the first.

### RefreshQueue

An action is what Dart runs between two awaits. The leader is the request that
exchanges the token: `post`, `store_jwt`, `store_refresh`, `drain`, and on any
exception `drop_jwt`, `drop_refresh`. The storage plugin answers calls in the order
they were made, so a read is one action with the code waiting for it. Tokens are
numbered as the server issues them. The branch for a 2xx status other than 200 is
left out (the server has none), as is a deletion that throws in the catch block.

### OutboxSync

A mutation is its number in the table; `Once` are those the server refuses to repeat (an
attendance override), which the loop counts like any failure. The loop loads the table, gives up rows
with `MaxRetries` failures, posts the others in order and stops at the first
failure. The order is that of `stamp`: the column `created_at` holds the time of the device's clock
(`database_helper.dart:509, 518`), and a clock that was set back puts a new row before older ones.
`doomed` says that the network was away during the post in progress.
A statement of the loop may throw (`RemoveFails`, `LoopThrows`), the application may be killed
(`AppKilled`). When the client stops waiting for an answer (`PostUnanswered`) the request
is still on its way: `unanswered` counts those of each mutation, and the server may carry one out at any
later time, or never (`CarriedOutLate`): after the row was counted as failed, posted again, given up, or
later rows were sent. And a post may have no end at all (`PostHangs`): the HTTP client has only a
connect timeout (`api_client.dart:14-17`), and a 401 that joins the queue of the exchange too late is
never answered (`RefreshQueue`). Then `_isSyncing` stays set until the application is restarted. The banner offers
*Retry* only when it has nothing discarded to show. One caller queues a mutation
at a time. The in-memory variant of the web build is left out.

### Sessions

A handler is a request in `req` that goes from one call to the database or to Redis to
the next; `step` names the call it makes next. `tokens` are the rows of `refresh_tokens`
in the order of their insertion, `root` the login a row comes from; `blacklist` has the access
tokens that were logged out, each named by the row minted with it. `fails` are the three
failure counters of Redis: `Count` is INCR, `SetExpiry` the EXPIRE that follows the first
failure, `WindowEnds` what Redis does then. An INCR whose answer is lost has counted all the same
(`CountUnanswered`): the handler goes on without the EXPIRE, or the Redis client sends the command
again and the handler sees 2. `isLockedOut` fails open (`SeesLocked`),
errors of DEL are ignored (`DelFails`), any other failed call ends the request
(`RequestFails`). A request that has been answered is forgotten, and one that is refused at its first
call is not recorded. `raced`, `ended` and `orphaned` are history variables. The access
token that `VerifyPin` answers with is kept nowhere and is left out, as are expiry dates inside
the tokens, roles, and the column `ghost_mode`, which no statement ever sets.

### ClientCare

Handlers of the CRM and the two cron jobs of the worker, which change the same rows.
Everything is one statement, except losing a lead: `UpdateLeadStatus` leaves the
lead in `losing`, `CancelPendingForLead` cancels its follow-ups, `CancelFails` is the error that is logged
and passed over. The clock counts days, the shorter of the two thresholds. `late` and `abandoned` are history
variables. The job escalates every unresolved complaint of the age, as the comment above it
(`complaint_repo.go:145`) and `docs/Module 2 Internal HR.md:179` say, while `backend/module_flows.md:58` speaks only of
open complaints of high priority. The module follows the code, so priorities are left out. So are
`resolved_at`, `escalated_at` and the texts.

### StaffTime

Each operation is one statement whose WHERE clause decides, so an action has that clause as its
guard: `OwnPending` for what the owner may do, nothing at all for a manager's edit and
decision. `CheckIn` inserts the row of today once (`ON CONFLICT DO NOTHING`). `decided` is a history
variable: the dates a leave was decided on. A date may be left out of an edit, and
then an edit can put the start behind the end; no line of the code looks at it.

### Workspace

Creating a quotation is a transaction, then the PDF, then the link to it (`CreateQuotation`,
`GenerateAndUploadPDF`, `UpdatePdfURL`), and a document is stored before it is recorded;
a failed call may have done its work all the same. `GetProjectDetails` is three
goroutines: quotations, documents, and the order with what hangs on it; `at` is where the
third one is and `answer` what has been found. `cut` marks a result of several rows that
broke off, which the loops do not tell from one that ends (`bff/service.go:199-203, 241-246`).
An order may have several jobs, because `installations` has a plain INSERT and no UNIQUE column
(`execution_repo.go:68-75`): the answer shows any one of them, with its updates (LIMIT 1 without an
order, `bff/service.go:208`), and says nothing of the others. `GetPipeline` is the board, one card for each job and
for what has none; it shows at most `BoardLimit` cards (LIMIT 200, `bff/service.go:79`), and which of this project's depends on
the other projects, so any subset of that size may be shown. The
value of its cards is left out: it is looked up with the status `approved`
(`bff/service.go:78`), which no quotation is ever given, so it is always 0. Amounts and line items are left out.

## 3. What the runs check

| run | instance | shows |
|---|---|---|
| `queue` | one publish call of three attempts, two workers, three faults | confirmed publishes are kept (`ConfirmedIsKept`), repeats come from faults (`OneEffectWithoutFaults`); the queue implements `Handoff` with its fairness (`HandoffSpec`): messages are acknowledged after their effect and confirmed ones take effect |
| `order` | two requests, two quotations (one cash), one worker, two faults | orders come from approvals, without faults from one each (`OrdersMatchApprovals`); an announced approval is ordered (`AnnouncedApprovalIsOrdered`) |
| `broker` | one publisher, or one consumer; three faults | a lost connection is always being replaced (`RepairUnderWay`), the worker never holds two (`WorkerHasOneConnection`), publishers get one that was live during the call (`HandsOutLive`), consumers come back (`WatchedConsumersRecover`); all unless a connection was lost before it was watched |
| `pay` | one job, two installers, two payments | both rules of `LogPayment` hold of every committed payment (`PaymentLocksHold`), totals match the ledger (`TotalsMatchLedger`) |
| `fulfil` | two signatures, two handler runs, two orders, one job, one purchase order, two faults | an order is completed only after an approval of its job (`CompletionFollowsApproval`); an approval a handler has written reaches the Financial Lock unless its event never got to the broker (`ApprovalReachesOrder`) |
| `refresh` | three requests, three pairs of tokens, one kill | one exchange at a time and no token presented twice without a kill (`OneExchange`), no handler completed twice (`HandlerAnsweredOnce`), early waiters are answered (`EarlyWaiterIsAnswered`) |
| `refresh_hang` | two requests | **violated:** a request that joins during the retries waits for ever |
| `outbox` | two mutations, two attempts, two faults, one kill | nothing vanishes (`NothingVanishes`), rows are sent in order and, with every post answered, carried out in order (`OrderKept`), attempts are bounded and repeats come from faults (`RepeatsBounded`), rows leave only when carried out or given up (`HandoffSafety`), and they leave unless a post hangs (`EveryMutationLeaves`) |
| `session` | one user, three requests of any kind, one failed or unanswered call | a login has one refresh token in use (`OneSessionPerLogin`), logout and the reuse of a revoked token end all earlier logins (`LogoutEndsSessions`), a lock-out ends (`LockoutEnds`); each names the overlap or the lost call outside which it holds |
| `care` | a lead, a follow-up, a complaint, two managers, five days, one failed statement | a lost lead has no pending follow-ups (`LostLeadIsLeftAlone`); what is overdue or old is settled or escalated (`NothingStaysOverdue`) |
| `staff` | one leave, its owner and a colleague, one manager, two days | what was decided on a leave and on an override stands (`DecidedDatesStand`, `ReviewStands`) |
| `workspace` | two quotations (one cash with a PDF of its own), one document, two orders with purchase orders, jobs and updates, six rows in all, one reader, one failed call | every link can be served (`LinksResolve`); an answer is about one order and one of its jobs, whole for these, and without cash quotations where they are hidden (`AnswerIsWhole`) |

Forms of these properties that do not hold, and are therefore stated with their exception: an
approved cash quotation gets no order when its approver is not in ghost mode, because the lookup for the
event hides it; a connection lost before its watcher registers is never replaced; the return of the network is
swallowed while a loop is ending; the banner says *discarded* of a change whose repeat the
server refused because it has it; two exchanges of one refresh token that overlap leave two
successors; a counter whose EXPIRE was lost, or whose first INCR lost its answer, never ends its
lock-out; a post that hangs keeps the outbox from being sent until the application is restarted;
a request the client no longer waits for is carried out after later ones, also after its row was given
up as *discarded*; a clock set back reorders rows; an order with several jobs is shown with
any one of them.

Bounds. Three attempts are the code's own number; two are enough to have a
first and a repeated one where more publishers are interesting. Three faults let a lost
confirmation, a crash after the commit and a dropped connection meet. Two
workers are the least with which a message can be handled by one while another
has it redelivered. Three pairs of tokens allow a second exchange after the first; three
requests a leader, one that waits and one that comes late. Three faults of the broker
cannot use up ten connections (with eight they can, and the instance would stop for want
of a name). In `session` three requests are the least in which two exchanges overlap after a login;
in `care` two managers can lose and reopen a lead in turn, and five days pass both
thresholds after a reopening; in `workspace` two orders let a new one appear while an
answer about the other is being read, and one of two quotations is hidden; `MaxRows` = 6 bounds the
rows of all tables together, which is enough for an order with two jobs, updates of one and a
purchase order beside its quotation, or for two orders with a job each: files, documents and quotations share no
guard with what hangs on an order, so they need not be many at the same time. A `BoardLimit` of 2 is
reached by two jobs. In `fulfil` two
signatures let a redo meet an approval or an old post a new one, and a second order shows that a completion is of the
right one. Two mutations show
order and head-of-line blocking; two attempts show a failure that counts
and one that exhausts. Counters (`tries`, `failures`, `faults`, `kills`, `made`,
`issued`) are bounded in the guards by the constants of the same name.

Deadlock is checked nowhere: clients need not make a request, and an instance in which
all bounded requests are over stops; a worker that lost its watcher stops for good.

Fairness. The consumer's own steps are weakly fair: the supervisor restarts a
consumer after any exit (`cmd/worker/main.go:121-130`), the watcher reconnects until
it succeeds, and the containers of the worker and of the broker restart
(`docker-compose.yml:25-33, 86`). A
status request in progress goes on, and so does a request to the authentication service;
Redis lets expire what has an expiry. Both cron jobs run at the start of the worker and at every tick
(`cmd/worker/main.go:261-272`), so each is weakly fair. Nothing that fails, and nothing a
client or manager decides, is fair. In `fulfil` a sign-off handler that has written a verdict
goes on, and the queue hands out what it has, which is what `queue` shows; nothing is
assumed of the outbox. In the mobile client the event loop runs what is ready. For the
outbox's `EveryMutationLeaves` a loop that runs goes on, with a post that ends or one that hangs, and
the user presses what the banner offers; that the server carries out what nobody waits for is not
assumed. In `refresh` a request ends with an answer or an error. The exchange request has no receive
timeout (`api_client.dart:67-69`), so its fairness rests on the connection being closed in the end.

## 4. What is proved

For every value of the constants (`Publishers`, `Workers`, `Quotations`, ... any sets,
`MaxPublishAttempts` positive), from the named assumptions of each module:

* `OrderHandoff_proofs`, for the queue: type correctness, `AckedAfterEffect`, `ConfirmedIsKept`,
  `OneEffectWithoutFaults`, and that every step of the queue is a step of `Handoff` or leaves it
  unchanged (`QueueKeepsPromise`). The inductive invariant `QueueInv` adds to the
  types that attempts a publisher has not made yet are unsent, that a message in
  a buffer or a job was sent, and that a job about to acknowledge has had its effect: without the
  last, `Ack` could not be shown to be safe. `OneEffectWithoutFaults` needs more: while
  nothing has failed, a message is in exactly one of the broker's hands, a buffer or a job.
  For the hand-over: every step of it is a step of the work queue or
  leaves it unchanged (`HandoffRunsQueue`), so the theorems above hold of it too;
  type correctness, `OrderHasApproval` and `OrdersMatchApprovals`. The invariant says that a request
  that publishes carries an approval visible to its caller, and that a message that was sent
  belongs to such a request. `OrdersMatchApprovals` compares two numbers, and the proof counts: while
  nothing has failed a message takes effect at most once and a request sends only its first attempt, so
  the orders of a quotation go one to one to requests that approved it, a finite set.

* `BrokerConnection_proofs`: type correctness, `RepairUnderWay`, `WorkerHasOneConnection` and
  `HandsOutLive`. The invariant says who owns a connection: one that is `mine` belongs to one
  dialer and is not shared or watched yet, a watcher that watches has an open connection, and in
  the worker a single token - an open connection, a watcher that reconnects, or a connection not
  yet stored - is handed round; without that ownership two watchers could each replace the other's.

* `Fulfilment_proofs`: type correctness and `CompletionFollowsApproval`. When the worker handles an
  event it reads nothing but the job's order, so the property rests on what was true when the
  event was announced: the invariant says that a handler which announces, or has announced, carries
  a signature whose job exists and was approved (now or before `withdrawn`), and that a handler
  that has not begun announced nothing.

* `OutboxSync_proofs`: type correctness, `NothingVanishes`, `RepeatsBounded`, `OrderKept`, and that
  every step of the outbox is a step of `Handoff` or invisible to it (`OutboxKeepsPromise`: making
  a change promises it, carrying it out, in time or late, performs it, taking the row out after the answer
  settles it, giving it up settles nothing). None of these is inductive. `OutboxInv` adds that
  `_isSyncing` is exactly whether the loop runs or hangs, that no two rows bear the same time, that the
  loop's copy of the table has no gap (what was made and stamped before a row still to come is still
  to come, or it was taken out), that a row whose post is
  in progress is in the table and not exhausted, that while a row is in the table nothing made and stamped
  after it was sent, that only what was sent can be carried out, and the ledger of attempts: a row's
  posts are its counted failures, the faults and kills,
  and the one in flight. The first makes the loop the only one; the gapless copy is what keeps the order
  when a change is queued while the loop runs.

* `ContractorPayments_proofs`: type correctness, `PaymentLocksHold` and `TotalsMatchLedger`.
  `RecordPayment` checks a row it read before its transaction, so the invariant speaks of the past
  instead of the present: an approved row says that its installer is signed for, a stage past the
  first that the job was accepted, and a request between its check and its end holds a row of which
  that was true. `TotalsMatchLedger` (`TotalsAddUp`) rests on `LedgerInv`: a request that has not
  committed has no payment yet, payments are about jobs that exist, and there are finitely many. What
  a payment does to a total is a lemma about the fold `MapThenSumSet`, whose value is that of a
  function that recurs over subsets: such a function exists (`RecursionExists`), two of them agree
  (`RecursionsAgree`), and one more element adds its amount whichever is taken first
  (`SumOfOneMore`). The library's induction rules cannot be used for these; each is proved by
  taking a smallest subset for which it fails (`HasSmallest`).

* `ClientCare_proofs`: type correctness and `LostLeadIsLeftAlone`, which is inductive by itself: each
  of its exceptions (created after the loss, a failed second statement, a request between its two
  statements) is what one action leaves behind.

* `Office_proofs`, for `StaffTime`: type correctness, `DecidedDatesStand` and `ReviewStands`. The
  invariant adds that only requested leaves are decided and that an override that waits has no
  reviewer. For `Workspace`: type correctness, `LinksResolve` and `AnswerIsWhole`. Links resolve because
  an object is stored before its link or its record is written and nothing is deleted (`StoredFirst`).
  An answer is put together from several statements, so the invariant follows each reader
  (`AnswerInv`): what it has read so far contains what was there when the request arrived (of the jobs
  one if there was any, and of the updates those of that one), what
  hangs on an order was read for the order the answer shows, and that order is one its caller sees
  and no older than the newest at the request's arrival (`HasLargest` and `NewestIs`: a bounded set of numbers has a
  largest). Everything else in the office only adds rows (`Grows`), so no step takes back what was read.

* `Authentication_proofs`, for the client (`RefreshQueue`): type correctness, `OneExchange` and
  `HandlerAnsweredOnce`. The invariant says that one request leads and `_isRefreshing` is its flag, that
  waiting handlers are in the queue or in its copy, never in both, that an unanswered handler was
  never answered, and how the tokens of the client and the server follow each other: as long as
  nothing was killed the stored token is the live one, or its leader is about to store it.
* `Authentication_proofs`, for the service (`Sessions`): type correctness, `OneSessionPerLogin`,
  `LogoutEndsSessions`, and `LockoutsHaveAnEnd`. Types need counting, because failure counters and
  codes are bounded only by the number of requests: a request counts at most one failure, and one
  more for each answer of INCR that was lost, and makes at most one code (`EachCountsOnce`). The two properties of tokens are inductive together with five facts
  (`LoginInv`): tokens of a login belong to one user; two requests never exchange
  tokens of the same login at once; the token an exchange presented stays live until that
  exchange revokes it; between revocation and insert no token of the login is live; and no
  exchange of an ended login is under way (all but the first outside `raced`). `LockoutsHaveAnEnd` is the safety part of
  `LockoutEnds`: in every state a counter that counts has its expiry, or a request is just about to
  set it, or since it was last at zero the call that would have set it, or the answer of the INCR that
  asks for it, was lost (`orphaned`).

Assumptions: those named `...Assumption` say that bounds are natural numbers, name the days of
`StaffTime`, bound the queue's attempts from below, and keep values of different kinds apart;
`NoneIsNoRow` says that the value for "no row" is not a row. No set of requests, users, jobs or messages is
assumed to be finite: where a theorem counts or sums, that only finitely many have acted is part
of the invariant.

Only model-checked: everything under fairness (`HandoffSpec`, whose safety part is proved,
`AnnouncedApprovalIsOrdered`, `WatchedConsumersRecover`, `EarlyWaiterIsAnswered`,
`EveryMutationLeaves`, `LockoutEnds`, `NothingStaysOverdue`, `ApprovalReachesOrder`), because liveness
is outside the prover. Every invariant and every action property of the runs is proved.

## 5. What is not modelled, and the plan

* Widgets, routing and caches of the application, HTTP parsing and validation of inputs, logging, PDF
  layout, configuration and start-up: no state the rest depends on. The web build's outbox in memory is
  the table of `OutboxSync` without its restart.
* WhatsApp messages are best effort by design: acknowledged before they are sent, never retried.
* Vendors, contractor records, the order manager, daily logs and site updates are single
  statements. A dispatch log overwrites the dispatch's status, so a departure that is carried out after the
  delivery sets it back. The outbox of a device with a steady clock does not post them that way round
  (`OrderKept`), but a departure whose post was given up waiting for may still arrive last, and
  nothing in the statement keeps it out.
* Action items and timeline of the BFF are plain reads of committed rows.
* The clients of the API other than the mobile application, and what an operator does to the database by hand.

What is left, in this order:

1. The facts about rows on which the liveness properties rest, proved as invariants the way
   `LockoutsHaveAnEnd` is.
2. Dispatches and daily logs, composed with the outboxes of two devices: `OrderKept` is about one
   device, and about what the server does only while every post of a change is answered.
