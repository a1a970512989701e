------------------------------ MODULE Workspace ------------------------------
(* One project as the workspace shows it: its quotations and their PDFs, its     *)
(* orders with what hangs on them, its documents, and the answers put together   *)
(* from several statements while all of these change.                            *)
EXTENDS Naturals, Sequences, FiniteSets

CONSTANTS
    Quotations, Docs,   \* rows that may be inserted
    Cash,               \* the quotations with payment_term_type = 'cash'
    Custom,             \* those whose request brings a PDF of its own
    Readers,            \* requests for the project's details
    BoardLimit,         \* LIMIT of the board, for the cards of all projects
    MaxOrders,          \* bound: orders of the project
    MaxRows,            \* bound: rows of all the tables
    MaxFaults           \* bound: calls that fail

ASSUME WorkspaceAssumption ==
    /\ Cash \subseteq Quotations /\ Custom \subseteq Quotations
    /\ BoardLimit \in Nat /\ MaxOrders \in Nat /\ MaxRows \in Nat /\ MaxFaults \in Nat

VARIABLES
    quotes,     \* quotations
    pdf,        \* quotations.pdf_url: the caller's own file, or one in the bucket
    create,     \* where the request that creates a quotation is
    objects,    \* what the bucket holds
    docs,       \* project_documents
    upload,     \* documents stored but not recorded, their requests in progress
    orders,     \* the orders' quotations, oldest first: an order's id is its index
    parts,      \* an order's purchase orders and jobs, and the jobs that have updates
    at,         \* where each reader's order goroutine is
    answer,     \* what each reader has put together
    seen,       \* history: what there was when the reader arrived
    faults

written == <<quotes, pdf, create, objects, docs, upload>>
reading == <<at, answer, seen>>
workspaceVars == <<written, orders, parts, reading, faults>>

Ids == 1..MaxOrders
\* A purchase order or a job of an order, by number; updates have their job's.
Parts == {"po", "job", "update"} \X Ids \X (1..MaxRows)
\* An answer: its caller's ghost mode, what was found, which of the two side
\* goroutines are through, and which results broke off; order is 0 for none.
Answer == [ghost : BOOLEAN, quotes : SUBSET Quotations, docs : SUBSET Docs,
           order : 0..MaxOrders, parts : SUBSET Parts,
           read : SUBSET {"quotes", "docs"}, cut : SUBSET {"po", "docs"}]
Seen == [quotes : SUBSET Quotations, docs : SUBSET Docs, order : 0..MaxOrders,
         parts : SUBSET Parts]
Stages == {"Lead", "Procurement", "Execution", "Completed"}

Visible(q, ghost) == ghost \/ q \notin Cash
ListByLead(ghost) == {q \in quotes : Visible(q, ghost)}
VisibleOrders(ghost) == {o \in DOMAIN orders : Visible(orders[o], ghost)}

\* ORDER BY created_at DESC LIMIT 1
Newest(S) == CHOOSE o \in S \cup {0} : \A p \in S : p <= o
GetOrderByLeadID(ghost) == Newest(VisibleOrders(ghost))

RowsOf(kind, o) == {x[3] : x \in {y \in parts : y[1] = kind /\ y[2] = o}}

\* The status of the job itself.
Bucket_Raw(o, j) ==
    CASE o = 0 -> "Lead"
      [] o # 0 /\ j = 0 -> "Procurement"
      [] OTHER -> "in_progress"

\* The furthest stage with a status; no statement gives a job the status 'completed'.
Bucket(o, j) ==
    CASE o = 0 -> "Lead"
      [] o # 0 /\ j = 0 -> "Procurement"
      [] OTHER -> "Execution"

\* A card for each job, and for what has none. The ghost filter is only on its value,
\* that of a quotation with the status 'approved', which none is ever given.
LeftJoin(S) == IF S = {} THEN {0} ELSE S
Card(o, j) == [order |-> o, job |-> j, stage |-> Bucket(o, j)]
Cards == UNION {{Card(o, j) : j \in LeftJoin(RowsOf("job", o))} :
                    o \in LeftJoin(DOMAIN orders)}

\* What the board may show of them, by the places the other projects leave.
GetPipeline == {B \in SUBSET Cards : Cardinality(B) <= BoardLimit}

WorkspaceTypeOK ==
    /\ quotes \subseteq Quotations
    /\ pdf \in [Quotations -> {"none", "custom", "stored"}]
    /\ create \in [Quotations -> {"idle", "render", "link"}]
    /\ objects \subseteq Quotations \cup Docs
    /\ docs \subseteq Docs /\ upload \subseteq Docs
    /\ orders \in Seq(Quotations) /\ Len(orders) <= MaxOrders
    /\ parts \subseteq Parts
    /\ at \in [Readers -> {"idle", "order", "po", "job", "update", "end", "failed"}]
    /\ answer \in [Readers -> Answer]
    /\ seen \in [Readers -> Seen]
    /\ faults \in 0..MaxFaults
    /\ UNION GetPipeline \subseteq
        [order : 0..MaxOrders, job : 0..MaxRows, stage : Stages]

Empty(ghost) == [ghost |-> ghost, quotes |-> {}, docs |-> {}, order |-> 0,
                 parts |-> {}, read |-> {}, cut |-> {}]

Nothing == [quotes |-> {}, docs |-> {}, order |-> 0, parts |-> {}]

WorkspaceInit ==
    /\ quotes = {}
    /\ pdf = [q \in Quotations |-> "none"]
    /\ create = [q \in Quotations |-> "idle"]
    /\ objects = {} /\ docs = {} /\ upload = {}
    /\ orders = <<>> /\ parts = {}
    /\ at = [r \in Readers |-> "idle"]
    /\ answer = [r \in Readers |-> Empty(FALSE)]
    /\ seen = [r \in Readers |-> Nothing]
    /\ faults = 0

Fault == faults < MaxFaults /\ faults' = faults + 1

Room == Cardinality(quotes) + Cardinality(docs \cup upload) + Len(orders)
            + Cardinality(parts) < MaxRows

---------------------------------------------------------------------------
(* Quotations: the rows in one transaction, then the PDF, then the link to it *)

InsertQuotation(q) == quotes' = quotes \cup {q}

CreateQuotation(q, ghost) ==
    /\ q \notin quotes /\ Room
    /\ q \in Cash => ghost
    /\ InsertQuotation(q)
    /\ pdf' = [pdf EXCEPT ![q] = IF q \in Custom THEN "custom" ELSE "none"]
    /\ create' = [create EXCEPT ![q] = IF q \in Custom THEN "idle" ELSE "render"]
    /\ UNCHANGED <<objects, docs, upload, orders, parts, reading, faults>>

UploadFile(key) == objects' = objects \cup {key}

GenerateAndUploadPDF(q) ==
    /\ create[q] = "render"
    /\ UploadFile(q)
    /\ create' = [create EXCEPT ![q] = "link"]
    /\ UNCHANGED <<quotes, pdf, docs, upload, orders, parts, reading, faults>>

\* The link is written whatever became of the file.
UpdatePdfURL_Always(q) ==
    /\ create[q] \in {"render", "link"}
    /\ pdf' = [pdf EXCEPT ![q] = "stored"]
    /\ create' = [create EXCEPT ![q] = "idle"]
    /\ UNCHANGED <<quotes, objects, docs, upload, orders, parts, reading, faults>>

UpdatePdfURL(q) ==
    /\ create[q] = "link"
    /\ pdf' = [pdf EXCEPT ![q] = "stored"]
    /\ create' = [create EXCEPT ![q] = "idle"]
    /\ UNCHANGED <<quotes, objects, docs, upload, orders, parts, reading, faults>>

\* Either failure is passed over: the quotation stays, without a PDF. A failed
\* upload may have stored the file all the same, a failed UPDATE the link.
PdfFails(q) ==
    /\ Fault
    /\ \/ create[q] = "render" /\ objects' \in {objects, objects \cup {q}} /\ UNCHANGED pdf
       \/ create[q] = "link" /\ pdf' \in {pdf, [pdf EXCEPT ![q] = "stored"]}
          /\ UNCHANGED objects
    /\ create' = [create EXCEPT ![q] = "idle"]
    /\ UNCHANGED <<quotes, docs, upload, orders, parts, reading>>

QuotationRequest(q) ==
    \/ \E ghost \in BOOLEAN : CreateQuotation(q, ghost)
    \/ GenerateAndUploadPDF(q) \/ UpdatePdfURL(q) \/ PdfFails(q)

---------------------------------------------------------------------------
(* Documents: the object first, then its record *)

StoreDocument(d) ==
    /\ d \notin objects /\ Room
    /\ UploadFile(d)
    /\ \/ upload' = upload \cup {d} /\ UNCHANGED faults
       \/ Fault /\ UNCHANGED upload     \* stored, and reported as a failure
    /\ UNCHANGED <<quotes, pdf, create, docs, orders, parts, reading>>

\* A failed INSERT leaves the object where it is.
RecordDocument(d) ==
    /\ d \in upload
    /\ upload' = upload \ {d}
    /\ \/ docs' = docs \cup {d} /\ UNCHANGED faults
       \/ Fault /\ docs' \in {docs, docs \cup {d}}
    /\ UNCHANGED <<quotes, pdf, create, objects, orders, parts, reading>>

UploadProjectDocument(d) == StoreDocument(d) \/ RecordDocument(d)

---------------------------------------------------------------------------
(* The other services: an order for a quotation, and what follows it *)

NewOrder(q) ==
    /\ q \in quotes /\ Len(orders) < MaxOrders /\ Room
    /\ orders' = Append(orders, q)
    /\ UNCHANGED <<written, parts, reading, faults>>

NewPart(kind, o, n) ==
    /\ Room
    /\ parts' = parts \cup {<<kind, o, n>>}
    /\ UNCHANGED <<written, orders, reading, faults>>

\* An order may have any number of both: a second job is a row like the first.
AnotherOf(kind, o, n) ==
    /\ n = Cardinality(RowsOf(kind, o)) + 1
    /\ NewPart(kind, o, n)

CreatePurchaseOrder(o, n) == AnotherOf("po", o, n)
CreateInstallation(o, n) == AnotherOf("job", o, n)

BulkInsertUpdates(o, j) ==
    /\ j \in RowsOf("job", o) \ RowsOf("update", o)
    /\ NewPart("update", o, j)

---------------------------------------------------------------------------
(* GetProjectDetails: a goroutine for the quotations, one for the documents, and *)
(* one for the order and then what belongs to it                                 *)

Arrive(r, ghost) ==
    /\ at[r] = "idle"
    /\ at' = [at EXCEPT ![r] = "order"]
    /\ answer' = [answer EXCEPT ![r] = Empty(ghost)]
    /\ LET o == GetOrderByLeadID(ghost)
       IN  seen' = [seen EXCEPT ![r] = [quotes |-> ListByLead(ghost), docs |-> docs,
                        order |-> o, parts |-> {x \in parts : x[2] = o}]]
    /\ UNCHANGED <<written, orders, parts, faults>>

InProgress(r) == at[r] \notin {"idle", "failed"}

ReadQuotes(r) ==
    /\ InProgress(r) /\ "quotes" \notin answer[r].read
    /\ answer' = [answer EXCEPT ![r].quotes = ListByLead(answer[r].ghost),
                                ![r].read = @ \cup {"quotes"}]
    /\ UNCHANGED <<written, orders, parts, at, seen, faults>>

\* A result that breaks off is not told from one that ends: rows.Err() is not read.
ReadDocuments(r) ==
    /\ InProgress(r) /\ "docs" \notin answer[r].read
    /\ \E S \in SUBSET docs :
        /\ answer' = [answer EXCEPT ![r].docs = S, ![r].read = @ \cup {"docs"},
                                    ![r].cut = IF S = docs THEN @ ELSE @ \cup {"docs"}]
        /\ IF S = docs THEN UNCHANGED faults ELSE Fault
    /\ UNCHANGED <<written, orders, parts, at, seen>>

ReadOrder(r) ==
    /\ at[r] = "order"
    /\ LET o == GetOrderByLeadID(answer[r].ghost)
       IN  /\ answer' = [answer EXCEPT ![r].order = o]
           /\ at' = [at EXCEPT ![r] = IF o = 0 THEN "end" ELSE "po"]
    /\ UNCHANGED <<written, orders, parts, seen, faults>>

\* What belongs to the newest order of the lead.
PartsOf_Newest(r, kind) == {x \in parts : x[1] = kind /\ x[2] = Len(orders)}

\* What belongs to the order that was read.
PartsOf(r, kind) == {x \in parts : x[1] = kind /\ x[2] = answer[r].order}

\* Purchase orders that break off are taken for all of them, as documents are.
ReadPOs(r) ==
    /\ at[r] = "po"
    /\ at' = [at EXCEPT ![r] = "job"]
    /\ \E S \in SUBSET PartsOf(r, "po") :
        /\ answer' = [answer EXCEPT ![r].parts = S,
                        ![r].cut = IF S = PartsOf(r, "po") THEN @ ELSE @ \cup {"po"}]
        /\ IF S = PartsOf(r, "po") THEN UNCHANGED faults ELSE Fault
    /\ UNCHANGED <<written, orders, parts, seen>>

\* LIMIT 1 without an order: any one of the order's jobs.
ReadJob(r) ==
    /\ at[r] = "job"
    /\ \/ /\ PartsOf(r, "job") = {}
          /\ at' = [at EXCEPT ![r] = "end"] /\ UNCHANGED answer
       \/ \E x \in PartsOf(r, "job") :
            /\ answer' = [answer EXCEPT ![r].parts = @ \cup {x}]
            /\ at' = [at EXCEPT ![r] = "update"]
    /\ UNCHANGED <<written, orders, parts, seen, faults>>

\* Whether the job that an update is of has been read.
OfItsJob(x, S) == <<"job", x[2], x[3]>> \in S

ReadUpdates(r) ==
    /\ at[r] = "update"
    /\ answer' = [answer EXCEPT ![r].parts =
            @ \cup {x \in PartsOf(r, "update") : OfItsJob(x, @)}]
    /\ at' = [at EXCEPT ![r] = "end"]
    /\ UNCHANGED <<written, orders, parts, seen, faults>>

Answered(r) == at[r] = "end" /\ answer[r].read = {"quotes", "docs"}

\* Any error of a goroutine fails the request; the rest is cancelled.
ReadFails(r) ==
    /\ InProgress(r) /\ ~Answered(r)
    /\ Fault
    /\ at' = [at EXCEPT ![r] = "failed"]
    /\ answer' = [answer EXCEPT ![r] = Empty(FALSE)]
    /\ seen' = [seen EXCEPT ![r] = Nothing]
    /\ UNCHANGED <<written, orders, parts>>

---------------------------------------------------------------------------
Read(r) ==
    \/ \E ghost \in BOOLEAN : Arrive(r, ghost)
    \/ ReadQuotes(r) \/ ReadDocuments(r) \/ ReadFails(r)
    \/ ReadOrder(r) \/ ReadPOs(r) \/ ReadJob(r) \/ ReadUpdates(r)

WorkspaceNext ==
    \/ \E q \in Quotations : QuotationRequest(q) \/ NewOrder(q)
    \/ \E d \in Docs : UploadProjectDocument(d)
    \/ \E o \in DOMAIN orders, n \in 1..MaxRows :
        CreatePurchaseOrder(o, n) \/ CreateInstallation(o, n) \/ BulkInsertUpdates(o, n)
    \/ \E r \in Readers : Read(r)

WorkspaceSpec == WorkspaceInit /\ [][WorkspaceNext]_workspaceVars

---------------------------------------------------------------------------
(* Properties *)

DownloadFile(key) == key \in objects
Links == docs \cup {q \in Quotations : pdf[q] = "stored"}
              \cup UNION {answer[r].docs : r \in Readers}

\* Every link to the bucket that a row or an answer carries can be served, wherever
\* storing, recording or linking a file broke off.
LinksResolve == \A key \in Links : DownloadFile(key)

\* What there was when the request arrived is in the answer, as far as its caller
\* sees it, unless the rows of the purchase orders or the documents broke off: of the
\* order's jobs one is shown, with the updates it had.
Complete(r) ==
    LET a == answer[r]  s == seen[r] IN
    /\ s.quotes \subseteq a.quotes
    /\ s.docs \subseteq a.docs \/ "docs" \in a.cut
    /\ s.order <= a.order
    /\ \A x \in s.parts : x[2] = a.order =>
        /\ x[1] = "po" => x \in a.parts \/ "po" \in a.cut
        /\ x[1] = "job" => \E y \in a.parts : y[1] = "job"
        /\ x[1] = "update" /\ OfItsJob(x, a.parts) => x \in a.parts

\* What is shown hangs on the order that is shown, updates on the one job that is, and
\* no card of that order on the board is behind a job that is shown.
Together(r) ==
    LET a == answer[r] IN
    /\ \A x \in a.parts : x[2] = a.order /\ (x[1] = "update" => OfItsJob(x, a.parts))
    /\ \A x, y \in a.parts : x[1] = "job" /\ y[1] = "job" =>
        /\ x = y
        /\ \A c \in UNION GetPipeline : c.order = a.order => c.stage = "Execution"

\* Without ghost mode nothing of it comes from a cash quotation.
CashHidden(r) ==
    LET a == answer[r] IN
    ~a.ghost => /\ a.quotes \cap Cash = {}
                /\ a.order # 0 => orders[a.order] \notin Cash

\* An answer of GetProjectDetails is whole up to one job of its order, whatever was
\* inserted between the statements it is made of: an order with several jobs is shown
\* with any one of them (LIMIT 1), and never with the updates of another.
AnswerIsWhole ==
    \A r \in Readers : Answered(r) => Complete(r) /\ Together(r) /\ CashHidden(r)
=============================================================================
