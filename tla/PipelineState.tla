----------------------------- MODULE PipelineState -----------------------------
(***************************************************************************)
(* The state the document pipeline is made of: the Postgres rows of the    *)
(* documents, the two BullMQ queues between the workers, and where each    *)
(* request and each execution of a job stands.  DocumentService, OcrWorker *)
(* and ExtractionWorker are the actions of the three components on it.     *)
(*                                                                         *)
(* Every await of the code is the end of a step, so whatever the event     *)
(* loops and the processes can interleave is interleaved.  A transaction   *)
(* is a read step and a commit step, whether or not the commit re-checks   *)
(* what was read.                                                          *)
(*                                                                         *)
(* Abstractions.  A text is blank or not.  An invoice is what the decision *)
(* engine looks at (module DecisionEngine), as extracted or as stored;     *)
(* that a reviewer edited it later is a flag.  Of the audit log, which     *)
(* only grows, newStatus of the latest row of a document is kept.  Rows of *)
(* documents are never deleted, so the workers' "Document not found"       *)
(* branches cannot be taken and are left out.                              *)
(***************************************************************************)
EXTENDS Integers, FiniteSets, JobQueue, DecisionEngine

CONSTANTS
  Documents,              \* document ids
  NoDoc,                  \* the document of an idle reviewer
  Runs,                   \* processing run ids
  Initial,                \* the run id of an upload: 'initial'
  NoRun,                  \* the run of a missing extraction row
  NoInvoice,              \* the data of a missing extraction row
  Reviewers,              \* with one request in flight each
  OcrTexts,               \* what text detection may return
  Faults,                 \* what may go wrong: "provider", an error from
                          \* object storage, Textract or the LLM; "store",
                          \* from Postgres or Redis; "crash" of a process
  WebhookConfigured,      \* the tenant has a webhook URL
  OcrConcurrency,         \* jobs the OCR worker runs at once
  ExtractionConcurrency   \* jobs the extraction worker runs at once

ASSUME RunsAssumption == Initial \in Runs /\ NoRun \notin Runs
                         /\ NoDoc \notin Documents
ASSUME ChoicesAssumption == /\ OcrTexts \subseteq {"text", "blank"}
                            /\ Faults \subseteq {"provider", "store", "crash"}
                            /\ WebhookConfigured \in BOOLEAN
ASSUME FinitenessAssumption == IsFiniteSet(Runs) /\ IsFiniteSet(Reviewers)
ASSUME ConcurrencyAssumption == /\ OcrConcurrency \in Nat \ {0}
                                /\ ExtractionConcurrency \in Nat \ {0}

VARIABLES
  status,       \* documents.status; "absent" before the row is inserted
  stored,       \* documents.storageKey is no longer 'pending'
  rawText,      \* documents.rawText
  docType,      \* documents.docType
  extraction,   \* the documents_extraction row
  audit,        \* newStatus of the latest document_audit_log row
  ocrQ,         \* the ocr-jobs queue, by job id
  extQ,         \* the extraction-jobs queue, by job id
  uploadPc,     \* where the upload request of a document stands
  req,          \* the request of each reviewer
  ocrPc,        \* where the execution of an OCR job stands
  extPc,        \* where the execution of an extraction job stands
  decision,     \* the decision that execution has reached
  unannounced   \* history: approvals and rejections committed so far, less
                \* webhook jobs added so far

content == <<stored, rawText, docType, extraction>>
db == <<status, content, audit>>
queues == <<ocrQ, extQ>>
api == <<uploadPc, req>>
workers == <<ocrPc, extPc, decision>>
vars == <<db, queues, api, workers, unannounced>>

Jobs == Documents \X Runs       \* what ocrJobId and extractionJobId name
Doc(j) == j[1]
Run(j) == j[2]

Statuses == {"uploaded", "ocr_processing", "extracted", "extracting",
             "pending_review", "approved", "rejected", "failed"}
Settled == {"pending_review", "approved", "rejected", "failed"}

\* toFixed(2): the nearest whole cents.  Of two that are as near, it depends on
\* the double which.
ToCents(amount) ==
  LET down == amount - (amount % Cent)
  IN  {c \in {down, down + Cent} : 2 * Distance(c, amount) <= Cent}
\* What a row may keep of an invoice: line items and confidences as they are, as
\* JSON, but the subtotal in a column with two decimals.
Stored(inv) == {[lineItems |-> inv.lineItems, subtotal |-> c,
                 confidence |-> inv.confidence] : c \in ToCents(inv.subtotal)}
StoredInvoices == UNION {Stored(inv) : inv \in Invoices}

NoRow == [run |-> NoRun, invoice |-> NoInvoice, edited |-> FALSE]
ExtractionRows ==
  {NoRow} \cup [run : Runs, invoice : StoredInvoices, edited : BOOLEAN]

UploadPcs == {"none", "store", "key", "audit", "enqueue", "catch", "done"}
OcrPcs == {"idle", "mark", "detect", "audit", "enqueue", "catch", "fail",
           "return"}
ExtPcs == {"idle", "mark", "classify", "insert", "decide", "auditExtracted",
           "auditDecision", "notify", "auditUnknown", "empty", "auditEmpty",
           "catch", "auditFailed", "fail", "return"}
Requests == [op : {"none", "approve", "reject", "edit", "reprocess"},
             doc : Documents \cup {NoDoc},
             pc : {"idle", "commit", "notify", "enqueue"},
             seen : Statuses \cup {"none"}, run : Runs \cup {NoRun}]
NoRequest == [op |-> "none", doc |-> NoDoc, pc |-> "idle",
              seen |-> "none", run |-> NoRun]

\* Every variable stays in the range its column, queue or local variable has.
TypeOK ==
  /\ status \in [Documents -> Statuses \cup {"absent"}]
  /\ stored \in [Documents -> BOOLEAN]
  /\ rawText \in [Documents -> {"null", "text", "blank"}]
  /\ docType \in [Documents -> {"null", "invoice", "unknown"}]
  /\ extraction \in [Documents -> ExtractionRows]
  /\ audit \in [Documents -> Statuses \cup {"none"}]
  /\ ocrQ \in [Jobs -> JobRecords]
  /\ extQ \in [Jobs -> JobRecords]
  /\ uploadPc \in [Documents -> UploadPcs]
  /\ req \in [Reviewers -> Requests]
  /\ ocrPc \in [Jobs -> OcrPcs]
  /\ extPc \in [Jobs -> ExtPcs]
  /\ decision \in [Jobs -> Decisions \cup {"none"}]
  /\ unannounced \in [Documents -> Int]

Init ==
  /\ status = [d \in Documents |-> "absent"]
  /\ stored = [d \in Documents |-> FALSE]
  /\ rawText = [d \in Documents |-> "null"]
  /\ docType = [d \in Documents |-> "null"]
  /\ extraction = [d \in Documents |-> NoRow]
  /\ audit = [d \in Documents |-> "none"]
  /\ ocrQ = [j \in Jobs |-> NoJob]
  /\ extQ = [j \in Jobs |-> NoJob]
  /\ uploadPc = [d \in Documents |-> "none"]
  /\ req = [a \in Reviewers |-> NoRequest]
  /\ ocrPc = [j \in Jobs |-> "idle"]
  /\ extPc = [j \in Jobs |-> "idle"]
  /\ decision = [j \in Jobs |-> "none"]
  /\ unannounced = [d \in Documents |-> 0]

\* The writes every component makes: of documents.status, and of an audit
\* row (writeAuditLog, or an insert into document_audit_log).
SetStatus(d, s) == status' = [status EXCEPT ![d] = s]
Log(d, s) == audit' = [audit EXCEPT ![d] = s]

\* The jobs a worker has in hand.
Active(queue) == {j \in Jobs : queue[j].state = "active"}
=============================================================================
