--------------------------- MODULE DocumentPipeline ---------------------------
(* The API process and the two document workers together, and what they    *)
(* have to keep true.                                                      *)
EXTENDS DocumentService, OcrWorker, ExtractionWorker

Next ==
  \/ \E d \in Documents : \/ UploadInsert(d) \/ UploadProgress(d)
                          \/ UploadThrow(d) \/ UploadUnconfirmed(d)
                          \/ UploadLost(d)
  \/ \E a \in Reviewers : \/ RequestBegin(a) \/ RequestProgress(a)
                          \/ RequestLost(a)
  \/ \E j \in Jobs : OcrProgress(j) \/ OcrFault(j)
  \/ \E j \in Jobs : ExtProgress(j) \/ ExtFault(j)

Spec == Init /\ [][Next]_vars

\* A request that has begun goes on, a job in a queue is taken when a slot
\* is free, and a call to a provider returns or throws.  Nobody has to
\* upload or review anything, and no other fault has to happen.
Fairness ==
  /\ \A d \in Documents : WF_vars(UploadProgress(d))
  /\ \A a \in Reviewers : WF_vars(RequestProgress(a))
  /\ \A j \in Jobs : WF_vars(OcrProgress(j) \/ OcrThrow(j))
  /\ \A j \in Jobs : WF_vars(ExtProgress(j))

FairSpec == Spec /\ Fairness

\* The life cycle of the documents as a reader of the database sees it.
Lifecycle == INSTANCE DocumentLifecycle
               WITH data <- [d \in Documents |-> extraction[d] # NoRow]

\* The pipeline implements the life cycle.
ImplementsLifecycle == Lifecycle!Spec

-----------------------------------------------------------------------------
\* The OCR job of an upload is in its queue only once storageKey is the real
\* one, which the worker reads as soon as it has the job; the extraction job
\* of a run only once the OCR job of that run has been, and so has found the
\* document stored.
QueuedInOrder ==
  /\ \A d \in Documents :
       ocrQ[<<d, Initial>>].state # "absent" => stored[d]
  /\ \A j \in Jobs :
       extQ[j].state # "absent" => ocrQ[j].state # "absent" /\ stored[Doc(j)]

\* "a webhook job for an update that could still roll back would be wrong"
\* (document.service.ts): every webhook job added or about to be added has a
\* committed decision of its own, though reviewers race and jobs are retried.
WebhooksFollowDecisions ==
  \A d \in Documents :
    Cardinality({a \in Reviewers : req[a].doc = d /\ req[a].pc = "notify"})
      + Cardinality({r \in Runs : extPc[<<d, r>>] = "notify"})
      <= unannounced[d]

\* A document becomes rejected only out of review, and goes back to uploaded
\* only once failed or rejected: of two reviewers who race one wins.
ReviewerStepsAreGuarded ==
  [][\A d \in Documents :
       /\ status'[d] = "rejected" => status[d] \in {"pending_review", "rejected"}
       /\ status'[d] = "uploaded" =>
            status[d] \in {"absent", "uploaded", "failed", "rejected"}]_vars

\* "auto-approve requires every field's confidence at or above the tenant's
\* threshold *and* line items summing to the stated subtotal within a cent"
\* (README.md): of a row as it is stored this is so up to the half cent it may
\* be rounded by.  It is like that if decision v approves it, and not like that,
\* or half a cent off, if v sends it to review.
RuleHolds(row, v) ==
  LET off == Distance(LineItemsSum(row), row.subtotal)
      sure == \A field \in DOMAIN row.confidence :
                row.confidence[field] >= Threshold
  IN /\ v = "auto_approve" => sure /\ 2 * off <= 3 * Cent
     /\ v = "route_to_review" => ~ sure \/ 2 * off >= Cent
Deciding == {"auditExtracted", "auditDecision", "notify"}

\* While a decision is being audited and announced, the rule holds of the stored
\* row that its job has inserted, which the webhook will be made from: retries
\* neither judge one answer and store another, nor do later answers replace it.
\* (A reprocessing meanwhile may have put another run's row in its place.)
DecisionMatchesStored ==
  \A j \in Jobs :
    extPc[j] \in Deciding /\ extraction[Doc(j)].run = Run(j) =>
      RuleHolds(extraction[Doc(j)].invoice, decision[j])

\* An invoice that waits for review or was approved has the data that is
\* reviewed and delivered; a document of unknown type has none.
ReviewedDataPresent ==
  \A d \in Documents :
    status[d] \in {"pending_review", "approved"} =>
      (docType[d] = "invoice" <=> extraction[d] # NoRow)

\* Job j will not write to its document any more, or never did.
WritesNoMore(j) ==
  /\ ocrQ[j].state \notin {"waiting", "delayed", "stalled"}
  /\ extQ[j].state \notin {"waiting", "delayed", "stalled"}
  /\ ocrPc[j] \in {"idle", "fail", "return"}
  /\ extPc[j] \notin {"mark", "classify", "insert", "decide", "empty", "catch"}

\* No job of document d will write to it, not even in a retry of an execution
\* that is failing.
Again(job) == Failed(job).state = "delayed"
Spent(d) ==
  \A r \in Runs :
    LET j == <<d, r>>
    IN /\ WritesNoMore(j)
       /\ ocrPc[j] = "fail" => ~ Again(ocrQ[j])
       /\ extPc[j] \in {"auditFailed", "fail"} => ~ Again(extQ[j])

\* No reprocessing is committed before that, which the code does not see to:
\* reviewers who wait until the retries of a failed document are used up.
Patient == \A d \in Documents :
             status[d] \in {"failed", "rejected"} /\ status'[d] = "uploaded"
               => Spent(d)
PatientSpec == Init /\ [][Next /\ Patient]_vars

\* Every document that is uploaded, or reprocessed, comes to a settled status.
UploadsSettle ==
  \A d \in Documents : status[d] = "uploaded" ~> status[d] \in Settled

\* Every decision is followed by its webhook job.
DecisionsAreAnnounced ==
  WebhookConfigured =>
    \A d \in Documents : (unannounced[d] > 0) ~> (unannounced[d] = 0)
=============================================================================
