--------------------------- MODULE ExtractionWorker ---------------------------
(* extraction.worker.ts: what an execution of an extraction-jobs job does. *)
EXTENDS PipelineState

ExtStep(j, from, to) ==
  /\ extPc[j] = from
  /\ extPc' = [extPc EXCEPT ![j] = to]
  /\ UNCHANGED <<stored, rawText, ocrQ, ocrPc, api>>

\* Steps that write nothing but documents.status, or nothing but an audit row.
ExtSetStatus(j, from, to, s) ==
  /\ ExtStep(j, from, to)
  /\ SetStatus(Doc(j), s)
  /\ UNCHANGED <<docType, extraction, audit, extQ, decision>>
ExtLog(j, from, to, s) ==
  /\ ExtStep(j, from, to)
  /\ Log(Doc(j), s)
  /\ UNCHANGED <<status, docType, extraction, extQ, decision, unannounced>>

\* What the document as read makes of the job: a duplicate with nothing left
\* to do, one without text, or work.
AlreadyProcessed(d) ==
  extraction[d] # NoRow /\ status[d] \in {"approved", "pending_review"}
FirstStep(d) == IF AlreadyProcessed(d) THEN "return"
                ELSE IF rawText[d] = "text" THEN "mark" ELSE "empty"

\* A free slot takes the job and the document is read with its extraction.
ExtStart(j) ==
  /\ ExtStep(j, "idle", FirstStep(Doc(j)))
  /\ extQ[j].state = "waiting"
  /\ Cardinality(Active(extQ)) < ExtractionConcurrency
  /\ extQ' = [extQ EXCEPT ![j] = Claimed(@)]
  /\ UNCHANGED <<status, docType, extraction, audit, decision, unannounced>>

ExtEmpty(j) == /\ ExtSetStatus(j, "empty", "auditEmpty", "failed")
               /\ UNCHANGED unannounced
ExtAuditEmpty(j) == ExtLog(j, "auditEmpty", "return", "failed")

ExtMark(j) == /\ ExtSetStatus(j, "mark", "classify", "extracting")
              /\ UNCHANGED unannounced

\* (Mutant: documents.docType is not written.)
ExtUnknown_KeepsType(j) ==
  /\ ExtStep(j, "classify", "auditUnknown")
  /\ SetStatus(Doc(j), "pending_review")
  /\ UNCHANGED <<docType, extraction, audit, extQ, decision, unannounced>>
\* The classifier answers: an unknown type goes to review without data.
ExtUnknown(j) ==
  /\ ExtStep(j, "classify", "auditUnknown")
  /\ SetStatus(Doc(j), "pending_review")
  /\ docType' = [docType EXCEPT ![Doc(j)] = "unknown"]
  /\ UNCHANGED <<extraction, audit, extQ, decision, unannounced>>
ExtAuditUnknown(j) == ExtLog(j, "auditUnknown", "return", "pending_review")

ExtInvoice(j) ==
  /\ ExtStep(j, "classify", "insert")
  /\ docType' = [docType EXCEPT ![Doc(j)] = "invoice"]
  /\ UNCHANGED <<status, extraction, audit, extQ, decision, unannounced>>

\* INSERT ... ON CONFLICT (document_id) DO NOTHING.
Inserted(row, new) == IF row = NoRow THEN new ELSE row

\* The LLM has answered.  Its invoice is stored, rounded, unless the document
\* already has one; the decision engine judges the answer itself.
ExtInsert(j, inv) ==
  /\ ExtStep(j, "insert", "decide")
  /\ \E kept \in Stored(inv) :
       extraction' = [extraction EXCEPT ![Doc(j)] =
         Inserted(@, [run |-> Run(j), invoice |-> kept, edited |-> FALSE])]
  /\ \E v \in EvaluateExtraction(inv) : decision' = [decision EXCEPT ![j] = v]
  /\ UNCHANGED <<status, docType, audit, extQ, unannounced>>

\* (Mutant: the decision itself is written as the status.)
Outcome_Raw(v) == v
\* The status a decision stands for.
Outcome(v) == IF v = "auto_approve" THEN "approved" ELSE "pending_review"

ExtDecide(j) ==
  /\ ExtSetStatus(j, "decide", "auditExtracted", Outcome(decision[j]))
  /\ unannounced' = [unannounced EXCEPT ![Doc(j)] =
                       IF decision[j] = "auto_approve" THEN @ + 1 ELSE @]

\* Two audit rows, 'extracted' and then 'auto_approved' or 'sent_to_review'.
ExtAuditExtracted(j) ==
  ExtLog(j, "auditExtracted", "auditDecision", Outcome(decision[j]))
\* (Mutant: an automatic approval enqueues no webhook.)
ExtAuditDecision_NoWebhook(j) ==
  ExtLog(j, "auditDecision", "return", Outcome(decision[j]))
ExtAuditDecision(j) ==
  ExtLog(j, "auditDecision",
         IF decision[j] = "auto_approve" /\ WebhookConfigured THEN "notify"
                                                             ELSE "return",
         Outcome(decision[j]))

\* The webhook job, which has no id of its own: each add is another job.
ExtAdd(j, to) ==
  /\ ExtStep(j, "notify", to)
  /\ unannounced' = [unannounced EXCEPT ![Doc(j)] = @ - 1]
  /\ UNCHANGED <<status, docType, extraction, audit, extQ, decision>>
ExtNotify(j) == ExtAdd(j, "return")
\* The queue has it, but the answer is lost and the add throws.
ExtUnconfirmed(j) == "store" \in Faults /\ ExtAdd(j, "catch")

ExtError(j, to) ==
  /\ ExtStep(j, extPc[j], to)
  /\ UNCHANGED <<status, docType, extraction, audit, extQ, decision, unannounced>>

\* A statement of the try block throws.
ExtThrow(j) ==
  /\ \/ extPc[j] \in {"classify", "insert"} /\ "provider" \in Faults
     \/ /\ extPc[j] \in {"classify", "insert", "decide", "auditExtracted",
                         "auditDecision", "notify", "auditUnknown"}
        /\ "store" \in Faults
  /\ ExtError(j, "catch")

ExtCatch(j) == /\ ExtSetStatus(j, "catch", "auditFailed", "failed")
               /\ UNCHANGED unannounced
ExtAuditFailed(j) == ExtLog(j, "auditFailed", "fail", "failed")

\* A statement outside the try block throws.
ExtAbort(j) ==
  /\ extPc[j] \in {"mark", "empty", "auditEmpty", "catch", "auditFailed"}
  /\ "store" \in Faults
  /\ ExtError(j, "fail")

\* The queue's side: the execution returned, or it threw; the backoff of a
\* retry is over; the worker process died; a check found the stalled job.
ExtJob(j, from, job) ==
  /\ extQ' = [extQ EXCEPT ![j] = job]
  /\ ExtStep(j, from, "idle")
  /\ decision' = [decision EXCEPT ![j] = "none"]
  /\ UNCHANGED <<status, docType, extraction, audit, unannounced>>

ExtReturn(j) == ExtJob(j, "return", Completed(extQ[j]))
ExtFail(j) == ExtJob(j, "fail", Failed(extQ[j]))
ExtPromote(j) == /\ extQ[j].state = "delayed"
                 /\ ExtJob(j, "idle", Promoted(extQ[j]))
ExtCrash(j) == /\ extQ[j].state = "active" /\ "crash" \in Faults
               /\ ExtJob(j, extPc[j], Stalled(extQ[j]))
ExtRecover(j) == /\ extQ[j].state = "stalled"
                 /\ ExtJob(j, "idle", Recovered(extQ[j]))

ExtProgress(j) ==
  \/ ExtStart(j) \/ ExtEmpty(j) \/ ExtAuditEmpty(j) \/ ExtMark(j)
  \/ ExtUnknown(j) \/ ExtAuditUnknown(j) \/ ExtInvoice(j)
  \/ (\E inv \in Invoices : ExtInsert(j, inv)) \/ ExtDecide(j)
  \/ ExtAuditExtracted(j) \/ ExtAuditDecision(j) \/ ExtNotify(j)
  \/ ExtCatch(j) \/ ExtAuditFailed(j)
  \/ ExtReturn(j) \/ ExtFail(j) \/ ExtPromote(j) \/ ExtRecover(j)

ExtFault(j) == ExtThrow(j) \/ ExtUnconfirmed(j) \/ ExtAbort(j) \/ ExtCrash(j)
=============================================================================
