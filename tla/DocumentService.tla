---------------------------- MODULE DocumentService ----------------------------
(* document.service.ts: the requests the API process runs on documents.    *)
EXTENDS PipelineState

-----------------------------------------------------------------------------
(* uploadNewDocument.                                                      *)

UploadStep(d, from, to) ==
  /\ uploadPc[d] = from
  /\ uploadPc' = [uploadPc EXCEPT ![d] = to]
  /\ UNCHANGED <<rawText, docType, extraction, extQ, req, workers, unannounced>>

\* The row is inserted first, with storageKey 'pending'.
UploadInsert(d) == /\ UploadStep(d, "none", "store")
                   /\ SetStatus(d, "uploaded")
                   /\ UNCHANGED <<stored, audit, ocrQ>>

\* The file reaches object storage.
UploadStore(d) == /\ UploadStep(d, "store", "key")
                  /\ UNCHANGED <<status, stored, audit, ocrQ>>

UploadKey(d) == /\ UploadStep(d, "key", "audit")
                /\ stored' = [stored EXCEPT ![d] = TRUE]
                /\ UNCHANGED <<status, audit, ocrQ>>

UploadAudit(d) == /\ UploadStep(d, "audit", "enqueue")
                  /\ Log(d, "uploaded")
                  /\ UNCHANGED <<status, stored, ocrQ>>

UploadAdd(d, to) == /\ UploadStep(d, "enqueue", to)
                    /\ ocrQ' = [ocrQ EXCEPT ![<<d, Initial>>] = Added(@)]
                    /\ UNCHANGED <<status, stored, audit>>
UploadEnqueue(d) == UploadAdd(d, "done")
\* Redis has the job but its answer is lost: the add throws all the same.
UploadUnconfirmed(d) == "store" \in Faults /\ UploadAdd(d, "catch")

\* (Mutant: an upload error is logged and the request goes on.)
UploadThrow_Swallowed(d) ==
  /\ uploadPc[d] \in {"store", "key", "audit", "enqueue"} /\ Faults # {}
  /\ UploadStep(d, uploadPc[d], "enqueue")
  /\ UNCHANGED <<status, stored, audit, ocrQ>>
\* A statement of the try block throws.
UploadThrow(d) ==
  /\ \/ uploadPc[d] = "store" /\ "provider" \in Faults
     \/ uploadPc[d] \in {"key", "audit", "enqueue"} /\ "store" \in Faults
  /\ UploadStep(d, uploadPc[d], "catch")
  /\ UNCHANGED <<status, stored, audit, ocrQ>>

\* The catch block: the document fails, without an audit row.
UploadCatch(d) == /\ UploadStep(d, "catch", "done")
                  /\ SetStatus(d, "failed")
                  /\ UNCHANGED <<stored, audit, ocrQ>>

\* The API process dies, or the catch block itself throws.
UploadLost(d) ==
  /\ \/ uploadPc[d] \notin {"none", "done"} /\ "crash" \in Faults
     \/ uploadPc[d] = "catch" /\ "store" \in Faults
  /\ UploadStep(d, uploadPc[d], "done")
  /\ UNCHANGED <<status, stored, audit, ocrQ>>

UploadProgress(d) == \/ UploadStore(d) \/ UploadKey(d) \/ UploadAudit(d)
                     \/ UploadEnqueue(d) \/ UploadCatch(d)

-----------------------------------------------------------------------------
(* approveDocument, rejectDocument, editDocumentExtraction and             *)
(* reprocessDocument.  A request whose first read does not allow it ends   *)
(* in a 404 or a 409 and changes nothing, so only the others are begun.    *)

ReviewOther == <<stored, extQ, uploadPc, workers>>
EndRequest(a) == req' = [req EXCEPT ![a] = NoRequest]
Committing(a, op) == req[a].op = op /\ req[a].pc = "commit"

Begin(a, d, op, run) ==
  /\ req[a] = NoRequest
  /\ req' = [req EXCEPT ![a] = [op |-> op, doc |-> d, pc |-> "commit",
                                seen |-> status[d], run |-> run]]
  /\ UNCHANGED <<db, queues, uploadPc, workers, unannounced>>

ApproveBegin(a, d) == /\ status[d] = "pending_review"
                      /\ Begin(a, d, "approve", NoRun)
RejectBegin(a, d) == /\ status[d] = "pending_review"
                     /\ Begin(a, d, "reject", NoRun)
EditBegin(a, d) == /\ status[d] = "pending_review" /\ extraction[d] # NoRow
                   /\ Begin(a, d, "edit", NoRun)

\* randomUUID(): a run id no job of the document has and no request holds.
\* The size of Runs bounds how often a document is reprocessed.
FreshRuns(d) ==
  {r \in Runs \ {Initial} : /\ ocrQ[<<d, r>>].state = "absent"
                            /\ \A b \in Reviewers : req[b].run # r}

\* (Mutant: a document in progress may be reprocessed too.)
ReprocessBegin_InProgress(a, d, r) ==
  /\ status[d] \in {"failed", "rejected", "ocr_processing", "extracting"}
  /\ r \in FreshRuns(d)
  /\ Begin(a, d, "reprocess", r)
ReprocessBegin(a, d, r) == /\ status[d] \in {"failed", "rejected"}
                           /\ r \in FreshRuns(d)
                           /\ Begin(a, d, "reprocess", r)

\* The conditional UPDATE changes the row only if it still has the status
\* the request saw.
\* (Mutant: the UPDATE has no condition on the status.)
StillAsSeen_Unchecked(a) == TRUE
StillAsSeen(a) == status[req[a].doc] = req[a].seen

\* (Mutant: the webhook is enqueued for an update that was not made.)
DecideCommit_AlwaysNotifies(a, op, to) ==
  /\ Committing(a, op)
  /\ LET d == req[a].doc
     IN IF StillAsSeen(a)
        THEN /\ SetStatus(d, to) /\ Log(d, to)
             /\ unannounced' = [unannounced EXCEPT ![d] = @ + 1]
        ELSE UNCHANGED <<status, audit, unannounced>>
  /\ req' = [req EXCEPT ![a].pc = "notify"]
  /\ UNCHANGED <<ReviewOther, rawText, docType, extraction, ocrQ>>
\* The conditional UPDATE and the audit row of an approval or a rejection,
\* committed together; or no row was updated and the request ends in a 409.
DecideCommit(a, op, to) ==
  /\ Committing(a, op)
  /\ LET d == req[a].doc
     IN IF StillAsSeen(a)
        THEN /\ SetStatus(d, to) /\ Log(d, to)
             /\ unannounced' = [unannounced EXCEPT ![d] = @ + 1]
             /\ req' = [req EXCEPT ![a].pc = "notify"]
        ELSE EndRequest(a) /\ UNCHANGED <<status, audit, unannounced>>
  /\ UNCHANGED <<ReviewOther, rawText, docType, extraction, ocrQ>>

ApproveCommit(a) == DecideCommit(a, "approve", "approved")
RejectCommit(a) == DecideCommit(a, "reject", "rejected")

\* enqueueWebhookIfConfigured, after the commit.
EnqueueWebhook(a) ==
  /\ req[a].pc = "notify"
  /\ unannounced' = [unannounced EXCEPT ![req[a].doc] =
                       IF WebhookConfigured THEN @ - 1 ELSE @]
  /\ EndRequest(a)
  /\ UNCHANGED <<db, queues, uploadPc, workers>>

\* The edit takes effect whatever the status is by now; only a row that was
\* deleted since makes it a 409.
EditAllowed(a) == extraction[req[a].doc] # NoRow

EditCommit(a) ==
  /\ Committing(a, "edit")
  /\ LET d == req[a].doc
     IN IF EditAllowed(a)
        THEN /\ extraction' = [extraction EXCEPT ![d].edited = TRUE]
             /\ Log(d, req[a].seen)
        ELSE UNCHANGED <<extraction, audit>>
  /\ EndRequest(a)
  /\ UNCHANGED <<ReviewOther, status, rawText, docType, ocrQ, unannounced>>

\* (Mutant: the extraction row of the old run is kept.)
ReprocessCommit_KeepsData(a) ==
  /\ Committing(a, "reprocess")
  /\ StillAsSeen(a)
  /\ SetStatus(req[a].doc, "uploaded") /\ Log(req[a].doc, "uploaded")
  /\ req' = [req EXCEPT ![a].pc = "enqueue"]
  /\ UNCHANGED <<ReviewOther, content, ocrQ, unannounced>>
ReprocessCommit(a) ==
  /\ Committing(a, "reprocess")
  /\ LET d == req[a].doc
     IN IF StillAsSeen(a)
        THEN /\ SetStatus(d, "uploaded") /\ Log(d, "uploaded")
             /\ extraction' = [extraction EXCEPT ![d] = NoRow]
             /\ rawText' = [rawText EXCEPT ![d] = "null"]
             /\ docType' = [docType EXCEPT ![d] = "null"]
             /\ req' = [req EXCEPT ![a].pc = "enqueue"]
        ELSE /\ EndRequest(a)
             /\ UNCHANGED <<status, audit, extraction, rawText, docType>>
  /\ UNCHANGED <<ReviewOther, ocrQ, unannounced>>

\* (Mutant: the job id does not depend on the run.)
ReprocessEnqueue_SameJobId(a) ==
  /\ req[a].pc = "enqueue"
  /\ ocrQ' = [ocrQ EXCEPT ![<<req[a].doc, Initial>>] = Added(@)]
  /\ EndRequest(a)
  /\ UNCHANGED <<db, extQ, uploadPc, workers, unannounced>>
\* The new run's OCR job, added once the transaction has committed; whether
\* the add is confirmed or throws, the request ends.
ReprocessEnqueue(a) ==
  /\ req[a].pc = "enqueue"
  /\ ocrQ' = [ocrQ EXCEPT ![<<req[a].doc, req[a].run>>] = Added(@)]
  /\ EndRequest(a)
  /\ UNCHANGED <<db, extQ, uploadPc, workers, unannounced>>

\* The API process dies, or the next statement throws and the transaction
\* it belongs to, if any, is rolled back.
RequestLost(a) ==
  /\ req[a] # NoRequest
  /\ Faults \cap {"crash", "store"} # {}
  /\ EndRequest(a)
  /\ UNCHANGED <<db, queues, uploadPc, workers, unannounced>>

RequestBegin(a) ==
  \E d \in Documents :
    \/ ApproveBegin(a, d) \/ RejectBegin(a, d) \/ EditBegin(a, d)
    \/ \E r \in Runs : ReprocessBegin(a, d, r)

RequestProgress(a) ==
  \/ ApproveCommit(a) \/ RejectCommit(a) \/ EnqueueWebhook(a)
  \/ EditCommit(a) \/ ReprocessCommit(a) \/ ReprocessEnqueue(a)
=============================================================================
