--------------------------- MODULE DocumentLifecycle ---------------------------
(***************************************************************************)
(* What the README promises of a document, without queues, workers or      *)
(* requests: its life cycle.  A document is uploaded, read by OCR,         *)
(* extracted, and then approved automatically or routed to review; a       *)
(* reviewer approves or rejects what is under review; a failed or rejected *)
(* document may be reprocessed from the start; work that failed may be     *)
(* taken up again by a retry.  DocumentPipeline implements it as long as   *)
(* no failing run meets a reprocessing, no step of the database fails and  *)
(* no process dies.                                                        *)
(***************************************************************************)
CONSTANT Documents

VARIABLES status,   \* documents.status, "absent" before the upload
          data      \* the document has an extraction row

vars == <<status, data>>

Move(d, from, to) == /\ status[d] \in from
                     /\ status' = [status EXCEPT ![d] = to]
Keep == UNCHANGED data

Init == /\ status = [d \in Documents |-> "absent"]
        /\ data = [d \in Documents |-> FALSE]

Upload(d) == Move(d, {"absent"}, "uploaded") /\ Keep
StartOcr(d) == Move(d, {"uploaded", "failed"}, "ocr_processing") /\ Keep
FinishOcr(d) == Move(d, {"ocr_processing"}, "extracted") /\ Keep
StartExtraction(d) == Move(d, {"extracted", "failed"}, "extracting") /\ Keep

\* The data comes while the document is being extracted, and once only.
StoreData(d) == /\ status[d] = "extracting" /\ ~ data[d]
                /\ data' = [data EXCEPT ![d] = TRUE]
                /\ UNCHANGED status

\* Only a document with data is approved automatically.
AutoApprove(d) == data[d] /\ Move(d, {"extracting"}, "approved") /\ Keep
RouteToReview(d) == Move(d, {"extracting"}, "pending_review") /\ Keep
Approve(d) == Move(d, {"pending_review"}, "approved") /\ Keep
Reject(d) == Move(d, {"pending_review"}, "rejected") /\ Keep

Fail(d) == /\ Move(d, {"uploaded", "ocr_processing", "extracted",
                       "extracting"}, "failed")
           /\ Keep
Reprocess(d) == /\ Move(d, {"failed", "rejected"}, "uploaded")
                /\ data' = [data EXCEPT ![d] = FALSE]

Next == \E d \in Documents :
          \/ Upload(d) \/ StartOcr(d) \/ FinishOcr(d) \/ StartExtraction(d)
          \/ StoreData(d) \/ AutoApprove(d) \/ RouteToReview(d)
          \/ Approve(d) \/ Reject(d) \/ Fail(d) \/ Reprocess(d)

Spec == Init /\ [][Next]_vars
=============================================================================
