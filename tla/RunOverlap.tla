------------------------------ MODULE RunOverlap ------------------------------
(***************************************************************************)
(* When two runs of a document may write it at the same time, which the    *)
(* code does not rule out: a failed document may be reprocessed while the  *)
(* failed job still has a retry to come (document.service.ts does not ask  *)
(* the queues).  This module adds to DocumentPipeline a history of the     *)
(* retries, and says that there is no other way where only calls to the    *)
(* providers fail.  (An add to a queue that throws although the job was    *)
(* added would be one: the document fails with a job on its way.)          *)
(***************************************************************************)
EXTENDS DocumentPipeline

VARIABLE retried   \* history: the documents a job of which was put back

overlapVars == <<vars, retried>>

PutBack(d) == \E r \in Runs : \/ ocrQ[<<d, r>>].state = "delayed"
                              \/ extQ[<<d, r>>].state = "delayed"

OverlapInit == Init /\ retried = {}
OverlapNext == /\ Next
               /\ retried' = retried \cup {d \in Documents : PutBack(d)'}

OverlapSpec == OverlapInit /\ [][OverlapNext]_overlapVars

\* As long as no job of a document has been put back for a retry, no two of its
\* runs are at work on it, and once it may be reprocessed or reviewed none is:
\* whatever else reviewers, workers and queues do between a check of
\* documents.status and the update that relies on it (ocr.worker.ts and
\* extraction.worker.ts, which write the status without any check, rely on it).
OverlapsAreRetries ==
  \A d \in Documents \ retried :
    LET working == {r \in Runs : ~ WritesNoMore(<<d, r>>)}
    IN  /\ \A r, s \in working : r = s
        /\ status[d] \in Settled => working = {}
=============================================================================
