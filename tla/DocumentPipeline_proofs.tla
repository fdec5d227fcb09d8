------------------------ MODULE DocumentPipeline_proofs ------------------------
(***************************************************************************)
(* What DocumentPipeline keeps true for every set of documents, runs and   *)
(* reviewers, every bound, and every choice of faults.                     *)
(*                                                                         *)
(* IInv is the inductive invariant.  To TypeOK, OneExecutionPerJob and     *)
(* QueuedInOrder it adds what the local states remember: a request or an   *)
(* execution that is past a step still relies on what that step saw.       *)
(* On it rest Covered, which counts the decisions that are not announced   *)
(* yet, RInv, which says who has a document in hand, AuditInv, which says  *)
(* what has been decided of it, and OverInv, which says that runs overlap  *)
(* only after a retry.                                                     *)
(***************************************************************************)
EXTENDS RunOverlap, FiniteSetTheorems, TLAPS

USE JobQueueAssumption, RunsAssumption, ChoicesAssumption, ConcurrencyAssumption

\* An upload that is past UploadKey has its file stored; before
\* UploadInsert nothing in the system knows the document.
UploadInv ==
  \A d \in Documents :
    /\ uploadPc[d] \in {"audit", "enqueue"} => stored[d]
    /\ uploadPc[d] = "none" => /\ status[d] = "absent"
                               /\ \A r \in Runs : ocrQ[<<d, r>>].state = "absent"

\* An OCR execution that is past OcrDetect found the file.
OcrInv == \A j \in Jobs : ocrPc[j] \in {"audit", "enqueue"} => stored[Doc(j)]

\* A request in flight is about an uploaded document whose status allowed it
\* when it began, and a reprocessing holds a run id of its own.
GoodRequest(r) ==
  r.pc # "idle" =>
    /\ r.doc \in Documents
    /\ uploadPc[r.doc] # "none"
    /\ r.op \in {"approve", "reject", "edit"} => r.seen = "pending_review"
    /\ r.op = "reprocess" => /\ r.seen \in {"failed", "rejected"}
                             /\ r.run \in Runs \ {Initial}
    /\ r.pc = "enqueue" => r.op = "reprocess"
RequestInv == \A a \in Reviewers : GoodRequest(req[a])

\* A job is active exactly while an execution of it is running, and keeps within
\* the counts it is allowed.
WithinLimits(job) == job.made < MaxAttempts /\ job.stalls <= MaxStalls
OneExecutionPerJob ==
  \A j \in Jobs :
    /\ ocrQ[j].state = "active" <=> ocrPc[j] # "idle"
    /\ extQ[j].state = "active" <=> extPc[j] # "idle"
    /\ WithinLimits(ocrQ[j]) /\ WithinLimits(extQ[j])

IInv == /\ TypeOK /\ OneExecutionPerJob /\ QueuedInOrder
        /\ UploadInv /\ OcrInv /\ RequestInv

-----------------------------------------------------------------------------
(* The operations on a job.                                                *)

GoodJob(job) == job \in JobRecords /\ WithinLimits(job)

\* Whatever the queue does to a job, the result is a job within its limits,
\* and only adding can make a job of a missing one.
LEMMA JobOperations ==
  ASSUME NEW job, GoodJob(job)
  PROVE  /\ GoodJob(Added(job)) /\ Added(job).state # "absent"
         /\ Added(job).state = "active" <=> job.state = "active"
         /\ GoodJob(Claimed(job)) /\ Claimed(job).state = "active"
         /\ GoodJob(Completed(job)) /\ Completed(job).state = "completed"
         /\ GoodJob(Stalled(job)) /\ Stalled(job).state = "stalled"
         /\ GoodJob(Promoted(job)) /\ Promoted(job).state = "waiting"
         /\ GoodJob(Failed(job)) /\ Failed(job).state \in {"delayed", "failed"}
         /\ GoodJob(Recovered(job))
         /\ Recovered(job).state \in {"waiting", "failed"}
<1> USE DEF GoodJob, JobRecords, JobStates, WithinLimits, Finished
<1>1. GoodJob(Added(job)) /\ Added(job).state # "absent"
      /\ (Added(job).state = "active" <=> job.state = "active")
  BY DEF Added
<1>2. GoodJob(Claimed(job)) /\ Claimed(job).state = "active"
  BY DEF Claimed
<1>3. GoodJob(Completed(job)) /\ Completed(job).state = "completed"
  BY DEF Completed
<1>4. GoodJob(Stalled(job)) /\ Stalled(job).state = "stalled"
  BY DEF Stalled
<1>5. GoodJob(Promoted(job)) /\ Promoted(job).state = "waiting"
  BY DEF Promoted
<1>6. GoodJob(Failed(job)) /\ Failed(job).state \in {"delayed", "failed"}
  <2>1. job.made + 1 \in Nat /\ job.stalls \in Nat
    OBVIOUS
  <2>2. CASE job.made + 1 < MaxAttempts
    BY <2>1, <2>2 DEF Failed
  <2>3. CASE ~ (job.made + 1 < MaxAttempts)
    BY <2>3 DEF Failed
  <2> QED BY <2>2, <2>3
<1>7. GoodJob(Recovered(job)) /\ Recovered(job).state \in {"waiting", "failed"}
  <2>1. /\ job.stalls + 1 \in Nat /\ job.made \in Nat
        /\ job.stalls < MaxStalls => job.stalls + 1 <= MaxStalls
    OBVIOUS
  <2>2. CASE job.stalls < MaxStalls
    <3>1. Recovered(job) = [state |-> "waiting", made |-> job.made,
                            stalls |-> job.stalls + 1]
      BY <2>2 DEF Recovered
    <3> QED BY <2>1, <2>2, <3>1
  <2>3. CASE ~ (job.stalls < MaxStalls)
    BY <2>3 DEF Recovered
  <2> QED BY <2>2, <2>3
<1> QED BY <1>1, <1>2, <1>3, <1>4, <1>5, <1>6, <1>7

LEMMA InitIInv == Init => IInv
<1> SUFFICES ASSUME Init PROVE IInv
  OBVIOUS
<1> USE DEF Init
<1>1. TypeOK
  BY DEF TypeOK, Jobs, Statuses, ExtractionRows, NoRow, JobRecords, JobStates,
         NoJob, Finished, UploadPcs, Requests, NoRequest, OcrPcs, ExtPcs, Decisions
<1>2. OneExecutionPerJob
  BY DEF OneExecutionPerJob, NoJob, Finished, WithinLimits
<1>3. QueuedInOrder
  BY DEF QueuedInOrder, NoJob, Finished, Jobs, Doc
<1>4. UploadInv /\ OcrInv /\ RequestInv
  BY DEF UploadInv, OcrInv, RequestInv, GoodRequest, NoRequest, NoJob, Finished, Jobs
<1> QED BY <1>1, <1>2, <1>3, <1>4 DEF IInv

-----------------------------------------------------------------------------
(* Steps of the extraction worker.                                         *)

\* A document with a job has been uploaded.
LEMMA JobsAreOfUploads ==
  ASSUME IInv, NEW j \in Jobs, ocrQ[j].state # "absent"
  PROVE  Doc(j) \in Documents /\ uploadPc[Doc(j)] # "none"
<1>1. PICK d \in Documents, r \in Runs : j = <<d, r>>
  BY DEF Jobs
<1> QED BY <1>1 DEF IInv, UploadInv, Doc

LEMMA ExtJobsAreOfUploads ==
  ASSUME IInv, NEW j \in Jobs, extQ[j].state # "absent"
  PROVE  Doc(j) \in Documents /\ uploadPc[Doc(j)] # "none"
BY JobsAreOfUploads DEF IInv, QueuedInOrder

\* A step within an execution: the job stays active and no queue changes.
LEMMA ExtInside ==
  ASSUME IInv, NEW j \in Jobs, NEW from \in ExtPcs \ {"idle"},
         NEW to \in ExtPcs \ {"idle"}, NEW s \in Statuses,
         ExtStep(j, from, to), UNCHANGED extQ,
         UNCHANGED status \/ SetStatus(Doc(j), s),
         docType' \in [Documents -> {"null", "invoice", "unknown"}],
         extraction' \in [Documents -> ExtractionRows],
         audit' \in [Documents -> Statuses \cup {"none"}],
         decision' \in [Jobs -> Decisions \cup {"none"}],
         unannounced' \in [Documents -> Int]
  PROVE  IInv'
<1> USE DEF ExtStep, api
<1>0. extQ[j].state # "absent" /\ Doc(j) \in Documents
      /\ uploadPc[Doc(j)] # "none"
  BY ExtJobsAreOfUploads DEF IInv, OneExecutionPerJob
<1>1. TypeOK'
  <2>1. status' \in [Documents -> Statuses \cup {"absent"}]
    BY DEF IInv, TypeOK, SetStatus
  <2>2. extPc' \in [Jobs -> ExtPcs] /\ extQ' \in [Jobs -> JobRecords]
    BY DEF IInv, TypeOK
  <2> QED BY <2>1, <2>2 DEF IInv, TypeOK
<1>2. OneExecutionPerJob'
  BY DEF IInv, TypeOK, OneExecutionPerJob
<1>3. QueuedInOrder'
  BY DEF IInv, QueuedInOrder
<1>4. UploadInv'
  BY <1>0 DEF IInv, TypeOK, UploadInv, SetStatus
<1>5. OcrInv' /\ RequestInv'
  BY DEF IInv, OcrInv, RequestInv, GoodRequest
<1> QED BY <1>1, <1>2, <1>3, <1>4, <1>5 DEF IInv

\* A step that begins, ends, promotes or recovers an execution.
LEMMA ExtOutside ==
  ASSUME IInv, NEW j \in Jobs, NEW from \in ExtPcs, NEW to \in ExtPcs,
         NEW job, GoodJob(job), job.state # "absent",
         extQ[j].state # "absent",
         job.state = "active" <=> to # "idle",
         ExtStep(j, from, to), extQ' = [extQ EXCEPT ![j] = job],
         UNCHANGED <<status, docType, extraction, audit, unannounced>>,
         decision' \in [Jobs -> Decisions \cup {"none"}]
  PROVE  IInv'
<1> USE DEF ExtStep, api
<1>1. TypeOK'
  BY DEF IInv, TypeOK, GoodJob
<1>2. OneExecutionPerJob'
  BY DEF IInv, TypeOK, OneExecutionPerJob, GoodJob
<1>3. QueuedInOrder'
  BY DEF IInv, TypeOK, QueuedInOrder
<1>4. UploadInv' /\ OcrInv' /\ RequestInv'
  BY DEF IInv, UploadInv, OcrInv, RequestInv, GoodRequest
<1> QED BY <1>1, <1>2, <1>3, <1>4 DEF IInv

\* The two shapes most steps of an execution have.
LEMMA ExtStatusStep ==
  ASSUME IInv, NEW j \in Jobs, NEW from \in ExtPcs \ {"idle"},
         NEW to \in ExtPcs \ {"idle"}, NEW s \in Statuses,
         ExtSetStatus(j, from, to, s), unannounced' \in [Documents -> Int]
  PROVE  IInv'
<1>1. /\ docType' \in [Documents -> {"null", "invoice", "unknown"}]
      /\ extraction' \in [Documents -> ExtractionRows]
      /\ audit' \in [Documents -> Statuses \cup {"none"}]
      /\ decision' \in [Jobs -> Decisions \cup {"none"}]
  BY DEF ExtSetStatus, IInv, TypeOK
<1> QED BY <1>1, ExtInside DEF ExtSetStatus

LEMMA ExtLogStep ==
  ASSUME IInv, NEW j \in Jobs, NEW from \in ExtPcs \ {"idle"},
         NEW to \in ExtPcs \ {"idle"}, NEW s \in Statuses,
         ExtLog(j, from, to, s)
  PROVE  IInv'
<1>1. audit' \in [Documents -> Statuses \cup {"none"}]
  BY DEF ExtLog, Log, IInv, TypeOK
<1>2. /\ docType' \in [Documents -> {"null", "invoice", "unknown"}]
      /\ extraction' \in [Documents -> ExtractionRows]
      /\ decision' \in [Jobs -> Decisions \cup {"none"}]
      /\ unannounced' \in [Documents -> Int]
  BY DEF ExtLog, IInv, TypeOK
<1> QED BY <1>1, <1>2, ExtInside DEF ExtLog

LEMMA ExtErrorStep ==
  ASSUME IInv, NEW j \in Jobs, extPc[j] \in ExtPcs \ {"idle"},
         NEW to \in ExtPcs \ {"idle"}, ExtError(j, to)
  PROVE  IInv'
<1>1. /\ docType' \in [Documents -> {"null", "invoice", "unknown"}]
      /\ extraction' \in [Documents -> ExtractionRows]
      /\ audit' \in [Documents -> Statuses \cup {"none"}]
      /\ decision' \in [Jobs -> Decisions \cup {"none"}]
      /\ unannounced' \in [Documents -> Int]
  BY DEF ExtError, IInv, TypeOK
<1> QED BY <1>1, ExtInside DEF ExtError, Statuses

LEMMA ExtJobStep ==
  ASSUME IInv, NEW j \in Jobs, NEW from \in ExtPcs, NEW job, GoodJob(job),
         extQ[j].state # "absent", job.state \notin {"absent", "active"},
         ExtJob(j, from, job)
  PROVE  IInv'
<1>1. decision' \in [Jobs -> Decisions \cup {"none"}]
  BY DEF ExtJob, IInv, TypeOK
<1>2. "idle" \in ExtPcs
  BY DEF ExtPcs
<1> QED BY <1>1, <1>2, ExtOutside DEF ExtJob

\* Every step of the extraction worker keeps the invariant.
LEMMA ExtractionWorkerSteps ==
  ASSUME IInv, NEW j \in Jobs, ExtProgress(j) \/ ExtFault(j)
  PROVE  IInv'
<1> USE DEF ExtPcs
<1>0. /\ GoodJob(extQ[j]) /\ extPc[j] \in ExtPcs
      /\ extQ[j].state = "active" <=> extPc[j] # "idle"
  BY DEF IInv, TypeOK, OneExecutionPerJob, GoodJob
<1>t. /\ docType \in [Documents -> {"null", "invoice", "unknown"}]
      /\ extraction \in [Documents -> ExtractionRows]
      /\ audit \in [Documents -> Statuses \cup {"none"}]
      /\ decision \in [Jobs -> Decisions \cup {"none"}]
      /\ unannounced \in [Documents -> Int]
  BY DEF IInv, TypeOK
<1>d. /\ Doc(j) \in Documents /\ unannounced[Doc(j)] \in Int
      /\ unannounced[Doc(j)] + 1 \in Int /\ unannounced[Doc(j)] - 1 \in Int
  <2>1. Doc(j) \in Documents
    BY DEF Jobs, Doc
  <2> QED BY <1>t, <2>1
<1>o. Outcome(decision[j]) \in Statuses
  BY DEF Outcome, Statuses
<1>1. CASE ExtStart(j)
  <2> DEFINE to == FirstStep(Doc(j))
             job == Claimed(extQ[j])
  <2>1. to \in ExtPcs \ {"idle"}
    BY DEF FirstStep
  <2>2. GoodJob(job) /\ job.state = "active"
    BY <1>0, JobOperations
  <2>3. /\ ExtStep(j, "idle", to) /\ extQ' = [extQ EXCEPT ![j] = job]
        /\ UNCHANGED <<status, docType, extraction, audit, decision, unannounced>>
        /\ extQ[j].state = "waiting"
    BY <1>1 DEF ExtStart
  <2>4. /\ job.state # "absent" /\ extQ[j].state # "absent"
        /\ job.state = "active" <=> to # "idle"
        /\ "idle" \in ExtPcs /\ to \in ExtPcs
        /\ decision' \in [Jobs -> Decisions \cup {"none"}]
    BY <1>t, <2>1, <2>2, <2>3
  <2> HIDE DEF to, job, ExtPcs
  <2> QED BY <2>2, <2>3, <2>4, ExtOutside
<1>2. CASE ExtEmpty(j)
  BY <1>2, <1>t, ExtStatusStep DEF ExtEmpty, Statuses
<1>3. CASE ExtAuditEmpty(j)
  BY <1>3, ExtLogStep DEF ExtAuditEmpty, Statuses
<1>4. CASE ExtMark(j)
  BY <1>4, <1>t, ExtStatusStep DEF ExtMark, Statuses
<1>5. CASE ExtUnknown(j)
  <2>1. docType' \in [Documents -> {"null", "invoice", "unknown"}]
    BY <1>5, <1>t DEF ExtUnknown
  <2>2. "pending_review" \in Statuses
    BY DEF Statuses
  <2> QED BY <1>5, <1>t, <2>1, <2>2, ExtInside DEF ExtUnknown
<1>6. CASE ExtAuditUnknown(j)
  BY <1>6, ExtLogStep DEF ExtAuditUnknown, Statuses
<1>7. CASE ExtInvoice(j)
  <2>1. docType' \in [Documents -> {"null", "invoice", "unknown"}]
    BY <1>7, <1>t DEF ExtInvoice
  <2>2. "extracting" \in Statuses
    BY DEF Statuses
  <2> QED BY <1>7, <1>t, <2>1, <2>2, ExtInside DEF ExtInvoice
<1>8. ASSUME NEW inv \in Invoices, ExtInsert(j, inv) PROVE IInv'
  <2>0. PICK kept \in Stored(inv) :
          extraction' = [extraction EXCEPT ![Doc(j)] =
            Inserted(@, [run |-> Run(j), invoice |-> kept, edited |-> FALSE])]
    BY <1>8 DEF ExtInsert
  <2> DEFINE row == [run |-> Run(j), invoice |-> kept, edited |-> FALSE]
  <2>1. row \in ExtractionRows
    BY DEF ExtractionRows, StoredInvoices, Jobs, Run
  <2>2. extraction' \in [Documents -> ExtractionRows]
    BY <1>t, <2>0, <2>1 DEF Inserted
  <2>3. decision' \in [Jobs -> Decisions \cup {"none"}]
    BY <1>8, <1>t DEF ExtInsert, EvaluateExtraction, Decisions
  <2>4. "extracting" \in Statuses
    BY DEF Statuses
  <2> QED BY <1>8, <1>t, <2>2, <2>3, <2>4, ExtInside DEF ExtInsert
<1>9. CASE ExtDecide(j)
  <2>1. unannounced' \in [Documents -> Int]
    BY <1>9, <1>d, <1>t DEF ExtDecide
  <2> QED BY <1>9, <1>o, <2>1, ExtStatusStep DEF ExtDecide
<1>10. CASE ExtAuditExtracted(j)
  BY <1>10, <1>o, ExtLogStep DEF ExtAuditExtracted
<1>11. CASE ExtAuditDecision(j)
  BY <1>11, <1>o, ExtLogStep DEF ExtAuditDecision
<1>12. ASSUME NEW to \in {"return", "catch"}, ExtAdd(j, to) PROVE IInv'
  <2>1. unannounced' \in [Documents -> Int]
    BY <1>12, <1>d, <1>t DEF ExtAdd
  <2>2. "approved" \in Statuses
    BY DEF Statuses
  <2> QED BY <1>12, <1>t, <2>1, <2>2, ExtInside DEF ExtAdd
<1>13. CASE ExtCatch(j)
  BY <1>13, <1>t, ExtStatusStep DEF ExtCatch, Statuses
<1>14. CASE ExtAuditFailed(j)
  BY <1>14, ExtLogStep DEF ExtAuditFailed, Statuses
<1>15. CASE ExtReturn(j)
  BY <1>0, <1>15, JobOperations, ExtJobStep DEF ExtReturn, ExtJob, ExtStep
<1>16. CASE ExtFail(j)
  BY <1>0, <1>16, JobOperations, ExtJobStep DEF ExtFail, ExtJob, ExtStep
<1>17. CASE ExtPromote(j)
  BY <1>0, <1>17, JobOperations, ExtJobStep DEF ExtPromote
<1>18. CASE ExtRecover(j)
  BY <1>0, <1>18, JobOperations, ExtJobStep DEF ExtRecover
<1>19. CASE ExtCrash(j)
  BY <1>0, <1>19, JobOperations, ExtJobStep DEF ExtCrash
<1>20. CASE ExtThrow(j)
  BY <1>20, ExtErrorStep DEF ExtThrow
<1>21. CASE ExtAbort(j)
  BY <1>21, ExtErrorStep DEF ExtAbort
<1> QED BY <1>1, <1>2, <1>3, <1>4, <1>5, <1>6, <1>7, <1>8, <1>9, <1>10,
           <1>11, <1>12, <1>13, <1>14, <1>15, <1>16, <1>17, <1>18, <1>19,
           <1>20, <1>21 DEF ExtProgress, ExtFault, ExtNotify, ExtUnconfirmed

-----------------------------------------------------------------------------
(* Steps of the OCR worker.                                                *)

\* A step within an execution, but for the one that adds the next job.
LEMMA OcrInside ==
  ASSUME IInv, NEW j \in Jobs, NEW from \in OcrPcs \ {"idle"},
         NEW to \in OcrPcs \ {"idle"}, NEW s \in Statuses,
         OcrStep(j, from, to), UNCHANGED queues,
         UNCHANGED status \/ SetStatus(Doc(j), s),
         to \in {"audit", "enqueue"} => stored[Doc(j)],
         rawText' \in [Documents -> {"null", "text", "blank"}],
         audit' \in [Documents -> Statuses \cup {"none"}]
  PROVE  IInv'
<1> USE DEF OcrStep, api, queues
<1>0. ocrQ[j].state # "absent" /\ Doc(j) \in Documents
      /\ uploadPc[Doc(j)] # "none"
  BY JobsAreOfUploads DEF IInv, OneExecutionPerJob
<1>1. TypeOK'
  <2>1. status' \in [Documents -> Statuses \cup {"absent"}]
    BY DEF IInv, TypeOK, SetStatus
  <2>2. ocrPc' \in [Jobs -> OcrPcs]
    BY DEF IInv, TypeOK
  <2> QED BY <2>1, <2>2 DEF IInv, TypeOK
<1>2. OneExecutionPerJob'
  BY DEF IInv, TypeOK, OneExecutionPerJob
<1>3. QueuedInOrder'
  BY DEF IInv, QueuedInOrder
<1>4. UploadInv'
  BY <1>0 DEF IInv, TypeOK, UploadInv, SetStatus
<1>5. OcrInv'
  BY DEF IInv, TypeOK, OcrInv
<1>6. RequestInv'
  BY DEF IInv, RequestInv, GoodRequest
<1> QED BY <1>1, <1>2, <1>3, <1>4, <1>5, <1>6 DEF IInv

\* A step that begins, ends, promotes or recovers an execution.
LEMMA OcrOutside ==
  ASSUME IInv, NEW j \in Jobs, NEW from \in OcrPcs,
         NEW to \in {"idle", "mark"}, NEW job, GoodJob(job),
         job.state # "absent", ocrQ[j].state # "absent",
         job.state = "active" <=> to # "idle",
         OcrStep(j, from, to), ocrQ' = [ocrQ EXCEPT ![j] = job],
         UNCHANGED <<status, rawText, audit, extQ>>
  PROVE  IInv'
<1> USE DEF OcrStep, api
<1>0. Doc(j) \in Documents /\ uploadPc[Doc(j)] # "none"
  BY JobsAreOfUploads
<1>1. TypeOK'
  <2>1. ocrPc' \in [Jobs -> OcrPcs] /\ ocrQ' \in [Jobs -> JobRecords]
    BY DEF IInv, TypeOK, GoodJob, OcrPcs
  <2> QED BY <2>1 DEF IInv, TypeOK
<1>2. OneExecutionPerJob'
  BY DEF IInv, TypeOK, OneExecutionPerJob, GoodJob
<1>3. QueuedInOrder'
  <2>1. \A k \in Jobs : ocrQ'[k].state # "absent" <=> ocrQ[k].state # "absent"
    BY DEF IInv, TypeOK
  <2>2. \A d \in Documents : <<d, Initial>> \in Jobs
    BY DEF Jobs
  <2> QED BY <2>1, <2>2 DEF IInv, QueuedInOrder
<1>4. UploadInv'
  <2>1. \A k \in Jobs : ocrQ'[k].state # "absent" <=> ocrQ[k].state # "absent"
    BY DEF IInv, TypeOK
  <2>2. \A d \in Documents, r \in Runs : <<d, r>> \in Jobs
    BY DEF Jobs
  <2> QED BY <2>1, <2>2 DEF IInv, UploadInv
<1>5. OcrInv'
  BY DEF IInv, TypeOK, OcrInv
<1>6. RequestInv'
  BY DEF IInv, RequestInv, GoodRequest
<1> QED BY <1>1, <1>2, <1>3, <1>4, <1>5, <1>6 DEF IInv

\* The extraction job is added once the file is known to be stored.
LEMMA OcrEnqueueStep ==
  ASSUME IInv, NEW j \in Jobs, NEW to \in {"return", "catch"}, OcrAdd(j, to)
  PROVE  IInv'
<1> USE DEF OcrAdd, OcrStep, api
<1>0. /\ ocrPc[j] = "enqueue" /\ ocrQ[j].state # "absent" /\ stored[Doc(j)]
      /\ GoodJob(extQ[j])
  BY DEF IInv, OneExecutionPerJob, OcrInv, TypeOK, GoodJob
<1>j. /\ GoodJob(Added(extQ[j])) /\ Added(extQ[j]).state # "absent"
      /\ Added(extQ[j]).state = "active" <=> extQ[j].state = "active"
  BY <1>0, JobOperations
<1>1. TypeOK'
  <2>1. ocrPc' \in [Jobs -> OcrPcs] /\ extQ' \in [Jobs -> JobRecords]
    BY <1>j DEF IInv, TypeOK, GoodJob, OcrPcs
  <2> QED BY <2>1 DEF IInv, TypeOK
<1>2. OneExecutionPerJob'
  BY <1>0, <1>j DEF IInv, TypeOK, OneExecutionPerJob, GoodJob
<1>3. QueuedInOrder'
  BY <1>0 DEF IInv, TypeOK, QueuedInOrder
<1>4. UploadInv' /\ RequestInv'
  BY DEF IInv, UploadInv, RequestInv, GoodRequest
<1>5. OcrInv'
  BY DEF IInv, TypeOK, OcrInv
<1> QED BY <1>1, <1>2, <1>3, <1>4, <1>5 DEF IInv

\* Every step of the OCR worker keeps the invariant.
LEMMA OcrWorkerSteps ==
  ASSUME IInv, NEW j \in Jobs, OcrProgress(j) \/ OcrFault(j)
  PROVE  IInv'
<1>p. {"idle", "mark", "detect", "audit", "enqueue", "catch", "fail", "return"}
        = OcrPcs
  BY DEF OcrPcs
<1>s. {"ocr_processing", "extracted", "failed"} \subseteq Statuses
  BY DEF Statuses
<1>0. /\ GoodJob(ocrQ[j]) /\ ocrPc[j] \in OcrPcs
      /\ ocrQ[j].state = "active" <=> ocrPc[j] # "idle"
      /\ ocrPc[j] \in {"audit", "enqueue"} => stored[Doc(j)]
  BY DEF IInv, TypeOK, OneExecutionPerJob, GoodJob, OcrInv
<1>t. /\ rawText \in [Documents -> {"null", "text", "blank"}]
      /\ audit \in [Documents -> Statuses \cup {"none"}]
  BY DEF IInv, TypeOK
<1>1. CASE OcrStart(j)
  <2>1. GoodJob(Claimed(ocrQ[j])) /\ Claimed(ocrQ[j]).state = "active"
    BY <1>0, JobOperations
  <2> QED BY <1>1, <1>p, <2>1, OcrOutside DEF OcrStart
<1>2. CASE OcrMark(j)
  BY <1>2, <1>p, <1>s, <1>t, OcrInside DEF OcrMark
<1>3. ASSUME NEW text \in OcrTexts, OcrDetect(j, text) PROVE IInv'
  <2>1. rawText' \in [Documents -> {"null", "text", "blank"}]
    BY <1>3, <1>t DEF OcrDetect
  <2> QED BY <1>3, <1>p, <1>s, <1>t, <2>1, OcrInside DEF OcrDetect
<1>4. CASE OcrAudit(j)
  <2>1. audit' \in [Documents -> Statuses \cup {"none"}]
    BY <1>4, <1>s, <1>t DEF OcrAudit, Log
  <2>2. stored[Doc(j)]
    BY <1>0, <1>4 DEF OcrAudit, OcrStep
  <2> QED BY <1>4, <1>p, <1>s, <1>t, <2>1, <2>2, OcrInside DEF OcrAudit
<1>5. CASE OcrEnqueue(j) \/ OcrUnconfirmed(j)
  BY <1>5, OcrEnqueueStep DEF OcrEnqueue, OcrUnconfirmed
<1>6. CASE OcrCatch(j)
  BY <1>6, <1>p, <1>s, <1>t, OcrInside DEF OcrCatch
<1>7. CASE OcrThrow(j) \/ OcrAbort(j)
  BY <1>0, <1>7, <1>p, <1>s, <1>t, OcrInside DEF OcrThrow, OcrAbort
<1>8. ASSUME NEW from \in OcrPcs, NEW job, OcrJob(j, from, job), GoodJob(job),
             job.state \notin {"absent", "active"}, ocrQ[j].state # "absent"
      PROVE  IInv'
  BY <1>8, OcrOutside DEF OcrJob
<1>9. CASE OcrReturn(j) \/ OcrFail(j) \/ OcrPromote(j) \/ OcrRecover(j)
           \/ OcrCrash(j)
  BY <1>0, <1>8, <1>9, <1>p, JobOperations
     DEF OcrReturn, OcrFail, OcrPromote, OcrRecover, OcrCrash, OcrJob, OcrStep
<1> QED BY <1>1, <1>2, <1>3, <1>4, <1>5, <1>6, <1>7, <1>9
        DEF OcrProgress, OcrFault

-----------------------------------------------------------------------------
(* Steps of an upload.                                                     *)

\* A step of an upload that does not touch the queue.
LEMMA UploadInside ==
  ASSUME IInv, NEW d \in Documents, NEW from \in UploadPcs,
         NEW to \in UploadPcs \ {"none"}, NEW s \in Statuses,
         UploadStep(d, from, to), UNCHANGED ocrQ,
         UNCHANGED status \/ SetStatus(d, s),
         stored' = stored \/ stored' = [stored EXCEPT ![d] = TRUE],
         to \in {"audit", "enqueue"} => stored'[d],
         audit' \in [Documents -> Statuses \cup {"none"}]
  PROVE  IInv'
<1> USE DEF UploadStep, workers
<1>s. /\ stored' \in [Documents -> BOOLEAN]
      /\ \A c \in Documents : stored[c] => stored'[c]
      /\ \A c \in Documents \ {d} : stored'[c] = stored[c]
  BY DEF IInv, TypeOK
<1>1. TypeOK'
  <2>1. status' \in [Documents -> Statuses \cup {"absent"}]
    BY DEF IInv, TypeOK, SetStatus
  <2>2. uploadPc' \in [Documents -> UploadPcs]
    BY DEF IInv, TypeOK
  <2> QED BY <1>s, <2>1, <2>2 DEF IInv, TypeOK
<1>2. OneExecutionPerJob'
  BY DEF IInv, OneExecutionPerJob
<1>3. QueuedInOrder'
  <2>1. \A j \in Jobs : Doc(j) \in Documents
    BY DEF Jobs, Doc
  <2> QED BY <1>s, <2>1 DEF IInv, QueuedInOrder
<1>4. UploadInv'
  BY <1>s DEF IInv, TypeOK, UploadInv, SetStatus
<1>5. OcrInv'
  <2>1. \A j \in Jobs : Doc(j) \in Documents
    BY DEF Jobs, Doc
  <2> QED BY <1>s, <2>1 DEF IInv, OcrInv
<1>6. RequestInv'
  BY DEF IInv, TypeOK, RequestInv, GoodRequest
<1> QED BY <1>1, <1>2, <1>3, <1>4, <1>5, <1>6 DEF IInv

\* Adding the OCR job of run r of a document that allows it.
LEMMA OcrJobAdded ==
  ASSUME IInv, NEW d \in Documents, NEW r \in Runs,
         r = Initial => stored[d],
         uploadPc[d] # "none", ocrQ' = [ocrQ EXCEPT ![<<d, r>>] = Added(@)],
         UNCHANGED <<db, extQ, workers, unannounced>>,
         uploadPc' \in [Documents -> UploadPcs],
         \A c \in Documents : uploadPc'[c] # uploadPc[c] =>
                                /\ uploadPc'[c] \in {"done", "catch"}
                                /\ uploadPc[c] # "none",
         req' \in [Reviewers -> Requests],
         \A a \in Reviewers : req'[a] # req[a] => req'[a] = NoRequest
  PROVE  IInv'
<1> USE DEF db, content, workers
<1>0. <<d, r>> \in Jobs /\ GoodJob(ocrQ[<<d, r>>])
  BY DEF IInv, TypeOK, OneExecutionPerJob, GoodJob, Jobs
<1>j. /\ GoodJob(Added(ocrQ[<<d, r>>])) /\ Added(ocrQ[<<d, r>>]).state # "absent"
      /\ Added(ocrQ[<<d, r>>]).state = "active" <=>
           ocrQ[<<d, r>>].state = "active"
  BY <1>0, JobOperations
<1>k. /\ ocrQ' \in [Jobs -> JobRecords]
      /\ \A k \in Jobs : k # <<d, r>> => ocrQ'[k] = ocrQ[k]
      /\ ocrQ'[<<d, r>>] = Added(ocrQ[<<d, r>>])
  BY <1>0, <1>j DEF IInv, TypeOK, GoodJob
<1>1. TypeOK'
  BY <1>k DEF IInv, TypeOK
<1>2. OneExecutionPerJob'
  BY <1>j, <1>k DEF IInv, OneExecutionPerJob, GoodJob
<1>3. QueuedInOrder'
  <2>1. ASSUME NEW c \in Documents, ocrQ'[<<c, Initial>>].state # "absent"
        PROVE  stored'[c]
    <3>1. CASE c = d /\ r = Initial
      BY <3>1
    <3>2. CASE ~ (c = d /\ r = Initial)
      <4>1. <<c, Initial>> # <<d, r>> /\ <<c, Initial>> \in Jobs
        BY <3>2 DEF Jobs
      <4> QED BY <1>k, <2>1, <4>1 DEF IInv, QueuedInOrder
    <3> QED BY <3>1, <3>2
  <2>2. ASSUME NEW j \in Jobs, extQ'[j].state # "absent"
        PROVE  ocrQ'[j].state # "absent" /\ stored'[Doc(j)]
    BY <1>j, <1>k, <2>2 DEF IInv, QueuedInOrder
  <2> QED BY <2>1, <2>2 DEF QueuedInOrder
<1>4. UploadInv'
  <2> SUFFICES ASSUME NEW c \in Documents
               PROVE  /\ uploadPc'[c] \in {"audit", "enqueue"} => stored'[c]
                      /\ uploadPc'[c] = "none" =>
                           /\ status'[c] = "absent"
                           /\ \A q \in Runs : ocrQ'[<<c, q>>].state = "absent"
    BY DEF UploadInv
  <2>1. uploadPc'[c] \in {"audit", "enqueue"} => stored'[c]
    BY DEF IInv, UploadInv
  <2>2. ASSUME uploadPc'[c] = "none"
        PROVE  status'[c] = "absent"
               /\ \A q \in Runs : ocrQ'[<<c, q>>].state = "absent"
    <3>1. uploadPc[c] = "none" /\ c # d
      BY <2>2
    <3>2. \A q \in Runs : <<c, q>> \in Jobs /\ <<c, q>> # <<d, r>>
      BY <3>1 DEF Jobs
    <3> QED BY <1>k, <3>1, <3>2 DEF IInv, UploadInv
  <2> QED BY <2>1, <2>2
<1>5. OcrInv'
  BY DEF IInv, OcrInv
<1>6. RequestInv'
  <2> SUFFICES ASSUME NEW a \in Reviewers PROVE GoodRequest(req[a])'
    BY DEF RequestInv
  <2>1. CASE req'[a] = req[a]
    BY <2>1 DEF IInv, RequestInv, GoodRequest
  <2>2. CASE req'[a] = NoRequest
    BY <2>2 DEF GoodRequest, NoRequest
  <2> QED BY <2>1, <2>2
<1> QED BY <1>1, <1>2, <1>3, <1>4, <1>5, <1>6 DEF IInv

\* Every step of an upload keeps the invariant.
LEMMA UploadSteps ==
  ASSUME IInv, NEW d \in Documents,
         UploadInsert(d) \/ UploadProgress(d) \/ UploadThrow(d)
           \/ UploadUnconfirmed(d) \/ UploadLost(d)
  PROVE  IInv'
<1>p. {"none", "store", "key", "audit", "enqueue", "catch", "done"} = UploadPcs
  BY DEF UploadPcs
<1>s. {"uploaded", "failed"} \subseteq Statuses
  BY DEF Statuses
<1>t. /\ audit \in [Documents -> Statuses \cup {"none"}]
      /\ stored \in [Documents -> BOOLEAN] /\ uploadPc \in [Documents -> UploadPcs]
      /\ uploadPc[d] \in {"audit", "enqueue"} => stored[d]
  BY DEF IInv, TypeOK, UploadInv
<1>1. CASE UploadInsert(d)
  BY <1>1, <1>p, <1>s, <1>t, UploadInside DEF UploadInsert
<1>2. CASE UploadStore(d)
  BY <1>2, <1>p, <1>s, <1>t, UploadInside DEF UploadStore
<1>3. CASE UploadKey(d)
  <2>1. stored'[d]
    BY <1>3, <1>t DEF UploadKey
  <2> QED BY <1>3, <1>p, <1>s, <1>t, <2>1, UploadInside DEF UploadKey
<1>4. CASE UploadAudit(d)
  <2>1. audit' \in [Documents -> Statuses \cup {"none"}]
    BY <1>4, <1>s, <1>t DEF UploadAudit, Log
  <2>2. stored'[d]
    BY <1>4, <1>t DEF UploadAudit, UploadStep
  <2> QED BY <1>4, <1>p, <1>s, <1>t, <2>1, <2>2, UploadInside DEF UploadAudit
<1>5. ASSUME NEW to \in {"done", "catch"}, UploadAdd(d, to) PROVE IInv'
  <2>1. /\ uploadPc[d] = "enqueue" /\ stored[d]
        /\ uploadPc' \in [Documents -> UploadPcs]
        /\ \A c \in Documents : uploadPc'[c] # uploadPc[c] =>
             uploadPc'[c] \in {"done", "catch"} /\ uploadPc[c] # "none"
    BY <1>5, <1>p, <1>t DEF UploadAdd, UploadStep
  <2>2. /\ req' \in [Reviewers -> Requests]
        /\ \A a \in Reviewers : req'[a] # req[a] => req'[a] = NoRequest
    BY <1>5 DEF UploadAdd, UploadStep, IInv, TypeOK
  <2> QED BY <1>5, <2>1, <2>2, OcrJobAdded
          DEF UploadAdd, UploadStep, db, content
<1>6. CASE UploadThrow(d) \/ UploadLost(d)
  BY <1>6, <1>p, <1>s, <1>t, UploadInside DEF UploadThrow, UploadLost
<1>7. CASE UploadCatch(d)
  BY <1>7, <1>p, <1>s, <1>t, UploadInside DEF UploadCatch
<1> QED BY <1>1, <1>2, <1>3, <1>4, <1>5, <1>6, <1>7
        DEF UploadProgress, UploadEnqueue, UploadUnconfirmed

-----------------------------------------------------------------------------
(* Steps of a reviewer's request.                                          *)

\* A step of a request on document d that does not touch the queue.
LEMMA RequestInside ==
  ASSUME IInv, NEW a \in Reviewers, NEW d \in Documents, NEW s \in Statuses,
         NEW new \in Requests, GoodRequest(new), req' = [req EXCEPT ![a] = new],
         UNCHANGED <<stored, queues, uploadPc, workers>>,
         uploadPc[d] # "none", UNCHANGED status \/ SetStatus(d, s),
         rawText' \in [Documents -> {"null", "text", "blank"}],
         docType' \in [Documents -> {"null", "invoice", "unknown"}],
         extraction' \in [Documents -> ExtractionRows],
         audit' \in [Documents -> Statuses \cup {"none"}],
         unannounced' \in [Documents -> Int]
  PROVE  IInv'
<1> USE DEF queues, workers
<1>1. TypeOK'
  <2>1. status' \in [Documents -> Statuses \cup {"absent"}]
    BY DEF IInv, TypeOK, SetStatus
  <2>2. req' \in [Reviewers -> Requests]
    BY DEF IInv, TypeOK
  <2> QED BY <2>1, <2>2 DEF IInv, TypeOK
<1>2. OneExecutionPerJob' /\ QueuedInOrder' /\ OcrInv'
  BY DEF IInv, OneExecutionPerJob, QueuedInOrder, OcrInv
<1>3. UploadInv'
  BY DEF IInv, TypeOK, UploadInv, SetStatus
<1>4. RequestInv'
  BY DEF IInv, TypeOK, RequestInv, GoodRequest
<1> QED BY <1>1, <1>2, <1>3, <1>4 DEF IInv

\* A request that ends, and nothing else, keeps the invariant.
LEMMA GoodNoRequest == NoRequest \in Requests /\ GoodRequest(NoRequest)
BY DEF NoRequest, Requests, GoodRequest

LEMMA RequestEnds ==
  ASSUME IInv, NEW a \in Reviewers, EndRequest(a),
         UNCHANGED <<db, queues, uploadPc, workers>>,
         unannounced' \in [Documents -> Int]
  PROVE  IInv'
<1> USE DEF db, content, queues, workers, EndRequest
<1>1. TypeOK'
  <2>1. req' \in [Reviewers -> Requests]
    BY GoodNoRequest DEF IInv, TypeOK
  <2> QED BY <2>1 DEF IInv, TypeOK
<1>2. OneExecutionPerJob' /\ QueuedInOrder' /\ OcrInv' /\ UploadInv'
  BY DEF IInv, OneExecutionPerJob, QueuedInOrder, OcrInv, UploadInv
<1>3. RequestInv'
  BY GoodNoRequest DEF IInv, TypeOK, RequestInv, GoodRequest
<1> QED BY <1>1, <1>2, <1>3 DEF IInv

\* A request begins on a document somebody uploaded.
LEMMA RequestBeginSteps ==
  ASSUME IInv, NEW a \in Reviewers, RequestBegin(a)
  PROVE  IInv'
<1>1. ASSUME NEW d \in Documents, NEW op, NEW run, Begin(a, d, op, run),
             status[d] \in Statuses,
             \/ /\ op \in {"approve", "reject", "edit"} /\ run = NoRun
                /\ status[d] = "pending_review"
             \/ /\ op = "reprocess" /\ run \in Runs \ {Initial}
                /\ status[d] \in {"failed", "rejected"}
      PROVE  IInv'
  <2> DEFINE new == [op |-> op, doc |-> d, pc |-> "commit",
                     seen |-> status[d], run |-> run]
  <2>1. new \in Requests
    BY <1>1 DEF Requests
  <2>2. uploadPc[d] # "none"
    BY <1>1 DEF IInv, UploadInv, Statuses
  <2>3. GoodRequest(new)
    BY <1>1, <2>2 DEF GoodRequest
  <2>4. /\ rawText \in [Documents -> {"null", "text", "blank"}]
        /\ docType \in [Documents -> {"null", "invoice", "unknown"}]
        /\ extraction \in [Documents -> ExtractionRows]
        /\ audit \in [Documents -> Statuses \cup {"none"}]
        /\ unannounced \in [Documents -> Int]
    BY DEF IInv, TypeOK
  <2>5. /\ req' = [req EXCEPT ![a] = new]
        /\ UNCHANGED <<db, queues, uploadPc, workers, unannounced>>
    BY <1>1 DEF Begin
  <2> HIDE DEF new
  <2> QED BY <1>1, <2>1, <2>2, <2>3, <2>4, <2>5, RequestInside DEF db, content
<1>2. PICK d \in Documents :
        \/ ApproveBegin(a, d) \/ RejectBegin(a, d) \/ EditBegin(a, d)
        \/ \E r \in Runs : ReprocessBegin(a, d, r)
  BY DEF RequestBegin
<1>3. CASE ApproveBegin(a, d) \/ RejectBegin(a, d) \/ EditBegin(a, d)
  BY <1>1, <1>3 DEF ApproveBegin, RejectBegin, EditBegin, Statuses
<1>4. CASE \E r \in Runs : ReprocessBegin(a, d, r)
  BY <1>1, <1>4 DEF ReprocessBegin, FreshRuns, Statuses
<1> QED BY <1>2, <1>3, <1>4

\* The commit, the webhook and the new OCR job of a request.
LEMMA RequestProgressSteps ==
  ASSUME IInv, NEW a \in Reviewers, RequestProgress(a) \/ RequestLost(a)
  PROVE  IInv'
<1>t. /\ rawText \in [Documents -> {"null", "text", "blank"}]
      /\ docType \in [Documents -> {"null", "invoice", "unknown"}]
      /\ extraction \in [Documents -> ExtractionRows]
      /\ audit \in [Documents -> Statuses \cup {"none"}]
      /\ unannounced \in [Documents -> Int]
      /\ req[a] \in Requests /\ GoodRequest(req[a])
  BY DEF IInv, TypeOK, RequestInv
<1> DEFINE d == req[a].doc
<1>d. ASSUME req[a].pc # "idle"
      PROVE  /\ d \in Documents /\ uploadPc[d] # "none"
             /\ unannounced[d] \in Int
             /\ unannounced[d] + 1 \in Int /\ unannounced[d] - 1 \in Int
  BY <1>d, <1>t DEF GoodRequest
<1>s. {"uploaded", "approved", "rejected"} \subseteq Statuses
  BY DEF Statuses
<1>1. ASSUME NEW op \in {"approve", "reject"},
             NEW to \in {"approved", "rejected"}, DecideCommit(a, op, to)
      PROVE  IInv'
  <2> DEFINE new == [req[a] EXCEPT !.pc = "notify"]
  <2>1. /\ d \in Documents /\ uploadPc[d] # "none"
        /\ req[a].op = op /\ req[a].pc = "commit"
    BY <1>d, <1>1 DEF DecideCommit, Committing
  <2>2. new \in Requests /\ GoodRequest(new)
    BY <1>t, <2>1 DEF Requests, GoodRequest
  <2>3. UNCHANGED <<stored, queues, uploadPc, workers, rawText, docType,
                    extraction>>
    BY <1>1 DEF DecideCommit, ReviewOther, queues
  <2>4. CASE StillAsSeen(a)
    <3>1. /\ SetStatus(d, to) /\ req' = [req EXCEPT ![a] = new]
          /\ audit' \in [Documents -> Statuses \cup {"none"}]
          /\ unannounced' \in [Documents -> Int]
      BY <1>1, <1>d, <1>s, <1>t, <2>1, <2>4 DEF DecideCommit, Committing, Log
    <3>2. /\ to \in Statuses
          /\ rawText' \in [Documents -> {"null", "text", "blank"}]
          /\ docType' \in [Documents -> {"null", "invoice", "unknown"}]
          /\ extraction' \in [Documents -> ExtractionRows]
      BY <1>s, <1>t, <2>3
    <3> HIDE DEF new, d
    <3> QED BY <2>1, <2>2, <2>3, <3>1, <3>2, RequestInside
  <2>5. CASE ~ StillAsSeen(a)
    BY <1>1, <1>t, <2>3, <2>5, RequestEnds DEF DecideCommit, db, content
  <2> QED BY <2>4, <2>5
<1>2. CASE ApproveCommit(a) \/ RejectCommit(a)
  BY <1>1, <1>2 DEF ApproveCommit, RejectCommit
<1>3. CASE EnqueueWebhook(a)
  <2>1. unannounced' \in [Documents -> Int]
    BY <1>3, <1>d, <1>t DEF EnqueueWebhook
  <2> QED BY <1>3, <2>1, RequestEnds DEF EnqueueWebhook
<1>4. CASE EditCommit(a)
  <2>1. d \in Documents /\ uploadPc[d] # "none" /\ req[a].seen \in Statuses
    BY <1>4, <1>d, <1>t DEF EditCommit, Committing, GoodRequest, Statuses
  <2>2. extraction' \in [Documents -> ExtractionRows]
    <3>1. CASE EditAllowed(a)
      <4>1. extraction[d] \in [run : Runs, invoice : StoredInvoices, edited : BOOLEAN]
        BY <1>t, <2>1, <3>1 DEF EditAllowed, ExtractionRows
      <4>2. [extraction[d] EXCEPT !.edited = TRUE] \in ExtractionRows
        BY <4>1 DEF ExtractionRows
      <4>3. extraction' = [extraction EXCEPT ![d] =
                             [extraction[d] EXCEPT !.edited = TRUE]]
        BY <1>4, <3>1 DEF EditCommit
      <4> QED BY <1>t, <4>2, <4>3
    <3>2. CASE ~ EditAllowed(a)
      BY <1>4, <1>t, <3>2 DEF EditCommit
    <3> QED BY <3>1, <3>2
  <2>3. audit' \in [Documents -> Statuses \cup {"none"}]
    BY <1>4, <1>t, <2>1 DEF EditCommit, Log
  <2>4. /\ req' = [req EXCEPT ![a] = NoRequest]
        /\ UNCHANGED <<stored, queues, uploadPc, workers, status, rawText,
                       docType, unannounced>>
    BY <1>4 DEF EditCommit, ReviewOther, EndRequest, queues
  <2> QED BY <1>s, <1>t, <2>1, <2>2, <2>3, <2>4, GoodNoRequest, RequestInside
<1>5. CASE ReprocessCommit(a)
  <2> DEFINE new == [req[a] EXCEPT !.pc = "enqueue"]
  <2>1. d \in Documents /\ uploadPc[d] # "none" /\ req[a].op = "reprocess"
    BY <1>5, <1>d DEF ReprocessCommit, Committing
  <2>2. new \in Requests /\ GoodRequest(new)
    BY <1>5, <1>t, <2>1 DEF Requests, GoodRequest, ReprocessCommit, Committing
  <2>3. UNCHANGED <<stored, queues, uploadPc, workers, unannounced>>
    BY <1>5 DEF ReprocessCommit, ReviewOther, queues
  <2>4. CASE StillAsSeen(a)
    <3>1. /\ SetStatus(d, "uploaded") /\ req' = [req EXCEPT ![a] = new]
          /\ audit' \in [Documents -> Statuses \cup {"none"}]
          /\ rawText' \in [Documents -> {"null", "text", "blank"}]
          /\ docType' \in [Documents -> {"null", "invoice", "unknown"}]
      BY <1>5, <1>s, <1>t, <2>4 DEF ReprocessCommit, Log
    <3>2. extraction' \in [Documents -> ExtractionRows]
      BY <1>5, <1>t, <2>4 DEF ReprocessCommit, ExtractionRows
    <3> HIDE DEF new, d
    <3> QED BY <1>s, <1>t, <2>1, <2>2, <2>3, <3>1, <3>2, RequestInside
  <2>5. CASE ~ StillAsSeen(a)
    BY <1>5, <1>t, <2>3, <2>5, RequestEnds DEF ReprocessCommit, db, content
  <2> QED BY <2>4, <2>5
<1>6. CASE ReprocessEnqueue(a)
  <2>1. /\ d \in Documents /\ uploadPc[d] # "none"
        /\ req[a].run \in Runs \ {Initial}
    BY <1>6, <1>d, <1>t DEF ReprocessEnqueue, GoodRequest
  <2>2. /\ req' \in [Reviewers -> Requests]
        /\ \A b \in Reviewers : req'[b] # req[b] => req'[b] = NoRequest
    BY <1>6, GoodNoRequest DEF ReprocessEnqueue, EndRequest, IInv, TypeOK
  <2>3. uploadPc' \in [Documents -> UploadPcs] /\ UNCHANGED uploadPc
    BY <1>6 DEF ReprocessEnqueue, IInv, TypeOK
  <2> QED BY <1>6, <2>1, <2>2, <2>3, OcrJobAdded DEF ReprocessEnqueue
<1>7. CASE RequestLost(a)
  BY <1>7, <1>t, RequestEnds DEF RequestLost
<1> QED BY <1>2, <1>3, <1>4, <1>5, <1>6, <1>7 DEF RequestProgress

-----------------------------------------------------------------------------
(* The theorems.                                                           *)

LEMMA NextIInv == IInv /\ [Next]_vars => IInv'
<1> SUFFICES ASSUME IInv, [Next]_vars PROVE IInv'
  OBVIOUS
<1>1. CASE UNCHANGED vars
  BY <1>1 DEF IInv, vars, db, content, queues, api, workers, TypeOK,
              OneExecutionPerJob, QueuedInOrder, UploadInv, OcrInv, RequestInv,
              GoodRequest
<1>2. ASSUME NEW d \in Documents,
             UploadInsert(d) \/ UploadProgress(d) \/ UploadThrow(d)
               \/ UploadUnconfirmed(d) \/ UploadLost(d)
      PROVE  IInv'
  BY <1>2, UploadSteps
<1>3. ASSUME NEW a \in Reviewers,
             RequestBegin(a) \/ RequestProgress(a) \/ RequestLost(a)
      PROVE  IInv'
  BY <1>3, RequestBeginSteps, RequestProgressSteps
<1>4. ASSUME NEW j \in Jobs, OcrProgress(j) \/ OcrFault(j) PROVE IInv'
  BY <1>4, OcrWorkerSteps
<1>5. ASSUME NEW j \in Jobs, ExtProgress(j) \/ ExtFault(j) PROVE IInv'
  BY <1>5, ExtractionWorkerSteps
<1> QED BY <1>1, <1>2, <1>3, <1>4, <1>5 DEF Next

\* The inductive invariant holds of every reachable state.
THEOREM Invariance == Spec => []IInv
BY InitIInv, NextIInv, PTL DEF Spec

\* Every variable stays in its range.
THEOREM TypeCorrectness == Spec => []TypeOK
<1>1. IInv => TypeOK
  BY DEF IInv
<1> QED BY <1>1, Invariance, PTL

\* No worker is handed a job before what the job needs is in the database.
THEOREM QueueOrder == Spec => []QueuedInOrder
<1>1. IInv => QueuedInOrder
  BY DEF IInv
<1> QED BY <1>1, Invariance, PTL

\* The workers write neither of the two statuses that only requests set.
LEMMA WorkerStatuses ==
  ASSUME IInv, NEW j \in Jobs,
         OcrProgress(j) \/ OcrFault(j) \/ ExtProgress(j) \/ ExtFault(j)
  PROVE  \/ UNCHANGED status
         \/ \E s \in Statuses \ {"rejected", "uploaded"} : SetStatus(Doc(j), s)
<1> DEFINE P == \/ UNCHANGED status
                \/ \E s \in Statuses \ {"rejected", "uploaded"} :
                     SetStatus(Doc(j), s)
<1>s. {"ocr_processing", "extracted", "extracting", "pending_review",
       "approved", "failed"} \subseteq Statuses \ {"rejected", "uploaded"}
  BY DEF Statuses
<1>1. CASE OcrProgress(j) \/ OcrFault(j)
  BY <1>1, <1>s DEF OcrProgress, OcrFault, OcrStart, OcrMark, OcrDetect,
     OcrAudit, OcrEnqueue, OcrUnconfirmed, OcrAdd, OcrCatch, OcrReturn, OcrFail,
     OcrPromote,
     OcrRecover, OcrThrow, OcrAbort, OcrCrash, OcrJob
<1>2. CASE ExtProgress(j) \/ ExtFault(j)
  <2>1. Outcome(decision[j]) \in {"pending_review", "approved"}
    BY DEF Outcome
  <2> QED BY <1>2, <1>s, <2>1 DEF ExtProgress, ExtFault, ExtStart, ExtEmpty,
     ExtAuditEmpty, ExtMark, ExtUnknown, ExtAuditUnknown, ExtInvoice,
     ExtInsert, ExtDecide, ExtAuditExtracted, ExtAuditDecision, ExtNotify,
     ExtCatch, ExtAuditFailed, ExtReturn, ExtFail, ExtPromote, ExtRecover,
     ExtThrow, ExtUnconfirmed, ExtAdd, ExtAbort, ExtCrash, ExtJob, ExtLog,
     ExtSetStatus, ExtError
<1> QED BY <1>1, <1>2

GuardedStep(d) ==
  /\ status'[d] = "rejected" => status[d] \in {"pending_review", "rejected"}
  /\ status'[d] = "uploaded" =>
       status[d] \in {"absent", "uploaded", "failed", "rejected"}

LEMMA NextGuarded ==
  ASSUME IInv, [Next]_vars, NEW d \in Documents
  PROVE  GuardedStep(d)
<1>t. status \in [Documents -> Statuses \cup {"absent"}]
  BY DEF IInv, TypeOK
<1>1. CASE UNCHANGED status
  BY <1>1 DEF GuardedStep
<1>2. ASSUME NEW c \in Documents,
             NEW s \in Statuses \ {"rejected", "uploaded"}, SetStatus(c, s)
      PROVE  GuardedStep(d)
  BY <1>2, <1>t DEF GuardedStep, SetStatus
<1>3. ASSUME NEW j \in Jobs,
             OcrProgress(j) \/ OcrFault(j) \/ ExtProgress(j) \/ ExtFault(j)
      PROVE  GuardedStep(d)
  <2>1. Doc(j) \in Documents
    BY DEF Jobs, Doc
  <2> QED BY <1>1, <1>2, <1>3, <2>1, WorkerStatuses
<1>4. ASSUME NEW c \in Documents,
             UploadInsert(c) \/ UploadProgress(c) \/ UploadThrow(c)
               \/ UploadUnconfirmed(c) \/ UploadLost(c)
      PROVE  GuardedStep(d)
  <2>1. CASE UploadInsert(c)
    <3>1. status[c] = "absent"
      BY <2>1 DEF UploadInsert, UploadStep, IInv, UploadInv
    <3> QED BY <1>t, <2>1, <3>1 DEF UploadInsert, SetStatus, GuardedStep
  <2>2. CASE UploadProgress(c)
    BY <1>1, <1>2, <2>2 DEF UploadProgress, UploadStore, UploadKey,
       UploadAudit, UploadEnqueue, UploadAdd, UploadCatch, Statuses
  <2>3. CASE UploadThrow(c) \/ UploadUnconfirmed(c) \/ UploadLost(c)
    BY <1>1, <2>3 DEF UploadThrow, UploadUnconfirmed, UploadAdd, UploadLost
  <2> QED BY <1>4, <2>1, <2>2, <2>3
<1>5. ASSUME NEW a \in Reviewers,
             RequestBegin(a) \/ RequestProgress(a) \/ RequestLost(a)
      PROVE  GuardedStep(d)
  <2>1. GoodRequest(req[a])
    BY DEF IInv, RequestInv
  <2>2. CASE RequestBegin(a)
    BY <1>1, <2>2 DEF RequestBegin, ApproveBegin, RejectBegin, EditBegin,
       ReprocessBegin, Begin, db
  <2>3. CASE ApproveCommit(a)
    BY <1>t, <2>3 DEF ApproveCommit, DecideCommit, SetStatus, GuardedStep
  <2>4. CASE RejectCommit(a)
    BY <1>t, <2>1, <2>4 DEF RejectCommit, DecideCommit, Committing,
       StillAsSeen, SetStatus, GuardedStep, GoodRequest
  <2>5. CASE ReprocessCommit(a)
    BY <1>t, <2>1, <2>5 DEF ReprocessCommit, Committing, StillAsSeen,
       SetStatus, GuardedStep, GoodRequest
  <2>6. CASE EnqueueWebhook(a) \/ EditCommit(a) \/ ReprocessEnqueue(a)
             \/ RequestLost(a)
    BY <1>1, <2>6 DEF EnqueueWebhook, EditCommit, ReprocessEnqueue,
       RequestLost, db
  <2> QED BY <1>5, <2>2, <2>3, <2>4, <2>5, <2>6 DEF RequestProgress
<1>6. CASE UNCHANGED vars
  BY <1>1, <1>6 DEF vars, db
<1> QED BY <1>3, <1>4, <1>5, <1>6 DEF Next

\* However many reviewers race, and whatever the workers do meanwhile, a
\* document is rejected only out of review and restarted only once failed or
\* rejected.
THEOREM GuardedReviewing == Spec => ReviewerStepsAreGuarded
<1>1. IInv /\ [Next]_vars =>
        [\A d \in Documents :
           /\ status'[d] = "rejected" =>
                status[d] \in {"pending_review", "rejected"}
           /\ status'[d] = "uploaded" =>
                status[d] \in {"absent", "uploaded", "failed", "rejected"}]_vars
  BY NextGuarded DEF GuardedStep
<1> QED BY <1>1, Invariance, PTL DEF Spec, ReviewerStepsAreGuarded

-----------------------------------------------------------------------------
(* Webhook jobs against decisions.                                         *)

\* The requests on a document, and the runs of it, that owe a webhook job.  An
\* execution does from the approval on, before it comes to the add.
Owes(j) == \/ extPc[j] = "notify"
           \/ /\ extPc[j] \in {"auditExtracted", "auditDecision"}
              /\ decision[j] = "auto_approve"
Requesting(d) == {a \in Reviewers : req[a].doc = d /\ req[a].pc = "notify"}
Owing(d) == {r \in Runs : Owes(<<d, r>>)}

Covered(d) == Cardinality(Requesting(d)) + Cardinality(Owing(d)) <= unannounced[d]

\* Two sets and a balance that covers them: it still does if they shrink, if
\* it is paid for what joins one of them, and for what leaves one of them.
LEMMA Balance ==
  ASSUME NEW S, NEW T, IsFiniteSet(S), IsFiniteSet(T), NEW u \in Int,
         Cardinality(S) + Cardinality(T) <= u,
         NEW S2, NEW T2 \in SUBSET T, NEW u2 \in Int, NEW x,
         \/ S2 \subseteq S /\ u2 >= u
         \/ S2 \subseteq S \cup {x} /\ u2 = u + 1
         \/ x \in S /\ S2 \subseteq S \ {x} /\ u2 = u - 1
  PROVE  /\ Cardinality(S2) + Cardinality(T2) <= u2
         /\ Cardinality(T2) + Cardinality(S2) <= u2
<1>1. /\ IsFiniteSet(T2) /\ Cardinality(T2) <= Cardinality(T)
      /\ Cardinality(T2) \in Nat /\ Cardinality(T) \in Nat
  BY FS_Subset, FS_CardinalityType
<1>2. Cardinality(S) \in Nat
  BY FS_CardinalityType
<1>3. CASE S2 \subseteq S /\ u2 >= u
  <2>1. Cardinality(S2) <= Cardinality(S) /\ Cardinality(S2) \in Nat
    BY <1>3, FS_Subset, FS_CardinalityType
  <2> QED BY <1>1, <1>2, <1>3, <2>1
<1>4. CASE S2 \subseteq S \cup {x} /\ u2 = u + 1
  <2>0. /\ IsFiniteSet(S \cup {x})
        /\ Cardinality(S \cup {x}) \in {Cardinality(S), Cardinality(S) + 1}
    BY FS_AddElement
  <2>1. /\ IsFiniteSet(S \cup {x}) /\ Cardinality(S \cup {x}) \in Nat
        /\ Cardinality(S \cup {x}) <= Cardinality(S) + 1
    BY <1>2, <2>0
  <2>2. Cardinality(S2) <= Cardinality(S \cup {x}) /\ Cardinality(S2) \in Nat
    BY <1>4, <2>1, FS_Subset, FS_CardinalityType
  <2> QED BY <1>1, <1>2, <1>4, <2>1, <2>2
<1>5. CASE x \in S /\ S2 \subseteq S \ {x} /\ u2 = u - 1
  <2>1. IsFiniteSet(S \ {x}) /\ Cardinality(S \ {x}) = Cardinality(S) - 1
    BY <1>5, FS_RemoveElement
  <2>2. Cardinality(S2) <= Cardinality(S \ {x}) /\ Cardinality(S2) \in Nat
    BY <1>5, <2>1, FS_Subset, FS_CardinalityType
  <2> QED BY <1>1, <1>2, <1>5, <2>1, <2>2
<1> QED BY <1>3, <1>4, <1>5

\* What either side may do to the balance of a document.
LEMMA StaysCovered ==
  ASSUME IInv, NEW d \in Documents, Covered(d),
         unannounced'[d] \in Int, NEW x,
         \/ /\ Requesting(d)' \subseteq Requesting(d) /\ Owing(d)' \subseteq Owing(d)
            /\ unannounced'[d] = unannounced[d]
         \/ /\ Owing(d)' \subseteq Owing(d)
            /\ \/ /\ Requesting(d)' \subseteq Requesting(d) \cup {x}
                  /\ unannounced'[d] = unannounced[d] + 1
               \/ /\ x \in Requesting(d) /\ Requesting(d)' \subseteq Requesting(d) \ {x}
                  /\ unannounced'[d] = unannounced[d] - 1
         \/ /\ Requesting(d)' \subseteq Requesting(d)
            /\ \/ /\ Owing(d)' \subseteq Owing(d) \cup {x}
                  /\ unannounced'[d] = unannounced[d] + 1
               \/ /\ x \in Owing(d) /\ Owing(d)' \subseteq Owing(d) \ {x}
                  /\ unannounced'[d] = unannounced[d] - 1
  PROVE  Covered(d)'
<1> DEFINE S == Requesting(d)
           T == Owing(d)
           S2 == Requesting(d)'
           T2 == Owing(d)'
           u == unannounced[d]
           u2 == unannounced'[d]
<1>1. IsFiniteSet(S) /\ IsFiniteSet(T)
  BY FinitenessAssumption, FS_Subset DEF Requesting, Owing
<1>2. /\ u \in Int /\ u2 \in Int /\ Cardinality(S) + Cardinality(T) <= u
      /\ Cardinality(T) + Cardinality(S) <= u
  <2>1. Cardinality(S) \in Nat /\ Cardinality(T) \in Nat
    BY <1>1, FS_CardinalityType
  <2> QED BY <2>1 DEF IInv, TypeOK, Covered
<1>3. \/ /\ T2 \in SUBSET T
         /\ \/ S2 \subseteq S /\ u2 >= u
            \/ S2 \subseteq S \cup {x} /\ u2 = u + 1
            \/ x \in S /\ S2 \subseteq S \ {x} /\ u2 = u - 1
      \/ /\ S2 \in SUBSET S
         /\ \/ T2 \subseteq T \cup {x} /\ u2 = u + 1
            \/ x \in T /\ T2 \subseteq T \ {x} /\ u2 = u - 1
  BY <1>2
<1>4. Cardinality(S2) + Cardinality(T2) <= u2 => Covered(d)'
  BY DEF Covered
<1> HIDE DEF S, T, S2, T2, u, u2
<1>5. Cardinality(S2) + Cardinality(T2) <= u2
  <2>1. ASSUME T2 \in SUBSET T,
               \/ S2 \subseteq S /\ u2 >= u
               \/ S2 \subseteq S \cup {x} /\ u2 = u + 1
               \/ x \in S /\ S2 \subseteq S \ {x} /\ u2 = u - 1
        PROVE  Cardinality(S2) + Cardinality(T2) <= u2
    BY <1>1, <1>2, <2>1, Balance
  <2>2. ASSUME S2 \in SUBSET S,
               \/ T2 \subseteq T \cup {x} /\ u2 = u + 1
               \/ x \in T /\ T2 \subseteq T \ {x} /\ u2 = u - 1
        PROVE  Cardinality(S2) + Cardinality(T2) <= u2
    BY <1>1, <1>2, <2>2, Balance
  <2> QED BY <1>3, <2>1, <2>2
<1> QED BY <1>4, <1>5

\* A request that enters or leaves its debt pays for it.
LEMMA RequestsStayCovered ==
  ASSUME IInv, NEW a \in Reviewers, NEW d \in Documents, Covered(d),
         unannounced'[d] \in Int,
         RequestBegin(a) \/ RequestProgress(a) \/ RequestLost(a)
  PROVE  Covered(d)'
<1>1. /\ req \in [Reviewers -> Requests] /\ req[a] \in Requests
      /\ unannounced \in [Documents -> Int] /\ NoRequest.pc = "idle"
  BY DEF IInv, TypeOK, NoRequest
<1>2. ASSUME UNCHANGED workers PROVE Owing(d)' = Owing(d)
  BY <1>2 DEF workers, Owing, Owes
<1>3. ASSUME NEW new, req' = [req EXCEPT ![a] = new], new.pc # "notify",
             UNCHANGED <<workers, unannounced>>
      PROVE  Covered(d)'
  <2>1. Requesting(d)' \subseteq Requesting(d)
    BY <1>1, <1>3 DEF Requesting
  <2> QED BY <1>2, <1>3, <2>1, StaysCovered
<1>4. CASE RequestBegin(a)
  <2>1. PICK c \in Documents, op \in {"approve", "reject", "edit", "reprocess"},
             run \in Runs \cup {NoRun} : Begin(a, c, op, run)
    BY <1>4 DEF RequestBegin, ApproveBegin, RejectBegin, EditBegin,
       ReprocessBegin, FreshRuns
  <2> DEFINE new == [op |-> op, doc |-> c, pc |-> "commit",
                     seen |-> status[c], run |-> run]
  <2>2. /\ req' = [req EXCEPT ![a] = new] /\ new.pc # "notify"
        /\ UNCHANGED <<workers, unannounced>>
    BY <2>1 DEF Begin
  <2> HIDE DEF new
  <2> QED BY <1>3, <2>2
<1>5. CASE RequestLost(a) \/ EditCommit(a) \/ ReprocessEnqueue(a)
  <2>1. req' = [req EXCEPT ![a] = NoRequest] /\ UNCHANGED <<workers, unannounced>>
    BY <1>5 DEF RequestLost, EditCommit, ReprocessEnqueue, EndRequest, ReviewOther
  <2> QED BY <1>1, <1>3, <2>1
<1>6. CASE ReprocessCommit(a)
  <2>1. /\ \/ req' = [req EXCEPT ![a] = NoRequest]
           \/ req' = [req EXCEPT ![a].pc = "enqueue"]
        /\ UNCHANGED <<workers, unannounced>>
    BY <1>6 DEF ReprocessCommit, EndRequest, ReviewOther
  <2> DEFINE new == [req[a] EXCEPT !.pc = "enqueue"]
  <2>2. new.pc # "notify"
    BY <1>1 DEF Requests
  <2>3. req' = [req EXCEPT ![a] = NoRequest] \/ req' = [req EXCEPT ![a] = new]
    BY <1>1, <2>1
  <2> HIDE DEF new
  <2> QED BY <1>1, <1>3, <2>1, <2>2, <2>3
<1>7. ASSUME NEW op, NEW to, DecideCommit(a, op, to) PROVE Covered(d)'
  <2> DEFINE c == req[a].doc
  <2>0. UNCHANGED workers
    BY <1>7 DEF DecideCommit, ReviewOther
  <2>1. CASE req' = [req EXCEPT ![a] = NoRequest] /\ UNCHANGED unannounced
    BY <1>1, <1>3, <2>0, <2>1
  <2>2. CASE /\ req' = [req EXCEPT ![a].pc = "notify"]
             /\ unannounced' = [unannounced EXCEPT ![c] = @ + 1]
    <3>1. CASE d = c
      <4>1. Requesting(d)' \subseteq Requesting(d) \cup {a}
        BY <1>1, <2>2 DEF Requesting
      <4>2. unannounced'[d] = unannounced[d] + 1
        BY <1>1, <2>2, <3>1
      <4> QED BY <1>2, <2>0, <4>1, <4>2, StaysCovered
    <3>2. CASE d # c
      <4>1. Requesting(d)' \subseteq Requesting(d)
        BY <1>1, <2>2, <3>2 DEF Requesting
      <4>2. unannounced'[d] = unannounced[d]
        BY <1>1, <2>2, <3>2
      <4> QED BY <1>2, <2>0, <4>1, <4>2, StaysCovered
    <3> QED BY <3>1, <3>2
  <2> QED BY <1>7, <2>1, <2>2 DEF DecideCommit, EndRequest
<1>8. CASE EnqueueWebhook(a)
  <2>1. /\ req[a].pc = "notify" /\ req[a].doc \in Documents
        /\ req' = [req EXCEPT ![a] = NoRequest] /\ UNCHANGED workers
        /\ unannounced' = [unannounced EXCEPT ![req[a].doc] =
                             IF WebhookConfigured THEN @ - 1 ELSE @]
    BY <1>8 DEF EnqueueWebhook, EndRequest, IInv, RequestInv, GoodRequest
  <2>2. Requesting(d)' \subseteq Requesting(d)
    BY <1>1, <2>1 DEF Requesting
  <2>3. CASE d = req[a].doc
    <3>1. a \in Requesting(d) /\ Requesting(d)' \subseteq Requesting(d) \ {a}
      BY <1>1, <2>1, <2>3 DEF Requesting
    <3>2. unannounced'[d] = unannounced[d] - 1 \/ unannounced'[d] = unannounced[d]
      BY <1>1, <2>1, <2>3
    <3> QED BY <1>2, <2>1, <2>2, <3>1, <3>2, StaysCovered
  <2>4. CASE d # req[a].doc
    <3>1. unannounced'[d] = unannounced[d]
      BY <1>1, <2>1, <2>4
    <3> QED BY <1>2, <2>1, <2>2, <3>1, StaysCovered
  <2> QED BY <2>3, <2>4
<1> QED BY <1>4, <1>5, <1>6, <1>7, <1>8 DEF RequestProgress, ApproveCommit, RejectCommit

\* An execution owes from its approval to its add.
LEMMA ExecutionsStayCovered ==
  ASSUME IInv, NEW j \in Jobs, NEW d \in Documents, Covered(d),
         unannounced'[d] \in Int, ExtProgress(j) \/ ExtFault(j)
  PROVE  Covered(d)'
<1> USE DEF ExtStep, ExtSetStatus, ExtLog, ExtJob, ExtError, api
<1>1. /\ extPc \in [Jobs -> ExtPcs] /\ decision \in [Jobs -> Decisions \cup {"none"}]
      /\ unannounced \in [Documents -> Int]
  BY DEF IInv, TypeOK
<1>2. /\ Doc(j) \in Documents /\ Run(j) \in Runs /\ j = <<Doc(j), Run(j)>>
      /\ \A r \in Runs : <<d, r>> \in Jobs /\ (<<d, r>> = j => d = Doc(j) /\ r = Run(j))
  BY DEF Jobs, Doc, Run
<1>3. UNCHANGED req /\ Requesting(d)' = Requesting(d)
  BY DEF Requesting, ExtProgress, ExtFault, ExtStart, ExtEmpty,
     ExtAuditEmpty, ExtMark, ExtUnknown, ExtAuditUnknown, ExtInvoice,
     ExtInsert, ExtDecide, ExtAuditExtracted, ExtAuditDecision, ExtNotify, ExtAdd,
     ExtCatch, ExtAuditFailed, ExtReturn, ExtFail, ExtPromote, ExtRecover,
     ExtThrow, ExtUnconfirmed, ExtAbort, ExtCrash
<1>4. ASSUME NEW to, NEW v, extPc' = [extPc EXCEPT ![j] = to],
             decision' = [decision EXCEPT ![j] = v]
      PROVE  /\ Owing(d)' \subseteq Owing(d) \cup {Run(j)}
             /\ Owes(j)' => \/ to = "notify"
                          \/ /\ v = "auto_approve"
                             /\ to \in {"auditExtracted", "auditDecision"}
             /\ (Owes(j)' => Owes(j)) => Owing(d)' \subseteq Owing(d)
             /\ ~ Owes(j)' /\ d = Doc(j) => Owing(d)' \subseteq Owing(d) \ {Run(j)}
             /\ d # Doc(j) => Owing(d)' \subseteq Owing(d)
  <2>1. \A k \in Jobs : k # j => (Owes(k)' <=> Owes(k))
    BY <1>1, <1>4 DEF Owes
  <2>2. Owes(j)' => \/ to = "notify"
                    \/ /\ v = "auto_approve"
                       /\ to \in {"auditExtracted", "auditDecision"}
    <3>1. extPc'[j] = to /\ decision'[j] = v
      BY <1>1, <1>4
    <3> QED BY <3>1 DEF Owes
  <2>3. \A r \in Runs : r \in Owing(d)' <=> Owes(<<d, r>>)'
    BY DEF Owing
  <2>4. \A r \in Runs : r \in Owing(d) <=> Owes(<<d, r>>)
    BY DEF Owing
  <2>5. Owing(d)' \subseteq Runs
    BY DEF Owing
  <2> QED BY <1>2, <2>1, <2>2, <2>3, <2>4, <2>5
<1>5. decision[j] = decision[j] /\ decision = [decision EXCEPT ![j] = decision[j]]
  BY <1>1
<1>6. ASSUME NEW to, NEW v, extPc' = [extPc EXCEPT ![j] = to],
             decision' = [decision EXCEPT ![j] = v], UNCHANGED unannounced,
             to \notin {"notify", "auditExtracted", "auditDecision"}
      PROVE  Covered(d)'
  BY <1>3, <1>4, <1>6, StaysCovered
<1>7. CASE ExtAuditExtracted(j) \/ ExtAuditDecision(j)
  <2>1. PICK to \in {"auditDecision", "notify", "return"} :
          /\ extPc' = [extPc EXCEPT ![j] = to]
          /\ UNCHANGED <<decision, unannounced>>
          /\ extPc[j] \in {"auditExtracted", "auditDecision"}
          /\ to = "notify" => decision[j] = "auto_approve"
    BY <1>7 DEF ExtAuditExtracted, ExtAuditDecision
  <2>2. Owes(j)' => Owes(j)
    BY <1>4, <1>5, <2>1 DEF Owes
  <2>3. Owing(d)' \subseteq Owing(d)
    BY <1>4, <1>5, <2>1, <2>2
  <2> QED BY <1>3, <2>1, <2>3, StaysCovered
<1>8. CASE ExtDecide(j)
  <2>1. extPc' = [extPc EXCEPT ![j] = "auditExtracted"] /\ UNCHANGED decision
    BY <1>8 DEF ExtDecide
  <2>2. CASE decision[j] = "auto_approve" /\ d = Doc(j)
    <3>1. unannounced'[d] = unannounced[d] + 1
      BY <1>1, <1>8, <2>2 DEF ExtDecide
    <3> QED BY <1>3, <1>4, <1>5, <2>1, <3>1, StaysCovered
  <2>3. CASE ~ (decision[j] = "auto_approve" /\ d = Doc(j))
    <3>1. unannounced'[d] = unannounced[d]
      BY <1>1, <1>8, <2>3 DEF ExtDecide
    <3>2. Owing(d)' \subseteq Owing(d)
      BY <1>4, <1>5, <2>1, <2>3
    <3> QED BY <1>3, <3>1, <3>2, StaysCovered
  <2> QED BY <2>2, <2>3
<1>9. ASSUME NEW to \in {"return", "catch"}, ExtAdd(j, to) PROVE Covered(d)'
  <2>1. /\ extPc' = [extPc EXCEPT ![j] = to] /\ UNCHANGED decision
        /\ extPc[j] = "notify" /\ Owes(j)
    BY <1>9 DEF ExtAdd, Owes
  <2>2. ~ Owes(j)'
    BY <1>4, <1>5, <2>1
  <2>3. CASE d = Doc(j)
    <3>1. unannounced'[d] = unannounced[d] - 1
      BY <1>1, <1>9, <2>3 DEF ExtAdd
    <3>2. Run(j) \in Owing(d) /\ Owing(d)' \subseteq Owing(d) \ {Run(j)}
      BY <1>2, <1>4, <1>5, <2>1, <2>2, <2>3 DEF Owing
    <3> QED BY <1>3, <3>1, <3>2, StaysCovered
  <2>4. CASE d # Doc(j)
    <3>1. unannounced'[d] = unannounced[d]
      BY <1>1, <1>9, <2>4 DEF ExtAdd
    <3>2. Owing(d)' \subseteq Owing(d)
      BY <1>4, <1>5, <2>1, <2>4
    <3> QED BY <1>3, <3>1, <3>2, StaysCovered
  <2> QED BY <2>3, <2>4
<1>10. CASE ExtStart(j) \/ ExtEmpty(j) \/ ExtAuditEmpty(j) \/ ExtMark(j) \/ ExtUnknown(j)
            \/ ExtAuditUnknown(j) \/ ExtInvoice(j) \/ ExtCatch(j) \/ ExtAuditFailed(j)
            \/ ExtThrow(j) \/ ExtAbort(j)
  <2>1. PICK to \in {FirstStep(Doc(j)), "auditEmpty", "return", "classify",
                     "auditUnknown", "insert", "auditFailed", "fail", "catch"} :
          extPc' = [extPc EXCEPT ![j] = to] /\ UNCHANGED <<decision, unannounced>>
    BY <1>10 DEF ExtStart, ExtEmpty, ExtAuditEmpty, ExtMark, ExtUnknown,
       ExtAuditUnknown, ExtInvoice, ExtCatch, ExtAuditFailed, ExtThrow, ExtAbort
  <2>2. to \notin {"notify", "auditExtracted", "auditDecision"}
    BY <2>1 DEF FirstStep
  <2> QED BY <1>5, <1>6, <2>1, <2>2
<1>11. CASE \E inv \in Invoices : ExtInsert(j, inv)
  <2>1. PICK v : decision' = [decision EXCEPT ![j] = v]
    BY <1>11 DEF ExtInsert
  <2>2. extPc' = [extPc EXCEPT ![j] = "decide"] /\ UNCHANGED unannounced
    BY <1>11 DEF ExtInsert
  <2> QED BY <1>6, <2>1, <2>2
<1>12. CASE ExtReturn(j) \/ ExtFail(j) \/ ExtPromote(j) \/ ExtCrash(j) \/ ExtRecover(j)
  <2>1. /\ extPc' = [extPc EXCEPT ![j] = "idle"] /\ UNCHANGED unannounced
        /\ decision' = [decision EXCEPT ![j] = "none"]
    BY <1>12 DEF ExtReturn, ExtFail, ExtPromote, ExtCrash, ExtRecover
  <2> QED BY <1>6, <2>1
<1> QED BY <1>7, <1>8, <1>9, <1>10, <1>11, <1>12
        DEF ExtProgress, ExtFault, ExtNotify, ExtUnconfirmed

\* "a webhook job for an update that could still roll back would be wrong"
\* (document.service.ts): no webhook job without a committed decision of its
\* own, with any number of racing reviewers, runs, retries and faults.
THEOREM DecisionsFirst == Spec => []WebhooksFollowDecisions
<1> DEFINE CInv == \A d \in Documents : Covered(d)
<1>1. Init => CInv
  <2> SUFFICES ASSUME Init, NEW d \in Documents PROVE Covered(d)
    OBVIOUS
  <2>1. Requesting(d) = {} /\ unannounced[d] = 0
    BY DEF Init, Requesting, NoRequest
  <2>2. Owing(d) = {}
    BY DEF Init, Owing, Owes, Jobs
  <2> QED BY <2>1, <2>2, FS_EmptySet DEF Covered
<1>2. IInv /\ IInv' /\ CInv /\ [Next]_vars => CInv'
  <2> SUFFICES ASSUME IInv, IInv', [Next]_vars, NEW d \in Documents, Covered(d)
               PROVE  Covered(d)'
    OBVIOUS
  <2>1. unannounced'[d] \in Int
    BY DEF IInv, TypeOK
  <2>2. ASSUME UNCHANGED <<req, extPc, decision, unannounced>> PROVE Covered(d)'
    BY <2>2 DEF Covered, Requesting, Owing, Owes
  <2>3. CASE UNCHANGED vars
    BY <2>2, <2>3 DEF vars, api, workers
  <2>4. ASSUME NEW c \in Documents,
               UploadInsert(c) \/ UploadProgress(c) \/ UploadThrow(c)
                 \/ UploadUnconfirmed(c) \/ UploadLost(c)
        PROVE  Covered(d)'
    BY <2>2, <2>4 DEF UploadInsert, UploadProgress, UploadStore, UploadKey, UploadAudit,
       UploadEnqueue, UploadCatch, UploadThrow, UploadUnconfirmed, UploadLost, UploadAdd,
       UploadStep, workers
  <2>5. ASSUME NEW j \in Jobs, OcrProgress(j) \/ OcrFault(j) PROVE Covered(d)'
    BY <2>2, <2>5 DEF OcrProgress, OcrFault, OcrStart, OcrMark, OcrDetect, OcrAudit,
       OcrEnqueue, OcrUnconfirmed, OcrAdd, OcrCatch, OcrReturn, OcrFail, OcrPromote,
       OcrRecover, OcrThrow, OcrAbort, OcrCrash, OcrJob, OcrStep, api
  <2> QED BY <2>1, <2>3, <2>4, <2>5, RequestsStayCovered, ExecutionsStayCovered DEF Next
<1>3. IInv /\ CInv => WebhooksFollowDecisions
  <2> SUFFICES ASSUME IInv, NEW d \in Documents, Covered(d)
               PROVE  Cardinality(Requesting(d))
                        + Cardinality({r \in Runs : extPc[<<d, r>>] = "notify"})
                        <= unannounced[d]
    BY DEF WebhooksFollowDecisions, Requesting
  <2> DEFINE N == {r \in Runs : extPc[<<d, r>>] = "notify"}
  <2>1. IsFiniteSet(Requesting(d)) /\ IsFiniteSet(Owing(d)) /\ N \in SUBSET Owing(d)
    BY FinitenessAssumption, FS_Subset DEF Requesting, Owing, Owes
  <2>2. unannounced[d] \in Int
    BY DEF IInv, TypeOK
  <2> HIDE DEF N
  <2>3. Cardinality(Requesting(d)) + Cardinality(N) <= unannounced[d]
    BY <2>1, <2>2, Balance DEF Covered
  <2> QED BY <2>3 DEF N
<1> HIDE DEF CInv
<1> QED BY <1>1, <1>2, <1>3, Invariance, PTL DEF Spec

-----------------------------------------------------------------------------
(* Steps of the life cycle, and what a step of a worker leaves alone.      *)

\* A step of the life cycle, or none.
LStep == \/ Lifecycle!Next
         \/ UNCHANGED <<status, [d \in Documents |-> extraction[d] # NoRow]>>

\* The steps of the life cycle the pipeline takes.
LEMMA Moves ==
  ASSUME TypeOK, NEW d \in Documents, NEW s, SetStatus(d, s), UNCHANGED extraction,
         \/ status[d] = "absent" /\ s = "uploaded"
         \/ status[d] \in {"uploaded", "failed"} /\ s = "ocr_processing"
         \/ status[d] = "ocr_processing" /\ s = "extracted"
         \/ status[d] \in {"extracted", "failed"} /\ s = "extracting"
         \/ status[d] = "extracting" /\ s = "approved" /\ extraction[d] # NoRow
         \/ status[d] = "extracting" /\ s = "pending_review"
         \/ status[d] = "pending_review" /\ s \in {"approved", "rejected"}
         \/ status[d] \in {"uploaded", "ocr_processing", "extracted", "extracting",
                           "failed"} /\ s = "failed"
  PROVE  LStep
<1>1. status \in [Documents -> Statuses \cup {"absent"}]
  BY DEF TypeOK
<1>2. CASE status[d] = s
  BY <1>1, <1>2 DEF LStep, SetStatus
<1>3. CASE status[d] # s
  BY <1>1, <1>3 DEF LStep, SetStatus, Lifecycle!Next, Lifecycle!Upload,
     Lifecycle!StartOcr,
     Lifecycle!FinishOcr, Lifecycle!StartExtraction, Lifecycle!AutoApprove,
     Lifecycle!RouteToReview, Lifecycle!Approve, Lifecycle!Reject, Lifecycle!Fail,
     Lifecycle!Move, Lifecycle!Keep
<1> QED BY <1>2, <1>3

LEMMA Stores ==
  ASSUME TypeOK, NEW d \in Documents, NEW row, row # NoRow, UNCHANGED status,
         status[d] = "extracting", extraction[d] = NoRow,
         extraction' = [extraction EXCEPT ![d] = row]
  PROVE  LStep
<1>1. extraction \in [Documents -> ExtractionRows]
  BY DEF TypeOK
<1>2. [c \in Documents |-> extraction'[c] # NoRow]
        = [[c \in Documents |-> extraction[c] # NoRow] EXCEPT ![d] = TRUE]
  BY <1>1
<1> QED BY <1>1, <1>2 DEF LStep, Lifecycle!Next, Lifecycle!StoreData

\* A job, and a document, that a step leaves as it is.
SameJob(j) ==
  /\ ocrQ'[j] = ocrQ[j] /\ ocrPc'[j] = ocrPc[j] /\ extQ'[j] = extQ[j]
  /\ extPc'[j] = extPc[j] /\ decision'[j] = decision[j]
SameDoc(d) ==
  status'[d] = status[d] /\ docType'[d] = docType[d] /\ extraction'[d] = extraction[d]

\* A job by its document and its run.
LEMMA JobNames ==
  /\ \A d \in Documents, r \in Runs :
       <<d, r>> \in Jobs /\ Doc(<<d, r>>) = d /\ Run(<<d, r>>) = r
  /\ \A j \in Jobs : /\ Doc(j) \in Documents /\ Run(j) \in Runs
                     /\ j = <<Doc(j), Run(j)>>
BY DEF Jobs, Doc, Run

\* A step on one run's job leaves every other job alone, and every other document.
OnlyJob(j) == /\ \A i \in Jobs \ {j} : SameJob(i)
              /\ \A c \in Documents \ {Doc(j)} : SameDoc(c)
              /\ UNCHANGED <<uploadPc, req>>

\* A step of a worker leaves every other job and every other document alone.
LEMMA ExtOthers ==
  ASSUME TypeOK, NEW j \in Jobs, ExtProgress(j) \/ ExtThrow(j)
  PROVE  OnlyJob(j) /\ UNCHANGED <<stored, ocrQ, ocrPc>>
<1>1. /\ status \in [Documents -> Statuses \cup {"absent"}]
      /\ docType \in [Documents -> {"null", "invoice", "unknown"}]
      /\ extraction \in [Documents -> ExtractionRows]
      /\ extQ \in [Jobs -> JobRecords] /\ extPc \in [Jobs -> ExtPcs]
      /\ decision \in [Jobs -> Decisions \cup {"none"}]
  BY DEF TypeOK
<1>2. /\ UNCHANGED <<stored, uploadPc, req, ocrQ, ocrPc>>
      /\ \E to : extPc' = [extPc EXCEPT ![j] = to]
  BY DEF ExtProgress, ExtThrow, ExtStart, ExtEmpty, ExtAuditEmpty, ExtMark, ExtUnknown,
     ExtAuditUnknown, ExtInvoice, ExtInsert, ExtDecide, ExtAuditExtracted,
     ExtAuditDecision, ExtNotify, ExtAdd, ExtCatch, ExtAuditFailed, ExtReturn, ExtFail,
     ExtPromote, ExtRecover, ExtJob, ExtLog, ExtSetStatus, ExtError, ExtStep, api
<1>3. /\ status' = status \/ \E s : status' = [status EXCEPT ![Doc(j)] = s]
      /\ docType' = docType \/ \E s : docType' = [docType EXCEPT ![Doc(j)] = s]
  BY DEF ExtProgress, ExtThrow, ExtStart, ExtEmpty, ExtAuditEmpty, ExtMark, ExtUnknown,
     ExtAuditUnknown, ExtInvoice, ExtInsert, ExtDecide, ExtAuditExtracted,
     ExtAuditDecision, ExtNotify, ExtAdd, ExtCatch, ExtAuditFailed, ExtReturn, ExtFail,
     ExtPromote, ExtRecover, ExtJob, ExtLog, ExtSetStatus, ExtError, SetStatus
<1>4. extQ' = extQ \/ \E s : extQ' = [extQ EXCEPT ![j] = s]
  BY DEF ExtProgress, ExtThrow, ExtStart, ExtEmpty, ExtAuditEmpty, ExtMark, ExtUnknown,
     ExtAuditUnknown, ExtInvoice, ExtInsert, ExtDecide, ExtAuditExtracted,
     ExtAuditDecision, ExtNotify, ExtAdd, ExtCatch, ExtAuditFailed, ExtReturn, ExtFail,
     ExtPromote, ExtRecover, ExtJob, ExtLog, ExtSetStatus, ExtError
<1>5. /\ decision' = decision \/ \E s : decision' = [decision EXCEPT ![j] = s]
      /\ \/ extraction' = extraction
         \/ \E s : extraction' = [extraction EXCEPT ![Doc(j)] = s]
  BY DEF ExtProgress, ExtThrow, ExtStart, ExtEmpty, ExtAuditEmpty, ExtMark, ExtUnknown,
     ExtAuditUnknown, ExtInvoice, ExtInsert, ExtDecide, ExtAuditExtracted,
     ExtAuditDecision, ExtNotify, ExtAdd, ExtCatch, ExtAuditFailed, ExtReturn, ExtFail,
     ExtPromote, ExtRecover, ExtJob, ExtLog, ExtSetStatus, ExtError
<1>6. ASSUME NEW i \in Jobs \ {j} PROVE SameJob(i)
  <2>1. extQ'[i] = extQ[i] /\ decision'[i] = decision[i]
    BY <1>1, <1>4, <1>5
  <2>2. extPc'[i] = extPc[i]
    BY <1>1, <1>2
  <2> QED BY <1>2, <2>1, <2>2 DEF SameJob
<1>7. ASSUME NEW c \in Documents \ {Doc(j)} PROVE SameDoc(c)
  <2>1. status'[c] = status[c] /\ docType'[c] = docType[c]
    BY <1>1, <1>3
  <2>2. extraction'[c] = extraction[c]
    BY <1>1, <1>5
  <2> QED BY <2>1, <2>2 DEF SameDoc
<1> QED BY <1>2, <1>6, <1>7 DEF OnlyJob

LEMMA OcrOthers ==
  ASSUME TypeOK, NEW j \in Jobs, OcrProgress(j) \/ OcrThrow(j)
  PROVE  OnlyJob(j) /\ UNCHANGED <<stored, docType, extraction, extPc, decision>>
<1>1. /\ status \in [Documents -> Statuses \cup {"absent"}]
      /\ ocrQ \in [Jobs -> JobRecords] /\ ocrPc \in [Jobs -> OcrPcs]
      /\ extQ \in [Jobs -> JobRecords]
  BY DEF TypeOK
<1>2. /\ UNCHANGED <<stored, uploadPc, req, docType, extraction, decision, extPc>>
      /\ \E to : ocrPc' = [ocrPc EXCEPT ![j] = to]
  BY DEF OcrProgress, OcrThrow, OcrStart, OcrMark, OcrDetect, OcrAudit, OcrEnqueue,
     OcrAdd, OcrCatch, OcrReturn, OcrFail, OcrPromote, OcrRecover, OcrJob, OcrStep, api
<1>3. status' = status \/ \E s : status' = [status EXCEPT ![Doc(j)] = s]
  BY DEF OcrProgress, OcrThrow, OcrStart, OcrMark, OcrDetect, OcrAudit, OcrEnqueue,
     OcrAdd, OcrCatch, OcrReturn, OcrFail, OcrPromote, OcrRecover, OcrJob, SetStatus
<1>4. /\ ocrQ' = ocrQ \/ \E s : ocrQ' = [ocrQ EXCEPT ![j] = s]
      /\ extQ' = extQ \/ \E s : extQ' = [extQ EXCEPT ![j] = s]
  BY DEF OcrProgress, OcrThrow, OcrStart, OcrMark, OcrDetect, OcrAudit, OcrEnqueue,
     OcrAdd, OcrCatch, OcrReturn, OcrFail, OcrPromote, OcrRecover, OcrJob, queues
<1>5. ASSUME NEW i \in Jobs \ {j} PROVE SameJob(i)
  <2>1. ocrQ'[i] = ocrQ[i] /\ extQ'[i] = extQ[i]
    BY <1>1, <1>4
  <2>2. ocrPc'[i] = ocrPc[i]
    BY <1>1, <1>2
  <2> QED BY <1>2, <2>1, <2>2 DEF SameJob
<1>6. ASSUME NEW c \in Documents \ {Doc(j)} PROVE SameDoc(c)
  BY <1>1, <1>2, <1>3 DEF SameDoc
<1> QED BY <1>2, <1>5, <1>6 DEF OnlyJob

-----------------------------------------------------------------------------
(***************************************************************************)
(* Who has a document in hand, when nothing fails but the providers.  IInv *)
(* says nothing of how the status and the data of a document go together   *)
(* with the jobs of its runs; RInv does: an upload, a reprocessing that    *)
(* has committed, or one run at a time has the document, it looks as that  *)
(* holder leaves it, and a run keeps it from one attempt to the next.      *)
(* That is lost exactly where a reprocessing commits while a job still has *)
(* a retry to come, hence the hypotheses of the theorems: reviewers who    *)
(* are Patient, or QuietRuns, of which none is both retried and replaced.  *)
(***************************************************************************)

\* Nothing fails but calls to the providers, ...
ProvidersFail == Faults \subseteq {"provider"}
\* ... and no run that has failed is retried, or none is ever started anew.
Retrying == Faults # {} /\ MaxAttempts > 1
QuietRuns == ProvidersFail /\ (Retrying => Runs = {Initial})

Reviewed == {"pending_review", "approved", "rejected"}

\* A row that some run has inserted.
Inserts == [run : Runs, invoice : StoredInvoices, edited : BOOLEAN]

LEMMA InsertsAreRows ==
  ASSUME NEW ex \in Inserts
  PROVE  ex # NoRow /\ ex \in ExtractionRows
<1>1. ex.run \in Runs
  BY DEF Inserts
<1>2. NoRow.run = NoRun
  BY Zenon DEF NoRow
<1> QED BY <1>1, <1>2 DEF Inserts, ExtractionRows

\* Where a job may be that no process dies under: the state oq and the counter o
\* of its OCR half, eq and e of the other.
OcrOpen(oq, o) ==
  \/ oq \in {"absent", "waiting", "delayed", "failed"} /\ o = "idle"
  \/ oq = "active" /\ o \in {"mark", "detect", "audit", "enqueue", "catch", "fail"}
OcrClosed(oq, o) == \/ oq = "active" /\ o = "return"
                    \/ oq = "completed" /\ o = "idle"
ExtCourse(eq, e) ==
  \/ eq \in {"waiting", "delayed", "completed", "failed"} /\ e = "idle"
  \/ eq = "active" /\ e # "idle"
Course(oq, o, eq, e) ==
  \/ OcrOpen(oq, o) /\ eq = "absent" /\ e = "idle"
  \/ OcrClosed(oq, o) /\ ExtCourse(eq, e)

\* The run still has the document in hand: it has something to write to it, now
\* or in a retry.
OcrHolds(job, o) ==
  \/ job.state \in {"waiting", "delayed"}
  \/ o \in {"mark", "detect", "audit", "enqueue", "catch"}
  \/ o = "fail" /\ Again(job)
ExtHolds(job, e) ==
  \/ job.state \in {"waiting", "delayed"}
  \/ e \in {"mark", "empty", "classify", "insert", "decide", "catch"}
  \/ e \in {"auditFailed", "fail"} /\ Again(job)

\* What a document looks like that run r has in hand, for OCR or for extraction.
\* It is failed only between two attempts.
Between(st) == st = "failed" /\ Retrying
InOcr(st, ex, oq, o) ==
  /\ ex = NoRow
  /\ \/ (oq = "waiting" \/ o = "mark") /\ (st = "uploaded" \/ Between(st))
     \/ (oq = "delayed" \/ o = "fail") /\ Between(st)
     \/ o \in {"detect", "catch"} /\ st = "ocr_processing"
     \/ o \in {"audit", "enqueue"} /\ st = "extracted"
InExt(r, st, dt, ex, eq, e) ==
  \/ /\ eq = "waiting" \/ e \in {"mark", "empty"}
     /\ st = "extracted" \/ Between(st)
     /\ ex = NoRow
  \/ (eq = "delayed" \/ e \in {"auditFailed", "fail"}) /\ Between(st) /\ ex = NoRow
  \/ e \in {"classify", "catch"} /\ st = "extracting" /\ ex = NoRow
  \/ e = "insert" /\ st = "extracting" /\ ex = NoRow /\ dt = "invoice"
  \/ e = "decide" /\ st = "extracting" /\ dt = "invoice" /\ ex \in Inserts /\ ex.run = r
InHand(r, st, dt, ex, oq, o, eq, e) ==
  InOcr(st, ex, oq, o) \/ InExt(r, st, dt, ex, eq, e)

\* And one that nobody has.
AtRest(st, dt, ex) ==
  \/ st \in Reviewed /\ (dt = "invoice" <=> ex # NoRow)
  \/ st \in {"absent", "failed"} /\ ex = NoRow

JobCourse(j) == Course(ocrQ[j].state, ocrPc[j], extQ[j].state, extPc[j])
JobHolds(j) == OcrHolds(ocrQ[j], ocrPc[j]) \/ ExtHolds(extQ[j], extPc[j])
JobInHand(j) == InHand(Run(j), status[Doc(j)], docType[Doc(j)], extraction[Doc(j)],
                       ocrQ[j].state, ocrPc[j], extQ[j].state, extPc[j])

\* An upload, or a reprocessing that has committed and not added its job yet,
\* may have a document in hand, too.
Uploading(d) == uploadPc[d] \in {"store", "key", "audit", "enqueue", "catch"}
Restarting(a, d) == req[a].pc = "enqueue" /\ req[a].doc = d
Starting(d) == Uploading(d) \/ \E a \in Reviewers : Restarting(a, d)

\* Nobody shares a document, and it looks as whoever has it in hand leaves it.
Alone(d) ==
  /\ \A a, b \in Reviewers : Restarting(a, d) /\ Restarting(b, d) => a = b
  /\ \A r, s \in Runs : JobHolds(<<d, r>>) /\ JobHolds(<<d, s>>) => r = s
  /\ ~ (Uploading(d) /\ \E a \in Reviewers : Restarting(a, d))
  /\ ~ (Starting(d) /\ \E r \in Runs : JobHolds(<<d, r>>))
OneHolder(d) ==
  /\ Alone(d)
  /\ Starting(d) => status[d] = "uploaded" /\ extraction[d] = NoRow
  /\ \A r \in Runs : JobHolds(<<d, r>>) => JobInHand(<<d, r>>)
  /\ \/ Starting(d) \/ \E r \in Runs : JobHolds(<<d, r>>)
     \/ AtRest(status[d], docType[d], extraction[d])

\* The first id of a document is its upload's, and an id that is held for a
\* reprocessing is nobody else's.
OwnIds ==
  /\ \A d \in Documents : uploadPc[d] # "done" => ocrQ[<<d, Initial>>].state = "absent"
  /\ \A a \in Reviewers :
       req[a].op = "reprocess" =>
         /\ req[a].doc \in Documents /\ req[a].run \in Runs \ {Initial}
         /\ ocrQ[<<req[a].doc, req[a].run>>].state = "absent"
         /\ \A b \in Reviewers \ {a} : req[b].run # req[a].run

\* Without faults nothing throws, and an upload that is done has its file stored.
NothingFails ==
  Faults = {} =>
    /\ \A d \in Documents : /\ uploadPc[d] # "catch"
                            /\ uploadPc[d] = "done" => stored[d]
    /\ \A j \in Jobs : /\ ocrPc[j] \notin {"catch", "fail"}
                       /\ extPc[j] \notin {"catch", "auditFailed", "fail"}

RInv == /\ IInv /\ OwnIds /\ NothingFails
        /\ \A j \in Jobs : JobCourse(j)
        /\ \A d \in Documents : OneHolder(d)

\* Who may have a document in hand after a step.
LEMMA HeldByRun ==
  ASSUME NEW d \in Documents, NEW r \in Runs, ~ Starting(d)', JobHolds(<<d, r>>)',
         JobInHand(<<d, r>>)', \A s \in Runs \ {r} : ~ JobHolds(<<d, s>>)'
  PROVE  OneHolder(d)'
<1>1. ~ Uploading(d)' /\ \A a \in Reviewers : ~ Restarting(a, d)'
  BY DEF Starting
<1>2. Alone(d)'
  BY <1>1 DEF Alone
<1>3. \A s \in Runs : JobHolds(<<d, s>>)' => JobInHand(<<d, s>>)'
  OBVIOUS
<1> QED BY <1>2, <1>3 DEF OneHolder

LEMMA HeldByUpload ==
  ASSUME NEW d \in Documents, Uploading(d)', \A a \in Reviewers : ~ Restarting(a, d)',
         \A s \in Runs : ~ JobHolds(<<d, s>>)', status'[d] = "uploaded",
         extraction'[d] = NoRow
  PROVE  OneHolder(d)'
<1>1. Starting(d)'
  BY DEF Starting
<1>2. Alone(d)'
  BY DEF Alone
<1> QED BY <1>1, <1>2 DEF OneHolder

LEMMA HeldByRequest ==
  ASSUME NEW d \in Documents, NEW a \in Reviewers, Restarting(a, d)', ~ Uploading(d)',
         \A b \in Reviewers \ {a} : ~ Restarting(b, d)',
         \A s \in Runs : ~ JobHolds(<<d, s>>)', status'[d] = "uploaded",
         extraction'[d] = NoRow
  PROVE  OneHolder(d)'
<1>1. Starting(d)'
  BY DEF Starting
<1>2. Alone(d)'
  BY DEF Alone
<1> QED BY <1>1, <1>2 DEF OneHolder

LEMMA HeldByNobody ==
  ASSUME NEW d \in Documents, ~ Starting(d)', \A s \in Runs : ~ JobHolds(<<d, s>>)',
         AtRest(status'[d], docType'[d], extraction'[d])
  PROVE  OneHolder(d)'
<1>1. ~ Uploading(d)' /\ \A a \in Reviewers : ~ Restarting(a, d)'
  BY DEF Starting
<1>2. Alone(d)'
  BY <1>1 DEF Alone
<1> QED BY <1>2 DEF OneHolder

\* And before it.
LEMMA RunIsAlone ==
  ASSUME NEW j \in Jobs, OneHolder(Doc(j)), JobHolds(j)
  PROVE  /\ ~ Starting(Doc(j)) /\ JobInHand(j)
         /\ \A s \in Runs \ {Run(j)} : ~ JobHolds(<<Doc(j), s>>)
BY JobNames DEF OneHolder, Alone

LEMMA UploadIsAlone ==
  ASSUME NEW d \in Documents, OneHolder(d), Uploading(d)
  PROVE  /\ \A a \in Reviewers : ~ Restarting(a, d)
         /\ \A s \in Runs : ~ JobHolds(<<d, s>>)
         /\ status[d] = "uploaded" /\ extraction[d] = NoRow
BY DEF OneHolder, Alone, Starting

LEMMA RequestIsAlone ==
  ASSUME NEW d \in Documents, NEW a \in Reviewers, OneHolder(d), Restarting(a, d)
  PROVE  /\ ~ Uploading(d) /\ \A b \in Reviewers \ {a} : ~ Restarting(b, d)
         /\ \A s \in Runs : ~ JobHolds(<<d, s>>)
         /\ status[d] = "uploaded" /\ extraction[d] = NoRow
BY DEF OneHolder, Alone, Starting

\* A status that gives away that nobody has the document.
LEMMA StatusAtRest ==
  ASSUME NEW d \in Documents, OneHolder(d),
         \/ status[d] \in {"absent", "pending_review", "approved", "rejected"}
         \/ status[d] = "failed" /\ ~ Retrying
  PROVE  /\ ~ Starting(d) /\ \A r \in Runs : ~ JobHolds(<<d, r>>)
         /\ AtRest(status[d], docType[d], extraction[d])
<1>1. ~ Starting(d)
  BY DEF OneHolder
<1>2. ASSUME NEW r \in Runs PROVE ~ JobHolds(<<d, r>>)
  <2>1. ~ JobInHand(<<d, r>>)
    BY JobNames DEF JobInHand, InHand, InOcr, InExt, Between
  <2> QED BY <2>1 DEF OneHolder
<1> QED BY <1>1, <1>2 DEF OneHolder

\* Nor has a run of a document all of whose runs are spent.
LEMMA SpentHoldsNot ==
  ASSUME NEW d \in Documents, Spent(d)
  PROVE  \A r \in Runs : ~ JobHolds(<<d, r>>)
BY DEF Spent, WritesNoMore, JobHolds, OcrHolds, ExtHolds

LEMMA JobUnmoved ==
  ASSUME NEW j \in Jobs, SameJob(j)
  PROVE  /\ JobCourse(j)' = JobCourse(j) /\ JobHolds(j)' = JobHolds(j)
         /\ SameDoc(Doc(j)) => JobInHand(j)' = JobInHand(j)
BY DEF SameJob, SameDoc, JobCourse, JobHolds, JobInHand, Doc, Run

\* A step that leaves a document as it is, and who has it.
LEMMA DocUnmoved ==
  ASSUME NEW d \in Documents, OneHolder(d), SameDoc(d), uploadPc'[d] = uploadPc[d],
         \A a \in Reviewers : Restarting(a, d)' = Restarting(a, d),
         \A r \in Runs : JobHolds(<<d, r>>)' <=> JobHolds(<<d, r>>),
         \A r \in Runs : JobHolds(<<d, r>>) /\ JobInHand(<<d, r>>) => JobInHand(<<d, r>>)'
  PROVE  OneHolder(d)'
<1>1. Uploading(d)' = Uploading(d)
  BY DEF Uploading
<1>2. Starting(d)' = Starting(d)
  BY <1>1 DEF Starting
<1>3. Alone(d)'
  BY <1>1, <1>2 DEF OneHolder, Alone
<1> QED BY <1>2, <1>3 DEF OneHolder, SameDoc

Untouched(c) ==
  /\ SameDoc(c) /\ uploadPc'[c] = uploadPc[c]
  /\ \A a \in Reviewers : Restarting(a, c)' = Restarting(a, c)
  /\ \A r \in Runs : SameJob(<<c, r>>)

LEMMA UntouchedKeeps ==
  ASSUME NEW c \in Documents, OneHolder(c), Untouched(c)
  PROVE  OneHolder(c)'
<1>1. ASSUME NEW r \in Runs
      PROVE  /\ JobHolds(<<c, r>>)' = JobHolds(<<c, r>>)
             /\ JobInHand(<<c, r>>)' = JobInHand(<<c, r>>)
  <2>1. <<c, r>> \in Jobs /\ Doc(<<c, r>>) = c
    BY JobNames
  <2> QED BY <2>1, JobUnmoved DEF Untouched
<1> QED BY <1>1, DocUnmoved DEF Untouched

\* What a step on one run's job has to show: that the run has the document before
\* and after it, or gives it up, or does not touch it.
RunStep(j) ==
  /\ JobCourse(j)' /\ (ocrQ[j].state # "absent" \/ ocrQ'[j] = ocrQ[j])
  /\ \/ JobHolds(j) /\ JobHolds(j)' /\ JobInHand(j)'
     \/ /\ JobHolds(j) /\ ~ JobHolds(j)'
        /\ AtRest(status'[Doc(j)], docType'[Doc(j)], extraction'[Doc(j)])
     \/ ~ JobHolds(j) /\ ~ JobHolds(j)' /\ SameDoc(Doc(j))

LEMMA RunSteps ==
  ASSUME RInv, NEW j \in Jobs, OnlyJob(j), RunStep(j)
  PROVE  /\ OwnIds'
         /\ \A i \in Jobs : JobCourse(i)'
         /\ \A c \in Documents : OneHolder(c)'
<1>1. /\ OwnIds /\ (\A i \in Jobs : JobCourse(i)) /\ \A c \in Documents : OneHolder(c)
      /\ uploadPc' = uploadPc /\ req' = req
  BY DEF RInv, OnlyJob
<1>2. OwnIds'
  <2>1. \A i \in Jobs : ocrQ[i].state = "absent" => ocrQ'[i].state = "absent"
    BY DEF OnlyJob, RunStep, SameJob
  <2>2. /\ \A d \in Documents : <<d, Initial>> \in Jobs
        /\ \A a \in Reviewers :
             req[a].op = "reprocess" => <<req[a].doc, req[a].run>> \in Jobs
    BY <1>1, JobNames DEF OwnIds
  <2> QED BY <1>1, <2>1, <2>2 DEF OwnIds
<1>3. \A i \in Jobs : JobCourse(i)'
  BY <1>1, JobUnmoved DEF OnlyJob, RunStep
<1>4. \A d \in Documents : /\ Starting(d)' = Starting(d)
                           /\ \A a \in Reviewers : Restarting(a, d)' = Restarting(a, d)
  BY <1>1 DEF Starting, Uploading, Restarting
<1>5. PICK d \in Documents, r \in Runs : j = <<d, r>> /\ d = Doc(j) /\ r = Run(j)
  BY JobNames
<1>6. ASSUME NEW c \in Documents \ {d} PROVE OneHolder(c)'
  <2>1. \A s \in Runs : <<c, s>> \in Jobs \ {j}
    BY <1>5, JobNames
  <2>2. Untouched(c)
    BY <1>1, <1>4, <1>5, <2>1 DEF Untouched, OnlyJob
  <2> QED BY <1>1, <2>2, UntouchedKeeps
<1>7. \A s \in Runs \ {r} : /\ <<d, s>> \in Jobs \ {j} /\ Doc(<<d, s>>) = d
                            /\ SameJob(<<d, s>>)
  BY <1>5, JobNames DEF OnlyJob
<1>8. \A s \in Runs \ {r} : /\ JobHolds(<<d, s>>)' = JobHolds(<<d, s>>)
                            /\ SameDoc(d) => JobInHand(<<d, s>>)' = JobInHand(<<d, s>>)
  BY <1>7, JobUnmoved
<1>9. OneHolder(d)'
  <2>1. CASE JobHolds(j)
    <3>1. ~ Starting(d)' /\ \A s \in Runs \ {r} : ~ JobHolds(<<d, s>>)'
      BY <1>1, <1>4, <1>5, <1>8, <2>1, RunIsAlone
    <3>2. CASE JobHolds(j)' /\ JobInHand(j)'
      BY <1>5, <3>1, <3>2, HeldByRun
    <3>3. CASE ~ JobHolds(j)' /\ AtRest(status'[d], docType'[d], extraction'[d])
      <4>1. \A s \in Runs : ~ JobHolds(<<d, s>>)'
        BY <1>5, <3>1, <3>3
      <4> QED BY <3>1, <3>3, <4>1, HeldByNobody
    <3> QED BY <1>5, <2>1, <3>2, <3>3 DEF RunStep
  <2>2. CASE ~ JobHolds(j)
    <3>1. ~ JobHolds(j)' /\ SameDoc(d)
      BY <1>5, <2>2 DEF RunStep
    <3>2. \A s \in Runs :
            /\ JobHolds(<<d, s>>)' <=> JobHolds(<<d, s>>)
            /\ JobHolds(<<d, s>>) /\ JobInHand(<<d, s>>) => JobInHand(<<d, s>>)'
      BY <1>5, <1>8, <2>2, <3>1
    <3> QED BY <1>1, <1>4, <3>1, <3>2, DocUnmoved
  <2> QED BY <2>1, <2>2
<1> QED BY <1>2, <1>3, <1>5, <1>6, <1>9

-----------------------------------------------------------------------------
(* The extraction worker.                                                  *)

\* Where the extraction job of a run stands.
LEMMA ExtNow ==
  ASSUME RInv, NEW j \in Jobs, extQ[j].state # "absent"
  PROVE  /\ OcrClosed(ocrQ[j].state, ocrPc[j]) /\ ExtCourse(extQ[j].state, extPc[j])
         /\ JobHolds(j) <=> ExtHolds(extQ[j], extPc[j])
         /\ ExtHolds(extQ[j], extPc[j]) =>
              InExt(Run(j), status[Doc(j)], docType[Doc(j)], extraction[Doc(j)],
                    extQ[j].state, extPc[j])
<1>1. JobCourse(j) /\ OneHolder(Doc(j))
  BY JobNames DEF RInv
<1>2. OcrClosed(ocrQ[j].state, ocrPc[j]) /\ ExtCourse(extQ[j].state, extPc[j])
  BY <1>1 DEF JobCourse, Course, ExtCourse
<1>3. JobHolds(j) <=> ExtHolds(extQ[j], extPc[j])
  BY <1>2 DEF JobHolds, OcrHolds, ExtHolds, OcrClosed
<1>4. ASSUME JobHolds(j)
      PROVE  InExt(Run(j), status[Doc(j)], docType[Doc(j)], extraction[Doc(j)],
                   extQ[j].state, extPc[j])
  <2>1. JobInHand(j)
    BY <1>1, <1>4, RunIsAlone
  <2>2. ~ InOcr(status[Doc(j)], extraction[Doc(j)], ocrQ[j].state, ocrPc[j])
    BY <1>2 DEF InOcr, OcrClosed
  <2> QED BY <2>1, <2>2 DEF JobInHand, InHand
<1> QED BY <1>2, <1>3, <1>4

\* What a step of the extraction worker has to show of its job.
LEMMA ExtRunStep ==
  ASSUME RInv, NEW j \in Jobs, extQ[j].state # "absent", UNCHANGED <<ocrQ, ocrPc>>,
         NEW job, NEW e, extQ'[j] = job, extPc'[j] = e, ExtCourse(job.state, e),
         \/ /\ ExtHolds(extQ[j], extPc[j]) /\ ExtHolds(job, e)
            /\ InExt(Run(j), status'[Doc(j)], docType'[Doc(j)], extraction'[Doc(j)],
                     job.state, e)
         \/ /\ ExtHolds(extQ[j], extPc[j]) /\ ~ ExtHolds(job, e)
            /\ AtRest(status'[Doc(j)], docType'[Doc(j)], extraction'[Doc(j)])
         \/ /\ ~ ExtHolds(extQ[j], extPc[j]) /\ ~ ExtHolds(job, e)
            /\ SameDoc(Doc(j))
  PROVE  RunStep(j)
<1>1. /\ OcrClosed(ocrQ[j].state, ocrPc[j])
      /\ JobHolds(j) <=> ExtHolds(extQ[j], extPc[j])
  BY ExtNow
<1>2. JobCourse(j)'
  BY <1>1 DEF JobCourse, Course, ExtCourse
<1>3. JobHolds(j)' <=> ExtHolds(job, e)
  BY <1>1 DEF Again, JobHolds, OcrHolds, ExtHolds, OcrClosed
<1>4. ASSUME InExt(Run(j), status'[Doc(j)], docType'[Doc(j)], extraction'[Doc(j)],
                   job.state, e)
      PROVE  JobInHand(j)'
  BY <1>4 DEF JobInHand, InHand, Run, Doc
<1> QED BY <1>1, <1>2, <1>3, <1>4 DEF RunStep

\* A step within an execution: where the document stands before it.
LEMMA ExtInsideNow ==
  ASSUME RInv, NEW j \in Jobs, extPc[j] # "idle"
  PROVE  /\ extQ[j].state = "active"
         /\ ExtHolds(extQ[j], extPc[j]) =>
              InExt(Run(j), status[Doc(j)], docType[Doc(j)], extraction[Doc(j)],
                    "active", extPc[j])
<1>1. extQ[j].state = "active"
  BY DEF RInv, IInv, OneExecutionPerJob
<1> QED BY <1>1, ExtNow

LEMMA ExtInsideStep ==
  ASSUME RInv, NEW j \in Jobs, NEW from, NEW to, from # "idle", to # "idle",
         ExtStep(j, from, to), UNCHANGED extQ,
         \/ /\ ExtHolds(extQ[j], from) /\ ExtHolds(extQ[j], to)
            /\ InExt(Run(j), status'[Doc(j)], docType'[Doc(j)], extraction'[Doc(j)],
                     "active", to)
         \/ /\ ExtHolds(extQ[j], from) /\ ~ ExtHolds(extQ[j], to)
            /\ AtRest(status'[Doc(j)], docType'[Doc(j)], extraction'[Doc(j)])
         \/ /\ ~ ExtHolds(extQ[j], from) /\ ~ ExtHolds(extQ[j], to)
            /\ SameDoc(Doc(j))
  PROVE  RunStep(j) /\ extPc'[j] = to
<1>1. /\ extPc[j] = from /\ extPc \in [Jobs -> ExtPcs]
      /\ UNCHANGED <<ocrQ, ocrPc>>
  BY DEF ExtStep, RInv, IInv, TypeOK
<1>2. extPc'[j] = to
  BY <1>1 DEF ExtStep
<1>3. extQ[j].state = "active" /\ extQ'[j] = extQ[j]
  BY <1>1, ExtInsideNow
<1>4. ExtCourse(extQ[j].state, to)
  BY <1>3 DEF ExtCourse
<1>5. RunStep(j)
  BY <1>1, <1>2, <1>3, <1>4, ExtRunStep
<1> QED BY <1>2, <1>5

\* A job that failed is handed out again or given up.
LEMMA AgainOrNot ==
  ASSUME NEW job, GoodJob(job)
  PROVE  /\ Failed(job).state = IF Again(job) THEN "delayed" ELSE "failed"
         /\ Promoted(job).state = "waiting"
BY JobOperations DEF Again

\* A job that is handed out again shows that jobs are retried.
LEMMA MoreThanOne ==
  ASSUME RInv, NEW j \in Jobs, Again(ocrQ[j]) \/ Again(extQ[j]), Faults # {}
  PROVE  Retrying
<1>1. ASSUME NEW job \in JobRecords, Again(job) PROVE MaxAttempts > 1
  <2>1. job.made + 1 < MaxAttempts /\ job.made \in Nat
    BY <1>1 DEF Again, Failed, Finished, JobRecords
  <2> QED BY <2>1
<1>2. ocrQ[j] \in JobRecords /\ extQ[j] \in JobRecords
  BY DEF RInv, IInv, TypeOK
<1> QED BY <1>1, <1>2 DEF Retrying

LEMMA ExtStatusRun ==
  ASSUME RInv, NEW j \in Jobs, NEW from, NEW to, NEW s,
         ExtSetStatus(j, from, to, s),
         \/ from = "empty" /\ to = "auditEmpty" /\ s = "failed"
         \/ from = "mark" /\ to = "classify" /\ s = "extracting"
         \/ from = "decide" /\ to = "auditExtracted" /\ s = Outcome(decision[j])
         \/ from = "catch" /\ to = "auditFailed" /\ s = "failed"
  PROVE  RunStep(j) /\ extPc'[j] = to /\ LStep
<1> DEFINE d == Doc(j)
<1>1. d \in Documents /\ TypeOK
  BY JobNames DEF RInv, IInv
<1>2. /\ extPc[j] = from /\ ExtStep(j, from, to) /\ SetStatus(d, s)
      /\ UNCHANGED <<docType, extraction, extQ, decision>>
  BY DEF ExtSetStatus, ExtStep
<1>3. status'[d] = s
  BY <1>1, <1>2 DEF SetStatus, TypeOK
<1>4. from # "idle" /\ to # "idle" /\ ExtHolds(extQ[j], from)
  BY DEF ExtHolds
<1>5. /\ extQ[j].state = "active"
      /\ InExt(Run(j), status[d], docType[d], extraction[d], "active", from)
  BY <1>2, <1>4, ExtInsideNow
<1>6. extraction[d] \in Inserts => extraction[d] # NoRow
  BY InsertsAreRows
<1>7. CASE from = "mark"
  <2>1. status[d] \in {"extracted", "failed"} /\ extraction[d] = NoRow
    BY <1>5, <1>7 DEF InExt, Between
  <2>2. ExtHolds(extQ[j], to)
    BY <1>7 DEF ExtHolds
  <2>3. InExt(Run(j), s, docType[d], extraction[d], "active", to)
    BY <1>7, <2>1 DEF InExt
  <2>4. RunStep(j) /\ extPc'[j] = to
    BY <1>2, <1>3, <1>4, <2>2, <2>3, ExtInsideStep
  <2> QED BY <1>1, <1>2, <1>7, <2>1, <2>4, Moves
<1>8. CASE from = "decide"
  <2>1. ~ ExtHolds(extQ[j], to)
    BY <1>5, <1>8 DEF ExtHolds
  <2>2. /\ status[d] = "extracting" /\ docType[d] = "invoice"
        /\ extraction[d] # NoRow
    BY <1>5, <1>6, <1>8 DEF InExt
  <2>3. s \in {"approved", "pending_review"}
    BY <1>8 DEF Outcome
  <2>4. AtRest(s, docType[d], extraction[d])
    BY <2>2, <2>3 DEF AtRest, Reviewed
  <2>5. RunStep(j) /\ extPc'[j] = to
    BY <1>2, <1>3, <1>4, <2>1, <2>4, ExtInsideStep
  <2> QED BY <1>1, <1>2, <2>2, <2>3, <2>5, Moves
<1>9. CASE from \in {"empty", "catch"}
  <2> SUFFICES RunStep(j) /\ extPc'[j] = to
    <3>1. status[d] \in {"extracted", "extracting", "failed"} /\ s = "failed"
      BY <1>5, <1>9 DEF InExt, Between
    <3> QED BY <1>1, <1>2, <3>1, Moves
  <2>1. /\ status[d] \in {"extracted", "extracting", "failed"} /\ extraction[d] = NoRow
        /\ s = "failed" /\ to \in {"auditEmpty", "auditFailed"}
        /\ to = "auditFailed" => from = "catch"
    BY <1>5, <1>9 DEF InExt, Between
  <2>2. CASE ExtHolds(extQ[j], to)
    <3>1. to = "auditFailed" /\ Again(extQ[j])
      BY <1>5, <2>1, <2>2 DEF ExtHolds
    <3>2. Retrying
      <4>1. Faults # {}
        BY <1>2, <2>1, <3>1 DEF RInv, NothingFails
      <4> QED BY <3>1, <4>1, MoreThanOne
    <3>3. InExt(Run(j), s, docType[d], extraction[d], "active", to)
      BY <2>1, <3>1, <3>2 DEF InExt, Between
    <3> QED BY <1>2, <1>3, <1>4, <2>2, <3>3, ExtInsideStep
  <2>3. CASE ~ ExtHolds(extQ[j], to)
    <3>1. AtRest(s, docType[d], extraction[d])
      BY <2>1 DEF AtRest
    <3> QED BY <1>2, <1>3, <1>4, <2>3, <3>1, ExtInsideStep
  <2> QED BY <2>2, <2>3
<1> QED BY <1>7, <1>8, <1>9

\* Steps of an execution that has given its document up, and the queue's part.
LEMMA ExtAsideRun ==
  ASSUME RInv, NEW j \in Jobs, NEW from, NEW to, ExtStep(j, from, to),
         UNCHANGED <<status, docType, extraction>>,
         \/ /\ UNCHANGED extQ
            /\ from \in {"auditEmpty", "auditUnknown", "auditExtracted",
                         "auditDecision", "notify"}
            /\ to \in {"return", "auditDecision", "notify"}
         \/ from = "return" /\ to = "idle" /\ extQ'[j].state = "completed"
  PROVE  RunStep(j) /\ extPc'[j] = to /\ LStep
<1>1. /\ extPc[j] = from /\ extPc'[j] = to /\ UNCHANGED <<ocrQ, ocrPc>>
  BY DEF ExtStep, RInv, IInv, TypeOK
<1>2. extQ[j].state = "active"
  BY <1>1, ExtInsideNow
<1>3. PICK job : extQ'[j] = job
  OBVIOUS
<1>4. \/ job.state = "active" /\ to # "idle"
      \/ job.state = "completed" /\ to = "idle"
  BY <1>2, <1>3
<1>5. /\ ExtCourse(job.state, to)
      /\ ~ ExtHolds(extQ[j], from) /\ ~ ExtHolds(job, to)
  BY <1>2, <1>4 DEF ExtCourse, ExtHolds
<1>6. SameDoc(Doc(j))
  BY DEF SameDoc
<1>7. RunStep(j)
  BY <1>1, <1>2, <1>3, <1>5, <1>6, ExtRunStep
<1>8. LStep
  BY DEF LStep
<1> QED BY <1>1, <1>7, <1>8

\* A failing execution, and the queue's part: the document stays in hand while
\* its job is to be handed out again.
LEMMA ExtFailingRun ==
  ASSUME RInv, NEW j \in Jobs, NEW from, NEW to, ExtStep(j, from, to),
         UNCHANGED <<status, docType, extraction>>,
         \/ from = "auditFailed" /\ to = "fail" /\ UNCHANGED extQ
         \/ from = "fail" /\ to = "idle" /\ extQ'[j] = Failed(extQ[j])
         \/ /\ from = "idle" /\ to = "idle" /\ extQ[j].state = "delayed"
            /\ extQ'[j] = Promoted(extQ[j])
  PROVE  RunStep(j) /\ extPc'[j] = to /\ LStep
<1> DEFINE d == Doc(j)
<1>1. /\ extPc[j] = from /\ extPc'[j] = to /\ UNCHANGED <<ocrQ, ocrPc>>
      /\ GoodJob(extQ[j])
  BY DEF ExtStep, RInv, IInv, TypeOK, OneExecutionPerJob, GoodJob
<1>2. extQ[j].state = IF from = "idle" THEN "delayed" ELSE "active"
  BY <1>1, ExtInsideNow
<1>3. PICK job : extQ'[j] = job
  OBVIOUS
<1>4. SameDoc(d) /\ LStep
  BY DEF SameDoc, LStep
<1>5. \/ job.state = "active" /\ to = "fail" /\ job = extQ[j]
      \/ job.state = "delayed" /\ to = "idle" /\ from = "fail" /\ Again(extQ[j])
      \/ job.state = "failed" /\ to = "idle" /\ from = "fail" /\ ~ Again(extQ[j])
      \/ job.state = "waiting" /\ to = "idle" /\ from = "idle"
  BY <1>1, <1>2, <1>3, AgainOrNot
<1>6. ExtCourse(job.state, to) /\ (ExtHolds(job, to) <=> ExtHolds(extQ[j], from))
  BY <1>2, <1>5 DEF ExtCourse, ExtHolds
<1>7. CASE ExtHolds(extQ[j], from)
  <2>1. InExt(Run(j), status[d], docType[d], extraction[d],
              extQ[j].state, from)
    BY <1>1, <1>2, <1>7, ExtNow
  <2>2. Between(status[d]) /\ extraction[d] = NoRow
    BY <1>2, <2>1 DEF InExt
  <2>3. InExt(Run(j), status[d], docType[d], extraction[d], job.state, to)
    BY <1>5, <1>6, <1>7, <2>2 DEF InExt, ExtHolds
  <2>4. RunStep(j)
    BY <1>1, <1>2, <1>3, <1>6, <1>7, <2>3, ExtRunStep
  <2> QED BY <1>1, <1>4, <2>4
<1>8. CASE ~ ExtHolds(extQ[j], from)
  <2>1. RunStep(j)
    BY <1>1, <1>2, <1>3, <1>4, <1>6, <1>8, ExtRunStep
  <2> QED BY <1>1, <1>4, <2>1
<1> QED BY <1>7, <1>8

\* The classifier's answers, the invoice of the LLM, and the errors of both.
LEMMA ExtAnswersRun ==
  ASSUME RInv, NEW j \in Jobs,
         \/ ExtUnknown(j) \/ ExtInvoice(j) \/ \E inv \in Invoices : ExtInsert(j, inv)
         \/ extPc[j] \in {"classify", "insert"} /\ ExtError(j, "catch")
  PROVE  /\ RunStep(j) /\ LStep
         /\ extPc'[j] = "catch" => ExtError(j, "catch")
         /\ extPc'[j] \in {"auditUnknown", "insert", "decide", "catch"}
<1> DEFINE d == Doc(j)
<1>1. /\ d \in Documents /\ TypeOK /\ Run(j) \in Runs
      /\ status \in [Documents -> Statuses \cup {"absent"}]
      /\ docType \in [Documents -> {"null", "invoice", "unknown"}]
      /\ extraction \in [Documents -> ExtractionRows]
      /\ decision \in [Jobs -> Decisions \cup {"none"}]
  BY JobNames DEF RInv, IInv, TypeOK
<1>2. extPc[j] \in {"classify", "insert"} /\ UNCHANGED extQ
  BY DEF ExtUnknown, ExtInvoice, ExtInsert, ExtError, ExtStep
<1>3. /\ extPc[j] # "idle" /\ ExtHolds(extQ[j], extPc[j])
      /\ extQ[j].state = "active"
  BY <1>2, ExtInsideNow DEF ExtHolds
<1>4. InExt(Run(j), status[d], docType[d], extraction[d], "active", extPc[j])
  BY <1>3, ExtInsideNow
<1>5. /\ status[d] = "extracting" /\ extraction[d] = NoRow
      /\ extPc[j] = "insert" => docType[d] = "invoice"
  BY <1>2, <1>4 DEF InExt
<1>6. CASE ExtUnknown(j)
  <2>1. /\ ExtStep(j, extPc[j], "auditUnknown") /\ UNCHANGED extraction
        /\ SetStatus(d, "pending_review") /\ docType'[d] = "unknown"
    BY <1>1, <1>6 DEF ExtUnknown, ExtStep
  <2>2. status'[d] = "pending_review"
    BY <1>1, <2>1 DEF SetStatus
  <2>3. AtRest(status'[d], docType'[d], extraction'[d])
    BY <1>5, <2>1, <2>2 DEF AtRest, Reviewed
  <2>4. ~ ExtHolds(extQ[j], "auditUnknown")
    BY <1>3 DEF ExtHolds
  <2>5. RunStep(j) /\ extPc'[j] = "auditUnknown"
    BY <1>2, <1>3, <2>1, <2>3, <2>4, ExtInsideStep
  <2>6. LStep
    BY <1>1, <1>5, <2>1, Moves
  <2> QED BY <2>5, <2>6
<1>7. CASE ExtInvoice(j)
  <2>1. /\ ExtStep(j, extPc[j], "insert") /\ UNCHANGED <<status, extraction>>
        /\ docType'[d] = "invoice"
    BY <1>1, <1>7 DEF ExtInvoice, ExtStep
  <2>2. InExt(Run(j), status'[d], docType'[d], extraction'[d], "active",
              "insert")
    BY <1>5, <2>1 DEF InExt
  <2>3. ExtHolds(extQ[j], "insert")
    BY DEF ExtHolds
  <2>4. RunStep(j) /\ extPc'[j] = "insert"
    BY <1>2, <1>3, <2>1, <2>2, <2>3, ExtInsideStep
  <2>5. LStep
    BY <2>1 DEF LStep
  <2> QED BY <2>4, <2>5
<1>8. ASSUME NEW inv \in Invoices, ExtInsert(j, inv)
      PROVE  RunStep(j) /\ LStep /\ extPc'[j] = "decide"
  <2>1. /\ ExtStep(j, extPc[j], "decide") /\ UNCHANGED <<status, docType>>
        /\ docType[d] = "invoice"
    BY <1>5, <1>8 DEF ExtInsert, ExtStep
  <2>2. PICK kept \in Stored(inv) :
          extraction' = [extraction EXCEPT ![d] =
            Inserted(@, [run |-> Run(j), invoice |-> kept, edited |-> FALSE])]
    BY <1>8 DEF ExtInsert
  <2> DEFINE row == [run |-> Run(j), invoice |-> kept, edited |-> FALSE]
  <2>3. Inserted(extraction[d], row) = row
    BY <1>5 DEF Inserted
  <2>4. row \in Inserts /\ row.run = Run(j)
    BY <1>1 DEF Inserts, StoredInvoices
  <2>5. row # NoRow
    BY <2>4, InsertsAreRows
  <2>6. extraction' = [extraction EXCEPT ![d] = row] /\ extraction'[d] = row
    BY <1>1, <2>2, <2>3
  <2> HIDE DEF row
  <2>7. InExt(Run(j), status'[d], docType'[d], extraction'[d], "active", "decide")
    BY <1>5, <2>1, <2>4, <2>6 DEF InExt
  <2>8. ExtHolds(extQ[j], "decide")
    BY DEF ExtHolds
  <2>9. RunStep(j) /\ extPc'[j] = "decide"
    BY <1>2, <1>3, <2>1, <2>7, <2>8, ExtInsideStep
  <2>10. LStep
    BY <1>1, <1>5, <2>1, <2>5, <2>6, Stores
  <2> QED BY <2>9, <2>10
<1>9. CASE ExtError(j, "catch")
  <2>1. /\ ExtStep(j, extPc[j], "catch")
        /\ UNCHANGED <<status, docType, extraction, decision>>
    BY <1>9 DEF ExtError
  <2>2. InExt(Run(j), status'[d], docType'[d], extraction'[d], "active",
              "catch")
    BY <1>5, <2>1 DEF InExt
  <2>3. ExtHolds(extQ[j], "catch")
    BY DEF ExtHolds
  <2>4. RunStep(j) /\ extPc'[j] = "catch"
    BY <1>2, <1>3, <2>1, <2>2, <2>3, ExtInsideStep
  <2>5. LStep
    BY <2>1 DEF LStep
  <2> QED BY <1>9, <2>4, <2>5
<1> QED BY <1>6, <1>7, <1>8, <1>9

\* Every step of the extraction worker is one on its own run's job.
LEMMA ExtRunSteps ==
  ASSUME ProvidersFail, RInv, NEW j \in Jobs, ExtProgress(j) \/ ExtFault(j)
  PROVE  /\ ExtProgress(j) \/ ExtThrow(j)
         /\ RunStep(j) /\ LStep
         /\ Faults = {} => extPc'[j] \notin {"catch", "auditFailed", "fail"}
<1>1. /\ TypeOK /\ GoodJob(extQ[j]) /\ Doc(j) \in Documents
      /\ extQ \in [Jobs -> JobRecords] /\ extPc \in [Jobs -> ExtPcs]
  BY JobNames DEF RInv, IInv, TypeOK, OneExecutionPerJob, GoodJob
<1>2. "store" \notin Faults /\ "crash" \notin Faults
  BY DEF ProvidersFail
<1>3. ExtProgress(j) \/ ExtThrow(j)
  BY <1>2 DEF ExtFault, ExtUnconfirmed, ExtAbort, ExtCrash
<1>4. JobCourse(j) /\ (Faults = {} => extPc[j] \notin {"catch", "auditFailed", "fail"})
  BY DEF RInv, NothingFails
<1>5. CASE ExtStart(j)
  <2>1. /\ extQ[j].state = "waiting" /\ extPc[j] = "idle"
        /\ extQ'[j].state = "active" /\ extPc'[j] = FirstStep(Doc(j))
        /\ UNCHANGED <<status, docType, extraction, ocrQ, ocrPc>>
    BY <1>1, <1>5, JobOperations DEF ExtStart, ExtStep
  <2>2. /\ ExtHolds(extQ[j], "idle") /\ extraction[Doc(j)] = NoRow
        /\ status[Doc(j)] = "extracted" \/ Between(status[Doc(j)])
    <3>1. ExtHolds(extQ[j], "idle")
      BY <2>1 DEF ExtHolds
    <3> QED BY <2>1, <3>1, ExtNow DEF InExt
  <2>3. FirstStep(Doc(j)) \in {"mark", "empty"}
    BY <2>2 DEF FirstStep, AlreadyProcessed
  <2>4. /\ ExtCourse("active", FirstStep(Doc(j)))
        /\ \A job : ExtHolds(job, FirstStep(Doc(j)))
    BY <2>3 DEF ExtCourse, ExtHolds
  <2>5. InExt(Run(j), status'[Doc(j)], docType'[Doc(j)], extraction'[Doc(j)],
              "active", FirstStep(Doc(j)))
    BY <2>1, <2>2, <2>3 DEF InExt
  <2>6. RunStep(j)
    BY <2>1, <2>2, <2>4, <2>5, ExtRunStep
  <2> QED BY <1>3, <2>1, <2>3, <2>6 DEF LStep
<1>6. CASE ExtEmpty(j) \/ ExtMark(j) \/ ExtDecide(j) \/ ExtCatch(j)
  <2>1. PICK from, to, s :
          /\ ExtSetStatus(j, from, to, s)
          /\ \/ from = "empty" /\ to = "auditEmpty" /\ s = "failed"
             \/ from = "mark" /\ to = "classify" /\ s = "extracting"
             \/ from = "decide" /\ to = "auditExtracted" /\ s = Outcome(decision[j])
             \/ from = "catch" /\ to = "auditFailed" /\ s = "failed"
    BY <1>6 DEF ExtEmpty, ExtMark, ExtDecide, ExtCatch
  <2>2. extPc[j] = from
    BY <2>1 DEF ExtSetStatus, ExtStep
  <2>3. RunStep(j) /\ extPc'[j] = to /\ LStep
    BY <2>1, ExtStatusRun
  <2> QED BY <1>3, <1>4, <2>1, <2>2, <2>3
<1>7. CASE \/ ExtAuditEmpty(j) \/ ExtAuditUnknown(j) \/ ExtAuditExtracted(j)
           \/ ExtAuditDecision(j) \/ ExtNotify(j) \/ ExtReturn(j)
  <2>1. PICK from, to :
          /\ ExtStep(j, from, to) /\ UNCHANGED <<status, docType, extraction>>
          /\ \/ /\ UNCHANGED extQ
                /\ from \in {"auditEmpty", "auditUnknown", "auditExtracted",
                             "auditDecision", "notify"}
                /\ to \in {"return", "auditDecision", "notify"}
             \/ from = "return" /\ to = "idle" /\ extQ'[j].state = "completed"
    <3>1. CASE ExtReturn(j)
      <4>1. /\ UNCHANGED <<status, docType, extraction>>
            /\ ExtStep(j, "return", "idle") /\ extQ'[j].state = "completed"
        BY <1>1, <3>1 DEF ExtReturn, ExtJob, Completed, Finished
      <4> QED BY <4>1
    <3>2. CASE \/ ExtAuditEmpty(j) \/ ExtAuditUnknown(j) \/ ExtAuditExtracted(j)
               \/ ExtAuditDecision(j) \/ ExtNotify(j)
      BY <3>2 DEF ExtAuditEmpty, ExtAuditUnknown, ExtAuditExtracted, ExtAuditDecision,
         ExtNotify, ExtAdd, ExtLog
    <3> QED BY <1>7, <3>1, <3>2
  <2>2. RunStep(j) /\ extPc'[j] = to /\ LStep
    BY <2>1, ExtAsideRun
  <2> QED BY <1>3, <2>1, <2>2
<1>8. CASE \/ ExtUnknown(j) \/ ExtInvoice(j) \/ (\E inv \in Invoices : ExtInsert(j, inv))
           \/ ExtThrow(j)
  <2>1. \/ ExtUnknown(j) \/ ExtInvoice(j) \/ \E inv \in Invoices : ExtInsert(j, inv)
        \/ extPc[j] \in {"classify", "insert"} /\ ExtError(j, "catch")
    BY <1>2, <1>8 DEF ExtThrow
  <2>2. ExtThrow(j) => Faults # {}
    BY DEF ExtThrow
  <2>3. /\ RunStep(j) /\ LStep
        /\ extPc'[j] = "catch" => ExtError(j, "catch")
        /\ extPc'[j] \in {"auditUnknown", "insert", "decide", "catch"}
    BY <2>1, ExtAnswersRun
  <2>4. extPc'[j] = "catch" => ExtThrow(j)
    <3>1. ExtUnknown(j) => extPc'[j] = "auditUnknown"
      BY <1>1 DEF ExtUnknown, ExtStep
    <3>2. ExtInvoice(j) => extPc'[j] = "insert"
      BY <1>1 DEF ExtInvoice, ExtStep
    <3>3. (\E inv \in Invoices : ExtInsert(j, inv)) => extPc'[j] = "decide"
      BY <1>1 DEF ExtInsert, ExtStep
    <3> QED BY <1>8, <3>1, <3>2, <3>3
  <2> QED BY <1>3, <2>2, <2>3, <2>4
<1>9. CASE ExtAuditFailed(j) \/ ExtFail(j) \/ ExtPromote(j)
  <2>1. PICK from, to :
          /\ ExtStep(j, from, to) /\ UNCHANGED <<status, docType, extraction>>
          /\ \/ from = "auditFailed" /\ to = "fail" /\ UNCHANGED extQ
             \/ from = "fail" /\ to = "idle" /\ extQ'[j] = Failed(extQ[j])
             \/ /\ from = "idle" /\ to = "idle" /\ extQ[j].state = "delayed"
                /\ extQ'[j] = Promoted(extQ[j])
    BY <1>1, <1>9 DEF ExtAuditFailed, ExtLog, ExtFail, ExtPromote, ExtJob
  <2>2. RunStep(j) /\ extPc'[j] = to /\ LStep
    BY <2>1, ExtFailingRun
  <2>3. extPc[j] = from
    BY <2>1 DEF ExtStep
  <2> QED BY <1>3, <1>4, <2>1, <2>2, <2>3
<1>10. ~ ExtRecover(j)
  BY <1>4 DEF JobCourse, Course, ExtCourse, ExtRecover
<1> QED BY <1>3, <1>5, <1>6, <1>7, <1>8, <1>9, <1>10 DEF ExtProgress

-----------------------------------------------------------------------------
(* The OCR worker.                                                         *)

\* Where the OCR job of a run stands before its extraction job is queued.
LEMMA OcrNow ==
  ASSUME RInv, NEW j \in Jobs, OcrOpen(ocrQ[j].state, ocrPc[j])
  PROVE  /\ extQ[j].state = "absent" /\ extPc[j] = "idle"
         /\ JobHolds(j) <=> OcrHolds(ocrQ[j], ocrPc[j])
         /\ OcrHolds(ocrQ[j], ocrPc[j]) =>
              InOcr(status[Doc(j)], extraction[Doc(j)], ocrQ[j].state, ocrPc[j])
<1>1. JobCourse(j) /\ OneHolder(Doc(j))
  BY JobNames DEF RInv
<1>2. extQ[j].state = "absent" /\ extPc[j] = "idle"
  BY <1>1 DEF JobCourse, Course, ExtCourse, OcrOpen, OcrClosed
<1>3. JobHolds(j) <=> OcrHolds(ocrQ[j], ocrPc[j])
  BY <1>2 DEF JobHolds, OcrHolds, ExtHolds
<1>4. ASSUME JobHolds(j)
      PROVE  InOcr(status[Doc(j)], extraction[Doc(j)], ocrQ[j].state, ocrPc[j])
  <2>1. JobInHand(j)
    BY <1>1, <1>4, RunIsAlone
  <2>2. ~ InExt(Run(j), status[Doc(j)], docType[Doc(j)], extraction[Doc(j)],
                extQ[j].state, extPc[j])
    BY <1>2 DEF InExt
  <2> QED BY <2>1, <2>2 DEF JobInHand, InHand
<1> QED BY <1>2, <1>3, <1>4

LEMMA OcrRunStep ==
  ASSUME RInv, NEW j \in Jobs, OcrOpen(ocrQ[j].state, ocrPc[j]),
         ocrQ[j].state # "absent", UNCHANGED <<extraction, extQ, extPc>>,
         NEW job, NEW o, ocrQ'[j] = job, ocrPc'[j] = o, OcrOpen(job.state, o),
         \/ /\ OcrHolds(ocrQ[j], ocrPc[j]) /\ OcrHolds(job, o)
            /\ InOcr(status'[Doc(j)], extraction[Doc(j)], job.state, o)
         \/ /\ OcrHolds(ocrQ[j], ocrPc[j]) /\ ~ OcrHolds(job, o)
            /\ AtRest(status'[Doc(j)], docType'[Doc(j)], extraction[Doc(j)])
         \/ /\ ~ OcrHolds(ocrQ[j], ocrPc[j]) /\ ~ OcrHolds(job, o)
            /\ SameDoc(Doc(j))
  PROVE  RunStep(j)
<1>1. /\ extQ[j].state = "absent" /\ extPc[j] = "idle"
      /\ JobHolds(j) <=> OcrHolds(ocrQ[j], ocrPc[j])
  BY OcrNow
<1>2. JobCourse(j)'
  BY <1>1 DEF JobCourse, Course
<1>3. JobHolds(j)' <=> OcrHolds(job, o)
  BY <1>1 DEF JobHolds, OcrHolds, ExtHolds, Again
<1>4. ASSUME InOcr(status'[Doc(j)], extraction[Doc(j)], job.state, o)
      PROVE  JobInHand(j)'
  BY <1>4 DEF JobInHand, InHand, Run, Doc
<1> QED BY <1>1, <1>2, <1>3, <1>4 DEF RunStep

\* Every step of the OCR worker is one on its own run's job.
LEMMA OcrRunSteps ==
  ASSUME ProvidersFail, RInv, NEW j \in Jobs, OcrProgress(j) \/ OcrFault(j)
  PROVE  /\ OcrProgress(j) \/ OcrThrow(j)
         /\ RunStep(j) /\ LStep
         /\ Faults = {} => ocrPc'[j] \notin {"catch", "fail"}
<1> DEFINE d == Doc(j)
<1>1. /\ TypeOK /\ GoodJob(ocrQ[j]) /\ d \in Documents /\ JobCourse(j)
      /\ ocrPc[j] # "idle" => ocrQ[j].state = "active"
      /\ status \in [Documents -> Statuses \cup {"absent"}]
      /\ ocrQ \in [Jobs -> JobRecords] /\ ocrPc \in [Jobs -> OcrPcs]
      /\ extQ \in [Jobs -> JobRecords]
  BY JobNames DEF RInv, IInv, TypeOK, OneExecutionPerJob, GoodJob
<1>2. "store" \notin Faults /\ "crash" \notin Faults
  BY DEF ProvidersFail
<1>3. OcrProgress(j) \/ OcrThrow(j)
  BY <1>2 DEF OcrFault, OcrUnconfirmed, OcrAbort, OcrCrash
<1>4. UNCHANGED <<docType, extraction, extPc, decision>>
  BY <1>1, <1>3, OcrOthers
<1>5. Faults = {} => ocrPc[j] \notin {"catch", "fail"}
  BY DEF RInv, NothingFails
<1>6. CASE OcrReturn(j)
  <2>1. /\ ocrPc[j] = "return" /\ ocrPc'[j] = "idle" /\ ocrQ'[j].state = "completed"
        /\ UNCHANGED <<status, extQ>> /\ ocrQ[j].state = "active"
    BY <1>1, <1>6, JobOperations DEF OcrReturn, OcrJob, OcrStep
  <2>2. extQ[j].state # "absent"
    BY <1>1, <2>1 DEF JobCourse, Course, ExtCourse, OcrOpen
  <2>3. /\ ExtCourse(extQ[j].state, extPc[j])
        /\ JobHolds(j) <=> ExtHolds(extQ[j], extPc[j])
        /\ ExtHolds(extQ[j], extPc[j]) =>
             InExt(Run(j), status[d], docType[d], extraction[d],
                  extQ[j].state, extPc[j])
    BY <2>2, ExtNow
  <2>4. JobCourse(j)'
    BY <1>4, <2>1, <2>3 DEF JobCourse, Course, ExtCourse, OcrClosed
  <2>5. JobHolds(j)' <=> ExtHolds(extQ[j], extPc[j])
    BY <1>4, <2>1 DEF JobHolds, OcrHolds, ExtHolds
  <2>6. InExt(Run(j), status[d], docType[d], extraction[d],
             extQ[j].state, extPc[j]) => JobInHand(j)'
    BY <1>4, <2>1 DEF JobInHand, InHand, Run, Doc
  <2>7. SameDoc(d)
    BY <1>4, <2>1 DEF SameDoc
  <2>8. RunStep(j)
    BY <2>1, <2>3, <2>4, <2>5, <2>6, <2>7 DEF RunStep
  <2> QED BY <1>3, <1>4, <2>1, <2>8 DEF LStep
<1>7. CASE OcrEnqueue(j)
  <2>1. /\ ocrPc[j] = "enqueue" /\ ocrPc'[j] = "return" /\ UNCHANGED <<status, ocrQ>>
        /\ extQ'[j] = Added(extQ[j]) /\ ocrQ[j].state = "active"
    BY <1>1, <1>7 DEF OcrEnqueue, OcrAdd, OcrStep
  <2>2. OcrOpen(ocrQ[j].state, ocrPc[j]) /\ OcrHolds(ocrQ[j], ocrPc[j])
    BY <2>1 DEF OcrOpen, OcrHolds
  <2>3. /\ extQ[j].state = "absent" /\ extPc[j] = "idle" /\ JobHolds(j)
        /\ status[d] = "extracted" /\ extraction[d] = NoRow
    BY <2>1, <2>2, OcrNow DEF InOcr
  <2>4. extQ'[j].state = "waiting"
    BY <2>1, <2>3 DEF Added, Finished
  <2>5. JobCourse(j)' /\ JobHolds(j)'
    BY <1>4, <2>1, <2>3, <2>4 DEF JobCourse, Course, ExtCourse, OcrClosed,
       JobHolds, OcrHolds, ExtHolds
  <2>6. InExt(Run(j), status[d], docType[d], extraction[d], "waiting",
              extPc[j])
    BY <2>3 DEF InExt
  <2>7. JobInHand(j)'
    BY <1>4, <2>1, <2>4, <2>6 DEF JobInHand, InHand, Run, Doc
  <2>8. RunStep(j)
    BY <2>1, <2>3, <2>5, <2>7 DEF RunStep
  <2> QED BY <1>3, <1>4, <2>1, <2>8 DEF LStep
<1>8. CASE OcrStart(j) \/ OcrFail(j) \/ OcrPromote(j)
  <2>1. PICK job, o :
          /\ UNCHANGED <<status, extQ>> /\ ocrQ'[j] = job /\ ocrPc'[j] = o
          /\ \/ /\ ocrQ[j].state = "waiting" /\ ocrPc[j] = "idle"
                /\ job.state = "active" /\ o = "mark"
             \/ /\ ocrQ[j].state = "active" /\ ocrPc[j] = "fail" /\ o = "idle"
                /\ job.state = IF Again(ocrQ[j]) THEN "delayed" ELSE "failed"
             \/ /\ ocrQ[j].state = "delayed" /\ ocrPc[j] = "idle"
                /\ job.state = "waiting" /\ o = "idle"
    <3>1. CASE OcrStart(j)
      BY <1>1, <3>1, JobOperations DEF OcrStart, OcrStep
    <3>2. CASE OcrFail(j)
      BY <1>1, <3>2, AgainOrNot DEF OcrFail, OcrJob, OcrStep
    <3>3. CASE OcrPromote(j)
      BY <1>1, <3>3, AgainOrNot DEF OcrPromote, OcrJob, OcrStep
    <3> QED BY <1>8, <3>1, <3>2, <3>3
  <2>2. /\ OcrOpen(ocrQ[j].state, ocrPc[j]) /\ OcrOpen(job.state, o)
        /\ ocrQ[j].state # "absent"
    BY <2>1 DEF OcrOpen
  <2>3. OcrHolds(ocrQ[j], ocrPc[j]) <=> OcrHolds(job, o)
    BY <2>1 DEF OcrHolds
  <2>4. OcrHolds(ocrQ[j], ocrPc[j]) => InOcr(status[d], extraction[d], job.state, o)
    BY <2>1, <2>2, OcrNow DEF InOcr, OcrHolds
  <2>5. SameDoc(d)
    BY <1>4, <2>1 DEF SameDoc
  <2>6. RunStep(j)
    BY <1>4, <2>1, <2>2, <2>3, <2>4, <2>5, OcrRunStep
  <2> QED BY <1>3, <1>4, <2>1, <2>6 DEF LStep
<1>9. CASE \/ OcrMark(j) \/ (\E text \in OcrTexts : OcrDetect(j, text)) \/ OcrAudit(j)
           \/ OcrCatch(j) \/ OcrThrow(j)
  <2>1. /\ UNCHANGED queues
        /\ \E s : /\ SetStatus(d, s) /\ status'[d] = s
                  /\ \/ ocrPc[j] = "mark" /\ ocrPc'[j] = "detect" /\ s = "ocr_processing"
                     \/ ocrPc[j] = "detect" /\ ocrPc'[j] = "audit" /\ s = "extracted"
                     \/ ocrPc[j] = "audit" /\ ocrPc'[j] = "enqueue" /\ s = status[d]
                     \/ ocrPc[j] = "catch" /\ ocrPc'[j] = "fail" /\ s = "failed"
                     \/ /\ ocrPc[j] = "detect" /\ ocrPc'[j] = "catch" /\ s = status[d]
                        /\ OcrThrow(j)
    <3>1. UNCHANGED status => SetStatus(d, status[d]) /\ status'[d] = status[d]
      BY <1>1 DEF SetStatus
    <3>2. \A s : SetStatus(d, s) => status'[d] = s
      BY <1>1 DEF SetStatus
    <3> HIDE DEF d
    <3> QED BY <1>1, <1>2, <1>9, <3>1, <3>2
            DEF OcrMark, OcrDetect, OcrAudit, OcrCatch, OcrThrow, OcrStep, d
  <2>2. PICK s : /\ SetStatus(d, s) /\ status'[d] = s
                 /\ \/ ocrPc[j] = "mark" /\ ocrPc'[j] = "detect" /\ s = "ocr_processing"
                    \/ ocrPc[j] = "detect" /\ ocrPc'[j] = "audit" /\ s = "extracted"
                    \/ ocrPc[j] = "audit" /\ ocrPc'[j] = "enqueue" /\ s = status[d]
                    \/ ocrPc[j] = "catch" /\ ocrPc'[j] = "fail" /\ s = "failed"
                    \/ /\ ocrPc[j] = "detect" /\ ocrPc'[j] = "catch" /\ s = status[d]
                       /\ OcrThrow(j)
    BY <2>1
  <2>3. ocrQ[j].state = "active" /\ ocrQ'[j] = ocrQ[j] /\ UNCHANGED extQ
    BY <1>1, <2>1, <2>2 DEF queues
  <2>4. /\ OcrOpen("active", ocrPc[j]) /\ OcrOpen("active", ocrPc'[j])
        /\ OcrHolds(ocrQ[j], ocrPc[j])
        /\ ocrPc'[j] = "fail" \/ OcrHolds(ocrQ[j], ocrPc'[j])
    BY <2>2 DEF OcrOpen, OcrHolds
  <2>5. InOcr(status[d], extraction[d], "active", ocrPc[j]) /\ JobHolds(j)
    BY <2>3, <2>4, OcrNow
  <2>6. RunStep(j)
    <3>1. CASE OcrHolds(ocrQ[j], ocrPc'[j])
      <4>1. ocrPc'[j] = "fail" => Again(ocrQ[j]) /\ Faults # {}
        BY <1>5, <2>2, <2>3, <3>1 DEF OcrHolds
      <4>2. ocrPc'[j] = "fail" => Retrying
        BY <4>1, MoreThanOne
      <4>3. InOcr(s, extraction[d], "active", ocrPc'[j])
        BY <2>2, <2>5, <4>2 DEF InOcr, Between
      <4> QED BY <1>4, <2>2, <2>3, <2>4, <3>1, <4>3, OcrRunStep
    <3>2. CASE ~ OcrHolds(ocrQ[j], ocrPc'[j])
      <4>1. AtRest(s, docType'[d], extraction[d])
        BY <2>2, <2>4, <2>5, <3>2 DEF InOcr, AtRest
      <4> QED BY <1>4, <2>2, <2>3, <2>4, <3>2, <4>1, OcrRunStep
    <3> QED BY <3>1, <3>2
  <2>7. LStep
    <3>1. CASE s = status[d]
      BY <1>1, <1>4, <2>2, <3>1 DEF LStep, SetStatus
    <3>2. CASE s # status[d]
      <4>1. \/ status[d] \in {"uploaded", "failed"} /\ s = "ocr_processing"
            \/ status[d] = "ocr_processing" /\ s \in {"extracted", "failed"}
        BY <2>2, <2>3, <2>5, <3>2 DEF InOcr, Between
      <4> QED BY <1>1, <1>4, <2>2, <4>1, Moves
    <3> QED BY <3>1, <3>2
  <2>8. ~ (Faults = {} /\ OcrThrow(j))
    <3> SUFFICES ASSUME Faults = {}, OcrThrow(j) PROVE FALSE
      OBVIOUS
    <3>1. ~ stored[d]
      BY DEF OcrThrow
    <3>2. OneHolder(d)
      BY <1>1 DEF RInv
    <3>3. ~ Starting(d)
      BY <2>5, <3>2, RunIsAlone
    <3>4. uploadPc[d] # "none"
      BY <2>3, JobsAreOfUploads DEF RInv
    <3>5. uploadPc[d] \in UploadPcs
      BY <1>1 DEF TypeOK
    <3>6. uploadPc[d] \notin {"store", "key", "audit", "enqueue", "catch"}
      BY <3>3 DEF Starting, Uploading
    <3>7. uploadPc[d] = "done"
      BY <3>4, <3>5, <3>6 DEF UploadPcs
    <3> QED BY <1>1, <3>1, <3>7 DEF RInv, NothingFails
  <2> QED BY <1>3, <1>5, <2>2, <2>6, <2>7, <2>8
<1>10. ~ OcrRecover(j)
  BY <1>1 DEF JobCourse, Course, ExtCourse, OcrOpen, OcrClosed, OcrRecover
<1> QED BY <1>3, <1>6, <1>7, <1>8, <1>9, <1>10 DEF OcrProgress

-----------------------------------------------------------------------------
(* Uploads.                                                                *)

\* Every step of an upload is one on its own document, which has no other job
\* than the one the upload adds.
LEMMA UploadRunSteps ==
  ASSUME ProvidersFail, RInv, NEW d \in Documents,
         UploadInsert(d) \/ UploadProgress(d) \/ UploadThrow(d)
           \/ UploadUnconfirmed(d) \/ UploadLost(d)
  PROVE  /\ LStep /\ OwnIds' /\ NothingFails'
         /\ \A j \in Jobs : JobCourse(j)'
         /\ \A c \in Documents : OneHolder(c)'
<1> DEFINE j0 == <<d, Initial>>
<1>1. /\ TypeOK /\ OneHolder(d) /\ OwnIds /\ NothingFails /\ j0 \in Jobs
      /\ \A j \in Jobs : JobCourse(j)
      /\ \A c \in Documents : OneHolder(c)
      /\ status \in [Documents -> Statuses \cup {"absent"}]
      /\ stored \in [Documents -> BOOLEAN] /\ uploadPc \in [Documents -> UploadPcs]
      /\ ocrQ \in [Jobs -> JobRecords]
      /\ uploadPc[d] = "enqueue" => stored[d]
      /\ uploadPc[d] = "none" => status[d] = "absent"
  BY JobNames DEF RInv, IInv, TypeOK, UploadInv
<1>2. UploadInsert(d) \/ UploadProgress(d) \/ UploadThrow(d)
  BY DEF ProvidersFail, UploadUnconfirmed, UploadLost
<1>3. /\ UNCHANGED <<docType, extraction, ocrPc, extQ, extPc, decision, req>>
      /\ \E to : uploadPc' = [uploadPc EXCEPT ![d] = to]
      /\ UNCHANGED stored \/ stored' = [stored EXCEPT ![d] = TRUE]
      /\ uploadPc[d] # "done"
  BY <1>2 DEF UploadInsert, UploadProgress, UploadThrow, UploadStore, UploadKey,
     UploadAudit, UploadEnqueue, UploadAdd, UploadCatch, UploadStep, workers
<1>4. UNCHANGED status \/ \E s : SetStatus(d, s)
  BY <1>2 DEF UploadInsert, UploadProgress, UploadThrow, UploadStore, UploadKey,
     UploadAudit, UploadEnqueue, UploadAdd, UploadCatch
<1>5. \/ ocrQ' = ocrQ
      \/ /\ ocrQ' = [ocrQ EXCEPT ![j0] = Added(ocrQ[j0])]
         /\ uploadPc[d] = "enqueue" /\ uploadPc'[d] = "done" /\ UploadEnqueue(d)
  BY <1>1, <1>2 DEF UploadInsert, UploadProgress, UploadThrow, UploadStore, UploadKey,
     UploadAudit, UploadEnqueue, UploadAdd, UploadCatch, UploadStep
<1>6. /\ ocrQ[j0].state = "absent"
      /\ ocrPc[j0] = "idle" /\ extQ[j0].state = "absent" /\ extPc[j0] = "idle"
  BY <1>1, <1>3 DEF OwnIds, JobCourse, Course, ExtCourse, OcrOpen, OcrClosed
<1>7. \A j \in Jobs \ {j0} : SameJob(j)
  BY <1>1, <1>3, <1>5 DEF SameJob
<1>8. \A c \in Documents, a \in Reviewers : Restarting(a, c)' = Restarting(a, c)
  BY <1>3 DEF Restarting
<1>9. ASSUME NEW c \in Documents \ {d} PROVE OneHolder(c)'
  <2>1. \A r \in Runs : <<c, r>> \in Jobs \ {j0}
    BY JobNames
  <2>2. uploadPc'[c] = uploadPc[c]
    BY <1>1, <1>3
  <2>3. SameDoc(c)
    BY <1>1, <1>3, <1>4 DEF SameDoc, SetStatus
  <2>4. Untouched(c)
    BY <1>7, <1>8, <2>1, <2>2, <2>3 DEF Untouched
  <2> QED BY <1>1, <2>4, UntouchedKeeps
<1>10. OwnIds'
  <2>1. \A c \in Documents :
          uploadPc'[c] # "done" => ocrQ'[<<c, Initial>>].state = "absent"
    <3> SUFFICES ASSUME NEW c \in Documents, uploadPc'[c] # "done"
                 PROVE  ocrQ'[<<c, Initial>>].state = "absent"
      OBVIOUS
    <3>1. <<c, Initial>> \in Jobs /\ (c # d => <<c, Initial>> # j0)
      BY JobNames
    <3>2. uploadPc[c] # "done"
      BY <1>1, <1>3
    <3>3. ocrQ[<<c, Initial>>].state = "absent"
      BY <1>1, <3>2 DEF OwnIds
    <3> QED BY <1>1, <1>5, <3>1, <3>3
  <2>2. ASSUME NEW a \in Reviewers, req[a].op = "reprocess"
        PROVE  ocrQ'[<<req[a].doc, req[a].run>>].state = "absent"
    <3>1. /\ req[a].doc \in Documents /\ req[a].run \in Runs \ {Initial}
          /\ ocrQ[<<req[a].doc, req[a].run>>].state = "absent"
      BY <1>1, <2>2 DEF OwnIds
    <3>2. <<req[a].doc, req[a].run>> \in Jobs \ {j0}
      BY <3>1, JobNames
    <3> QED BY <1>1, <1>5, <3>1, <3>2
  <2> QED BY <1>1, <1>3, <2>1, <2>2 DEF OwnIds
<1>11. CASE UploadEnqueue(d)
  <2>1. /\ uploadPc[d] = "enqueue" /\ uploadPc'[d] = "done"
        /\ UNCHANGED <<status, stored>> /\ ocrQ'[j0] = Added(ocrQ[j0])
    BY <1>1, <1>11 DEF UploadEnqueue, UploadAdd, UploadStep
  <2>2. ocrQ'[j0].state = "waiting"
    BY <1>6, <2>1 DEF Added, Finished
  <2>3. /\ \A a \in Reviewers : ~ Restarting(a, d)
        /\ \A s \in Runs : ~ JobHolds(<<d, s>>)
        /\ status[d] = "uploaded" /\ extraction[d] = NoRow
    <3>1. Uploading(d)
      BY <2>1 DEF Uploading
    <3> QED BY <1>1, <3>1, UploadIsAlone
  <2>4. JobCourse(j0)'
    BY <1>3, <1>6, <2>2 DEF JobCourse, Course, ExtCourse, OcrOpen
  <2>5. JobHolds(j0)'
    BY <2>2 DEF JobHolds, OcrHolds, ExtHolds
  <2>6. JobInHand(j0)'
    <3>1. Doc(j0) = d
      BY JobNames
    <3>2. InOcr(status'[d], extraction'[d], ocrQ'[j0].state, ocrPc'[j0])
      BY <1>3, <2>1, <2>2, <2>3 DEF InOcr
    <3> QED BY <3>1, <3>2 DEF JobInHand, InHand, Doc
  <2>7. ~ Starting(d)'
    BY <1>8, <2>1, <2>3 DEF Starting, Uploading
  <2>8. \A s \in Runs \ {Initial} : ~ JobHolds(<<d, s>>)'
    <3>1. \A s \in Runs \ {Initial} : <<d, s>> \in Jobs \ {j0}
      BY JobNames
    <3> QED BY <1>7, <2>3, <3>1, JobUnmoved
  <2>9. OneHolder(d)'
    BY <2>5, <2>6, <2>7, <2>8, HeldByRun
  <2>10. \A j \in Jobs : JobCourse(j)'
    BY <1>1, <1>7, <2>4, JobUnmoved
  <2>11. NothingFails'
    BY <1>1, <1>3, <2>1 DEF NothingFails
  <2>12. LStep
    BY <1>3, <2>1 DEF LStep
  <2> QED BY <1>9, <1>10, <2>9, <2>10, <2>11, <2>12
<1>12. CASE ~ UploadEnqueue(d)
  <2>1. ocrQ' = ocrQ /\ \A j \in Jobs : SameJob(j)
    BY <1>3, <1>5, <1>12 DEF SameJob
  <2>2. /\ \A j \in Jobs : JobCourse(j)'
        /\ \A s \in Runs : JobHolds(<<d, s>>)' <=> JobHolds(<<d, s>>)
    BY <1>1, <2>1, JobUnmoved, JobNames
  <2>3. CASE UploadInsert(d)
    <3>1. /\ uploadPc[d] = "none" /\ uploadPc'[d] = "store" /\ stored' = stored
          /\ SetStatus(d, "uploaded") /\ status'[d] = "uploaded"
      BY <1>1, <2>3 DEF UploadInsert, UploadStep, SetStatus
    <3>2. /\ ~ Starting(d) /\ \A s \in Runs : ~ JobHolds(<<d, s>>)
          /\ status[d] = "absent" /\ AtRest(status[d], docType[d], extraction[d])
      BY <1>1, <3>1, StatusAtRest
    <3>3. extraction[d] = NoRow
      BY <3>2 DEF AtRest, Reviewed
    <3>4. Uploading(d)' /\ \A a \in Reviewers : ~ Restarting(a, d)'
      BY <1>8, <3>1, <3>2 DEF Uploading, Starting
    <3>5. OneHolder(d)'
      BY <1>3, <2>2, <3>1, <3>2, <3>3, <3>4, HeldByUpload
    <3>6. LStep
      BY <1>1, <1>3, <3>1, <3>2, Moves
    <3>7. NothingFails'
      BY <1>1, <1>3, <3>1 DEF NothingFails
    <3> QED BY <1>9, <1>10, <2>2, <3>5, <3>6, <3>7
  <2>4. CASE UploadProgress(d) \/ UploadThrow(d)
    <3>1. \/ /\ UploadCatch(d) /\ uploadPc[d] = "catch" /\ uploadPc'[d] = "done"
             /\ SetStatus(d, "failed") /\ status'[d] = "failed"
          \/ /\ uploadPc[d] \in {"store", "key", "audit", "enqueue"}
             /\ uploadPc'[d] \in {"key", "audit", "enqueue", "catch"}
             /\ uploadPc'[d] = "catch" => Faults # {}
             /\ UNCHANGED status
      BY <1>1, <1>12, <2>4 DEF UploadProgress, UploadStore, UploadKey, UploadAudit,
         UploadCatch, UploadThrow, UploadStep, SetStatus
    <3>2. Uploading(d)
      BY <3>1 DEF Uploading
    <3>3. /\ \A a \in Reviewers : ~ Restarting(a, d)
          /\ \A s \in Runs : ~ JobHolds(<<d, s>>)
          /\ status[d] = "uploaded" /\ extraction[d] = NoRow
      BY <1>1, <3>2, UploadIsAlone
    <3>4. CASE uploadPc[d] = "catch"
      <4>1. /\ uploadPc'[d] = "done" /\ SetStatus(d, "failed") /\ status'[d] = "failed"
        BY <3>1, <3>4
      <4>2. ~ Starting(d)'
        BY <1>8, <3>3, <4>1 DEF Starting, Uploading
      <4>3. AtRest(status'[d], docType'[d], extraction'[d])
        BY <1>3, <3>3, <4>1 DEF AtRest
      <4>4. OneHolder(d)'
        BY <2>2, <3>3, <4>2, <4>3, HeldByNobody
      <4>5. LStep
        BY <1>1, <1>3, <3>3, <4>1, Moves
      <4>6. NothingFails'
        BY <1>1, <3>4 DEF NothingFails
      <4> QED BY <1>9, <1>10, <2>2, <4>4, <4>5, <4>6
    <3>5. CASE uploadPc[d] # "catch"
      <4>1. /\ uploadPc'[d] \in {"key", "audit", "enqueue", "catch"}
            /\ uploadPc'[d] = "catch" => Faults # {}
            /\ UNCHANGED status
        BY <3>1, <3>5
      <4>2. Uploading(d)'
        BY <4>1 DEF Uploading
      <4>3. OneHolder(d)'
        BY <1>3, <1>8, <2>2, <3>3, <4>1, <4>2, HeldByUpload
      <4>4. LStep
        BY <1>3, <4>1 DEF LStep
      <4>5. NothingFails'
        BY <1>1, <1>3, <4>1 DEF NothingFails
      <4> QED BY <1>9, <1>10, <2>2, <4>3, <4>4, <4>5
    <3> QED BY <3>4, <3>5
  <2> QED BY <1>2, <2>3, <2>4
<1> QED BY <1>11, <1>12

-----------------------------------------------------------------------------
(* Requests.                                                               *)

\* A request that goes on or ends keeps the ids apart.
LEMMA OwnIdsKept ==
  ASSUME RInv, NEW a \in Reviewers, NEW r, req' = [req EXCEPT ![a] = r],
         UNCHANGED <<ocrQ, uploadPc>>, r.run \in {req[a].run, NoRun},
         r.op = "reprocess" => /\ req[a].op = "reprocess"
                               /\ r.doc = req[a].doc /\ r.run = req[a].run
  PROVE  OwnIds'
<1>1. OwnIds /\ req \in [Reviewers -> Requests]
  BY DEF RInv, IInv, TypeOK
<1>2. req'[a] = r /\ \A b \in Reviewers \ {a} : req'[b] = req[b]
  BY <1>1
<1>3. \A b \in Reviewers : req[b].op = "reprocess" => req[b].run # NoRun
  BY <1>1 DEF OwnIds
<1>4. ASSUME NEW b \in Reviewers, req'[b].op = "reprocess"
      PROVE  /\ req[b].op = "reprocess"
             /\ req'[b].doc = req[b].doc /\ req'[b].run = req[b].run
  BY <1>2, <1>4
<1>5. ASSUME NEW b \in Reviewers, NEW c \in Reviewers \ {b}, req'[b].op = "reprocess"
      PROVE  req'[c].run # req'[b].run
  <2>1. req[b].op = "reprocess" /\ req'[b].run = req[b].run
    BY <1>4, <1>5
  <2>2. req[c].run # req[b].run /\ req[b].run # NoRun
    BY <1>1, <1>3, <2>1 DEF OwnIds
  <2>3. req'[c].run \in {req[c].run, NoRun}
    BY <1>2
  <2> QED BY <2>1, <2>2, <2>3
<1> QED BY <1>1, <1>4, <1>5 DEF OwnIds

\* Steps of requests that leave everybody's jobs alone, and all documents but d.
LEMMA RequestOnly ==
  ASSUME RInv, NEW d, UNCHANGED <<uploadPc, stored, queues, workers>>,
         \A c \in Documents \ {d} :
           /\ SameDoc(c)
           /\ \A b \in Reviewers : Restarting(b, c)' = Restarting(b, c)
  PROVE  /\ \A j \in Jobs : JobCourse(j)'
         /\ \A r \in Runs, c \in Documents : JobHolds(<<c, r>>)' <=> JobHolds(<<c, r>>)
         /\ \A c \in Documents \ {d} : OneHolder(c)'
         /\ NothingFails'
<1>1. /\ \A j \in Jobs : JobCourse(j)
      /\ \A c \in Documents : OneHolder(c)
      /\ NothingFails
  BY DEF RInv
<1>2. \A j \in Jobs : SameJob(j)
  BY DEF SameJob, queues, workers
<1>3. ASSUME NEW c \in Documents \ {d} PROVE OneHolder(c)'
  <2>1. Untouched(c)
    BY <1>2, JobNames DEF Untouched
  <2> QED BY <1>1, <2>1, UntouchedKeeps
<1>4. NothingFails'
  BY <1>1 DEF NothingFails, workers
<1> QED BY <1>1, <1>2, <1>3, <1>4, JobUnmoved, JobNames

\* What a step has to show, and a request that changes no document.
RStep == /\ LStep /\ OwnIds' /\ NothingFails'
         /\ \A j \in Jobs : JobCourse(j)'
         /\ \A c \in Documents : OneHolder(c)'

LEMMA RequestAside ==
  ASSUME RInv, OwnIds', UNCHANGED <<uploadPc, stored, queues, workers, status, docType,
                                    extraction>>,
         \A b \in Reviewers, c \in Documents : Restarting(b, c)' = Restarting(b, c)
  PROVE  RStep
<1>1. \A c \in Documents : SameDoc(c)
  BY DEF SameDoc
<1>2. NoDoc \notin Documents
  OBVIOUS
<1>3. /\ \A j \in Jobs : JobCourse(j)'
      /\ \A c \in Documents \ {NoDoc} : OneHolder(c)'
      /\ NothingFails'
  BY <1>1, RequestOnly
<1> QED BY <1>2, <1>3 DEF RStep, LStep

LEMMA NoRequestIsIdle ==
  /\ NoRequest.pc = "idle" /\ NoRequest.op = "none" /\ NoRequest.run = NoRun
BY DEF NoRequest

\* A request begins, with a run id nobody has.
LEMMA RequestBeginRun ==
  ASSUME RInv, NEW a \in Reviewers, RequestBegin(a)
  PROVE  RStep
<1>0. PICK d \in Documents :
        \E op, run : /\ Begin(a, d, op, run)
                     /\ \/ op # "reprocess" /\ run = NoRun
                        \/ op = "reprocess" /\ run \in FreshRuns(d)
  BY DEF RequestBegin, ApproveBegin, RejectBegin, EditBegin, ReprocessBegin
<1>1. OwnIds /\ req \in [Reviewers -> Requests]
  BY DEF RInv, IInv, TypeOK
<1>2. PICK op, run : /\ Begin(a, d, op, run)
                     /\ \/ op # "reprocess" /\ run = NoRun
                        \/ op = "reprocess" /\ run \in FreshRuns(d)
  BY <1>0
<1> DEFINE r == [op |-> op, doc |-> d, pc |-> "commit", seen |-> status[d], run |-> run]
<1>3. req[a] = NoRequest /\ req' = [req EXCEPT ![a] = r]
  BY <1>2 DEF Begin
<1>4. r.op = op /\ r.doc = d /\ r.pc = "commit" /\ r.run = run
  OBVIOUS
<1> HIDE DEF r
<1>5. req'[a] = r /\ \A b \in Reviewers \ {a} : req'[b] = req[b]
  BY <1>1, <1>3
<1>6. UNCHANGED <<uploadPc, stored, queues, workers, status, docType, extraction>>
  BY <1>2 DEF Begin, db, content
<1>7. \A b \in Reviewers, c \in Documents : Restarting(b, c)' = Restarting(b, c)
  BY <1>3, <1>4, <1>5, NoRequestIsIdle DEF Restarting
<1>8. OwnIds'
  <2>1. UNCHANGED ocrQ
    BY <1>6 DEF queues
  <2>2. \A b \in Reviewers : req[b].op = "reprocess" => req[b].run # NoRun
    BY <1>1 DEF OwnIds
  <2>3. \A b \in Reviewers : req[b].op = "reprocess" => req[b].run # run
    BY <1>2, <2>2 DEF FreshRuns
  <2>4. op = "reprocess" =>
          /\ run \in Runs \ {Initial} /\ ocrQ[<<d, run>>].state = "absent"
          /\ \A b \in Reviewers : req[b].run # run
    BY <1>2 DEF FreshRuns
  <2>5. ASSUME NEW b \in Reviewers, req'[b].op = "reprocess"
        PROVE  /\ req'[b].doc \in Documents /\ req'[b].run \in Runs \ {Initial}
               /\ ocrQ[<<req'[b].doc, req'[b].run>>].state = "absent"
    BY <1>1, <1>4, <1>5, <2>4, <2>5 DEF OwnIds
  <2>6. ASSUME NEW b \in Reviewers, NEW c \in Reviewers \ {b}, req'[b].op = "reprocess"
        PROVE  req'[c].run # req'[b].run
    <3>1. CASE b = a
      BY <1>4, <1>5, <2>4, <2>6, <3>1
    <3>2. CASE c = a
      BY <1>4, <1>5, <2>3, <2>6, <3>2
    <3>3. CASE b # a /\ c # a
      BY <1>1, <1>5, <2>6, <3>3 DEF OwnIds
    <3> QED BY <3>1, <3>2, <3>3
  <2> QED BY <1>1, <1>6, <2>1, <2>5, <2>6 DEF OwnIds
<1> QED BY <1>6, <1>7, <1>8, RequestAside

\* The document of an approval or a rejection that is made.
LEMMA DecisionRun ==
  ASSUME RInv, OwnIds', NEW d \in Documents, status[d] = "pending_review",
         NEW s \in {"approved", "rejected"}, SetStatus(d, s),
         UNCHANGED <<uploadPc, stored, queues, workers, docType, extraction>>,
         \A b \in Reviewers, c \in Documents : Restarting(b, c)' = Restarting(b, c)
  PROVE  RStep
<1>1. /\ TypeOK /\ OneHolder(d)
      /\ status \in [Documents -> Statuses \cup {"absent"}]
  BY DEF RInv, IInv, TypeOK
<1>2. status'[d] = s /\ \A c \in Documents \ {d} : SameDoc(c)
  BY <1>1 DEF SetStatus, SameDoc
<1>3. /\ \A j \in Jobs : JobCourse(j)'
      /\ \A r \in Runs, c \in Documents : JobHolds(<<c, r>>)' <=> JobHolds(<<c, r>>)
      /\ \A c \in Documents \ {d} : OneHolder(c)'
      /\ NothingFails'
  BY <1>2, RequestOnly
<1>4. /\ ~ Starting(d) /\ \A r \in Runs : ~ JobHolds(<<d, r>>)
      /\ AtRest(status[d], docType[d], extraction[d])
  BY <1>1, StatusAtRest
<1>5. ~ Starting(d)'
  BY <1>4 DEF Starting, Uploading
<1>6. AtRest(status'[d], docType'[d], extraction'[d])
  BY <1>2, <1>4 DEF AtRest, Reviewed
<1>7. OneHolder(d)'
  BY <1>3, <1>4, <1>5, <1>6, HeldByNobody
<1>8. LStep
  BY <1>1, Moves
<1> QED BY <1>3, <1>7, <1>8 DEF RStep

\* That of an edit keeps its run, whoever has it.
LEMMA EditRun ==
  ASSUME RInv, OwnIds', NEW d \in Documents, extraction[d] # NoRow,
         extraction' = [extraction EXCEPT ![d].edited = TRUE],
         UNCHANGED <<uploadPc, stored, queues, workers, status, docType>>,
         \A b \in Reviewers, c \in Documents : Restarting(b, c)' = Restarting(b, c)
  PROVE  RStep
<1>1. /\ OneHolder(d) /\ extraction \in [Documents -> ExtractionRows]
  BY DEF RInv, IInv, TypeOK
<1> DEFINE row == [extraction[d] EXCEPT !.edited = TRUE]
<1>2. extraction[d] \in [run : Runs, invoice : StoredInvoices, edited : BOOLEAN]
  BY <1>1 DEF ExtractionRows
<1>3. row \in Inserts /\ row.run = extraction[d].run
  BY <1>2 DEF Inserts
<1>4. extraction' = [extraction EXCEPT ![d] = row]
  BY <1>1
<1> HIDE DEF row
<1>5. extraction'[d] = row /\ \A c \in Documents \ {d} : SameDoc(c)
  BY <1>1, <1>4 DEF SameDoc
<1>6. row # NoRow
  BY <1>3, InsertsAreRows
<1>7. /\ \A j \in Jobs : JobCourse(j)'
      /\ \A r \in Runs, c \in Documents : JobHolds(<<c, r>>)' <=> JobHolds(<<c, r>>)
      /\ \A c \in Documents \ {d} : OneHolder(c)'
      /\ NothingFails'
  BY <1>5, RequestOnly
<1>8. ~ Starting(d) /\ ~ Starting(d)'
  BY <1>1 DEF OneHolder, Starting, Uploading
<1>9. OneHolder(d)'
  <2>1. CASE \E r \in Runs : JobHolds(<<d, r>>)
    <3>1. PICK r \in Runs : JobHolds(<<d, r>>)
      BY <2>1
    <3>2. /\ <<d, r>> \in Jobs /\ Doc(<<d, r>>) = d /\ Run(<<d, r>>) = r
          /\ JobInHand(<<d, r>>) /\ \A s \in Runs \ {r} : ~ JobHolds(<<d, s>>)
      BY <1>1, <3>1, JobNames, RunIsAlone
    <3>3. /\ InExt(r, status[d], docType[d], extraction[d],
                   extQ[<<d, r>>].state, extPc[<<d, r>>])
          /\ extPc[<<d, r>>] = "decide"
      BY <3>2 DEF JobInHand, InHand, InOcr, InExt
    <3>4. InExt(r, status[d], docType[d], row,
                extQ[<<d, r>>].state, extPc[<<d, r>>])
      BY <1>3, <3>3 DEF InExt
    <3>5. JobInHand(<<d, r>>)'
      BY <1>5, <3>2, <3>4 DEF JobInHand, InHand, queues, workers, Doc, Run
    <3> QED BY <1>7, <1>8, <3>1, <3>2, <3>5, HeldByRun
  <2>2. CASE \A r \in Runs : ~ JobHolds(<<d, r>>)
    <3>1. AtRest(status[d], docType[d], extraction[d])
      BY <1>1, <1>8, <2>2 DEF OneHolder
    <3>2. AtRest(status'[d], docType'[d], extraction'[d])
      BY <1>5, <1>6, <3>1 DEF AtRest
    <3> QED BY <1>7, <1>8, <2>2, <3>2, HeldByNobody
  <2> QED BY <2>1, <2>2
<1>10. \A c \in Documents : (extraction'[c] # NoRow) = (extraction[c] # NoRow)
  BY <1>1, <1>4, <1>6
<1>11. LStep
  BY <1>10 DEF LStep
<1> QED BY <1>7, <1>9, <1>11 DEF RStep

\* A reprocessing takes its document in hand once nobody has it.
LEMMA ReprocessRun ==
  ASSUME QuietRuns \/ Patient, NEW r \in Runs \ {Initial},
         RInv, OwnIds', NEW d \in Documents, NEW a \in Reviewers,
         status[d] \in {"failed", "rejected"}, SetStatus(d, "uploaded"),
         extraction' = [extraction EXCEPT ![d] = NoRow],
         docType' = [docType EXCEPT ![d] = "null"],
         UNCHANGED <<uploadPc, stored, queues, workers>>, Restarting(a, d)',
         \A b \in Reviewers \ {a} : Restarting(b, d)' = Restarting(b, d),
         \A c \in Documents \ {d}, b \in Reviewers :
           Restarting(b, c)' = Restarting(b, c)
  PROVE  RStep
<1>1. /\ TypeOK /\ OneHolder(d)
      /\ status \in [Documents -> Statuses \cup {"absent"}]
      /\ docType \in [Documents -> {"null", "invoice", "unknown"}]
      /\ extraction \in [Documents -> ExtractionRows]
  BY DEF RInv, IInv, TypeOK
<1>2. status'[d] = "uploaded" /\ extraction'[d] = NoRow
  BY <1>1 DEF SetStatus
<1>3. \A c \in Documents \ {d} : SameDoc(c)
  BY <1>1 DEF SetStatus, SameDoc
<1>4. /\ \A j \in Jobs : JobCourse(j)'
      /\ \A q \in Runs, c \in Documents : JobHolds(<<c, q>>)' <=> JobHolds(<<c, q>>)
      /\ \A c \in Documents \ {d} : OneHolder(c)'
      /\ NothingFails'
  BY <1>3, RequestOnly
<1>5. ~ Starting(d) /\ \A q \in Runs : ~ JobHolds(<<d, q>>)
  <2>1. CASE QuietRuns
    BY <1>1, <2>1, StatusAtRest DEF QuietRuns
  <2>2. CASE Patient
    <3>1. Spent(d)
      BY <1>2, <2>2 DEF Patient
    <3>2. ~ Starting(d)
      BY <1>1 DEF OneHolder
    <3> QED BY <3>1, <3>2, SpentHoldsNot
  <2> QED BY <2>1, <2>2
<1>6. ~ Uploading(d)' /\ \A b \in Reviewers \ {a} : ~ Restarting(b, d)'
  BY <1>5 DEF Starting, Uploading
<1>7. OneHolder(d)'
  BY <1>2, <1>4, <1>5, <1>6, HeldByRequest
<1>8. LStep
  <2>1. [c \in Documents |-> extraction'[c] # NoRow]
          = [[c \in Documents |-> extraction[c] # NoRow] EXCEPT ![d] = FALSE]
    BY <1>1
  <2> QED BY <1>1, <2>1
          DEF LStep, Lifecycle!Next, Lifecycle!Reprocess, Lifecycle!Move, SetStatus
<1> QED BY <1>4, <1>7, <1>8 DEF RStep

\* And hands it to its run.
LEMMA ReprocessHandsOver ==
  ASSUME RInv, NEW a \in Reviewers, ReprocessEnqueue(a),
         NEW d, NEW r, d = req[a].doc, r = req[a].run
  PROVE  RStep
<1> DEFINE j0 == <<d, r>>
<1>1. /\ TypeOK /\ OwnIds /\ NothingFails
      /\ req \in [Reviewers -> Requests] /\ ocrQ \in [Jobs -> JobRecords]
      /\ \A j \in Jobs : JobCourse(j)
      /\ \A c \in Documents : OneHolder(c)
  BY DEF RInv, IInv, TypeOK
<1>2. /\ req[a].pc = "enqueue" /\ req' = [req EXCEPT ![a] = NoRequest]
      /\ ocrQ' = [ocrQ EXCEPT ![j0] = Added(ocrQ[j0])]
      /\ UNCHANGED <<status, stored, docType, extraction, extQ, uploadPc, ocrPc, extPc,
                     decision>>
  BY <1>1 DEF ReprocessEnqueue, EndRequest, db, content, workers
<1>3. req[a].op = "reprocess"
  BY <1>2 DEF RInv, IInv, RequestInv, GoodRequest
<1>4. /\ d \in Documents /\ r \in Runs \ {Initial} /\ ocrQ[j0].state = "absent"
      /\ \A b \in Reviewers \ {a} : req[b].run # r
  BY <1>1, <1>3 DEF OwnIds
<1>5. j0 \in Jobs /\ Doc(j0) = d /\ Run(j0) = r
  BY <1>4, JobNames
<1>6. req'[a] = NoRequest /\ \A b \in Reviewers \ {a} : req'[b] = req[b]
  BY <1>1, <1>2
<1>7. Restarting(a, d)
  BY <1>2 DEF Restarting
<1>8. /\ ~ Uploading(d) /\ \A b \in Reviewers \ {a} : ~ Restarting(b, d)
      /\ \A s \in Runs : ~ JobHolds(<<d, s>>)
      /\ status[d] = "uploaded" /\ extraction[d] = NoRow
  BY <1>1, <1>4, <1>7, RequestIsAlone
<1>9. ocrQ'[j0].state = "waiting"
  <2>1. ocrQ'[j0] = Added(ocrQ[j0])
    BY <1>1, <1>2, <1>5
  <2> QED BY <1>4, <2>1 DEF Added, Finished
<1>10. \A j \in Jobs \ {j0} : SameJob(j)
  BY <1>1, <1>2 DEF SameJob
<1>11. /\ ocrPc[j0] = "idle" /\ extQ[j0].state = "absent" /\ extPc[j0] = "idle"
  BY <1>1, <1>4, <1>5 DEF JobCourse, Course, ExtCourse, OcrOpen, OcrClosed
<1>12. JobCourse(j0)' /\ JobHolds(j0)'
  BY <1>2, <1>9, <1>11 DEF JobCourse, Course, ExtCourse, OcrOpen, JobHolds,
     OcrHolds, ExtHolds
<1>13. JobInHand(j0)'
  <2>1. InOcr(status'[d], extraction'[d], ocrQ'[j0].state, ocrPc'[j0])
    BY <1>2, <1>8, <1>9 DEF InOcr
  <2> QED BY <1>5, <2>1 DEF JobInHand, InHand, Doc
<1>14. ~ Starting(d)'
  BY <1>2, <1>6, <1>8, NoRequestIsIdle DEF Starting, Uploading, Restarting
<1>15. \A s \in Runs \ {r} : ~ JobHolds(<<d, s>>)'
  <2>1. \A s \in Runs \ {r} : <<d, s>> \in Jobs \ {j0}
    BY <1>4, JobNames
  <2> QED BY <1>8, <1>10, <2>1, JobUnmoved
<1>16. OneHolder(d)'
  BY <1>4, <1>12, <1>13, <1>14, <1>15, HeldByRun
<1>17. ASSUME NEW c \in Documents \ {d} PROVE OneHolder(c)'
  <2>1. \A s \in Runs : <<c, s>> \in Jobs \ {j0}
    BY JobNames
  <2>2. \A b \in Reviewers : Restarting(b, c)' = Restarting(b, c)
    <3>1. ~ Restarting(a, c) /\ ~ Restarting(a, c)'
      BY <1>6, NoRequestIsIdle DEF Restarting
    <3> QED BY <1>6, <3>1 DEF Restarting
  <2>3. Untouched(c)
    BY <1>2, <1>10, <2>1, <2>2 DEF Untouched, SameDoc
  <2> QED BY <1>1, <2>3, UntouchedKeeps
<1>18. OwnIds'
  <2>1. ASSUME NEW c \in Documents, uploadPc'[c] # "done"
        PROVE  ocrQ'[<<c, Initial>>].state = "absent"
    <3>1. <<c, Initial>> \in Jobs /\ <<c, Initial>> # j0
      BY <1>4, JobNames
    <3>2. ocrQ[<<c, Initial>>].state = "absent"
      BY <1>1, <1>2, <2>1 DEF OwnIds
    <3> QED BY <1>1, <1>2, <3>1, <3>2
  <2>2. ASSUME NEW b \in Reviewers, req'[b].op = "reprocess"
        PROVE  /\ b # a /\ req'[b] = req[b]
               /\ req[b].doc \in Documents /\ req[b].run \in Runs \ {Initial}
               /\ ocrQ'[<<req[b].doc, req[b].run>>].state = "absent"
               /\ \A c \in Reviewers \ {b} : req'[c].run # req[b].run
    <3>1. b # a /\ req'[b] = req[b]
      BY <1>6, <2>2, NoRequestIsIdle
    <3>2. /\ req[b].doc \in Documents /\ req[b].run \in Runs \ {Initial}
          /\ ocrQ[<<req[b].doc, req[b].run>>].state = "absent"
          /\ \A c \in Reviewers \ {b} : req[c].run # req[b].run
      BY <1>1, <2>2, <3>1 DEF OwnIds
    <3>3. <<req[b].doc, req[b].run>> \in Jobs /\ <<req[b].doc, req[b].run>> # j0
      BY <1>4, <3>1, <3>2, JobNames
    <3>4. ocrQ'[<<req[b].doc, req[b].run>>].state = "absent"
      BY <1>1, <1>2, <3>2, <3>3
    <3>5. \A c \in Reviewers \ {b} : req'[c].run # req[b].run
      BY <1>6, <3>2, NoRequestIsIdle
    <3> QED BY <3>1, <3>2, <3>4, <3>5
  <2> QED BY <2>1, <2>2 DEF OwnIds
<1>19. \A j \in Jobs : JobCourse(j)'
  BY <1>1, <1>10, <1>12, JobUnmoved
<1>20. NothingFails' /\ LStep
  BY <1>1, <1>2 DEF NothingFails, LStep
<1> QED BY <1>16, <1>17, <1>18, <1>19, <1>20 DEF RStep

\* Every step of a request in flight.
LEMMA RequestProgressRun ==
  ASSUME QuietRuns \/ Patient, RInv, NEW a \in Reviewers, RequestProgress(a)
  PROVE  RStep
<1>1. /\ TypeOK /\ OwnIds /\ req \in [Reviewers -> Requests] /\ req[a] \in Requests
      /\ GoodRequest(req[a])
  BY DEF RInv, IInv, TypeOK, RequestInv
<1>2. PICK d : d = req[a].doc
  OBVIOUS
<1>3. req[a].pc # "idle" => d \in Documents
  BY <1>1, <1>2 DEF GoodRequest
<1>4. ASSUME NEW r, req' = [req EXCEPT ![a] = r]
      PROVE  req'[a] = r /\ \A b \in Reviewers \ {a} : req'[b] = req[b]
  BY <1>1, <1>4
<1>5. ASSUME NEW r, req' = [req EXCEPT ![a] = r], req[a].pc # "enqueue", r.pc # "enqueue"
      PROVE  \A b \in Reviewers, c \in Documents : Restarting(b, c)' = Restarting(b, c)
  <2>1. ~ req[a].pc = "enqueue" /\ ~ req'[a].pc = "enqueue"
    BY <1>4, <1>5
  <2> QED BY <1>4, <1>5, <2>1 DEF Restarting
<1>6. ASSUME req' = [req EXCEPT ![a] = NoRequest], req[a].pc # "enqueue",
             UNCHANGED <<uploadPc, stored, queues, workers>>
      PROVE  /\ OwnIds'
             /\ \A b \in Reviewers, c \in Documents : Restarting(b, c)' = Restarting(b, c)
             /\ UNCHANGED <<status, docType, extraction>> => RStep
  <2>1. \A b \in Reviewers, c \in Documents : Restarting(b, c)' = Restarting(b, c)
    BY <1>5, <1>6, NoRequestIsIdle
  <2>2. OwnIds'
    BY <1>6, OwnIdsKept, NoRequestIsIdle DEF queues
  <2> QED BY <1>6, <2>1, <2>2, RequestAside
<1>7. ASSUME NEW s \in {"approved", "rejected"},
             \/ DecideCommit(a, "approve", s) \/ DecideCommit(a, "reject", s)
      PROVE  RStep
  <2>1. /\ req[a].pc = "commit" /\ req[a].op \in {"approve", "reject"}
        /\ UNCHANGED <<uploadPc, stored, queues, workers, docType, extraction>>
        /\ IF StillAsSeen(a)
           THEN SetStatus(d, s) /\ req' = [req EXCEPT ![a].pc = "notify"]
           ELSE req' = [req EXCEPT ![a] = NoRequest] /\ UNCHANGED status
    BY <1>2, <1>7 DEF DecideCommit, Committing, ReviewOther, EndRequest, queues
  <2>2. CASE StillAsSeen(a)
    <3> DEFINE r == [req[a] EXCEPT !.pc = "notify"]
    <3>1. /\ r.pc = "notify" /\ r.op = req[a].op /\ r.run = req[a].run
          /\ r.op # "reprocess"
      BY <1>1, <2>1 DEF Requests
    <3>2. req' = [req EXCEPT ![a] = r]
      BY <1>1, <2>1, <2>2
    <3> HIDE DEF r
    <3>3. OwnIds'
      BY <2>1, <3>1, <3>2, OwnIdsKept DEF queues
    <3>4. status[d] = "pending_review" /\ d \in Documents
      BY <1>1, <1>2, <1>3, <2>1, <2>2 DEF StillAsSeen, GoodRequest
    <3>5. \A b \in Reviewers, c \in Documents : Restarting(b, c)' = Restarting(b, c)
      BY <1>5, <2>1, <3>1, <3>2
    <3> QED BY <2>1, <2>2, <3>3, <3>4, <3>5, DecisionRun
  <2>3. CASE ~ StillAsSeen(a)
    BY <1>6, <2>1, <2>3
  <2> QED BY <2>2, <2>3
<1>8. CASE EnqueueWebhook(a)
  BY <1>6, <1>8 DEF EnqueueWebhook, EndRequest, db, content
<1>9. CASE EditCommit(a)
  <2>1. /\ req[a].pc = "commit" /\ req' = [req EXCEPT ![a] = NoRequest]
        /\ UNCHANGED <<uploadPc, stored, queues, workers, status, docType>>
        /\ IF EditAllowed(a)
           THEN extraction' = [extraction EXCEPT ![d].edited = TRUE]
           ELSE UNCHANGED extraction
    BY <1>2, <1>9 DEF EditCommit, Committing, ReviewOther, EndRequest, queues
  <2>2. /\ OwnIds' /\ d \in Documents
        /\ \A b \in Reviewers, c \in Documents : Restarting(b, c)' = Restarting(b, c)
    BY <1>3, <1>6, <2>1
  <2>3. CASE EditAllowed(a)
    BY <1>2, <2>1, <2>2, <2>3, EditRun DEF EditAllowed
  <2>4. CASE ~ EditAllowed(a)
    BY <1>6, <2>1, <2>4
  <2> QED BY <2>3, <2>4
<1>10. CASE ReprocessCommit(a)
  <2>1. /\ req[a].pc = "commit" /\ req[a].op = "reprocess"
        /\ UNCHANGED <<uploadPc, stored, queues, workers>>
        /\ IF StillAsSeen(a)
           THEN /\ SetStatus(d, "uploaded")
                /\ extraction' = [extraction EXCEPT ![d] = NoRow]
                /\ docType' = [docType EXCEPT ![d] = "null"]
                /\ req' = [req EXCEPT ![a].pc = "enqueue"]
           ELSE /\ req' = [req EXCEPT ![a] = NoRequest]
                /\ UNCHANGED <<status, docType, extraction>>
    BY <1>2, <1>10 DEF ReprocessCommit, Committing, ReviewOther, EndRequest, queues
  <2>2. CASE StillAsSeen(a)
    <3> DEFINE r == [req[a] EXCEPT !.pc = "enqueue"]
    <3>1. /\ r.pc = "enqueue" /\ r.op = req[a].op /\ r.run = req[a].run
          /\ r.doc = req[a].doc
      BY <1>1 DEF Requests
    <3>2. req' = [req EXCEPT ![a] = r]
      BY <1>1, <2>1, <2>2
    <3> HIDE DEF r
    <3>3. OwnIds'
      BY <2>1, <3>1, <3>2, OwnIdsKept DEF queues
    <3>4. /\ status[d] \in {"failed", "rejected"} /\ d \in Documents
          /\ req[a].run \in Runs \ {Initial}
      BY <1>1, <1>2, <1>3, <2>1, <2>2 DEF StillAsSeen, GoodRequest, OwnIds
    <3>5. req'[a] = r /\ \A b \in Reviewers \ {a} : req'[b] = req[b]
      BY <1>4, <3>2
    <3>6. /\ Restarting(a, d)'
          /\ \A b \in Reviewers \ {a} : Restarting(b, d)' = Restarting(b, d)
      BY <1>2, <3>1, <3>5 DEF Restarting
    <3>7. \A c \in Documents \ {d}, b \in Reviewers : Restarting(b, c)' = Restarting(b, c)
      <4>1. \A c \in Documents \ {d} : ~ Restarting(a, c) /\ ~ Restarting(a, c)'
        BY <1>2, <3>1, <3>5 DEF Restarting
      <4> QED BY <3>5, <4>1 DEF Restarting
    <3> QED BY <2>1, <2>2, <3>3, <3>4, <3>6, <3>7, ReprocessRun
  <2>3. CASE ~ StillAsSeen(a)
    BY <1>6, <2>1, <2>3
  <2> QED BY <2>2, <2>3
<1>11. CASE ReprocessEnqueue(a)
  BY <1>11, ReprocessHandsOver
<1> QED BY <1>7, <1>8, <1>9, <1>10, <1>11
        DEF RequestProgress, ApproveCommit, RejectCommit

-----------------------------------------------------------------------------
(* All of it.                                                              *)

\* Every document has one holder at most at first, and after every step; and
\* every step is one of the life cycle.
LEMMA InitRInv == Init => RInv
<1> SUFFICES ASSUME Init PROVE RInv
  OBVIOUS
<1>1. ASSUME NEW j \in Jobs
      PROVE  /\ ocrQ[j].state = "absent" /\ ocrPc[j] = "idle"
             /\ extQ[j].state = "absent" /\ extPc[j] = "idle"
  BY DEF Init, NoJob, Finished
<1>2. \A j \in Jobs : JobCourse(j) /\ ~ JobHolds(j)
  BY <1>1 DEF JobCourse, Course, ExtCourse, OcrOpen, JobHolds, OcrHolds, ExtHolds
<1>3. ASSUME NEW d \in Documents PROVE OneHolder(d)
  <2>1. /\ status[d] = "absent" /\ extraction[d] = NoRow /\ uploadPc[d] = "none"
        /\ \A a \in Reviewers : req[a] = NoRequest
    BY DEF Init
  <2>2. ~ Starting(d)
    BY <2>1, NoRequestIsIdle DEF Starting, Uploading, Restarting
  <2>3. \A r \in Runs : ~ JobHolds(<<d, r>>)
    BY <1>2, JobNames
  <2>4. AtRest(status[d], docType[d], extraction[d])
    BY <2>1 DEF AtRest
  <2>5. Alone(d)
    BY <2>2, <2>3 DEF Alone, Starting
  <2> QED BY <2>2, <2>3, <2>4, <2>5 DEF OneHolder
<1>4. OwnIds
  <2>1. \A a \in Reviewers : req[a].op # "reprocess"
    BY NoRequestIsIdle DEF Init
  <2> QED BY <1>1, <2>1, JobNames DEF OwnIds
<1>5. NothingFails
  BY DEF Init, NothingFails
<1> QED BY <1>2, <1>3, <1>4, <1>5, InitIInv DEF RInv

LEMMA NextRInv ==
  ASSUME ProvidersFail, QuietRuns \/ [Patient]_vars, RInv, [Next]_vars
  PROVE  RInv' /\ LStep
<1>1. IInv' /\ TypeOK /\ NothingFails /\ OwnIds
  BY NextIInv DEF RInv, IInv
<1>2. RStep => RInv' /\ LStep
  BY <1>1 DEF RStep, RInv
<1>3. CASE UNCHANGED vars
  <2>1. /\ UNCHANGED <<uploadPc, stored, queues, workers, status, docType, extraction>>
        /\ UNCHANGED req
    BY <1>3 DEF vars, db, content, api, queues, workers
  <2>2. OwnIds'
    BY <1>1, <2>1 DEF OwnIds, queues
  <2>3. \A b \in Reviewers, c \in Documents : Restarting(b, c)' = Restarting(b, c)
    BY <2>1 DEF Restarting
  <2> QED BY <1>2, <2>1, <2>2, <2>3, RequestAside
<1>4. ASSUME NEW d \in Documents,
             UploadInsert(d) \/ UploadProgress(d) \/ UploadThrow(d)
               \/ UploadUnconfirmed(d) \/ UploadLost(d)
      PROVE  RInv' /\ LStep
  BY <1>2, <1>4, UploadRunSteps DEF RStep
<1>5. ASSUME NEW a \in Reviewers,
             RequestBegin(a) \/ RequestProgress(a) \/ RequestLost(a)
      PROVE  RInv' /\ LStep
  <2>1. ~ RequestLost(a)
    BY DEF ProvidersFail, RequestLost
  <2>2. CASE QuietRuns \/ Patient
    BY <1>2, <1>5, <2>1, <2>2, RequestBeginRun, RequestProgressRun
  <2> QED BY <1>3, <2>2
<1>6. ASSUME NEW j \in Jobs, OcrProgress(j) \/ OcrFault(j) PROVE RInv' /\ LStep
  <2>1. /\ OcrProgress(j) \/ OcrThrow(j)
        /\ RunStep(j) /\ LStep
        /\ Faults = {} => ocrPc'[j] \notin {"catch", "fail"}
    BY <1>6, OcrRunSteps
  <2>2. OnlyJob(j) /\ UNCHANGED <<stored, extPc>>
    BY <1>1, <2>1, OcrOthers
  <2>3. /\ OwnIds' /\ (\A i \in Jobs : JobCourse(i)')
        /\ \A c \in Documents : OneHolder(c)'
    BY <2>1, <2>2, RunSteps
  <2>4. NothingFails'
    BY <1>1, <2>1, <2>2 DEF NothingFails, OnlyJob, SameJob
  <2> QED BY <1>2, <2>1, <2>3, <2>4 DEF RStep
<1>7. ASSUME NEW j \in Jobs, ExtProgress(j) \/ ExtFault(j) PROVE RInv' /\ LStep
  <2>1. /\ ExtProgress(j) \/ ExtThrow(j)
        /\ RunStep(j) /\ LStep
        /\ Faults = {} => extPc'[j] \notin {"catch", "auditFailed", "fail"}
    BY <1>7, ExtRunSteps
  <2>2. OnlyJob(j) /\ UNCHANGED <<stored, ocrPc>>
    BY <1>1, <2>1, ExtOthers
  <2>3. /\ OwnIds' /\ (\A i \in Jobs : JobCourse(i)')
        /\ \A c \in Documents : OneHolder(c)'
    BY <2>1, <2>2, RunSteps
  <2>4. NothingFails'
    BY <1>1, <2>1, <2>2 DEF NothingFails, OnlyJob, SameJob
  <2> QED BY <1>2, <2>1, <2>3, <2>4 DEF RStep
<1> QED BY <1>3, <1>4, <1>5, <1>6, <1>7 DEF Next

\* What the invariant says of the runs of a document, and of one under review.
LEMMA DataPresent ==
  ASSUME RInv
  PROVE  ReviewedDataPresent
<1> SUFFICES ASSUME NEW d \in Documents, status[d] \in {"pending_review", "approved"}
             PROVE  docType[d] = "invoice" <=> extraction[d] # NoRow
  BY DEF ReviewedDataPresent
<1>1. AtRest(status[d], docType[d], extraction[d])
  BY StatusAtRest DEF RInv
<1> QED BY <1>1 DEF AtRest

LEMMA InitLifecycle == Init => Lifecycle!Init
<1> SUFFICES ASSUME Init PROVE Lifecycle!Init
  OBVIOUS
<1>1. \A d \in Documents : (extraction[d] # NoRow) = FALSE
  BY DEF Init
<1>2. [d \in Documents |-> extraction[d] # NoRow] = [d \in Documents |-> FALSE]
  BY <1>1
<1> QED BY <1>2 DEF Init, Lifecycle!Init

\* With reviewers who wait for retries to be over, the pipeline implements the life
\* cycle, for every number of documents, runs, reviewers and attempts:
\* every step of a run is a step of it or changes nothing that it shows.
THEOREM PatientLifecycle ==
  ASSUME ProvidersFail
  PROVE  PatientSpec => ImplementsLifecycle
<1>1. RInv /\ [Next /\ Patient]_vars => RInv'
  BY NextRInv
<1>2. RInv /\ [Next /\ Patient]_vars => [Lifecycle!Next]_(Lifecycle!vars)
  BY NextRInv DEF LStep, Lifecycle!vars
<1> QED BY <1>1, <1>2, InitLifecycle, InitRInv, PTL
        DEF PatientSpec, ImplementsLifecycle, Lifecycle!Spec

\* The same of all behaviours where nothing is retried or nothing reprocessed:
\* uploads, workers and reviewers implement the life cycle.
THEOREM LifecycleImplemented ==
  ASSUME QuietRuns
  PROVE  Spec => ImplementsLifecycle
<1>1. RInv /\ [Next]_vars => RInv'
  BY NextRInv DEF QuietRuns
<1>2. RInv /\ [Next]_vars => [Lifecycle!Next]_(Lifecycle!vars)
  BY NextRInv DEF QuietRuns, LStep, Lifecycle!vars
<1> QED BY <1>1, <1>2, InitLifecycle, InitRInv, PTL
        DEF Spec, ImplementsLifecycle, Lifecycle!Spec

\* And a document that waits for review or was approved has the data its type
\* calls for, whichever run it is of.
THEOREM PatientReviewedData ==
  ASSUME ProvidersFail
  PROVE  PatientSpec => []ReviewedDataPresent
<1>1. RInv /\ [Next /\ Patient]_vars => RInv'
  BY NextRInv
<1> QED BY <1>1, InitRInv, DataPresent, PTL DEF PatientSpec

\* And nobody has to wait for that where nothing is retried.
THEOREM ReviewedData ==
  ASSUME QuietRuns
  PROVE  Spec => []ReviewedDataPresent
<1>1. RInv /\ [Next]_vars => RInv'
  BY NextRInv DEF QuietRuns
<1> QED BY <1>1, InitRInv, DataPresent, PTL DEF Spec

-----------------------------------------------------------------------------
(* The sum of the line items.                                              *)

\* A set of numbers has a least one.
LEMMA LeastNumber ==
  ASSUME NEW T \in SUBSET Nat, T # {}
  PROVE  \E x \in T : \A y \in T : x <= y
<1>1. PICK x \in T : \A y \in T : ~ (<<y, x>> \in OpToRel(<, Nat))
  BY NatLessThanWellFounded, WFMin, Zenon
<1>2. ASSUME NEW y \in T PROVE ~ (y < x)
  BY <1>1 DEF OpToRel
<1> QED BY <1>2

\* The sums of a sequence of integers are integers: by induction, which takes the
\* least counterexample.
LEMMA SumsExist ==
  ASSUME NEW items \in Seq(Int), NEW n \in 0 .. Len(items)
  PROVE  \E g \in [0 .. n -> Int] :
           g = [i \in 0 .. n |-> IF i = 0 THEN 0 ELSE g[i - 1] + items[i]]
<1> DEFINE Def(g, m) == g = [i \in 0 .. m |-> IF i = 0 THEN 0 ELSE g[i - 1] + items[i]]
           Bad == {m \in 0 .. Len(items) : ~ \E g \in [0 .. m -> Int] : Def(g, m)}
<1>1. SUFFICES ASSUME Bad # {} PROVE FALSE
  OBVIOUS
<1>2. PICK m \in Bad : \A k \in Bad : m <= k
  <2>1. Bad \subseteq Nat
    OBVIOUS
  <2> HIDE DEF Bad
  <2> QED BY <1>1, <2>1, LeastNumber
<1>3. m \in 0 .. Len(items) /\ Len(items) \in Nat
  BY <1>2
<1>4. ~ \E g \in [0 .. m -> Int] : Def(g, m)
  BY <1>2
<1>5. m # 0
  <2> SUFFICES ASSUME m = 0 PROVE FALSE
    OBVIOUS
  <2> DEFINE z == [i \in 0 .. 0 |-> 0]
  <2>1. z \in [0 .. m -> Int]
    OBVIOUS
  <2>2. z = [i \in 0 .. m |-> IF i = 0 THEN 0 ELSE z[i - 1] + items[i]]
    OBVIOUS
  <2> QED BY <2>1, <2>2, <1>4
<1>6. PICK g \in [0 .. m - 1 -> Int] : Def(g, m - 1)
  <2>1. m - 1 \in 0 .. Len(items) /\ m - 1 \notin Bad
    <3> HIDE DEF Bad
    <3> QED BY <1>2, <1>5, <1>3
  <2> QED BY <2>1
<1> DEFINE h == [i \in 0 .. m |-> IF i = m THEN g[m - 1] + items[m] ELSE g[i]]
<1>7. items[m] \in Int /\ g[m - 1] \in Int
  BY <1>5
<1>8. h \in [0 .. m -> Int]
  BY <1>7
<1>9. \A i \in 0 .. m : h[i] = IF i = 0 THEN 0 ELSE h[i - 1] + items[i]
  <2>1. \A i \in 0 .. m - 1 : g[i] = IF i = 0 THEN 0 ELSE g[i - 1] + items[i]
    BY <1>6
  <2> QED BY <1>5, <1>3, <2>1
<1>10. Def(h, m)
  BY <1>8, <1>9
<1> QED BY <1>8, <1>10, <1>4

LEMMA SumsAre ==
  ASSUME NEW items \in Seq(Int)
  PROVE  /\ Sums(items) \in [0 .. Len(items) -> Int]
         /\ Sums(items)[0] = 0
         /\ \A n \in 1 .. Len(items) : Sums(items)[n] = Sums(items)[n - 1] + items[n]
<1> DEFINE len == Len(items)
           Def(g) == g = [i \in 0 .. len |-> IF i = 0 THEN 0 ELSE g[i - 1] + items[i]]
<1>1. \E g \in [0 .. len -> Int] : Def(g)
  <2>1. len \in 0 .. Len(items)
    OBVIOUS
  <2> QED BY <2>1, SumsExist
<1>2. Sums(items) = CHOOSE g : Def(g)
  BY DEF Sums
<1>3. Def(Sums(items))
  <2> HIDE DEF Def
  <2> QED BY <1>1, <1>2
<1> DEFINE s == Sums(items)
<1>4. s = [i \in 0 .. len |-> IF i = 0 THEN 0 ELSE s[i - 1] + items[i]]
  BY <1>3
<1>5. len \in Nat
  OBVIOUS
<1> HIDE DEF s, len
<1>6. s[0] = 0 /\ \A n \in 1 .. len : s[n] = s[n - 1] + items[n]
  BY <1>4, <1>5
<1> DEFINE Bad == {n \in 0 .. len : s[n] \notin Int}
<1>7. Bad = {}
  <2> SUFFICES ASSUME Bad # {} PROVE FALSE
    OBVIOUS
  <2>1. PICK m \in Bad : \A k \in Bad : m <= k
    <3>1. Bad \subseteq Nat
      OBVIOUS
    <3> HIDE DEF Bad
    <3> QED BY <3>1, LeastNumber
  <2>2. m \in 0 .. len
    BY <2>1
  <2>3. m # 0
    BY <1>6, <2>1
  <2>4. s[m - 1] \in Int /\ items[m] \in Int
    <3>1. m - 1 \notin Bad
      <4> HIDE DEF Bad
      <4> QED BY <2>1, <2>2, <1>5
    <3> QED BY <2>1, <2>3, <3>1, <1>5 DEF len
  <2> QED BY <1>6, <2>1, <2>3, <2>4
<1>8. s \in [0 .. len -> Int]
  BY <1>4, <1>7
<1> QED BY <1>6, <1>8 DEF s, len

LEMMA LineItemsSumIsInt ==
  ASSUME NEW inv \in Invoices
  PROVE  LineItemsSum(inv) \in Int
<1>1. inv.lineItems \in Seq(Int)
  <2>1. IsInvoice(inv)
    BY EngineAssumption
  <2> QED BY <2>1, Zenon DEF IsInvoice
<1>2. PICK items \in Seq(Int) : items = inv.lineItems
  BY <1>1
<1>3. Sums(items) \in [0 .. Len(items) -> Int] /\ Len(items) \in 0 .. Len(items)
  BY SumsAre
<1> QED BY <1>2, <1>3 DEF LineItemsSum

-----------------------------------------------------------------------------
\* The engine's rule for an answer, of that answer as it is stored.
LEMMA EngineRule ==
  ASSUME NEW inv \in Invoices, NEW row \in Stored(inv), NEW dec \in EvaluateExtraction(inv)
  PROVE  RuleHolds(row, dec)
<1>1. /\ inv.subtotal \in Int /\ Threshold \in Int /\ Cent \in Nat \ {0}
      /\ \A field \in DOMAIN inv.confidence : inv.confidence[field] \in Int
  <2>1. IsInvoice(inv) /\ Threshold \in Int /\ Cent \in Nat \ {0}
    BY EngineAssumption
  <2>2. /\ inv.subtotal \in Int
        /\ \A field \in DOMAIN inv.confidence : inv.confidence[field] \in Int
    BY <2>1, Zenon DEF IsInvoice
  <2> QED BY <2>1, <2>2
<1>2. PICK valid \in MathValid(inv) :
        dec = IF valid /\ BelowThreshold(inv) = {} THEN "auto_approve"
                                                   ELSE "route_to_review"
  BY DEF EvaluateExtraction
<1>3. BelowThreshold(inv) = {}
        <=> \A field \in DOMAIN inv.confidence : inv.confidence[field] >= Threshold
  BY <1>1 DEF BelowThreshold
<1>4. PICK c \in ToCents(inv.subtotal) :
        row = [lineItems |-> inv.lineItems, subtotal |-> c, confidence |-> inv.confidence]
  BY DEF Stored
<1>5. /\ row.confidence = inv.confidence /\ row.subtotal = c
      /\ LineItemsSum(row) = LineItemsSum(inv)
  BY <1>4 DEF LineItemsSum
<1>6. PICK sum \in Int : sum = LineItemsSum(inv)
  BY LineItemsSumIsInt
<1>7. PICK judged \in Int : judged = inv.subtotal
  BY <1>1
<1>8. c \in Int /\ 2 * Distance(c, judged) <= Cent
  <2>1. judged % Cent \in Int
    BY <1>1
  <2> QED BY <1>1, <1>7, <2>1 DEF ToCents
<1>9. /\ valid => Distance(sum, judged) <= Cent
      /\ ~ valid => Distance(sum, judged) >= Cent
  <2>1. PICK away \in Int : away = Distance(sum, judged)
    BY DEF Distance
  <2>2. CASE away = Cent
    BY <1>1, <2>1, <2>2
  <2>3. CASE away # Cent
    <3>1. valid \in {away < Cent}
      BY <1>2, <1>6, <1>7, <2>1, <2>3 DEF MathValid, Tolerance
    <3>2. valid <=> away < Cent
      BY <3>1, Zenon
    <3> QED BY <1>1, <2>1, <3>2
  <2> QED BY <2>2, <2>3
<1>10. /\ valid => 2 * Distance(sum, c) <= 3 * Cent
       /\ ~ valid => 2 * Distance(sum, c) >= Cent
  BY <1>1, <1>8, <1>9 DEF Distance
<1> QED BY <1>2, <1>3, <1>5, <1>6, <1>10 DEF RuleHolds

-----------------------------------------------------------------------------
(* What is decided, until it has been announced.  A job whose own run's row *)
(* is stored has inserted it in this very execution, for where only calls   *)
(* to the providers fail nothing can throw after the insert; so its         *)
(* decision is of the answer that is stored, whoever else has the document. *)

Announcing == {"decide"} \cup Deciding
OwnRow(j) ==
  extraction[Doc(j)].run = Run(j) =>
    \/ /\ extPc[j] \in Announcing
       /\ \E inv \in Invoices : /\ extraction[Doc(j)].invoice \in Stored(inv)
                                /\ decision[j] \in EvaluateExtraction(inv)
    \/ extPc[j] = "return"
    \/ extPc[j] = "idle" /\ extQ[j].state = "completed"
AuditInv == \A j \in Jobs : OwnRow(j)

\* Of a job and its row, as they are and as they come to be.
LEMMA OwnRowKept ==
  ASSUME NEW j \in Jobs, OwnRow(j),
         extPc'[j] = extPc[j], decision'[j] = decision[j],
         extQ[j].state = "completed" => extQ'[j].state = "completed",
         \/ extraction'[Doc(j)] = extraction[Doc(j)]
         \/ /\ extraction'[Doc(j)].run = extraction[Doc(j)].run
            /\ extraction'[Doc(j)].invoice = extraction[Doc(j)].invoice
         \/ extraction'[Doc(j)].run # Run(j)
  PROVE  OwnRow(j)'
BY DEF OwnRow, Doc, Run

\* A step of the extraction worker leaves the row, or inserts its own run's.
LEMMA ExtRows ==
  ASSUME ProvidersFail, TypeOK, NEW j \in Jobs, ExtProgress(j) \/ ExtThrow(j), OwnRow(j)
  PROVE  /\ OwnRow(j)'
         /\ \/ extraction'[Doc(j)] = extraction[Doc(j)]
            \/ extraction'[Doc(j)].run = Run(j)
<1>1. /\ extraction \in [Documents -> ExtractionRows] /\ Doc(j) \in Documents
      /\ extPc \in [Jobs -> ExtPcs] /\ decision \in [Jobs -> Decisions \cup {"none"}]
      /\ extQ \in [Jobs -> JobRecords] /\ Doc(j)' = Doc(j) /\ Run(j)' = Run(j)
  BY JobNames DEF TypeOK, Doc, Run
<1>2. ASSUME NEW inv \in Invoices, ExtInsert(j, inv)
      PROVE  /\ OwnRow(j)'
             /\ \/ extraction'[Doc(j)] = extraction[Doc(j)]
                \/ extraction'[Doc(j)].run = Run(j)
  <2>1. PICK kept \in Stored(inv) :
          extraction' = [extraction EXCEPT ![Doc(j)] =
            Inserted(@, [run |-> Run(j), invoice |-> kept, edited |-> FALSE])]
    BY <1>2 DEF ExtInsert
  <2> DEFINE row == [run |-> Run(j), invoice |-> kept, edited |-> FALSE]
  <2>2. row.run = Run(j) /\ row.invoice = kept
    OBVIOUS
  <2>3. extPc[j] = "insert" /\ extPc'[j] = "decide"
    BY <1>1, <1>2 DEF ExtInsert, ExtStep
  <2>4. PICK v \in EvaluateExtraction(inv) : decision' = [decision EXCEPT ![j] = v]
    BY <1>2 DEF ExtInsert
  <2>5. decision'[j] = v
    BY <1>1, <2>4
  <2>6. extraction[Doc(j)].run # Run(j)
    BY <2>3 DEF OwnRow, Announcing, Deciding
  <2>7. extraction'[Doc(j)] = Inserted(extraction[Doc(j)], row)
    BY <1>1, <2>1
  <2> HIDE DEF row
  <2>8. extraction'[Doc(j)] \in {extraction[Doc(j)], row}
    BY <2>7 DEF Inserted
  <2>9. CASE extraction'[Doc(j)] = row
    BY <1>1, <2>2, <2>3, <2>5, <2>9 DEF OwnRow, Announcing
  <2>10. CASE extraction'[Doc(j)] = extraction[Doc(j)]
    BY <1>1, <2>6, <2>10 DEF OwnRow
  <2> QED BY <2>2, <2>8, <2>9, <2>10
<1>3. ASSUME ~ \E inv \in Invoices : ExtInsert(j, inv)
      PROVE  UNCHANGED extraction /\ OwnRow(j)'
  <2>1. UNCHANGED extraction
    BY <1>3 DEF ExtProgress, ExtThrow, ExtStart, ExtEmpty, ExtAuditEmpty, ExtMark,
       ExtUnknown, ExtAuditUnknown, ExtInvoice, ExtDecide, ExtAuditExtracted,
       ExtAuditDecision, ExtNotify, ExtAdd, ExtCatch, ExtAuditFailed, ExtReturn,
       ExtFail, ExtPromote, ExtRecover, ExtJob, ExtLog, ExtSetStatus, ExtError
  <2>2. CASE extPc[j] \in Announcing
    <3>1. /\ extPc'[j] \in Announcing \cup {"return"} /\ UNCHANGED decision
      <4>1. \/ ExtDecide(j) \/ ExtAuditExtracted(j) \/ ExtAuditDecision(j)
            \/ ExtNotify(j)
        BY <1>3, <2>2 DEF ProvidersFail, Announcing, Deciding, ExtProgress, ExtThrow,
           ExtStart, ExtEmpty, ExtAuditEmpty, ExtMark, ExtUnknown, ExtAuditUnknown,
           ExtInvoice, ExtCatch, ExtAuditFailed, ExtReturn, ExtFail, ExtPromote,
           ExtRecover, ExtJob, ExtLog, ExtSetStatus, ExtStep
      <4> QED BY <1>1, <4>1 DEF Announcing, Deciding, ExtDecide, ExtAuditExtracted,
             ExtAuditDecision, ExtNotify, ExtAdd, ExtSetStatus, ExtLog, ExtStep
    <3> QED BY <1>1, <2>1, <2>2, <3>1 DEF OwnRow, Announcing, Deciding
  <2>3. CASE extPc[j] = "return"
    <3>1. ExtReturn(j)
      BY <1>3, <2>3 DEF ExtProgress, ExtThrow, ExtStart, ExtEmpty, ExtAuditEmpty,
         ExtMark, ExtUnknown, ExtAuditUnknown, ExtInvoice, ExtDecide, ExtAuditExtracted,
         ExtAuditDecision, ExtNotify, ExtAdd, ExtCatch, ExtAuditFailed, ExtFail,
         ExtPromote, ExtRecover, ExtJob, ExtLog, ExtSetStatus, ExtStep
    <3>2. extPc'[j] = "idle" /\ extQ'[j].state = "completed"
      BY <1>1, <3>1 DEF ExtReturn, ExtJob, ExtStep, Completed, Finished
    <3> QED BY <1>1, <2>1, <3>2 DEF OwnRow
  <2>4. CASE extPc[j] = "idle" /\ extQ[j].state = "completed"
    BY <1>3, <2>4 DEF ExtProgress, ExtThrow, ExtStart, ExtEmpty, ExtAuditEmpty,
       ExtMark, ExtUnknown, ExtAuditUnknown, ExtInvoice, ExtDecide, ExtAuditExtracted,
       ExtAuditDecision, ExtNotify, ExtAdd, ExtCatch, ExtAuditFailed, ExtReturn,
       ExtFail, ExtPromote, ExtRecover, ExtJob, ExtLog, ExtSetStatus, ExtStep
  <2>5. CASE extraction[Doc(j)].run # Run(j)
    BY <1>1, <2>1, <2>5 DEF OwnRow
  <2> QED BY <2>1, <2>2, <2>3, <2>4, <2>5 DEF OwnRow
<1> QED BY <1>2, <1>3

\* And a request leaves every row its run and its invoice, or takes it away.
LEMMA RequestRows ==
  ASSUME IInv, NEW a \in Reviewers,
         RequestBegin(a) \/ RequestProgress(a) \/ RequestLost(a)
  PROVE  /\ UNCHANGED <<extQ, extPc, decision>>
         /\ \A d \in Documents :
              \/ extraction'[d] = extraction[d]
              \/ /\ extraction'[d].run = extraction[d].run
                 /\ extraction'[d].invoice = extraction[d].invoice
              \/ extraction'[d] = NoRow
<1>1. extraction \in [Documents -> ExtractionRows]
  BY DEF IInv, TypeOK
<1>2. UNCHANGED <<extQ, extPc, decision>>
  BY DEF RequestLost, queues, RequestBegin, ApproveBegin, RejectBegin, EditBegin, ReprocessBegin, Begin,
     RequestProgress, ApproveCommit, RejectCommit, DecideCommit, EnqueueWebhook,
     EditCommit, ReprocessCommit, ReprocessEnqueue, ReviewOther, workers
<1>3. CASE EditCommit(a) /\ EditAllowed(a)
  <2>1. extraction' = [extraction EXCEPT ![req[a].doc].edited = TRUE]
    BY <1>3 DEF EditCommit
  <2>2. PICK d : d = req[a].doc
    OBVIOUS
  <2> DEFINE row == [extraction[d] EXCEPT !.edited = TRUE]
  <2>3. extraction' = [extraction EXCEPT ![d] = row]
    BY <2>1, <2>2
  <2>4. d \in Documents =>
          row.run = extraction[d].run /\ row.invoice = extraction[d].invoice
    <3>1. d \in Documents =>
            extraction[d] \in {NoRow} \cup [run : Runs, invoice : StoredInvoices,
                                            edited : BOOLEAN]
      BY <1>1 DEF ExtractionRows
    <3>2. ASSUME extraction[d] = NoRow
          PROVE  row.run = extraction[d].run /\ row.invoice = extraction[d].invoice
      BY <3>2 DEF NoRow
    <3> QED BY <3>1, <3>2
  <2> HIDE DEF row
  <2> QED BY <1>1, <1>2, <2>3, <2>4
<1>4. CASE ReprocessCommit(a)
  <2>1. PICK d : d = req[a].doc
    OBVIOUS
  <2>2. \/ UNCHANGED extraction
        \/ extraction' = [extraction EXCEPT ![d] = NoRow]
    BY <1>4, <2>1 DEF ReprocessCommit
  <2> QED BY <1>1, <1>2, <2>2
<1>5. CASE ~ (EditCommit(a) /\ EditAllowed(a)) /\ ~ ReprocessCommit(a)
  <2>1. UNCHANGED extraction
    BY <1>5 DEF RequestLost, RequestBegin, ApproveBegin, RejectBegin, EditBegin, ReprocessBegin, Begin,
       RequestProgress, ApproveCommit, RejectCommit, DecideCommit, EnqueueWebhook,
       EditCommit, ReprocessEnqueue, db, content
  <2> QED BY <1>2, <2>1
<1> QED BY <1>3, <1>4, <1>5

LEMMA NextAuditInv ==
  ASSUME ProvidersFail, IInv, AuditInv, [Next]_vars
  PROVE  AuditInv'
<1>1. TypeOK /\ \A j \in Jobs : Doc(j) \in Documents /\ Run(j) \in Runs
  BY JobNames DEF IInv
<1>2. \A j \in Jobs : NoRow.run # Run(j)
  <2>1. NoRow.run = NoRun
    BY Zenon DEF NoRow
  <2> QED BY <1>1, <2>1
<1>3. ASSUME UNCHANGED <<extQ, extPc, decision, extraction>> PROVE AuditInv'
  BY <1>3, OwnRowKept DEF AuditInv
<1>4. CASE UNCHANGED vars
  BY <1>3, <1>4 DEF vars, db, content, workers, queues
<1>5. ASSUME NEW d \in Documents,
             UploadInsert(d) \/ UploadProgress(d) \/ UploadThrow(d)
               \/ UploadUnconfirmed(d) \/ UploadLost(d)
      PROVE  AuditInv'
  BY <1>3, <1>5 DEF UploadInsert, UploadProgress, UploadThrow, UploadUnconfirmed,
     UploadLost, UploadStore, UploadKey, UploadAudit, UploadEnqueue, UploadAdd,
     UploadCatch, UploadStep, workers
<1>6. ASSUME NEW a \in Reviewers,
             RequestBegin(a) \/ RequestProgress(a) \/ RequestLost(a)
      PROVE  AuditInv'
  <2>1. ASSUME NEW j \in Jobs PROVE OwnRow(j)'
    <3>1. /\ extQ'[j] = extQ[j] /\ extPc'[j] = extPc[j] /\ decision'[j] = decision[j]
          /\ OwnRow(j)
      BY <1>6, RequestRows DEF AuditInv
    <3> QED BY <1>1, <1>2, <1>6, <3>1, RequestRows, OwnRowKept
  <2> QED BY <2>1 DEF AuditInv
<1>7. ASSUME NEW i \in Jobs, OcrProgress(i) \/ OcrFault(i) PROVE AuditInv'
  <2>1. OcrProgress(i) \/ OcrThrow(i)
    BY <1>7 DEF ProvidersFail, OcrFault, OcrUnconfirmed, OcrAbort, OcrCrash
  <2>2. UNCHANGED <<extraction, extPc, decision>>
    BY <1>1, <2>1, OcrOthers
  <2>3. extQ' = extQ \/ extQ' = [extQ EXCEPT ![i] = Added(@)]
    BY <2>1 DEF OcrProgress, OcrThrow, OcrStart, OcrMark, OcrDetect, OcrAudit,
       OcrEnqueue, OcrAdd, OcrCatch, OcrReturn, OcrFail, OcrPromote, OcrRecover,
       OcrJob, queues
  <2>4. \A j \in Jobs : extQ[j].state = "completed" => extQ'[j].state = "completed"
    <3>1. extQ \in [Jobs -> JobRecords]
      BY <1>1 DEF TypeOK
    <3> QED BY <2>3, <3>1 DEF Added
  <2> QED BY <2>2, <2>4, OwnRowKept DEF AuditInv
<1>8. ASSUME NEW i \in Jobs, ExtProgress(i) \/ ExtFault(i) PROVE AuditInv'
  <2>1. ExtProgress(i) \/ ExtThrow(i)
    BY <1>8 DEF ProvidersFail, ExtFault, ExtUnconfirmed, ExtAbort, ExtCrash
  <2>2. ASSUME NEW j \in Jobs \ {i} PROVE OwnRow(j)'
    <3>1. /\ OwnRow(j) /\ extQ'[j] = extQ[j] /\ extPc'[j] = extPc[j]
          /\ decision'[j] = decision[j]
      BY <1>1, <2>1, ExtOthers DEF AuditInv, OnlyJob, SameJob
    <3>2. CASE Doc(j) # Doc(i)
      <4>1. extraction'[Doc(j)] = extraction[Doc(j)]
        BY <1>1, <2>1, <3>2, ExtOthers DEF OnlyJob, SameDoc
      <4> QED BY <3>1, <4>1, OwnRowKept
    <3>3. CASE Doc(j) = Doc(i)
      <4>1. Run(j) # Run(i)
        BY <3>3, JobNames
      <4>2. \/ extraction'[Doc(j)] = extraction[Doc(j)]
            \/ extraction'[Doc(j)].run = Run(i)
        BY <1>1, <2>1, <3>3, ExtRows DEF AuditInv
      <4> QED BY <3>1, <4>1, <4>2, OwnRowKept
    <3> QED BY <3>2, <3>3
  <2>3. OwnRow(i)'
    BY <1>1, <2>1, ExtRows DEF AuditInv
  <2> QED BY <2>2, <2>3 DEF AuditInv
<1> QED BY <1>4, <1>5, <1>6, <1>7, <1>8 DEF Next

\* The decision that is committed, audited and announced is the one the README's
\* rule gives, up to the rounding, for the invoice that is stored: where only calls
\* to the providers fail, for every answer the LLM may give, in whatever unit, every
\* number of attempts, and however runs overlap and reprocessings replace the row.
THEOREM DecisionsMatch ==
  ASSUME ProvidersFail
  PROVE  Spec => []DecisionMatchesStored
<1>1. Init => AuditInv
  <2> SUFFICES ASSUME Init, NEW j \in Jobs PROVE OwnRow(j)
    BY DEF AuditInv
  <2>1. extraction[Doc(j)] = NoRow /\ Run(j) \in Runs
    BY JobNames DEF Init
  <2>2. NoRow.run = NoRun
    BY Zenon DEF NoRow
  <2> QED BY <2>1, <2>2 DEF OwnRow
<1>2. IInv /\ AuditInv /\ [Next]_vars => AuditInv'
  BY NextAuditInv
<1>3. AuditInv => DecisionMatchesStored
  <2> SUFFICES ASSUME AuditInv, NEW j \in Jobs, extPc[j] \in Deciding,
                      extraction[Doc(j)].run = Run(j)
               PROVE  RuleHolds(extraction[Doc(j)].invoice, decision[j])
    BY DEF DecisionMatchesStored
  <2>1. PICK inv \in Invoices : /\ extraction[Doc(j)].invoice \in Stored(inv)
                                /\ decision[j] \in EvaluateExtraction(inv)
    BY DEF AuditInv, OwnRow, Deciding
  <2> QED BY <2>1, EngineRule
<1> QED BY <1>1, <1>2, <1>3, Invariance, PTL DEF Spec

-----------------------------------------------------------------------------
(***************************************************************************)
(* When two runs write to a document.  Without Patient reviewers the       *)
(* document may have several holders, and RInv is lost; but only once a    *)
(* job of it was put back for a retry.  Up to then it is Solo, where a     *)
(* holder is an upload, a reprocessing that has committed, or a run that   *)
(* still writes in this attempt: that is less than JobHolds, which counts  *)
(* a failing execution that will be put back.                              *)
(***************************************************************************)

Unsettled == {"uploaded", "ocr_processing", "extracted", "extracting"}
Writes(j) == ~ WritesNoMore(j)
Unheld(d) == ~ Starting(d) /\ \A r \in Runs : ~ Writes(<<d, r>>)
Solo(d) ==
  /\ ~ PutBack(d)
  /\ \A a, b \in Reviewers : Restarting(a, d) /\ Restarting(b, d) => a = b
  /\ \A r, s \in Runs : Writes(<<d, r>>) /\ Writes(<<d, s>>) => r = s
  /\ ~ (Uploading(d) /\ \E a \in Reviewers : Restarting(a, d))
  /\ ~ (Starting(d) /\ \E r \in Runs : Writes(<<d, r>>))
  /\ status[d] \in Unsettled \/ Unheld(d)

Courses == \A j \in Jobs : JobCourse(j)
OverInv == IInv /\ Courses /\ \A d \in Documents \ retried : Solo(d)

\* Where the extraction worker may move a job: within an execution, into one, out
\* of one, or from a set of the queue to another; and which steps write the status.
ExtWriting == {"mark", "classify", "insert", "decide", "empty", "catch"}
LEMMA ExtMoves ==
  ASSUME ProvidersFail, TypeOK, NEW j \in Jobs, ExtProgress(j) \/ ExtFault(j)
  PROVE  \/ /\ extQ'[j] = extQ[j] /\ extPc[j] # "idle" /\ extPc'[j] # "idle"
            /\ extPc'[j] \in ExtWriting => extPc[j] \in ExtWriting
            /\ \/ UNCHANGED status
               \/ /\ extPc[j] \in ExtWriting
                  /\ extPc'[j] \notin ExtWriting \/ status'[Doc(j)] \in Unsettled
         \/ /\ extQ[j].state = "waiting" /\ extQ'[j].state = "active"
            /\ extPc[j] = "idle" /\ extPc'[j] # "idle" /\ UNCHANGED status
         \/ /\ extPc[j] # "idle" /\ extQ'[j].state \in {"completed", "delayed", "failed"}
            /\ extPc'[j] = "idle" /\ UNCHANGED status
         \/ /\ extQ[j].state \in {"delayed", "stalled"} /\ extPc[j] = "idle"
            /\ extQ[j].state = "delayed" => extQ'[j].state = "waiting"
            /\ extPc'[j] = "idle" /\ UNCHANGED status
<1>1. /\ extPc \in [Jobs -> ExtPcs] /\ extQ \in [Jobs -> JobRecords]
      /\ status \in [Documents -> Statuses \cup {"absent"}] /\ Doc(j) \in Documents
  BY JobNames DEF TypeOK
<1>2. ExtProgress(j) \/ ExtThrow(j)
  BY DEF ProvidersFail, ExtFault, ExtUnconfirmed, ExtAbort, ExtCrash
<1>3. ASSUME NEW from, NEW to, NEW s, ExtSetStatus(j, from, to, s)
      PROVE  /\ extPc[j] = from /\ extPc'[j] = to /\ status'[Doc(j)] = s
             /\ extQ'[j] = extQ[j]
  BY <1>1, <1>3 DEF ExtSetStatus, ExtStep, SetStatus
<1>4. CASE ExtEmpty(j) \/ ExtMark(j) \/ ExtDecide(j) \/ ExtCatch(j)
  BY <1>3, <1>4 DEF ExtEmpty, ExtMark, ExtDecide, ExtCatch, ExtWriting, Unsettled
<1>5. CASE \/ ExtUnknown(j) \/ ExtInvoice(j) \/ ExtThrow(j)
           \/ \E inv \in Invoices : ExtInsert(j, inv)
  <2>1. /\ extPc[j] \in ExtWriting /\ extPc'[j] # "idle" /\ extQ'[j] = extQ[j]
        /\ UNCHANGED status \/ extPc'[j] = "auditUnknown"
    BY <1>1, <1>5 DEF ProvidersFail, ExtUnknown, ExtInvoice, ExtThrow, ExtInsert,
       ExtError, ExtStep, ExtWriting
  <2> QED BY <2>1 DEF ExtWriting
<1>6. CASE \/ ExtAuditEmpty(j) \/ ExtAuditUnknown(j) \/ ExtAuditExtracted(j)
           \/ ExtAuditDecision(j) \/ ExtAuditFailed(j) \/ ExtNotify(j)
  <2>1. /\ extPc[j] # "idle" /\ extPc'[j] \notin ExtWriting \cup {"idle"}
        /\ UNCHANGED status /\ extQ'[j] = extQ[j]
    BY <1>1, <1>6 DEF ExtAuditEmpty, ExtAuditUnknown, ExtAuditExtracted, ExtAuditDecision,
       ExtAuditFailed, ExtNotify, ExtAdd, ExtLog, ExtStep, ExtWriting
  <2> QED BY <2>1
<1>7. CASE ExtStart(j)
  BY <1>1, <1>7 DEF ExtStart, ExtStep, FirstStep, Claimed, JobRecords
<1>8. CASE ExtReturn(j) \/ ExtFail(j)
  <2>1. /\ extPc[j] # "idle" /\ extPc'[j] = "idle" /\ UNCHANGED status
        /\ extQ'[j] \in {Completed(extQ[j]), Failed(extQ[j])}
    BY <1>1, <1>8 DEF ExtReturn, ExtFail, ExtJob, ExtStep
  <2>2. /\ Completed(extQ[j]).state = "completed"
        /\ Failed(extQ[j]).state \in {"delayed", "failed"}
    BY <1>1 DEF Completed, Failed, Finished, JobRecords
  <2> QED BY <2>1, <2>2
<1>9. CASE ExtPromote(j) \/ ExtRecover(j)
  <2>1. /\ extQ[j].state \in {"delayed", "stalled"} /\ extPc[j] = "idle"
        /\ extPc'[j] = "idle" /\ UNCHANGED status
        /\ extQ[j].state = "delayed" => extQ'[j] = Promoted(extQ[j])
    BY <1>1, <1>9 DEF ExtPromote, ExtRecover, ExtJob, ExtStep
  <2>2. Promoted(extQ[j]).state = "waiting"
    BY <1>1 DEF Promoted, JobRecords
  <2> QED BY <2>1, <2>2
<1> QED BY <1>2, <1>4, <1>5, <1>6, <1>7, <1>8, <1>9 DEF ExtProgress

\* The same of the OCR worker, which also adds the extraction job of the run.
OcrWriting == {"mark", "detect", "audit", "enqueue", "catch"}
LEMMA OcrMoves ==
  ASSUME ProvidersFail, TypeOK, NEW j \in Jobs, OcrProgress(j) \/ OcrFault(j)
  PROVE  \/ /\ ocrQ'[j] = ocrQ[j] /\ ocrPc[j] \in OcrWriting
            /\ \/ /\ ocrPc'[j] \in OcrWriting /\ extQ'[j] = extQ[j]
                  /\ UNCHANGED status \/ status'[Doc(j)] \in Unsettled
               \/ ocrPc'[j] = "fail" /\ extQ'[j] = extQ[j]
               \/ /\ ocrPc'[j] = "return" /\ extQ'[j] = Added(extQ[j])
                  /\ UNCHANGED status
         \/ /\ ocrQ[j].state = "waiting" /\ ocrQ'[j].state = "active"
            /\ ocrPc[j] = "idle" /\ ocrPc'[j] = "mark"
            /\ extQ'[j] = extQ[j] /\ UNCHANGED status
         \/ /\ \/ ocrPc[j] = "return" /\ ocrQ'[j].state = "completed"
               \/ ocrPc[j] = "fail" /\ ocrQ'[j].state \in {"delayed", "failed"}
            /\ ocrPc'[j] = "idle" /\ extQ'[j] = extQ[j] /\ UNCHANGED status
         \/ /\ ocrQ[j].state \in {"delayed", "stalled"} /\ ocrPc[j] = "idle"
            /\ ocrQ[j].state = "delayed" => ocrQ'[j].state = "waiting"
            /\ ocrPc'[j] = "idle" /\ extQ'[j] = extQ[j] /\ UNCHANGED status
<1>1. /\ ocrPc \in [Jobs -> OcrPcs] /\ ocrQ \in [Jobs -> JobRecords]
      /\ extQ \in [Jobs -> JobRecords]
      /\ status \in [Documents -> Statuses \cup {"absent"}] /\ Doc(j) \in Documents
  BY JobNames DEF TypeOK
<1>2. OcrProgress(j) \/ OcrThrow(j)
  BY DEF ProvidersFail, OcrFault, OcrUnconfirmed, OcrAbort, OcrCrash
<1>3. CASE OcrMark(j) \/ (\E text \in OcrTexts : OcrDetect(j, text)) \/ OcrCatch(j)
  <2>1. /\ ocrPc[j] \in OcrWriting /\ ocrQ'[j] = ocrQ[j] /\ extQ'[j] = extQ[j]
        /\ \/ ocrPc'[j] \in OcrWriting /\ status'[Doc(j)] \in Unsettled
           \/ ocrPc'[j] = "fail"
    BY <1>1, <1>3 DEF OcrMark, OcrDetect, OcrCatch, OcrStep, OcrWriting, Unsettled,
       SetStatus, queues
  <2> QED BY <2>1
<1>4. CASE OcrAudit(j) \/ OcrThrow(j)
  <2>1. /\ ocrPc[j] \in OcrWriting /\ ocrQ'[j] = ocrQ[j] /\ extQ'[j] = extQ[j]
        /\ ocrPc'[j] \in OcrWriting /\ UNCHANGED status
    BY <1>1, <1>4 DEF OcrAudit, OcrThrow, OcrStep, OcrWriting, queues
  <2> QED BY <2>1
<1>5. CASE OcrEnqueue(j)
  <2>1. /\ ocrPc[j] = "enqueue" /\ ocrQ'[j] = ocrQ[j] /\ ocrPc'[j] = "return"
        /\ UNCHANGED status /\ extQ'[j] = Added(extQ[j])
    BY <1>1, <1>5 DEF OcrEnqueue, OcrAdd, OcrStep
  <2> QED BY <2>1 DEF OcrWriting
<1>6. CASE OcrStart(j)
  <2>1. /\ ocrQ[j].state = "waiting" /\ ocrQ'[j] = Claimed(ocrQ[j])
        /\ ocrPc[j] = "idle" /\ ocrPc'[j] = "mark"
        /\ extQ'[j] = extQ[j] /\ UNCHANGED status
    BY <1>1, <1>6 DEF OcrStart, OcrStep
  <2>2. Claimed(ocrQ[j]).state = "active"
    BY <1>1 DEF Claimed, JobRecords
  <2> QED BY <2>1, <2>2
<1>7. CASE OcrReturn(j) \/ OcrFail(j)
  <2>1. /\ \/ ocrPc[j] = "return" /\ ocrQ'[j] = Completed(ocrQ[j])
           \/ ocrPc[j] = "fail" /\ ocrQ'[j] = Failed(ocrQ[j])
        /\ ocrPc'[j] = "idle" /\ extQ'[j] = extQ[j] /\ UNCHANGED status
    BY <1>1, <1>7 DEF OcrReturn, OcrFail, OcrJob, OcrStep
  <2>2. /\ Completed(ocrQ[j]).state = "completed"
        /\ Failed(ocrQ[j]).state \in {"delayed", "failed"}
    BY <1>1 DEF Completed, Failed, Finished, JobRecords
  <2> QED BY <2>1, <2>2
<1>8. CASE OcrPromote(j) \/ OcrRecover(j)
  <2>1. /\ ocrQ[j].state \in {"delayed", "stalled"} /\ ocrPc[j] = "idle"
        /\ ocrPc'[j] = "idle" /\ extQ'[j] = extQ[j] /\ UNCHANGED status
        /\ ocrQ[j].state = "delayed" => ocrQ'[j] = Promoted(ocrQ[j])
    BY <1>1, <1>8 DEF OcrPromote, OcrRecover, OcrJob, OcrStep
  <2>2. Promoted(ocrQ[j]).state = "waiting"
    BY <1>1 DEF Promoted, JobRecords
  <2> QED BY <2>1, <2>2
<1> QED BY <1>2, <1>3, <1>4, <1>5, <1>6, <1>7, <1>8 DEF OcrProgress

\* What such a move does to the course of the job, and to who writes.
Move(j) ==
  /\ JobCourse(j)'
  /\ ~ PutBack(Doc(j)) /\ ~ PutBack(Doc(j))' =>
       /\ Writes(j)' => Writes(j)
       /\ \/ status'[Doc(j)] = status[Doc(j)]
          \/ Writes(j) /\ (status'[Doc(j)] \in Unsettled \/ ~ Writes(j)')

LEMMA ExtMove ==
  ASSUME ProvidersFail, IInv, NEW j \in Jobs, JobCourse(j), ExtProgress(j) \/ ExtFault(j)
  PROVE  Move(j)
<1>1. /\ TypeOK /\ UNCHANGED <<ocrQ, ocrPc>> /\ Doc(j) \in Documents /\ Run(j) \in Runs
      /\ j = <<Doc(j), Run(j)>>
  <2>1. ExtProgress(j) \/ ExtThrow(j)
    BY DEF ProvidersFail, ExtFault, ExtUnconfirmed, ExtAbort, ExtCrash
  <2> QED BY <2>1, JobNames, ExtOthers DEF IInv
<1>2. /\ extQ[j].state = "active" <=> extPc[j] # "idle"
      /\ ocrPc[j] \in OcrPcs /\ extPc[j] \in ExtPcs
  BY DEF IInv, OneExecutionPerJob, TypeOK
<1>3. /\ OcrClosed(ocrQ[j].state, ocrPc[j]) /\ ExtCourse(extQ[j].state, extPc[j])
  BY <1>1, <1>2, ExtMoves DEF JobCourse, Course, OcrOpen, OcrClosed, ExtCourse
<1>4. JobCourse(j)'
  BY <1>1, <1>2, <1>3, ExtMoves DEF JobCourse, Course, OcrClosed, ExtCourse
<1>5. ASSUME ~ PutBack(Doc(j)), ~ PutBack(Doc(j))'
      PROVE  extQ[j].state # "delayed" /\ extQ'[j].state # "delayed"
  BY <1>1, <1>5 DEF PutBack, Doc
<1>6. /\ ~ WritesNoMore(j) <=> \/ extQ[j].state \in {"waiting", "delayed", "stalled"}
                               \/ extPc[j] \in ExtWriting
  BY <1>2, <1>3 DEF WritesNoMore, OcrClosed, ExtWriting
<1>7. /\ ~ WritesNoMore(j)' <=> \/ extQ'[j].state \in {"waiting", "delayed", "stalled"}
                                \/ extPc'[j] \in ExtWriting
  BY <1>1, <1>3 DEF WritesNoMore, OcrClosed, ExtWriting
<1> QED BY <1>1, <1>2, <1>3, <1>4, <1>5, <1>6, <1>7, ExtMoves
        DEF Move, Writes, ExtCourse, ExtWriting

LEMMA OcrMove ==
  ASSUME ProvidersFail, IInv, NEW j \in Jobs, JobCourse(j), OcrProgress(j) \/ OcrFault(j)
  PROVE  Move(j)
<1>1. /\ TypeOK /\ UNCHANGED extPc /\ Doc(j) \in Documents /\ Run(j) \in Runs
      /\ j = <<Doc(j), Run(j)>> /\ extQ[j] \in JobRecords
  <2>1. OcrProgress(j) \/ OcrThrow(j)
    BY DEF ProvidersFail, OcrFault, OcrUnconfirmed, OcrAbort, OcrCrash
  <2> QED BY <2>1, JobNames, OcrOthers DEF IInv, TypeOK
<1>2. /\ ocrQ[j].state = "active" <=> ocrPc[j] # "idle"
      /\ ocrPc[j] \in OcrPcs /\ extPc[j] \in ExtPcs
  BY DEF IInv, OneExecutionPerJob, TypeOK
<1>3. extQ[j].state = "absent" => Added(extQ[j]).state = "waiting"
  BY DEF Added, Finished
<1>4. JobCourse(j)'
  BY <1>1, <1>2, <1>3, OcrMoves DEF JobCourse, Course, OcrOpen, OcrClosed, ExtCourse, OcrWriting
<1>5. ASSUME ~ PutBack(Doc(j)), ~ PutBack(Doc(j))'
      PROVE  ocrQ[j].state # "delayed" /\ ocrQ'[j].state # "delayed"
  BY <1>1, <1>5 DEF PutBack, Doc
<1>6. OcrOpen(ocrQ[j].state, ocrPc[j]) => extQ[j].state = "absent" /\ extPc[j] = "idle"
  BY DEF JobCourse, Course, OcrOpen, OcrClosed
<1>7. /\ WritesNoMore(j) <=>
           /\ ocrQ[j].state \notin {"waiting", "delayed", "stalled"}
           /\ extQ[j].state \notin {"waiting", "delayed", "stalled"}
           /\ ocrPc[j] \notin OcrWriting /\ extPc[j] \notin ExtWriting
      /\ WritesNoMore(j)' <=>
           /\ ocrQ'[j].state \notin {"waiting", "delayed", "stalled"}
           /\ extQ'[j].state \notin {"waiting", "delayed", "stalled"}
           /\ ocrPc'[j] \notin OcrWriting /\ extPc'[j] \notin ExtWriting
  <2>1. ocrPc'[j] \in OcrPcs
    BY <1>1, OcrMoves DEF OcrWriting, OcrPcs
  <2> QED BY <1>2, <2>1 DEF WritesNoMore, OcrPcs, OcrWriting, ExtWriting
<1>8. ocrPc[j] \in OcrWriting => extQ[j].state = "absent" /\ extPc[j] = "idle"
  BY <1>2, <1>6 DEF OcrWriting, JobCourse, Course, OcrClosed
<1>9. ASSUME ~ PutBack(Doc(j)), ~ PutBack(Doc(j))'
      PROVE  /\ ~ WritesNoMore(j)' => ~ WritesNoMore(j)
             /\ \/ status'[Doc(j)] = status[Doc(j)]
                \/ /\ ~ WritesNoMore(j)
                   /\ status'[Doc(j)] \in Unsettled \/ WritesNoMore(j)'
  <2>1. ocrQ[j].state \notin {"delayed", "stalled"} /\ ocrQ'[j].state # "delayed"
    BY <1>5, <1>9 DEF JobCourse, Course, OcrOpen, OcrClosed
  <2>2. CASE /\ ocrQ'[j] = ocrQ[j] /\ ocrPc[j] \in OcrWriting
    <3>1. /\ ~ WritesNoMore(j) /\ extPc'[j] = "idle" /\ extQ[j].state = "absent"
          /\ ocrQ'[j].state = "active"
      BY <1>1, <1>2, <1>7, <1>8, <2>2 DEF OcrWriting
    <3>2. CASE ocrPc'[j] \in OcrWriting
      BY <1>1, <2>2, <3>1, <3>2, OcrMoves DEF OcrWriting
    <3>3. CASE ocrPc'[j] = "fail" /\ extQ'[j] = extQ[j]
      BY <1>7, <3>1, <3>3 DEF OcrWriting, ExtWriting
    <3>4. CASE ocrPc'[j] = "return" /\ UNCHANGED status
      BY <3>1, <3>4
    <3> QED BY <1>1, <2>2, <3>2, <3>3, <3>4, OcrMoves DEF OcrWriting
  <2>3. CASE ocrPc[j] \notin OcrWriting
    BY <1>1, <1>2, <1>7, <2>1, <2>3, OcrMoves DEF OcrWriting
  <2>4. CASE ocrPc[j] \in OcrWriting /\ ocrQ'[j] # ocrQ[j]
    BY <1>1, <2>4, OcrMoves DEF OcrWriting
  <2> QED BY <2>2, <2>3, <2>4
<1> QED BY <1>4, <1>9 DEF Move, Writes

-----------------------------------------------------------------------------
(* Who holds a document, after a step.                                     *)

\* A step that gives nobody the document.
LEMMA SoloKept ==
  ASSUME NEW d \in Documents, Solo(d), ~ PutBack(d)', Uploading(d)' => Uploading(d),
         \A a \in Reviewers : Restarting(a, d)' => Restarting(a, d),
         \A r \in Runs : Writes(<<d, r>>)' => Writes(<<d, r>>),
         status'[d] = status[d] \/ status'[d] \in Unsettled \/ Unheld(d)'
  PROVE  Solo(d)'
<1>1. Starting(d)' => Starting(d)
  BY DEF Starting
<1>2. status'[d] \in Unsettled \/ Unheld(d)'
  BY <1>1 DEF Solo, Unheld
<1> QED BY <1>1, <1>2 DEF Solo

\* One that gives it to somebody, when nobody else has it.
LEMMA SoloTaken ==
  ASSUME NEW d \in Documents, ~ PutBack(d)', status'[d] \in Unsettled,
         \/ /\ ~ Starting(d)'
            /\ \E r \in Runs : \A s \in Runs \ {r} : ~ Writes(<<d, s>>)'
         \/ /\ \A r \in Runs : ~ Writes(<<d, r>>)'
            /\ \/ Uploading(d)' /\ \A a \in Reviewers : ~ Restarting(a, d)'
               \/ /\ ~ Uploading(d)'
                  /\ \E a \in Reviewers : \A b \in Reviewers \ {a} : ~ Restarting(b, d)'
  PROVE  Solo(d)'
<1>1. CASE /\ ~ Starting(d)'
           /\ \E r \in Runs : \A s \in Runs \ {r} : ~ Writes(<<d, s>>)'
  <2>1. ~ Uploading(d)' /\ \A a \in Reviewers : ~ Restarting(a, d)'
    BY <1>1 DEF Starting
  <2> QED BY <1>1, <2>1 DEF Solo
<1>2. CASE /\ \A r \in Runs : ~ Writes(<<d, r>>)'
           /\ \/ Uploading(d)' /\ \A a \in Reviewers : ~ Restarting(a, d)'
              \/ /\ ~ Uploading(d)'
                 /\ \E a \in Reviewers : \A b \in Reviewers \ {a} : ~ Restarting(b, d)'
  BY <1>2 DEF Solo
<1> QED BY <1>1, <1>2

LEMMA SoloAfterMove ==
  ASSUME TypeOK, NEW j \in Jobs, OnlyJob(j), Move(j), NEW d \in Documents, Solo(d),
         ~ PutBack(d)'
  PROVE  Solo(d)'
<1>1. /\ Uploading(d)' = Uploading(d) /\ Starting(d)' = Starting(d)
      /\ \A a \in Reviewers : Restarting(a, d)' = Restarting(a, d)
  BY DEF OnlyJob, Starting, Uploading, Restarting
<1>2. ASSUME NEW r \in Runs, <<d, r>> # j PROVE Writes(<<d, r>>)' = Writes(<<d, r>>)
  <2>1. <<d, r>> \in Jobs \ {j}
    BY <1>2, JobNames
  <2> QED BY <2>1 DEF OnlyJob, SameJob, Writes, WritesNoMore
<1>3. ~ PutBack(d)
  BY DEF Solo
<1>4. CASE d # Doc(j)
  <2>1. status'[d] = status[d] /\ \A r \in Runs : <<d, r>> # j
    BY <1>4, JobNames DEF OnlyJob, SameDoc
  <2> QED BY <1>1, <1>2, <2>1, SoloKept
<1>5. CASE d = Doc(j)
  <2>1. PICK r \in Runs : j = <<d, r>>
    BY <1>5, JobNames
  <2>2. /\ Writes(j)' => Writes(j)
        /\ \/ status'[d] = status[d]
           \/ Writes(j) /\ (status'[d] \in Unsettled \/ ~ Writes(j)')
    BY <1>3, <1>5 DEF Move, Doc
  <2>3. \A s \in Runs : Writes(<<d, s>>)' => Writes(<<d, s>>)
    BY <1>2, <2>1, <2>2
  <2>4. Writes(j) /\ ~ Writes(j)' => Unheld(d)'
    BY <1>1, <1>2, <2>1, <2>3 DEF Solo, Unheld
  <2> QED BY <1>1, <2>2, <2>3, <2>4, SoloKept
<1> QED BY <1>4, <1>5

\* An OCR job is added, or the queue has it already.
LEMMA OcrJobAdds ==
  ASSUME TypeOK, Courses, NEW i \in Jobs, ocrQ' = [ocrQ EXCEPT ![i] = Added(@)],
         UNCHANGED <<extQ, ocrPc, extPc>>
  PROVE  Courses' /\ \A j \in Jobs \ {i} : Writes(j)' = Writes(j)
<1>1. ocrQ \in [Jobs -> JobRecords]
  BY DEF TypeOK
<1>2. ASSUME NEW j \in Jobs \ {i}
      PROVE  Writes(j)' = Writes(j) /\ JobCourse(j)' = JobCourse(j)
  BY <1>1, <1>2 DEF Writes, WritesNoMore, JobCourse
<1>3. \/ ocrQ'[i] = ocrQ[i]
      \/ ocrQ[i].state = "absent" /\ ocrQ'[i].state = "waiting"
  <2>1. ocrQ'[i] = Added(ocrQ[i])
    BY <1>1
  <2> QED BY <2>1 DEF Added, Finished
<1>4. JobCourse(i)'
  BY <1>3 DEF Courses, JobCourse, Course, OcrOpen, OcrClosed
<1> QED BY <1>2, <1>4 DEF Courses

\* Steps that leave every job and every request of a document as they are.
Quiet(d) == /\ uploadPc'[d] = uploadPc[d] /\ status'[d] = status[d]
            /\ \A a \in Reviewers : Restarting(a, d)' => Restarting(a, d)
            /\ \A r \in Runs : Writes(<<d, r>>)' = Writes(<<d, r>>)

LEMMA QuietKeeps ==
  ASSUME NEW d \in Documents, Solo(d), ~ PutBack(d)', Quiet(d)
  PROVE  Solo(d)'
BY SoloKept DEF Quiet, Uploading

LEMMA JobsKept ==
  ASSUME UNCHANGED <<ocrQ, extQ, ocrPc, extPc>>
  PROVE  /\ Courses => Courses' /\ \A j \in Jobs : Writes(j)' = Writes(j)
         /\ \A d \in Documents, r \in Runs : Writes(<<d, r>>)' = Writes(<<d, r>>)
BY DEF Courses, JobCourse, Writes, WritesNoMore

LEMMA UploadMoves ==
  ASSUME ProvidersFail, TypeOK, NEW d \in Documents,
         \/ UploadInsert(d) \/ UploadProgress(d) \/ UploadThrow(d)
         \/ UploadUnconfirmed(d) \/ UploadLost(d)
  PROVE  /\ UNCHANGED <<extQ, ocrPc, extPc, req>>
         /\ \A c \in Documents \ {d} : uploadPc'[c] = uploadPc[c] /\ status'[c] = status[c]
         /\ \/ uploadPc[d] = "none" /\ Uploading(d)' /\ status'[d] = "uploaded"
               /\ ocrQ' = ocrQ
            \/ Uploading(d) /\ Uploading(d)' /\ UNCHANGED <<status, ocrQ>>
            \/ Uploading(d) /\ ~ Uploading(d)' /\ UNCHANGED status
               /\ ocrQ' = [ocrQ EXCEPT ![<<d, Initial>>] = Added(@)]
            \/ Uploading(d) /\ ~ Uploading(d)' /\ ocrQ' = ocrQ
<1>1. /\ uploadPc \in [Documents -> UploadPcs]
      /\ status \in [Documents -> Statuses \cup {"absent"}]
  BY DEF TypeOK
<1>2. UploadInsert(d) \/ UploadProgress(d) \/ UploadThrow(d)
  BY DEF ProvidersFail, UploadUnconfirmed, UploadLost
<1>3. ASSUME NEW from, NEW to, UploadStep(d, from, to)
      PROVE  /\ UNCHANGED <<extQ, ocrPc, extPc, req>>
             /\ uploadPc[d] = from /\ uploadPc'[d] = to
             /\ \A c \in Documents \ {d} : uploadPc'[c] = uploadPc[c]
  BY <1>1, <1>3 DEF UploadStep, workers
<1>4. CASE UploadInsert(d)
  <2>1. status'[d] = "uploaded" /\ \A c \in Documents \ {d} : status'[c] = status[c]
    BY <1>1, <1>4 DEF UploadInsert, SetStatus
  <2> QED BY <1>3, <1>4, <2>1 DEF UploadInsert, Uploading
<1>5. CASE UploadStore(d) \/ UploadKey(d) \/ UploadAudit(d) \/ UploadThrow(d)
  BY <1>3, <1>5 DEF UploadStore, UploadKey, UploadAudit, UploadThrow, Uploading
<1>6. CASE UploadEnqueue(d)
  BY <1>3, <1>6 DEF UploadEnqueue, UploadAdd, Uploading
<1>7. CASE UploadCatch(d)
  <2>1. \A c \in Documents \ {d} : status'[c] = status[c]
    BY <1>1, <1>7 DEF UploadCatch, SetStatus
  <2> QED BY <1>3, <1>7, <2>1 DEF UploadCatch, Uploading
<1> QED BY <1>2, <1>4, <1>5, <1>6, <1>7 DEF UploadProgress

LEMMA UploadOver ==
  ASSUME ProvidersFail, IInv, Courses, NEW d \in Documents,
         \/ UploadInsert(d) \/ UploadProgress(d) \/ UploadThrow(d)
         \/ UploadUnconfirmed(d) \/ UploadLost(d)
  PROVE  /\ Courses'
         /\ \A c \in Documents : Solo(c) /\ ~ PutBack(c)' => Solo(c)'
<1>1. /\ TypeOK /\ <<d, Initial>> \in Jobs
      /\ uploadPc[d] = "none" => status[d] = "absent"
  BY JobNames DEF IInv, UploadInv
<1>2. \A a \in Reviewers, c \in Documents : Restarting(a, c)' = Restarting(a, c)
  BY <1>1, UploadMoves DEF Restarting
<1>3. Courses' /\ \A j \in Jobs \ {<<d, Initial>>} : Writes(j)' = Writes(j)
  <2>1. CASE ocrQ' = ocrQ
    BY <1>1, <2>1, UploadMoves, JobsKept
  <2>2. CASE ocrQ' = [ocrQ EXCEPT ![<<d, Initial>>] = Added(@)]
    BY <1>1, <2>2, UploadMoves, OcrJobAdds
  <2> QED BY <1>1, <2>1, <2>2, UploadMoves
<1>4. ASSUME NEW c \in Documents \ {d}, Solo(c), ~ PutBack(c)' PROVE Solo(c)'
  <2>1. \A r \in Runs : <<c, r>> \in Jobs \ {<<d, Initial>>}
    BY JobNames
  <2>2. Quiet(c)
    BY <1>1, <1>2, <1>3, <2>1, UploadMoves DEF Quiet
  <2> QED BY <1>4, <2>2, QuietKeeps
<1>5. ASSUME Solo(d), ~ PutBack(d)' PROVE Solo(d)'
  <2>1. CASE uploadPc[d] = "none" /\ Uploading(d)' /\ status'[d] = "uploaded" /\ ocrQ' = ocrQ
    <3>1. Unheld(d)
      BY <1>1, <1>5, <2>1 DEF Solo, Unsettled
    <3>2. /\ \A a \in Reviewers : ~ Restarting(a, d)'
          /\ \A r \in Runs : ~ Writes(<<d, r>>)'
      BY <1>1, <1>2, <2>1, <3>1, UploadMoves, JobsKept DEF Unheld, Starting
    <3> QED BY <1>5, <2>1, <3>2, SoloTaken DEF Unsettled
  <2>2. CASE Uploading(d) /\ Uploading(d)' /\ UNCHANGED <<status, ocrQ>>
    <3>1. \A r \in Runs : Writes(<<d, r>>)' = Writes(<<d, r>>)
      BY <1>1, <2>2, UploadMoves, JobsKept
    <3> QED BY <1>2, <1>5, <2>2, <3>1, SoloKept
  <2>3. CASE Uploading(d) /\ ~ Uploading(d)'
    <3>1. /\ Starting(d) /\ \A a \in Reviewers : ~ Restarting(a, d)'
          /\ \A r \in Runs : ~ Writes(<<d, r>>)
          /\ status[d] \in Unsettled
      BY <1>2, <1>5, <2>3 DEF Solo, Starting, Unheld
    <3>2. ~ Starting(d)' /\ \A r \in Runs \ {Initial} : ~ Writes(<<d, r>>)'
      <4>1. \A r \in Runs \ {Initial} : <<d, r>> \in Jobs \ {<<d, Initial>>}
        BY JobNames
      <4> QED BY <1>3, <2>3, <3>1, <4>1 DEF Starting
    <3>3. CASE UNCHANGED status
      BY <1>5, <3>1, <3>2, <3>3, SoloTaken
    <3>4. CASE ocrQ' = ocrQ
      <4>1. \A r \in Runs : ~ Writes(<<d, r>>)'
        BY <1>1, <3>1, <3>4, UploadMoves, JobsKept
      <4> QED BY <1>2, <1>5, <2>3, <3>2, <4>1, SoloKept DEF Unheld
    <3> QED BY <1>1, <2>3, <3>3, <3>4, UploadMoves
  <2> QED BY <1>1, <2>1, <2>2, <2>3, UploadMoves
<1> QED BY <1>3, <1>4, <1>5

\* What a request may do: nothing that matters here, a decision, the commit of a
\* reprocessing, and the addition of its job.
Idles(a) == req'[a].pc # "enqueue" /\ UNCHANGED <<status, ocrQ>>
Decides(a, d, s) ==
  /\ status[d] = "pending_review" /\ status' = [status EXCEPT ![d] = s]
  /\ req'[a].pc # "enqueue" /\ ocrQ' = ocrQ
Takes(a, d) ==
  /\ status[d] \in {"failed", "rejected"} /\ status' = [status EXCEPT ![d] = "uploaded"]
  /\ req'[a].pc = "enqueue" /\ req'[a].doc = d /\ ocrQ' = ocrQ
HandsOver(a, d, r) ==
  /\ Restarting(a, d) /\ req'[a].pc # "enqueue" /\ UNCHANGED status
  /\ ocrQ' = [ocrQ EXCEPT ![<<d, r>>] = Added(@)]

LEMMA RequestMoves ==
  ASSUME ProvidersFail, IInv, NEW a \in Reviewers,
         RequestBegin(a) \/ RequestProgress(a) \/ RequestLost(a)
  PROVE  /\ UNCHANGED <<uploadPc, extQ, ocrPc, extPc>>
         /\ \A b \in Reviewers \ {a} : req'[b] = req[b]
         /\ \/ Idles(a)
            \/ \E d \in Documents, s \in Statuses : Decides(a, d, s)
            \/ \E d \in Documents : Takes(a, d)
            \/ \E d \in Documents, r \in Runs : HandsOver(a, d, r)
<1>1. /\ req \in [Reviewers -> Requests] /\ GoodRequest(req[a])
      /\ status \in [Documents -> Statuses \cup {"absent"}]
      /\ NoRequest.pc = "idle"
  BY DEF IInv, RequestInv, TypeOK, NoRequest
<1>2. RequestBegin(a) \/ RequestProgress(a)
  BY DEF ProvidersFail, RequestLost
<1>3. EndRequest(a) => /\ req'[a].pc # "enqueue"
                       /\ \A b \in Reviewers \ {a} : req'[b] = req[b]
  BY <1>1 DEF EndRequest
<1>4. CASE RequestBegin(a)
  <2>1. PICK d \in Documents : \E op, run : Begin(a, d, op, run)
    BY <1>4 DEF RequestBegin, ApproveBegin, RejectBegin, EditBegin, ReprocessBegin
  <2>2. req'[a].pc = "commit" /\ \A b \in Reviewers \ {a} : req'[b] = req[b]
    BY <1>1, <2>1 DEF Begin
  <2> QED BY <2>1, <2>2 DEF Begin, Idles, db, queues, workers
<1>5. CASE EnqueueWebhook(a) \/ EditCommit(a)
  BY <1>3, <1>5 DEF Idles, EnqueueWebhook, EditCommit, ReviewOther, db, queues, workers
<1>6. ASSUME NEW op, NEW to \in Statuses, DecideCommit(a, op, to), op \in {"approve", "reject"}
      PROVE  /\ UNCHANGED <<uploadPc, extQ, ocrPc, extPc>>
             /\ \A b \in Reviewers \ {a} : req'[b] = req[b]
             /\ Idles(a) \/ \E d \in Documents, s \in Statuses : Decides(a, d, s)
  <2>1. /\ UNCHANGED <<uploadPc, extQ, ocrPc, extPc, ocrQ>>
        /\ req[a].pc = "commit" /\ req[a].op = op
    BY <1>6 DEF DecideCommit, ReviewOther, workers, Committing
  <2>2. req[a].doc \in Documents /\ req[a].seen = "pending_review"
    BY <1>1, <1>6, <2>1 DEF GoodRequest
  <2>3. CASE StillAsSeen(a)
    <3>1. /\ status' = [status EXCEPT ![req[a].doc] = to]
          /\ req' = [req EXCEPT ![a].pc = "notify"]
      BY <1>6, <2>3 DEF DecideCommit, SetStatus
    <3>2. status[req[a].doc] = "pending_review"
      BY <2>2, <2>3 DEF StillAsSeen
    <3>3. req'[a].pc = "notify" /\ \A b \in Reviewers \ {a} : req'[b] = req[b]
      BY <1>1, <3>1 DEF Requests
    <3> QED BY <2>1, <2>2, <3>1, <3>2, <3>3 DEF Decides
  <2>4. CASE ~ StillAsSeen(a)
    BY <1>3, <1>6, <2>1, <2>4 DEF DecideCommit, Idles
  <2> QED BY <2>3, <2>4
<1>7. CASE ApproveCommit(a) \/ RejectCommit(a)
  BY <1>6, <1>7 DEF ApproveCommit, RejectCommit, Statuses
<1>8. CASE ReprocessCommit(a)
  <2>1. /\ UNCHANGED <<uploadPc, extQ, ocrPc, extPc, ocrQ>>
        /\ req[a].pc = "commit" /\ req[a].op = "reprocess"
    BY <1>8 DEF ReprocessCommit, ReviewOther, workers, Committing
  <2>2. req[a].doc \in Documents /\ req[a].seen \in {"failed", "rejected"}
    BY <1>1, <2>1 DEF GoodRequest
  <2>3. CASE StillAsSeen(a)
    <3>1. /\ status' = [status EXCEPT ![req[a].doc] = "uploaded"]
          /\ req' = [req EXCEPT ![a].pc = "enqueue"]
      BY <1>8, <2>3 DEF ReprocessCommit, SetStatus
    <3>2. status[req[a].doc] \in {"failed", "rejected"}
      BY <2>2, <2>3 DEF StillAsSeen
    <3>3. /\ req'[a].pc = "enqueue" /\ req'[a].doc = req[a].doc
          /\ \A b \in Reviewers \ {a} : req'[b] = req[b]
      BY <1>1, <3>1 DEF Requests
    <3> QED BY <2>1, <2>2, <3>1, <3>2, <3>3 DEF Takes
  <2>4. CASE ~ StillAsSeen(a)
    BY <1>3, <1>8, <2>1, <2>4 DEF ReprocessCommit, Idles
  <2> QED BY <2>3, <2>4
<1>9. CASE ReprocessEnqueue(a)
  <2>1. /\ req[a].pc = "enqueue" /\ EndRequest(a)
        /\ UNCHANGED <<uploadPc, extQ, ocrPc, extPc, status>>
        /\ ocrQ' = [ocrQ EXCEPT ![<<req[a].doc, req[a].run>>] = Added(@)]
    BY <1>9 DEF ReprocessEnqueue, db, workers
  <2>2. req[a].doc \in Documents /\ req[a].run \in Runs
    BY <1>1, <2>1 DEF GoodRequest
  <2>3. Restarting(a, req[a].doc)
    BY <2>1 DEF Restarting
  <2> QED BY <1>3, <2>1, <2>2, <2>3 DEF HandsOver
<1> QED BY <1>2, <1>4, <1>5, <1>7, <1>8, <1>9 DEF RequestProgress

LEMMA RequestOver ==
  ASSUME ProvidersFail, IInv, Courses, NEW a \in Reviewers,
         RequestBegin(a) \/ RequestProgress(a) \/ RequestLost(a)
  PROVE  /\ Courses'
         /\ \A c \in Documents : Solo(c) /\ ~ PutBack(c)' => Solo(c)'
<1> DEFINE Kept == Courses' /\ \A c \in Documents : Solo(c) /\ ~ PutBack(c)' => Solo(c)'
<1>1. TypeOK /\ status \in [Documents -> Statuses \cup {"absent"}]
  BY DEF IInv, TypeOK
<1>2. /\ \A c \in Documents : uploadPc'[c] = uploadPc[c] /\ (Uploading(c)' = Uploading(c))
      /\ \A c \in Documents, b \in Reviewers \ {a} : Restarting(b, c)' = Restarting(b, c)
      /\ \A c \in Documents : req'[a].pc # "enqueue" => ~ Restarting(a, c)'
  BY RequestMoves DEF Uploading, Restarting
<1>3. ASSUME Idles(a) PROVE Kept
  <2> USE <1>3 DEF Idles
  <2>1. \A c \in Documents : Quiet(c)
    BY <1>2, <1>3, RequestMoves, JobsKept DEF Quiet
  <2> QED BY <1>3, <2>1, RequestMoves, JobsKept, QuietKeeps
<1>4. ASSUME NEW d \in Documents, NEW s \in Statuses, Decides(a, d, s) PROVE Kept
  <2> USE <1>4 DEF Decides
  <2>1. Courses' /\ \A c \in Documents, r \in Runs : Writes(<<c, r>>)' = Writes(<<c, r>>)
    BY <1>4, RequestMoves, JobsKept
  <2>2. \A c \in Documents \ {d} : Quiet(c)
    BY <1>1, <1>2, <1>4, <2>1 DEF Quiet
  <2>3. ASSUME Solo(d), ~ PutBack(d)' PROVE Solo(d)'
    <3>1. Unheld(d)
      BY <1>4, <2>3 DEF Solo, Unsettled
    <3>2. Unheld(d)'
      BY <1>2, <1>4, <2>1, <3>1 DEF Unheld, Starting
    <3> QED BY <1>2, <1>4, <2>1, <2>3, <3>2, SoloKept
  <2> QED BY <2>1, <2>2, <2>3, QuietKeeps
<1>5. ASSUME NEW d \in Documents, Takes(a, d) PROVE Kept
  <2> USE <1>5 DEF Takes
  <2>1. Courses' /\ \A c \in Documents, r \in Runs : Writes(<<c, r>>)' = Writes(<<c, r>>)
    BY <1>5, RequestMoves, JobsKept
  <2>2. ASSUME NEW c \in Documents \ {d} PROVE Quiet(c)
    <3>1. ~ Restarting(a, c)' /\ status'[c] = status[c]
      BY <1>1, <1>5, <2>2 DEF Restarting
    <3> QED BY <1>2, <2>1, <3>1 DEF Quiet
  <2>3. ASSUME Solo(d), ~ PutBack(d)' PROVE Solo(d)'
    <3>1. Unheld(d)
      BY <1>5, <2>3 DEF Solo, Unsettled
    <3>2. /\ ~ Uploading(d)' /\ \A b \in Reviewers \ {a} : ~ Restarting(b, d)'
          /\ \A r \in Runs : ~ Writes(<<d, r>>)'
      BY <1>2, <2>1, <3>1 DEF Unheld, Starting
    <3>3. status'[d] \in Unsettled
      BY <1>1, <1>5 DEF Unsettled
    <3> QED BY <2>3, <3>2, <3>3, SoloTaken
  <2> QED BY <2>1, <2>2, <2>3, QuietKeeps
<1>6. ASSUME NEW d \in Documents, NEW r \in Runs, HandsOver(a, d, r) PROVE Kept
  <2> USE <1>6 DEF HandsOver
  <2>1. Courses' /\ \A j \in Jobs \ {<<d, r>>} : Writes(j)' = Writes(j)
    BY <1>1, <1>6, RequestMoves, OcrJobAdds, JobNames
  <2>2. ASSUME NEW c \in Documents \ {d} PROVE Quiet(c)
    <3>1. \A s \in Runs : <<c, s>> \in Jobs \ {<<d, r>>}
      BY JobNames
    <3> QED BY <1>2, <1>6, <2>1, <3>1 DEF Quiet
  <2>3. ASSUME Solo(d), ~ PutBack(d)' PROVE Solo(d)'
    <3>1. /\ Starting(d) /\ ~ Uploading(d)
          /\ \A b \in Reviewers \ {a} : ~ Restarting(b, d)
          /\ \A s \in Runs : ~ Writes(<<d, s>>)
          /\ status[d] \in Unsettled
      BY <1>6, <2>3 DEF Solo, Starting, Unheld
    <3>2. ~ Starting(d)'
      BY <1>2, <1>6, <3>1 DEF Starting
    <3>3. \A s \in Runs \ {r} : <<d, s>> \in Jobs \ {<<d, r>>}
      BY JobNames
    <3>4. \A s \in Runs \ {r} : ~ Writes(<<d, s>>)'
      BY <2>1, <3>1, <3>3
    <3> QED BY <1>6, <2>3, <3>1, <3>2, <3>4, SoloTaken
  <2> QED BY <2>1, <2>2, <2>3, QuietKeeps
<1> HIDE DEF Kept
<1>7. Kept
  BY <1>3, <1>4, <1>5, <1>6, RequestMoves
<1> QED BY <1>7 DEF Kept

LEMMA NextOver ==
  ASSUME ProvidersFail, IInv, Courses, Next
  PROVE  /\ Courses'
         /\ \A c \in Documents : Solo(c) /\ ~ PutBack(c)' => Solo(c)'
<1>1. ASSUME NEW j \in Jobs, OnlyJob(j), Move(j)
      PROVE  Courses' /\ \A c \in Documents : Solo(c) /\ ~ PutBack(c)' => Solo(c)'
  <2>1. Courses'
    <3>1. \A i \in Jobs \ {j} : JobCourse(i)' = JobCourse(i)
      BY <1>1 DEF OnlyJob, SameJob, JobCourse
    <3> QED BY <1>1, <3>1 DEF Courses, Move
  <2> QED BY <1>1, <2>1, SoloAfterMove DEF IInv
<1>2. ASSUME NEW j \in Jobs, OcrProgress(j) \/ OcrFault(j)
      PROVE  OnlyJob(j) /\ Move(j)
  <2>1. OcrProgress(j) \/ OcrThrow(j)
    BY <1>2 DEF ProvidersFail, OcrFault, OcrUnconfirmed, OcrAbort, OcrCrash
  <2> QED BY <1>2, <2>1, OcrOthers, OcrMove DEF IInv, Courses
<1>3. ASSUME NEW j \in Jobs, ExtProgress(j) \/ ExtFault(j)
      PROVE  OnlyJob(j) /\ Move(j)
  <2>1. ExtProgress(j) \/ ExtThrow(j)
    BY <1>3 DEF ProvidersFail, ExtFault, ExtUnconfirmed, ExtAbort, ExtCrash
  <2> QED BY <1>3, <2>1, ExtOthers, ExtMove DEF IInv, Courses
<1> QED BY <1>1, <1>2, <1>3, UploadOver, RequestOver DEF Next

\* Two runs of a document are never at work on it at the same time, and none is once
\* it can be reviewed or reprocessed, unless one of its jobs has been put back for
\* a retry: where only calls to the providers fail, for every number of documents,
\* runs, reviewers, attempts and slots of the workers.
THEOREM OverlapsOnlyByRetry ==
  ASSUME ProvidersFail
  PROVE  OverlapSpec => []OverlapsAreRetries
<1>1. OverlapInit => OverInv
  <2> SUFFICES ASSUME Init PROVE IInv /\ Courses /\ \A d \in Documents : Solo(d)
    BY DEF OverlapInit, OverInv
  <2>1. \A j \in Jobs : /\ ocrQ[j].state = "absent" /\ extQ[j].state = "absent"
                        /\ ocrPc[j] = "idle" /\ extPc[j] = "idle"
    BY DEF Init, NoJob, Finished
  <2>2. Courses
    BY <2>1 DEF Courses, JobCourse, Course, OcrOpen
  <2>3. ASSUME NEW d \in Documents PROVE Solo(d)
    <3>1. \A r \in Runs : ~ Writes(<<d, r>>)
      BY <2>1, JobNames DEF Writes, WritesNoMore
    <3>2. ~ PutBack(d)
      BY <2>1, JobNames DEF PutBack
    <3>3. ~ Uploading(d) /\ \A a \in Reviewers : ~ Restarting(a, d)
      BY DEF Init, Uploading, Restarting, NoRequest
    <3> QED BY <3>1, <3>2, <3>3 DEF Solo, Unheld, Starting
  <2> QED BY <2>2, <2>3, InitIInv
<1>2. OverInv /\ [OverlapNext]_overlapVars => OverInv'
  <2> SUFFICES ASSUME OverInv, [OverlapNext]_overlapVars PROVE OverInv'
    OBVIOUS
  <2>1. IInv'
    BY NextIInv DEF OverInv, OverlapNext, overlapVars
  <2>2. CASE OverlapNext
    <3>1. /\ Courses' /\ \A c \in Documents : Solo(c) /\ ~ PutBack(c)' => Solo(c)'
      BY <2>2, NextOver DEF OverInv, OverlapNext
    <3>2. \A d \in Documents : d \notin retried' => d \notin retried /\ ~ PutBack(d)'
      BY <2>2 DEF OverlapNext
    <3> QED BY <2>1, <3>1, <3>2 DEF OverInv
  <2>3. CASE UNCHANGED overlapVars
    <3>1. /\ UNCHANGED <<ocrQ, extQ, ocrPc, extPc, uploadPc, req, status>>
          /\ retried' = retried
      BY <2>3 DEF overlapVars, vars, queues, workers, api, db
    <3>2. Courses'
      BY <3>1, JobsKept DEF OverInv
    <3>3. ASSUME NEW d \in Documents \ retried PROVE Solo(d)'
      <4>1. Solo(d) /\ ~ PutBack(d)'
        BY <3>1, <3>3 DEF OverInv, Solo, PutBack
      <4>2. Quiet(d)
        BY <3>1, JobsKept DEF Quiet, Restarting
      <4> QED BY <4>1, <4>2, QuietKeeps
    <3> QED BY <2>1, <3>1, <3>2, <3>3 DEF OverInv
  <2> QED BY <2>2, <2>3
<1>3. OverInv => OverlapsAreRetries
  BY DEF OverInv, OverlapsAreRetries, Solo, Unheld, Writes, Unsettled, Settled
<1> QED BY <1>1, <1>2, <1>3, PTL DEF OverlapSpec
=============================================================================
