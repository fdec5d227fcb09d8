------------------------------- MODULE OcrWorker -------------------------------
(* ocr.worker.ts: what an execution of an ocr-jobs job does.               *)
EXTENDS PipelineState

OcrStep(j, from, to) ==
  /\ ocrPc[j] = from
  /\ ocrPc' = [ocrPc EXCEPT ![j] = to]
  /\ UNCHANGED <<stored, docType, extraction, extPc, decision, api, unannounced>>

\* A free slot takes the job and the document is read.
OcrStart(j) == /\ OcrStep(j, "idle", "mark")
               /\ ocrQ[j].state = "waiting"
               /\ Cardinality(Active(ocrQ)) < OcrConcurrency
               /\ ocrQ' = [ocrQ EXCEPT ![j] = Claimed(@)]
               /\ UNCHANGED <<status, rawText, audit, extQ>>

\* Whatever its status, the document is marked.
OcrMark(j) == /\ OcrStep(j, "mark", "detect")
              /\ SetStatus(Doc(j), "ocr_processing")
              /\ UNCHANGED <<rawText, audit, queues>>

\* The file is downloaded, its text detected, and the text stored.
OcrDetect(j, text) == /\ OcrStep(j, "detect", "audit")
                      /\ stored[Doc(j)]
                      /\ SetStatus(Doc(j), "extracted")
                      /\ rawText' = [rawText EXCEPT ![Doc(j)] = text]
                      /\ UNCHANGED <<audit, queues>>

OcrAudit(j) == /\ OcrStep(j, "audit", "enqueue")
               /\ Log(Doc(j), "extracted")
               /\ UNCHANGED <<status, rawText, queues>>

\* The extraction job of the same run, unless the queue already has it.
OcrAdd(j, to) == /\ OcrStep(j, "enqueue", to)
                 /\ extQ' = [extQ EXCEPT ![j] = Added(@)]
                 /\ UNCHANGED <<status, rawText, audit, ocrQ>>
OcrEnqueue(j) == OcrAdd(j, "return")
\* The queue has it, but the answer is lost and the add throws.
OcrUnconfirmed(j) == "store" \in Faults /\ OcrAdd(j, "catch")

\* A statement of the try block throws; the download of a file that was
\* never stored always does.
OcrThrow(j) ==
  /\ \/ ocrPc[j] = "detect" /\ (~ stored[Doc(j)] \/ "provider" \in Faults)
     \/ ocrPc[j] \in {"detect", "audit", "enqueue"} /\ "store" \in Faults
  /\ OcrStep(j, ocrPc[j], "catch")
  /\ UNCHANGED <<status, rawText, audit, queues>>

\* The catch block: the document fails, without an audit row.
OcrCatch(j) == /\ OcrStep(j, "catch", "fail")
               /\ SetStatus(Doc(j), "failed")
               /\ UNCHANGED <<rawText, audit, queues>>

\* A statement outside the try block throws.
OcrAbort(j) == /\ ocrPc[j] \in {"mark", "catch"} /\ "store" \in Faults
               /\ OcrStep(j, ocrPc[j], "fail")
               /\ UNCHANGED <<status, rawText, audit, queues>>

\* The queue's side: the execution returned, or it threw; the backoff of a
\* retry is over; the worker process died; a check found the stalled job.
OcrJob(j, from, job) == /\ ocrQ' = [ocrQ EXCEPT ![j] = job]
                        /\ OcrStep(j, from, "idle")
                        /\ UNCHANGED <<status, rawText, audit, extQ>>

OcrReturn(j) == OcrJob(j, "return", Completed(ocrQ[j]))
OcrFail(j) == OcrJob(j, "fail", Failed(ocrQ[j]))
OcrPromote(j) == /\ ocrQ[j].state = "delayed"
                 /\ OcrJob(j, "idle", Promoted(ocrQ[j]))
OcrCrash(j) == /\ ocrQ[j].state = "active" /\ "crash" \in Faults
               /\ OcrJob(j, ocrPc[j], Stalled(ocrQ[j]))
OcrRecover(j) == /\ ocrQ[j].state = "stalled"
                 /\ OcrJob(j, "idle", Recovered(ocrQ[j]))

OcrProgress(j) ==
  \/ OcrStart(j) \/ OcrMark(j) \/ (\E text \in OcrTexts : OcrDetect(j, text))
  \/ OcrAudit(j) \/ OcrEnqueue(j) \/ OcrCatch(j)
  \/ OcrReturn(j) \/ OcrFail(j) \/ OcrPromote(j) \/ OcrRecover(j)

OcrFault(j) == OcrThrow(j) \/ OcrUnconfirmed(j) \/ OcrAbort(j) \/ OcrCrash(j)
=============================================================================
