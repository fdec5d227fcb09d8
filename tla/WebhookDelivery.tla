---------------------------- MODULE WebhookDelivery ----------------------------
(***************************************************************************)
(* webhook.worker.ts: the webhook jobs of one document and the rows they   *)
(* write to webhook_deliveries.  A decision adds a job of its own, which   *)
(* names only the document: what to deliver is read when the job runs, and *)
(* the number of the attempt is the number of rows there are by then.      *)
(* Documents share nothing but the worker's slots, so one is enough.       *)
(*                                                                         *)
(* Abstractions.  A status that is neither approved nor rejected is        *)
(* "open".  Payload, signature, response and audit rows, which nothing     *)
(* here reads, are left out.                                               *)
(***************************************************************************)
EXTENDS Naturals, Sequences, FiniteSets, JobQueue

CONSTANTS
  MaxDecisions,   \* bound on the decisions made on the document
  Concurrency,    \* jobs the webhook worker runs at once
  Answers,        \* what the tenant's endpoint may answer
  Changes,        \* what may change meanwhile: "reopen", a rejected document
                  \* is reprocessed; "reconfigure", the tenant's settings
  Faults          \* "store", an error of Postgres; "crash" of the worker

ASSUME WebhookAssumption ==
  /\ MaxDecisions \in Nat /\ Concurrency \in Nat \ {0}
  /\ Answers \subseteq {"ok", "refused"}
  /\ Changes \subseteq {"reopen", "reconfigure"}
  /\ Faults \subseteq {"store", "crash"}

VARIABLES
  status,      \* documents.status
  decisions,   \* history: the number of decisions made
  unsent,      \* decisions committed whose job is not added yet
  settings,    \* the tenant has no URL, a URL, or a URL and a secret
  queue,       \* the webhook-jobs queue; job n is added for decision n
  pc,          \* where the execution of a job stands
  try,         \* its local variables
  rows         \* webhook_deliveries of the document, with the job that
               \* inserted the row as a history component

worker == <<queue, pc, try, rows>>
world == <<status, decisions, unsent, settings>>
vars == <<worker, world>>

Jobs == 1 .. MaxDecisions
Pcs == {"idle", "read", "count", "insert", "wait", "update", "audit", "fail", "return"}
RowStatuses == {"pending", "success", "failed", "dead_letter"}
Rows == [attempt : Nat \ {0}, status : RowStatuses, by : Jobs]
Tries == [attempt : Nat, row : Nat, ok : BOOLEAN]
NoTry == [attempt |-> 0, row |-> 0, ok |-> FALSE]

\* Every variable stays in the range its column, queue or local variable has.
TypeOK ==
  /\ status \in {"open", "approved", "rejected"}
  /\ decisions \in 0 .. MaxDecisions
  /\ unsent \subseteq Jobs
  /\ settings \in {"none", "url", "signed"}
  /\ queue \in [Jobs -> JobRecords]
  /\ pc \in [Jobs -> Pcs]
  /\ try \in [Jobs -> Tries]
  /\ rows \in Seq(Rows)

Init == /\ status = "open" /\ decisions = 0 /\ unsent = {}
        /\ settings = "signed"
        /\ queue = [n \in Jobs |-> NoJob]
        /\ pc = [n \in Jobs |-> "idle"]
        /\ try = [n \in Jobs |-> NoTry]
        /\ rows = <<>>

-----------------------------------------------------------------------------
(* The world: decisions, reprocessing, the tenant's settings.              *)

Decide(s) == /\ status = "open" /\ decisions < MaxDecisions
             /\ status' = s
             /\ decisions' = decisions + 1
             /\ unsent' = unsent \cup {decisions + 1}
             /\ UNCHANGED <<worker, settings>>

\* reprocessDocument, and the work that follows.
Reopen == /\ status = "rejected" /\ "reopen" \in Changes
          /\ status' = "open"
          /\ UNCHANGED <<worker, decisions, unsent, settings>>

\* The URL is set or cleared, and the secret with it; a secret is generated.
Reconfigure == /\ "reconfigure" \in Changes
               /\ \/ settings = "none" /\ settings' = "url"
                  \/ settings = "url" /\ settings' = "signed"
                  \/ settings # "none" /\ settings' = "none"
               /\ UNCHANGED <<worker, status, decisions, unsent>>

\* enqueueWebhookIfConfigured: a job if there is a URL.
Enqueue(n) ==
  /\ n \in unsent
  /\ unsent' = unsent \ {n}
  /\ queue' = IF settings = "none" THEN queue
              ELSE [queue EXCEPT ![n] = Added(@)]
  /\ UNCHANGED <<pc, try, rows, status, decisions, settings>>

-----------------------------------------------------------------------------
(* processWebhookJob.                                                      *)

Active == {n \in Jobs : queue[n].state = "active"}
Step(n, from, to) == /\ pc[n] = from
                     /\ pc' = [pc EXCEPT ![n] = to]
                     /\ UNCHANGED world

\* A free slot takes the job.
Start(n) == /\ queue[n].state = "waiting" /\ Cardinality(Active) < Concurrency
            /\ queue' = [queue EXCEPT ![n] = Claimed(@)]
            /\ Step(n, "idle", "read")
            /\ UNCHANGED <<try, rows>>

\* The document and its tenant, two queries of a transaction taken as one: the
\* job is skipped if there is nothing to deliver, or nowhere.
Read(n) ==
  /\ Step(n, "read", IF settings = "signed" /\ status # "open" THEN "count"
                                                            ELSE "return")
  /\ UNCHANGED <<queue, try, rows>>

\* (Mutant: the numbering starts at zero.)
Count_FromZero(n) == /\ Step(n, "count", "insert")
                     /\ try' = [try EXCEPT ![n].attempt = Len(rows)]
                     /\ UNCHANGED <<queue, rows>>
\* (Mutant: the numbering starts at two.)
Count_FromTwo(n) == /\ Step(n, "count", "insert")
                    /\ try' = [try EXCEPT ![n].attempt = Len(rows) + 2]
                    /\ UNCHANGED <<queue, rows>>
Count(n) == /\ Step(n, "count", "insert")
            /\ try' = [try EXCEPT ![n].attempt = Len(rows) + 1]
            /\ UNCHANGED <<queue, rows>>

Insert(n) == /\ Step(n, "insert", "wait")
             /\ rows' = Append(rows, [attempt |-> try[n].attempt,
                                      status |-> "pending", by |-> n])
             /\ try' = [try EXCEPT ![n].row = Len(rows) + 1]
             /\ UNCHANGED queue

\* fetch returns: the endpoint accepted the event or did not.
Answer(n, answer) ==
  /\ Step(n, "wait", "update")
  /\ try' = [try EXCEPT ![n].ok = (answer = "ok")]
  /\ UNCHANGED <<queue, rows>>

\* (Mutant: there is no timeout.)
Timeout_None(n) == FALSE /\ UNCHANGED vars
\* fetch fails, at the latest when the timer aborts it.
Timeout(n) ==
  /\ Step(n, "wait", "update")
  /\ try' = [try EXCEPT ![n].ok = FALSE]
  /\ UNCHANGED <<queue, rows>>

IsFinalAttempt(n) == try[n].attempt >= MaxAttempts

\* (Mutant: the row is found by document and attempt, not by its id.)
Update_ByAttempt(n) ==
  /\ Step(n, "update", "audit")
  /\ rows' = [i \in 1 .. Len(rows) |->
                IF rows[i].attempt # try[n].attempt THEN rows[i]
                ELSE [rows[i] EXCEPT !.status =
                        IF try[n].ok THEN "success"
                        ELSE IF IsFinalAttempt(n) THEN "dead_letter" ELSE "failed"]]
  /\ UNCHANGED <<queue, try>>
Update(n) ==
  /\ Step(n, "update", "audit")
  /\ rows' = [rows EXCEPT ![try[n].row].status =
                IF try[n].ok THEN "success"
                ELSE IF IsFinalAttempt(n) THEN "dead_letter" ELSE "failed"]
  /\ UNCHANGED <<queue, try>>

\* (Mutant: a failed attempt does not throw.)
AfterAudit_NoThrow(n) == "return"
\* An attempt that failed throws, so that BullMQ retries, unless it is final.
AfterAudit(n) == IF try[n].ok \/ IsFinalAttempt(n) THEN "return" ELSE "fail"
Audit(n) == /\ Step(n, "audit", AfterAudit(n))
            /\ UNCHANGED <<queue, try, rows>>

\* A statement throws; there is no try block around them.
Throw(n) == /\ pc[n] \in {"read", "count", "insert", "update", "audit"}
            /\ "store" \in Faults
            /\ Step(n, pc[n], "fail")
            /\ UNCHANGED <<queue, try, rows>>

\* The queue's side.
Job(n, from, job) == /\ Step(n, from, "idle")
                     /\ queue' = [queue EXCEPT ![n] = job]
                     /\ try' = [try EXCEPT ![n] = NoTry]
                     /\ UNCHANGED rows
Return(n) == Job(n, "return", Completed(queue[n]))
Fail(n) == Job(n, "fail", Failed(queue[n]))
Promote(n) == queue[n].state = "delayed" /\ Job(n, "idle", Promoted(queue[n]))
Crash(n) == /\ queue[n].state = "active" /\ "crash" \in Faults
            /\ Job(n, pc[n], Stalled(queue[n]))
Recover(n) == queue[n].state = "stalled" /\ Job(n, "idle", Recovered(queue[n]))

Progress(n) == \/ Enqueue(n) \/ Start(n) \/ Read(n) \/ Count(n) \/ Insert(n)
               \/ Timeout(n) \/ Update(n) \/ Audit(n)
               \/ Return(n) \/ Fail(n) \/ Promote(n) \/ Recover(n)

Next == \/ \E s \in {"approved", "rejected"} : Decide(s)
        \/ Reopen
        \/ Reconfigure
        \/ \E n \in Jobs : \/ Progress(n) \/ Throw(n) \/ Crash(n)
                           \/ \E answer \in Answers : Answer(n, answer)

Spec == Init /\ [][Next]_vars

\* The worker goes on with a job it has, takes one when a slot is free, and
\* the timer goes off; whether the endpoint answers before is its own affair.
FairSpec == Spec /\ \A n \in Jobs : WF_vars(Progress(n))

-----------------------------------------------------------------------------
\* Whatever jobs overlap or are retried, an attempt is never numbered beyond
\* the rows there are, so a document is not given up on before MaxAttempts
\* attempts have been recorded for it.
NotGivenUpEarly ==
  \A i \in 1 .. Len(rows) :
    /\ rows[i].attempt <= i
    /\ rows[i].status = "dead_letter" => i >= MaxAttempts
    /\ rows[i].status = "failed" => rows[i].attempt < MaxAttempts

\* A row is written only by the execution that inserted it: no two share one,
\* and once it is left, or another try of its job is under way, it stays as
\* it is.
RowsAreOwned ==
  [][\A i \in 1 .. Len(rows) :
       rows'[i] # rows[i] =>
         /\ rows[i].status = "pending"
         /\ \A m \in Jobs : try[m].row = i <=> m = rows[i].by]_vars

\* An execution that has delivered something and returns, so that its job is
\* completed and never tried again, has recorded how it ended.
EndsRecorded ==
  \A n \in Jobs :
    pc[n] = "return" /\ try[n].row # 0 =>
      rows[try[n].row].status \in {"success", "dead_letter"}

\* Every webhook job comes to an end, however the endpoint behaves.
JobsEnd == \A n \in Jobs : Unfinished(queue[n]) ~> ~ Unfinished(queue[n])
=============================================================================
