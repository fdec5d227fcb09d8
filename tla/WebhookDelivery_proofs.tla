------------------------ MODULE WebhookDelivery_proofs ------------------------
(***************************************************************************)
(* Theorems about WebhookDelivery, for any number of decisions, slots and  *)
(* attempts, and whatever fails or changes meanwhile.                      *)
(***************************************************************************)
EXTENDS WebhookDelivery, TLAPS

USE JobQueueAssumption, WebhookAssumption

\* The types of the local variables and of the rows.
RowsTyped == /\ pc \in [Jobs -> Pcs]
             /\ try \in [Jobs -> Tries]
             /\ rows \in Seq(Rows)

\* How an attempt ends.
EndOf(x) == IF x.ok THEN "success"
            ELSE IF x.attempt >= MaxAttempts THEN "dead_letter" ELSE "failed"

\* What the local variables of an execution say of the rows.
Own(p, x, n) ==
  /\ x.row # 0 => /\ x.row \in 1 .. Len(rows)
                  /\ rows[x.row].by = n /\ rows[x.row].attempt = x.attempt
  /\ p \in {"idle", "read", "count", "insert"} => x.row = 0
  /\ p = "insert" => 1 <= x.attempt /\ x.attempt <= Len(rows) + 1
  /\ p \in {"wait", "update"} => x.row # 0 /\ rows[x.row].status = "pending"
  /\ p = "audit" => x.row # 0 /\ rows[x.row].status = EndOf(x)
  /\ p = "return" /\ x.row # 0 => rows[x.row].status \in {"success", "dead_letter"}

\* The inductive invariant.
IInv == /\ RowsTyped /\ NotGivenUpEarly
        /\ \A n \in Jobs : Own(pc[n], try[n], n)

LEMMA InitIInv == Init => IInv
BY DEF Init, IInv, RowsTyped, Pcs, Tries, NoTry, Rows, NotGivenUpEarly, Own

\* A step of one execution that writes no row.
LEMMA LocalStep ==
  ASSUME IInv, NEW n \in Jobs, NEW p \in Pcs, NEW x \in Tries,
         pc' = [pc EXCEPT ![n] = p], try' = [try EXCEPT ![n] = x],
         rows' = rows, Own(p, x, n)
  PROVE  IInv'
<1>1. RowsTyped'
  BY DEF IInv, RowsTyped
<1>2. NotGivenUpEarly'
  BY DEF IInv, NotGivenUpEarly
<1>3. ASSUME NEW m \in Jobs PROVE Own(pc[m], try[m], m)'
  <2>1. CASE m = n
    BY <2>1 DEF IInv, RowsTyped, Own
  <2>2. CASE m # n
    BY <2>2 DEF IInv, RowsTyped, Own
  <2> QED BY <2>1, <2>2
<1> QED BY <1>1, <1>2, <1>3 DEF IInv

\* The same where the local variables stay as they are.
LEMMA PcStep ==
  ASSUME IInv, NEW n \in Jobs, NEW p \in Pcs,
         pc' = [pc EXCEPT ![n] = p], UNCHANGED <<try, rows>>, Own(p, try[n], n)
  PROVE  IInv'
<1>1. try[n] \in Tries /\ try' = [try EXCEPT ![n] = try[n]]
  BY DEF IInv, RowsTyped
<1> QED BY <1>1, LocalStep

\* The end of an execution, which forgets its local variables.
LEMMA JobStep ==
  ASSUME IInv, NEW n \in Jobs, NEW from, NEW job, Job(n, from, job)
  PROVE  IInv'
<1>1. NoTry \in Tries /\ "idle" \in Pcs
  BY DEF NoTry, Tries, Pcs
<1>2. Own("idle", NoTry, n)
  BY DEF Own, NoTry
<1>3. /\ pc' = [pc EXCEPT ![n] = "idle"] /\ try' = [try EXCEPT ![n] = NoTry]
      /\ rows' = rows
  BY DEF Job, Step
<1> QED BY <1>1, <1>2, <1>3, LocalStep

\* An insert takes the next place and disturbs nobody.
LEMMA InsertKeeps ==
  ASSUME IInv, NEW n \in Jobs, Insert(n)
  PROVE  IInv'
<1> USE DEF IInv
<1> DEFINE row == [attempt |-> try[n].attempt, status |-> "pending", by |-> n]
           k == Len(rows) + 1
<1>1. /\ pc[n] = "insert" /\ pc' = [pc EXCEPT ![n] = "wait"]
      /\ rows' = Append(rows, row)
      /\ try' = [try EXCEPT ![n] = [try[n] EXCEPT !.row = k]]
  BY DEF Insert, Step, RowsTyped
<1>2. /\ try[n] \in Tries /\ rows \in Seq(Rows) /\ Len(rows) \in Nat
      /\ 1 <= try[n].attempt /\ try[n].attempt <= k
  BY <1>1 DEF RowsTyped, Own
<1>3. row \in Rows
  BY <1>2 DEF Rows, Tries, RowStatuses
<1>4. /\ rows' \in Seq(Rows) /\ Len(rows') = k /\ rows'[k] = row
      /\ \A i \in 1 .. Len(rows) : rows'[i] = rows[i]
  BY <1>1, <1>2, <1>3
<1>5. [try[n] EXCEPT !.row = k] \in Tries
  BY <1>2 DEF Tries
<1>6. RowsTyped'
  BY <1>1, <1>4, <1>5 DEF RowsTyped, Pcs
<1>7. NotGivenUpEarly'
  <2> SUFFICES ASSUME NEW i \in 1 .. Len(rows')
               PROVE  /\ rows'[i].attempt <= i
                      /\ rows'[i].status = "dead_letter" => i >= MaxAttempts
                      /\ rows'[i].status = "failed" => rows'[i].attempt < MaxAttempts
    BY DEF NotGivenUpEarly
  <2>1. CASE i = k
    BY <1>2, <1>4, <2>1
  <2>2. CASE i \in 1 .. Len(rows)
    BY <1>4, <2>2 DEF NotGivenUpEarly
  <2> QED BY <1>2, <1>4, <2>1, <2>2
<1>8. ASSUME NEW m \in Jobs PROVE Own(pc[m], try[m], m)'
  <2>1. CASE m = n
    <3>1. pc'[m] = "wait" /\ try'[m] = [try[n] EXCEPT !.row = k]
      BY <1>1, <2>1 DEF RowsTyped
    <3>2. try'[m].row = k /\ try'[m].attempt = try[n].attempt
      BY <1>2, <3>1 DEF Tries
    <3> QED BY <1>2, <1>4, <2>1, <3>1, <3>2 DEF Own
  <2>2. CASE m # n
    <3>1. pc'[m] = pc[m] /\ try'[m] = try[m]
      BY <1>1, <2>2 DEF RowsTyped
    <3>2. Own(pc[m], try[m], m) /\ try[m] \in Tries
      BY DEF RowsTyped
    <3>3. try[m].row # 0 => rows'[try[m].row] = rows[try[m].row]
                            /\ try[m].row \in 1 .. Len(rows')
      BY <1>2, <1>4, <3>2 DEF Own
    <3>4. pc[m] = "insert" => try[m].attempt <= Len(rows') + 1
      BY <1>2, <1>4, <3>2 DEF Own, Tries
    <3>5. EndOf(try[m])' = EndOf(try[m])
      BY <3>1 DEF EndOf
    <3> QED BY <3>1, <3>2, <3>3, <3>4, <3>5 DEF Own
  <2> QED BY <2>1, <2>2
<1> QED BY <1>6, <1>7, <1>8

\* What an update does: the row of the execution is pending, and ends.
LEMMA UpdateEffect ==
  ASSUME IInv, NEW n \in Jobs, Update(n)
  PROVE  LET k == try[n].row IN
         /\ k \in 1 .. Len(rows) /\ rows[k].by = n /\ rows[k].status = "pending"
         /\ rows[k].attempt = try[n].attempt
         /\ rows' \in Seq(Rows) /\ Len(rows') = Len(rows)
         /\ rows'[k] = [rows[k] EXCEPT !.status = EndOf(try[n])]
         /\ \A i \in 1 .. Len(rows) : i # k => rows'[i] = rows[i]
<1> USE DEF IInv
<1> DEFINE k == try[n].row
<1>1. /\ pc[n] = "update"
      /\ rows' = [rows EXCEPT ![k] = [rows[k] EXCEPT !.status = EndOf(try[n])]]
  BY DEF Update, Step, EndOf, IsFinalAttempt
<1>2. /\ k \in 1 .. Len(rows) /\ rows[k].by = n /\ rows[k].status = "pending"
      /\ rows[k].attempt = try[n].attempt
  BY <1>1 DEF Own
<1>3. rows \in Seq(Rows) /\ rows[k] \in Rows
  BY <1>2 DEF RowsTyped
<1>4. EndOf(try[n]) \in RowStatuses
  BY DEF EndOf, RowStatuses
<1>5. [rows[k] EXCEPT !.status = EndOf(try[n])] \in Rows
  BY <1>3, <1>4 DEF Rows
<1> QED BY <1>1, <1>2, <1>3, <1>5

\* An update ends the row of its execution and no other's.
LEMMA UpdateKeeps ==
  ASSUME IInv, NEW n \in Jobs, Update(n)
  PROVE  IInv'
<1> USE DEF IInv
<1> DEFINE k == try[n].row
<1>1. /\ k \in 1 .. Len(rows) /\ rows[k].by = n /\ rows[k].status = "pending"
      /\ rows[k].attempt = try[n].attempt
      /\ rows' \in Seq(Rows) /\ Len(rows') = Len(rows)
      /\ rows'[k] = [rows[k] EXCEPT !.status = EndOf(try[n])]
      /\ \A i \in 1 .. Len(rows) : i # k => rows'[i] = rows[i]
  BY UpdateEffect
<1>2. pc' = [pc EXCEPT ![n] = "audit"] /\ try' = try
  BY DEF Update, Step
<1>3. rows[k] \in Rows /\ try[n] \in Tries
  BY <1>1 DEF RowsTyped
<1>4. /\ rows'[k].by = n /\ rows'[k].attempt = try[n].attempt
      /\ rows'[k].status = EndOf(try[n])
  BY <1>1, <1>3 DEF Rows
<1>5. RowsTyped'
  BY <1>1, <1>2 DEF RowsTyped, Pcs
<1>6. NotGivenUpEarly'
  <2> SUFFICES ASSUME NEW i \in 1 .. Len(rows)
               PROVE  /\ rows'[i].attempt <= i
                      /\ rows'[i].status = "dead_letter" => i >= MaxAttempts
                      /\ rows'[i].status = "failed" => rows'[i].attempt < MaxAttempts
    BY <1>1 DEF NotGivenUpEarly
  <2>1. CASE i = k
    <3>1. try[n].attempt \in Nat /\ try[n].attempt <= k /\ k \in Nat
      BY <1>1, <1>3 DEF NotGivenUpEarly, Tries
    <3> QED BY <1>4, <2>1, <3>1 DEF EndOf
  <2>2. CASE i # k
    BY <1>1, <2>2 DEF NotGivenUpEarly
  <2> QED BY <2>1, <2>2
<1>7. ASSUME NEW m \in Jobs PROVE Own(pc[m], try[m], m)'
  <2>1. CASE m = n
    <3>1. pc'[m] = "audit" /\ try'[m] = try[n]
      BY <1>2, <2>1 DEF RowsTyped
    <3>2. k # 0
      BY <1>1
    <3>3. EndOf(try[m])' = EndOf(try[n])
      BY <3>1 DEF EndOf
    <3> QED BY <1>1, <1>4, <2>1, <3>1, <3>2, <3>3 DEF Own
  <2>2. CASE m # n
    <3>1. pc'[m] = pc[m] /\ try'[m] = try[m] /\ Own(pc[m], try[m], m)
      BY <1>2, <2>2 DEF RowsTyped
    <3>2. try[m].row # 0 => try[m].row \in 1 .. Len(rows) /\ try[m].row # k
      BY <1>1, <2>2, <3>1 DEF Own
    <3>3. try[m].row # 0 => rows'[try[m].row] = rows[try[m].row]
      BY <1>1, <3>2
    <3>4. EndOf(try[m])' = EndOf(try[m])
      BY <3>1 DEF EndOf
    <3> QED BY <1>1, <3>1, <3>2, <3>3, <3>4 DEF Own
  <2> QED BY <2>1, <2>2
<1> QED BY <1>5, <1>6, <1>7

\* The other steps of an execution write no row.
LEMMA ExecutionKeeps ==
  ASSUME IInv, NEW n \in Jobs,
         \/ Start(n) \/ Read(n) \/ Count(n) \/ Timeout(n) \/ Audit(n) \/ Throw(n)
         \/ \E answer \in Answers : Answer(n, answer)
  PROVE  IInv'
<1> USE DEF IInv
<1>t. try[n] \in Tries /\ Own(pc[n], try[n], n) /\ rows \in Seq(Rows)
      /\ Len(rows) \in Nat
  BY DEF RowsTyped
<1>1. CASE Start(n) \/ Read(n)
  <2>1. PICK p \in {"read", "count", "return"} : pc' = [pc EXCEPT ![n] = p]
    BY <1>1 DEF Start, Read, Step
  <2>2. pc[n] \in {"idle", "read"} /\ UNCHANGED <<try, rows>>
    BY <1>1 DEF Start, Read, Step
  <2>3. Own(p, try[n], n)
    BY <1>t, <2>1, <2>2 DEF Own
  <2> QED BY <2>1, <2>2, <2>3, PcStep DEF Pcs
<1>2. CASE Count(n)
  <2> DEFINE x == [try[n] EXCEPT !.attempt = Len(rows) + 1]
  <2>1. /\ pc[n] = "count" /\ pc' = [pc EXCEPT ![n] = "insert"] /\ rows' = rows
        /\ try' = [try EXCEPT ![n] = x]
    BY <1>2 DEF Count, Step, RowsTyped
  <2>2. x \in Tries /\ x.row = 0 /\ x.attempt = Len(rows) + 1
    BY <1>t, <2>1 DEF Tries, Own
  <2>3. Own("insert", x, n)
    BY <1>t, <2>2 DEF Own
  <2> QED BY <2>1, <2>2, <2>3, LocalStep DEF Pcs
<1>3. CASE Timeout(n) \/ \E answer \in Answers : Answer(n, answer)
  <2>1. PICK b \in BOOLEAN : try' = [try EXCEPT ![n] = [try[n] EXCEPT !.ok = b]]
    BY <1>3 DEF Timeout, Answer, RowsTyped
  <2>2. pc[n] = "wait" /\ pc' = [pc EXCEPT ![n] = "update"] /\ rows' = rows
    BY <1>3 DEF Timeout, Answer, Step
  <2> DEFINE x == [try[n] EXCEPT !.ok = b]
  <2>3. x \in Tries /\ x.row = try[n].row /\ x.attempt = try[n].attempt
    BY <1>t DEF Tries
  <2>4. Own("update", x, n)
    BY <1>t, <2>2, <2>3 DEF Own
  <2> QED BY <2>1, <2>2, <2>3, <2>4, LocalStep DEF Pcs
<1>4. CASE Audit(n)
  <2>1. /\ pc[n] = "audit" /\ UNCHANGED <<try, rows>>
        /\ pc' = [pc EXCEPT ![n] = AfterAudit(n)]
    BY <1>4 DEF Audit, Step
  <2>2. AfterAudit(n) \in {"return", "fail"}
        /\ (AfterAudit(n) = "return" => EndOf(try[n]) \in {"success", "dead_letter"})
    BY DEF AfterAudit, IsFinalAttempt, EndOf
  <2>3. Own(AfterAudit(n), try[n], n)
    BY <1>t, <2>1, <2>2 DEF Own
  <2> QED BY <2>1, <2>2, <2>3, PcStep DEF Pcs
<1>5. CASE Throw(n)
  <2>1. pc' = [pc EXCEPT ![n] = "fail"] /\ UNCHANGED <<try, rows>>
    BY <1>5 DEF Throw, Step
  <2>2. Own("fail", try[n], n)
    BY <1>t DEF Own
  <2> QED BY <2>1, <2>2, PcStep DEF Pcs
<1> QED BY <1>1, <1>2, <1>3, <1>4, <1>5

\* The inductive invariant: what an execution has in hand is its own row, and
\* tells how far that row is.
THEOREM Invariance == Spec => []IInv
<1>1. IInv /\ [Next]_vars => IInv'
  <2> SUFFICES ASSUME IInv, [Next]_vars PROVE IInv'
    OBVIOUS
  <2>1. ASSUME UNCHANGED <<pc, try, rows>> PROVE IInv'
    BY <2>1 DEF IInv, RowsTyped, NotGivenUpEarly, Own, EndOf
  <2>2. ASSUME NEW n \in Jobs, Progress(n) \/ Throw(n) \/ Crash(n)
                               \/ \E answer \in Answers : Answer(n, answer)
        PROVE  IInv'
    <3>1. CASE Enqueue(n)
      BY <2>1, <3>1 DEF Enqueue
    <3>2. CASE Return(n) \/ Fail(n) \/ Promote(n) \/ Crash(n) \/ Recover(n)
      BY <3>2, JobStep DEF Return, Fail, Promote, Crash, Recover
    <3> QED BY <2>2, <3>1, <3>2, InsertKeeps, UpdateKeeps, ExecutionKeeps
            DEF Progress
  <2>3. CASE (\E s \in {"approved", "rejected"} : Decide(s)) \/ Reopen \/ Reconfigure
    BY <2>1, <2>3 DEF Decide, Reopen, Reconfigure, worker
  <2>4. CASE UNCHANGED vars
    BY <2>1, <2>4 DEF vars, worker
  <2> QED BY <2>2, <2>3, <2>4 DEF Next
<1> QED BY <1>1, InitIInv, PTL DEF Spec

\* What the queue makes of a job is a job, which has been left behind no more
\* often than before, unless it was just now.
LEMMA JobsStayJobs ==
  ASSUME NEW job \in JobRecords
  PROVE  /\ Added(job) \in JobRecords
         /\ Added(job) = job \/ Added(job) = Finished("waiting")
         /\ Claimed(job) \in JobRecords
         /\ Claimed(job).state = "active" /\ Claimed(job).stalls = job.stalls
         /\ Promoted(job) \in JobRecords
         /\ Promoted(job).state = "waiting" /\ Promoted(job).stalls = job.stalls
         /\ Completed(job) \in JobRecords
         /\ Completed(job).state = "completed" /\ Completed(job).stalls = 0
         /\ Failed(job) \in JobRecords
         /\ Failed(job).state \in {"delayed", "failed"}
         /\ Failed(job).stalls \in {0, job.stalls}
         /\ Stalled(job) \in JobRecords
         /\ Recovered(job) \in JobRecords
<1> USE DEF JobRecords, JobStates, Finished
<1>1. Added(job) \in JobRecords /\ (Added(job) = job \/ Added(job) = Finished("waiting"))
  BY DEF Added
<1>2. /\ Claimed(job) \in JobRecords
      /\ Claimed(job).state = "active" /\ Claimed(job).stalls = job.stalls
  BY DEF Claimed
<1>3. /\ Promoted(job) \in JobRecords
      /\ Promoted(job).state = "waiting" /\ Promoted(job).stalls = job.stalls
  BY DEF Promoted
<1>4. /\ Completed(job) \in JobRecords
      /\ Completed(job).state = "completed" /\ Completed(job).stalls = 0
  BY DEF Completed
<1>5. /\ Failed(job) \in JobRecords
      /\ Failed(job).state \in {"delayed", "failed"}
      /\ Failed(job).stalls \in {0, job.stalls}
  <2>1. CASE job.made + 1 < MaxAttempts
    <3>1. Failed(job) = [state |-> "delayed", made |-> job.made + 1,
                         stalls |-> job.stalls]
      BY <2>1 DEF Failed
    <3>2. job.made + 1 \in Nat /\ job.stalls \in Nat
      OBVIOUS
    <3> QED BY <3>1, <3>2
  <2>2. CASE ~ (job.made + 1 < MaxAttempts)
    BY <2>2 DEF Failed
  <2> QED BY <2>1, <2>2
<1>6. Stalled(job) \in JobRecords
  BY DEF Stalled
<1>7. Recovered(job) \in JobRecords
  <2>1. CASE job.stalls < MaxStalls
    <3>1. Recovered(job) = [state |-> "waiting", made |-> job.made,
                            stalls |-> job.stalls + 1]
      BY <2>1 DEF Recovered
    <3>2. job.stalls + 1 \in Nat /\ job.made \in Nat
      OBVIOUS
    <3> QED BY <3>1, <3>2
  <2>2. CASE ~ (job.stalls < MaxStalls)
    BY <2>2 DEF Recovered
  <2> QED BY <2>1, <2>2
<1> QED BY <1>1, <1>2, <1>3, <1>4, <1>5, <1>6, <1>7

\* Every variable stays in the range its column, queue or local variable has,
\* whatever jobs overlap, fail or are retried (webhook.worker.ts).
THEOREM TypeCorrectness == Spec => []TypeOK
<1> DEFINE WorldOK == /\ status \in {"open", "approved", "rejected"}
                      /\ decisions \in 0 .. MaxDecisions
                      /\ unsent \subseteq Jobs
                      /\ settings \in {"none", "url", "signed"}
           QueueOK == queue \in [Jobs -> JobRecords]
<1>1. Init => WorldOK /\ QueueOK
  BY DEF Init, NoJob, Finished, JobRecords, JobStates
<1>2. WorldOK /\ [Next]_vars => WorldOK'
  <2> SUFFICES ASSUME WorldOK, [Next]_vars PROVE WorldOK'
    OBVIOUS
  <2>1. CASE UNCHANGED world
    BY <2>1 DEF world
  <2>2. ASSUME NEW s \in {"approved", "rejected"}, Decide(s) PROVE WorldOK'
    <3>1. decisions + 1 \in Jobs
      BY <2>2 DEF Decide, Jobs
    <3> QED BY <2>2, <3>1 DEF Decide, Jobs
  <2>3. CASE Reopen \/ Reconfigure
    BY <2>3 DEF Reopen, Reconfigure
  <2>4. ASSUME NEW n \in Jobs, Enqueue(n) PROVE WorldOK'
    BY <2>4 DEF Enqueue
  <2>5. ASSUME NEW n \in Jobs, NEW from, NEW to, Step(n, from, to) PROVE WorldOK'
    BY <2>1, <2>5 DEF Step
  <2> HIDE DEF WorldOK
  <2> QED BY <2>1, <2>2, <2>3, <2>4, <2>5
          DEF Next, Progress, Start, Read, Count, Insert, Timeout, Update, Audit, Return,
              Fail, Promote, Recover, Throw, Crash, Answer, Job, vars
<1>3. QueueOK /\ [Next]_vars => QueueOK'
  <2> SUFFICES ASSUME QueueOK, [Next]_vars PROVE QueueOK'
    OBVIOUS
  <2>1. CASE UNCHANGED queue
    BY <2>1
  <2>2. ASSUME NEW n \in Jobs, NEW job \in JobRecords, queue' = [queue EXCEPT ![n] = job]
        PROVE  QueueOK'
    BY <2>2
  <2>3. ASSUME NEW n \in Jobs
        PROVE  /\ queue[n] \in JobRecords
               /\ Added(queue[n]) \in JobRecords /\ Claimed(queue[n]) \in JobRecords
               /\ Completed(queue[n]) \in JobRecords /\ Failed(queue[n]) \in JobRecords
               /\ Promoted(queue[n]) \in JobRecords /\ Stalled(queue[n]) \in JobRecords
               /\ Recovered(queue[n]) \in JobRecords
    BY JobsStayJobs
  <2> HIDE DEF QueueOK
  <2>4. ASSUME NEW n \in Jobs, Enqueue(n) \/ Start(n) PROVE QueueOK'
    BY <2>1, <2>2, <2>3, <2>4 DEF Enqueue, Start
  <2>5. ASSUME NEW n \in Jobs,
               Return(n) \/ Fail(n) \/ Promote(n) \/ Crash(n) \/ Recover(n)
        PROVE  QueueOK'
    BY <2>2, <2>3, <2>5 DEF Return, Fail, Promote, Crash, Recover, Job
  <2>6. ASSUME NEW n \in Jobs,
               \/ Read(n) \/ Count(n) \/ Insert(n) \/ Timeout(n) \/ Update(n)
               \/ Audit(n) \/ Throw(n) \/ \E answer \in Answers : Answer(n, answer)
        PROVE  QueueOK'
    BY <2>1, <2>6 DEF Read, Count, Insert, Timeout, Update, Audit, Throw, Answer
  <2>7. CASE (\E s \in {"approved", "rejected"} : Decide(s)) \/ Reopen \/ Reconfigure
               \/ UNCHANGED vars
    BY <2>1, <2>7 DEF Decide, Reopen, Reconfigure, vars, worker
  <2> QED BY <2>4, <2>5, <2>6, <2>7 DEF Next, Progress
<1>4. IInv /\ WorldOK /\ QueueOK => TypeOK
  BY DEF IInv, RowsTyped, TypeOK
<1> HIDE DEF WorldOK, QueueOK
<1> QED BY <1>1, <1>2, <1>3, <1>4, Invariance, PTL DEF Spec

\* No document is given up on before its attempts are recorded, nor tried on
\* after (processWebhookJob), for any MaxAttempts.
THEOREM Persistence == Spec => []NotGivenUpEarly
<1>1. IInv => NotGivenUpEarly
  BY DEF IInv
<1> QED BY <1>1, Invariance, PTL

\* A delivery that is over is recorded as a success or a dead letter.
THEOREM Recording == Spec => []EndsRecorded
<1>1. IInv => EndsRecorded
  BY DEF IInv, EndsRecorded, Own
<1> QED BY <1>1, Invariance, PTL

\* A row is written once more after its insert, by the execution it is of.
THEOREM Ownership == Spec => RowsAreOwned
<1> DEFINE OwnedStep ==
      \A i \in 1 .. Len(rows) :
        rows'[i] # rows[i] =>
          /\ rows[i].status = "pending"
          /\ \A m \in Jobs : try[m].row = i <=> m = rows[i].by
<1>1. IInv /\ [Next]_vars => [OwnedStep]_vars
  <2> SUFFICES ASSUME IInv, Next PROVE OwnedStep
    BY DEF vars
  <2>0. rows \in Seq(Rows) /\ Len(rows) \in Nat
    BY DEF IInv, RowsTyped
  <2>1. ASSUME NEW n \in Jobs, Update(n) PROVE OwnedStep
    <3> DEFINE k == try[n].row
    <3>1. /\ k \in 1 .. Len(rows) /\ rows[k].by = n /\ rows[k].status = "pending"
          /\ \A i \in 1 .. Len(rows) : i # k => rows'[i] = rows[i]
      BY <2>1, UpdateEffect
    <3>2. ASSUME NEW m \in Jobs, try[m].row = k PROVE m = n
      BY <3>1, <3>2 DEF IInv, Own
    <3> QED BY <3>1, <3>2
  <2>2. ASSUME NEW n \in Jobs, Insert(n) PROVE OwnedStep
    <3>1. \A i \in 1 .. Len(rows) : rows'[i] = rows[i]
      BY <2>0, <2>2 DEF Insert
    <3> QED BY <3>1
  <2>3. ASSUME rows' = rows PROVE OwnedStep
    BY <2>3
  <2>4. ASSUME NEW n \in Jobs, Progress(n) \/ Throw(n) \/ Crash(n)
                               \/ \E answer \in Answers : Answer(n, answer)
        PROVE  OwnedStep
    <3> HIDE DEF OwnedStep
    <3> QED BY <2>1, <2>2, <2>3, <2>4 DEF Progress, Enqueue, Start, Read, Count, Timeout,
            Audit, Return, Fail, Promote, Recover, Throw, Crash, Answer, Job
  <2>5. CASE (\E s \in {"approved", "rejected"} : Decide(s)) \/ Reopen \/ Reconfigure
    BY <2>3, <2>5 DEF Decide, Reopen, Reconfigure, worker
  <2> QED BY <2>4, <2>5 DEF Next
<1> QED BY <1>1, Invariance, PTL DEF Spec, RowsAreOwned
=============================================================================
