-------------------------- MODULE WorkerProcess_proofs --------------------------
(***************************************************************************)
(* Theorems about WorkerProcess: the process around the webhook worker     *)
(* only delays its steps, so that what is proved of WebhookDelivery holds  *)
(* through any number of stops and kills; and only kills leave jobs behind.*)
(***************************************************************************)
EXTENDS WorkerProcess, WebhookDelivery_proofs

USE WorkerAssumption

\* Every step of the process is a step of the delivery, or none.
LEMMA StepIsDelivery ==
  ASSUME [WorkerNext]_workerVars
  PROVE  [Next]_vars
<1>1. CASE Signal \/ Exit \/ Kill \/ Restart \/ UNCHANGED workerVars
  BY <1>1 DEF Signal, Exit, Kill, Restart, workerVars
<1>2. CASE World
  BY <1>2 DEF World, Next
<1>3. ASSUME NEW n \in Jobs, Notify(n) \/ Takes(n) \/ Works(n) PROVE Next
  <2>1. Progress(n)
    BY <1>3 DEF Notify, Takes, Works, Progress
  <2> QED BY <2>1 DEF Next
<1>4. ASSUME NEW n \in Jobs, Disturbed(n) \/ Abandoned(n) PROVE Next
  <2>1. Throw(n) \/ Crash(n) \/ \E answer \in Answers : Answer(n, answer)
    BY <1>4 DEF Disturbed, Abandoned
  <2> QED BY <2>1 DEF Next
<1> QED BY <1>1, <1>2, <1>3, <1>4 DEF WorkerNext

\* The webhook worker in a process that is stopped, killed and started again
\* (worker.ts) does nothing the worker alone would not.
THEOREM WorkerImplementsDelivery == WorkerSpec => Spec
<1>1. WorkerInit => Init
  BY DEF WorkerInit
<1> QED BY <1>1, StepIsDelivery, PTL DEF WorkerSpec, Spec

\* So a document is not given up on before its attempts are recorded, and what
\* a job delivered is recorded, through every stop and kill (worker.ts).
THEOREM DeliveryOutlivesStops ==
  WorkerSpec => [](NotGivenUpEarly /\ EndsRecorded) /\ RowsAreOwned
BY WorkerImplementsDelivery, Persistence, Recording, Ownership, PTL DEF RowsAreOwned

\* Every variable of the worker and of its process stays in its range, whatever
\* is stopped, killed and started again (worker.ts).
THEOREM WorkerTypeCorrectness == WorkerSpec => []WorkerTypeOK
<1> DEFINE StopsOK == process \in {"up", "closing", "down"} /\ stops \in 0 .. MaxStops
           ProcessOK == StopsOK /\ killed \in BOOLEAN
<1>1. WorkerInit => ProcessOK
  <2>1. WorkerInit => StopsOK
    BY DEF WorkerInit
  <2>2. WorkerInit => killed \in BOOLEAN
    BY Zenon DEF WorkerInit
  <2> QED BY <2>1, <2>2
<1>2. ProcessOK /\ [WorkerNext]_workerVars => ProcessOK'
  <2> SUFFICES ASSUME ProcessOK, [WorkerNext]_workerVars PROVE ProcessOK'
    OBVIOUS
  <2>1. CASE UNCHANGED processVars
    BY <2>1 DEF processVars
  <2>2. CASE Signal \/ Exit \/ Kill \/ Restart
    <3>1. StopsOK'
      BY <2>2 DEF Signal, Exit, Kill, Restart
    <3>2. killed' \in BOOLEAN
      BY <2>2, Zenon DEF Signal, Exit, Kill, Restart
    <3> QED BY <3>1, <3>2
  <2> HIDE DEF ProcessOK
  <2> QED BY <2>1, <2>2 DEF WorkerNext, World, Notify, Takes, Works, Disturbed,
          Abandoned, workerVars
<1>3. TypeOK /\ ProcessOK => WorkerTypeOK
  BY DEF WorkerTypeOK
<1> HIDE DEF ProcessOK
<1> QED BY <1>1, <1>2, <1>3, WorkerImplementsDelivery, TypeCorrectness, PTL
        DEF WorkerSpec

-----------------------------------------------------------------------------
(* What a stop leaves behind.                                              *)

\* A process that has stopped by itself has no job in hand.
Emptied == process = "down" /\ ~ killed => Active = {}

SInv == /\ queue \in [Jobs -> JobRecords] /\ killed \in BOOLEAN
        /\ StallsAreKills /\ Emptied

\* One job changes, and is not one that has been left behind; nor is it handed
\* to a process that is down.
LEMMA OneJobKeeps ==
  ASSUME SInv, NEW n \in Jobs, NEW job \in JobRecords,
         queue' = [queue EXCEPT ![n] = job], UNCHANGED processVars,
         job.state = "stalled" \/ job.stalls > 0 => killed,
         process = "down" /\ job.state = "active" => queue[n].state = "active"
  PROVE  SInv'
<1>1. \A m \in Jobs : queue'[m] = IF m = n THEN job ELSE queue[m]
  BY DEF SInv
<1>2. queue' \in [Jobs -> JobRecords] /\ killed' = killed /\ process' = process
  BY DEF SInv, processVars
<1>3. StallsAreKills'
  BY <1>1, <1>2 DEF SInv, StallsAreKills
<1>4. Emptied'
  BY <1>1, <1>2 DEF SInv, Emptied, Active
<1> QED BY <1>2, <1>3, <1>4 DEF SInv

\* The steps that leave the queue as it is.
LEMMA SameQueueKeeps ==
  ASSUME SInv, queue' = queue, UNCHANGED processVars
  PROVE  SInv'
BY DEF SInv, StallsAreKills, Emptied, Active, processVars

\* The steps of the webhook worker and of the API on a queue.
LEMMA JobStepsKeep ==
  ASSUME SInv, NEW n \in Jobs,
         Notify(n) \/ Takes(n) \/ Works(n) \/ Disturbed(n) \/ Abandoned(n)
  PROVE  SInv'
<1>1. queue[n] \in JobRecords /\ queue \in [Jobs -> JobRecords]
  BY DEF SInv
<1>2. queue[n].state = "stalled" \/ queue[n].stalls > 0 => killed
  BY DEF SInv, StallsAreKills
<1>3. CASE Notify(n)
  <2>1. UNCHANGED processVars
    BY <1>3 DEF Notify
  <2>2. CASE queue' = queue
    BY <2>1, <2>2, SameQueueKeeps
  <2>3. CASE queue' = [queue EXCEPT ![n] = Added(queue[n])]
    <3>1. CASE Added(queue[n]) = queue[n]
      BY <1>1, <1>2, <2>1, <2>3, <3>1, OneJobKeeps
    <3>2. CASE Added(queue[n]) = Finished("waiting")
      <4>1. Added(queue[n]).state = "waiting" /\ Added(queue[n]).stalls = 0
        BY <3>2 DEF Finished
      <4>2. ~ (Added(queue[n]).stalls > 0)
        BY <4>1
      <4> QED BY <1>1, <2>1, <2>3, <4>1, <4>2, JobsStayJobs, OneJobKeeps
    <3> QED BY <1>1, <3>1, <3>2, JobsStayJobs
  <2> QED BY <1>3, <2>2, <2>3 DEF Notify, Enqueue
<1>4. CASE Takes(n)
  <2>1. process # "down" /\ UNCHANGED processVars
    BY <1>4 DEF Takes
  <2>2. CASE Start(n)
    BY <1>1, <1>2, <2>1, <2>2, JobsStayJobs, OneJobKeeps DEF Start
  <2>3. CASE Promote(n)
    BY <1>1, <1>2, <2>1, <2>3, JobsStayJobs, OneJobKeeps DEF Promote, Job
  <2>4. CASE Recover(n)
    BY <1>1, <1>2, <2>1, <2>4, JobsStayJobs, OneJobKeeps DEF Recover, Job
  <2> QED BY <1>4, <2>2, <2>3, <2>4 DEF Takes
<1>5. CASE Works(n) \/ Disturbed(n)
  <2>1. process # "down" /\ UNCHANGED processVars
    BY <1>5 DEF Works, Disturbed
  <2>2. CASE Return(n)
    <3>1. /\ Completed(queue[n]).state # "stalled"
          /\ ~ (Completed(queue[n]).stalls > 0)
      BY <1>1, JobsStayJobs
    <3> QED BY <1>1, <2>1, <2>2, <3>1, JobsStayJobs, OneJobKeeps DEF Return, Job
  <2>3. CASE Fail(n)
    <3>1. Failed(queue[n]).state # "stalled" /\ (Failed(queue[n]).stalls > 0 => killed)
      BY <1>1, <1>2, JobsStayJobs
    <3> QED BY <1>1, <2>1, <2>3, <3>1, JobsStayJobs, OneJobKeeps DEF Fail, Job
  <2>4. CASE queue' = queue
    BY <2>1, <2>4, SameQueueKeeps
  <2> QED BY <1>5, <2>2, <2>3, <2>4 DEF Works, Disturbed, Read, Count, Insert, Timeout,
            Update, Audit, Throw, Answer
<1>6. CASE Abandoned(n)
  <2>1. /\ process = "down" /\ queue[n].state = "active" /\ UNCHANGED processVars
        /\ queue' = [queue EXCEPT ![n] = Stalled(queue[n])]
    BY <1>6 DEF Abandoned, Crash, Job
  <2>2. killed
    BY <2>1 DEF SInv, Emptied, Active
  <2>3. Stalled(queue[n]) \in JobRecords
    BY <1>1, JobsStayJobs
  <2> QED BY <2>1, <2>2, <2>3, OneJobKeeps
<1> QED BY <1>3, <1>4, <1>5, <1>6

\* A stop leaves no job behind: only a process that was killed does, and a
\* deploy uses up none of the times a job may be found stalled (worker.ts).
THEOREM StopsLeaveNothing == WorkerSpec => []StallsAreKills
<1>1. WorkerInit => SInv
  <2> SUFFICES ASSUME WorkerInit PROVE SInv
    OBVIOUS
  <2>1. queue = [n \in Jobs |-> NoJob] /\ process = "up" /\ killed = FALSE
    BY DEF WorkerInit, Init
  <2>2. NoJob \in JobRecords /\ NoJob.state = "absent" /\ NoJob.stalls = 0
    BY DEF NoJob, Finished, JobRecords, JobStates
  <2>3. queue \in [Jobs -> JobRecords] /\ \A n \in Jobs : queue[n] = NoJob
    BY <2>1, <2>2
  <2>4. StallsAreKills
    BY <2>2, <2>3 DEF StallsAreKills
  <2>5. Emptied
    BY <2>1 DEF Emptied
  <2> QED BY <2>1, <2>3, <2>4, <2>5 DEF SInv
<1>2. SInv /\ [WorkerNext]_workerVars => SInv'
  <2> SUFFICES ASSUME SInv, [WorkerNext]_workerVars PROVE SInv'
    OBVIOUS
  <2>1. CASE Signal \/ Exit \/ Kill \/ Restart
    <3>1. queue' = queue /\ (killed' = killed \/ killed' = TRUE)
          /\ (killed => killed')
      BY <2>1 DEF Signal, Exit, Kill, Restart, vars, worker
    <3>2. StallsAreKills'
      BY <3>1 DEF SInv, StallsAreKills
    <3>3. Emptied'
      BY <2>1, <3>1 DEF SInv, Emptied, Active, Signal, Exit, Kill, Restart
    <3> QED BY <3>1, <3>2, <3>3 DEF SInv
  <2>2. CASE World
    BY <2>2, SameQueueKeeps DEF World, Decide, Reopen, Reconfigure, worker
  <2>3. CASE UNCHANGED workerVars
    BY <2>3, SameQueueKeeps DEF workerVars, vars, worker
  <2> QED BY <2>1, <2>2, <2>3, JobStepsKeep DEF WorkerNext
<1>3. SInv => StallsAreKills
  BY DEF SInv
<1> QED BY <1>1, <1>2, <1>3, PTL DEF WorkerSpec
=============================================================================
