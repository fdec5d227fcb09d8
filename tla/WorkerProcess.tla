----------------------------- MODULE WorkerProcess -----------------------------
(***************************************************************************)
(* worker.ts: the process whose three workers take jobs off their queues,  *)
(* around the webhook worker (WebhookDelivery).  A signal closes the       *)
(* workers: none takes another job, each waits for those it has, and the   *)
(* process exits when all are done.  It is started again, as in a deploy.  *)
(* The platform may kill it instead; its jobs are then found stalled.      *)
(*                                                                         *)
(* The OCR and the extraction worker are waited for alike: for the process *)
(* they are a delay, so that it may take its time to exit.                 *)
(***************************************************************************)
EXTENDS WebhookDelivery

CONSTANT MaxStops   \* bound on the stops and kills

ASSUME WorkerAssumption == MaxStops \in Nat

VARIABLES
  process,   \* up, closing, or down
  stops,     \* the stops and kills so far
  killed     \* history: the process has been killed

processVars == <<process, stops, killed>>

\* Every variable stays in its range.
WorkerTypeOK == /\ TypeOK
                /\ process \in {"up", "closing", "down"}
                /\ killed \in BOOLEAN
                /\ stops \in 0 .. MaxStops

WorkerInit == /\ Init
              /\ process = "up" /\ stops = 0 /\ killed = FALSE

-----------------------------------------------------------------------------
(* The webhook worker.                                                     *)

\* A worker that is not closing takes jobs, those due and those found stalled.
Takes(n) == /\ process = "up" /\ (Start(n) \/ Promote(n) \/ Recover(n))
            /\ UNCHANGED processVars

\* A process that is closing goes on with the jobs it has.
Works(n) == /\ process # "down"
            /\ \/ Read(n) \/ Count(n) \/ Insert(n) \/ Timeout(n) \/ Update(n)
               \/ Audit(n) \/ Return(n) \/ Fail(n)
            /\ UNCHANGED processVars

\* A statement throws, or the endpoint answers.
Disturbed(n) == /\ process # "down"
                /\ Throw(n) \/ \E answer \in Answers : Answer(n, answer)
                /\ UNCHANGED processVars

\* The lock of a job whose process is gone expires.
Abandoned(n) == process = "down" /\ Crash(n) /\ UNCHANGED processVars

-----------------------------------------------------------------------------
(* The process.                                                            *)

\* SIGTERM or SIGINT; another one joins the closing that is under way.
Signal == /\ process = "up" /\ stops < MaxStops
          /\ process' = "closing" /\ stops' = stops + 1
          /\ UNCHANGED <<vars, killed>>

\* (Mutant: the process does not wait for the jobs the workers have.)
Exit_AtOnce == /\ process = "closing" /\ process' = "down"
               /\ UNCHANGED <<vars, stops, killed>>
\* (Mutant: the process waits until the queue is empty.)
Exit_WhenDrained == /\ process = "closing"
                    /\ \A n \in Jobs : ~ Unfinished(queue[n])
                    /\ process' = "down"
                    /\ UNCHANGED <<vars, stops, killed>>
\* All workers are closed.
Exit == /\ process = "closing" /\ Active = {}
        /\ process' = "down"
        /\ UNCHANGED <<vars, stops, killed>>

\* Whoever runs the process kills it, or the machine is gone.
Kill == /\ process # "down" /\ stops < MaxStops /\ "crash" \in Faults
        /\ process' = "down"
        /\ stops' = stops + 1 /\ killed' = TRUE
        /\ UNCHANGED vars

\* The next process is up; what is left of the last one has expired.
Restart == /\ process = "down" /\ Active = {}
           /\ process' = "up"
           /\ UNCHANGED <<vars, stops, killed>>

\* What the API does meanwhile.
Notify(n) == Enqueue(n) /\ UNCHANGED processVars
World == /\ Reopen \/ Reconfigure \/ \E s \in {"approved", "rejected"} : Decide(s)
         /\ UNCHANGED processVars

WorkerNext ==
  \/ Signal \/ Exit \/ Kill \/ Restart \/ World
  \/ \E n \in Jobs : Notify(n) \/ Takes(n) \/ Works(n) \/ Disturbed(n) \/ Abandoned(n)

workerVars == <<vars, processVars>>
WorkerSpec == WorkerInit /\ [][WorkerNext]_workerVars

\* What a job awaits settles; locks expire; a process
\* that is down is started again.  The endpoint need not answer.
WorkerFairSpec ==
  /\ WorkerSpec
  /\ WF_workerVars(Exit) /\ WF_workerVars(Restart)
  /\ \A n \in Jobs :
       WF_workerVars(Notify(n) \/ Takes(n) \/ Works(n) \/ Abandoned(n))

-----------------------------------------------------------------------------
\* A deploy costs no job one of the few times it may be found stalled: only a
\* process that is killed leaves jobs behind.
StallsAreKills ==
  \A n \in Jobs : queue[n].state = "stalled" \/ queue[n].stalls > 0 => killed

\* A worker that is told to stop does, though the endpoint it waits for never
\* answers and its queue is full of other jobs.
WorkerStops == process = "closing" ~> process = "down"
=============================================================================
