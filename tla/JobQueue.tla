------------------------------- MODULE JobQueue -------------------------------
(***************************************************************************)
(* A job of a BullMQ queue, as src/queues uses it: external code, modelled *)
(* by what the service relies on.  A job whose id the queue already has,   *)
(* finished or not, is not added again.  A job whose execution throws is   *)
(* retried after a backoff until it has made MaxAttempts attempts.  A job  *)
(* whose worker died is found stalled and handed out MaxStalls more times. *)
(* The counters of a finished job are never read again and are dropped.    *)
(***************************************************************************)
EXTENDS Naturals

CONSTANTS MaxAttempts,   \* defaultJobOptions.attempts
          MaxStalls      \* BullMQ's maxStalledCount

ASSUME JobQueueAssumption == MaxAttempts \in Nat \ {0} /\ MaxStalls \in Nat

JobStates == {"absent", "waiting", "active", "delayed", "stalled",
              "completed", "failed"}
JobRecords == [state : JobStates, made : Nat, stalls : Nat]
Finished(s) == [state |-> s, made |-> 0, stalls |-> 0]
NoJob == Finished("absent")

Added(job) == IF job.state = "absent" THEN Finished("waiting") ELSE job
Claimed(job) == [job EXCEPT !.state = "active"]
Completed(job) == Finished("completed")
Stalled(job) == [job EXCEPT !.state = "stalled"]
Promoted(job) == [job EXCEPT !.state = "waiting"]
Failed(job) ==
  IF job.made + 1 < MaxAttempts
  THEN [job EXCEPT !.state = "delayed", !.made = job.made + 1]
  ELSE Finished("failed")
Recovered(job) ==
  IF job.stalls < MaxStalls
  THEN [job EXCEPT !.state = "waiting", !.stalls = job.stalls + 1]
  ELSE Finished("failed")

\* The queue is still going to do something with the job.
Unfinished(job) == job.state \in {"waiting", "active", "delayed", "stalled"}
=============================================================================
