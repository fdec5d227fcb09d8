\* Two decisions, one slot, settings that change, database errors, an endpoint
\* that may stay silent, a process that is stopped.
CONSTANTS
  MaxDecisions = 2
  Concurrency = 1
  Answers = {"ok", "refused"}
  Changes = {"reopen", "reconfigure"}
  Faults = {"store"}
  MaxAttempts = 2
  MaxStalls = 1
  MaxStops = 1
CHECK_DEADLOCK FALSE
SPECIFICATION WorkerFairSpec
PROPERTIES
  JobsEnd
  WorkerStops
