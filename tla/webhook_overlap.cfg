\* Two decisions whose jobs overlap, a process that is stopped or killed.
CONSTANTS
  MaxDecisions = 2
  Concurrency = 2
  Answers = {"ok"}
  Changes = {"reopen"}
  Faults = {"crash"}
  MaxAttempts = 2
  MaxStalls = 1
  MaxStops = 2
CHECK_DEADLOCK FALSE
SPECIFICATION WorkerSpec
INVARIANTS
  WorkerTypeOK
  NotGivenUpEarly
  EndsRecorded
  StallsAreKills
PROPERTY RowsAreOwned
