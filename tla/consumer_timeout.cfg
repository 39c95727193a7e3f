SPECIFICATION FairSpec
CONSTANTS
  MaxRetries = 1
  MaxAttempts = 2
  Concurrency = 2
  Outcomes = {"ok", "error", "hang"}
  Timeouts = TRUE
  Recoverer = "first"
  Faults = {"save"}
  MaxCancels = 0
INVARIANTS HandlerAlone SuccessIsReal
PROPERTY WorkerRegained
CHECK_DEADLOCK FALSE
