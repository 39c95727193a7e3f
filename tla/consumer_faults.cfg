SPECIFICATION Spec
CONSTANTS
  MaxRetries = 2
  MaxAttempts = 4
  Concurrency = 2
  Outcomes = {"ok", "error", "cancel", "panic"}
  Timeouts = FALSE
  Recoverer = "absent"
  Faults = {"save", "event"}
  MaxCancels = 1
INVARIANTS TypeOK HandlerAlone RetryBudget SuccessSaved
CHECK_DEADLOCK FALSE
