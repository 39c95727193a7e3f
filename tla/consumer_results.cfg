SPECIFICATION FairSpec
CONSTANTS
  MaxRetries = 2
  MaxAttempts = 4
  Concurrency = 2
  Outcomes = {"ok", "error", "cancel", "panic"}
  Timeouts = FALSE
  Recoverer = "first"
  Faults = {}
  MaxCancels = 0
INVARIANTS AllRetriesUsed SuccessIsReal KeptForTTL
PROPERTY EventuallySettled
CHECK_DEADLOCK FALSE
