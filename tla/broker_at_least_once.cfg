SPECIFICATION Spec
CONSTANTS
  Tasks = {t1, t2}
  NoTask = NoTask
  Producers = {p1}
  Consumers = {c1}
  Processes = {w1}
  ProcessOf <- OneProcess
  Prefix = FALSE
  TicksPerSecond = 1
  Countdowns <- WholeCountdowns
  NoCountdown = NoCountdown
  Latency = 1
  MaxTime = 3
  MaxRetries = 0
  TTL = 1
  Faults = {"resend"}
  ResendLimit = 2
  Admin = {}
SYMMETRY Symmetric
INVARIANTS NothingLost NotEarly
