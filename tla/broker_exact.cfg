SPECIFICATION FairSpec
CONSTANTS
  Tasks = {t1, t2}
  NoTask = NoTask
  Producers = {p1}
  Consumers = {c1, c2}
  Processes = {w1}
  ProcessOf <- OneProcess
  Prefix = FALSE
  TicksPerSecond = 2
  Countdowns <- WholeCountdowns
  NoCountdown = NoCountdown
  Latency = 1
  MaxTime = 5
  MaxRetries = 1
  TTL = 2
  Faults = {}
  ResendLimit = 0
  Admin = {}
INVARIANTS NothingLost DataBeforeId
PROPERTIES LosslessQueue EventuallyDone
