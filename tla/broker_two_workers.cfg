SPECIFICATION Spec
CONSTANTS
  Tasks = {t1}
  NoTask = NoTask
  Producers = {p1}
  Consumers = {c1, c2}
  Processes = {w1, w2}
  ProcessOf <- EachOwnProcess
  Prefix = FALSE
  TicksPerSecond = 1
  Countdowns <- OnlyDelayed
  NoCountdown = NoCountdown
  Latency = 1
  MaxTime = 3
  MaxRetries = 0
  TTL = 2
  Faults = {}
  ResendLimit = 0
  Admin = {}
INVARIANTS NoDuplicateDelivery
