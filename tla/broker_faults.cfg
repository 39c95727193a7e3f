SPECIFICATION Spec
CONSTANTS
  Tasks = {t1, t2}
  NoTask = NoTask
  Producers = {p1}
  Consumers = {c1, c2}
  Processes = {w1}
  ProcessOf <- OneProcess
  Prefix = FALSE
  TicksPerSecond = 1
  Countdowns <- AnyCountdown
  NoCountdown = NoCountdown
  Latency = 2
  MaxTime = 2
  MaxRetries = 1
  TTL = 1
  Faults = {"crash", "redis"}
  ResendLimit = 0
  Admin = {"empty", "flush", "delete"}
SYMMETRY Symmetric
INVARIANTS TypeOK SingleCopy NoDuplicateDelivery NotEarly
PROPERTIES AtMostOnceQueue
