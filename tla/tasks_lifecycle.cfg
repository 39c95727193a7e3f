SPECIFICATION Spec
CONSTANTS
  Tasks = {t1, t2}
  NoTask = NoTask
  Consumers = {c1, c2}
  MaxRetries = 2
  Faults = {"crash", "redis"}
  MaxFaults = 1
  MaxCancels = 1
  MaxCounts = 1
SYMMETRY Symmetry
INVARIANTS MoverFaithful CancelSticks CountOnce
PROPERTY LifeOfTask
CHECK_DEADLOCK FALSE
