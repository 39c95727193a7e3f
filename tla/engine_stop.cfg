SPECIFICATION FairSpec
CONSTANTS
  Consumers = {c1, c2, c3}
  Selected = {c1, c2, c3}
  Servers = {s1}
  MaxTasks = 3
  MaxStops = 1
  EarlyStop = FALSE
  Faults = {"server", "redis"}
INVARIANTS WaitGroupCounts RunBlocks OneLateTask
PROPERTY StopEndsRun
CHECK_DEADLOCK FALSE
