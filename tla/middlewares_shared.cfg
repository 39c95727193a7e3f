SPECIFICATION Spec
CONSTANTS
  qa = qa
  qb = qb
  a1 = a1
  a2 = a2
  b1 = b1
  Queues = {qa, qb}
  Consumers = {a1, a2, b1}
  QueueOf <- TwoAndOne
  Kinds = {"Recoverer", "Logger"}
  MaxEngineUses = 2
  MaxQueueUses = 1
  UseAfterHandle = FALSE
  Tasks = {t1, t2}
  NoTask = NoTask
  MaxRetries = 1
INVARIANTS OwnHandler ConfiguredChain PanicRecorded
CHECK_DEADLOCK FALSE
