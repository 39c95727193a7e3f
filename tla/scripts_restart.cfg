SPECIFICATION FairSpec
CONSTANTS
  w1 = w1
  w2 = w2
  c1 = c1
  c2 = c2
  m1 = m1
  Processes = {w1, w2}
  Consumers = {c1, c2}
  Movers = {m1}
  ProcessOf <- TwoAndOne
  Keys = {"MULTIHGETALL", "HMSETEXPIRE"}
  MaxRestarts = 1
  MaxErrors = 1
INVARIANTS CompleteAtRest CureWorks
PROPERTY AloneRecovers
