SPECIFICATION Spec
CONSTANTS
  TicksPerSecond = 2
  Nil = Nil
  Durations = {1, 3, 6}
  MaxIntervals = 3
  EngineOptions <- TwoEngines
  TaskOptions <- OptionLists
  Requests <- SomeRequests
  Payloads = {"payload"}
  MaxWaits = 3
INVARIANTS RetriesSpaced RetriesAsAsked SettingsStable
CHECK_DEADLOCK FALSE
