SPECIFICATION ScenarioSpec
CONSTANTS
  Kids = {k1, k2}
  NoKid = NoKid
  Slots = {s1, s2}
  MaxAgents = 2
  MaxModelCalls = 2
  MaxEmptyRetries = 1
  MaxTurns = 2
  MaxSteers = 1
  MaxInterrupts = 1
  MaxReloads = 1
  Scenarios = {"children", "history"}
INVARIANTS
  TypeOK
  ConcurrencyKept
  NoStrayAgents
  InterruptIsRecorded
  HistoryIsComplete
PROPERTIES
  InterruptEndsTurn
CHECK_DEADLOCK FALSE
