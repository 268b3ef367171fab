SPECIFICATION Spec
CONSTANTS
  Kids = {k1}
  NoKid = NoKid
  Slots = {s1}
  MaxAgents = 2
  MaxModelCalls = 1
  MaxEmptyRetries = 0
  MaxTurns = 1
  MaxSteers = 0
  MaxInterrupts = 2
  MaxReloads = 0
INVARIANTS
  InterruptIsRecorded
CHECK_DEADLOCK FALSE
