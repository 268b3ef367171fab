SPECIFICATION Spec
CONSTANTS
  Parts = {"session", "history", "citations", "pipeline", "restarts", "store", "shared store", "http",
           "planned", "stdio", "multi", "reactive", "planning", "restricted", "nucliadb", "remote",
           "rounds", "graphs"}
INVARIANTS
  TypesOK
  AskedInItsSession
  AnswerIsFromItsContexts
  MCPCallsAnswered
  SmartTurns
  NucliaDBAsked
PROPERTIES
  KeptWhole
  SettledStays
  PipelineEnds
CHECK_DEADLOCK FALSE
