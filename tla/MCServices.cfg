SPECIFICATION FairSpec
CONSTANTS
  Parts = {"code", "script", "sessions", "same id", "oauth", "streams"}
INVARIANTS
  TypesOK
  CodeModeGivesBack
  SessionsAreKept
  MessagesReachTheirOwn
PROPERTIES
  RecordIsOwn
  EveryWaitEnds
CHECK_DEADLOCK FALSE
