SPECIFICATION Spec
CONSTANTS
  MaxQuestions = 1
  MaxSteps = 1
  StepKinds = {"step", "oauth"}
  MaxFeedback = 2
  MaxDrop = 1
  MaxCrash = 1
  MaxLen = 2
  TrimSlack = 0
  Endpoints = {"once"}
INVARIANTS
  TypeOK
  NoFalseTimeout
  ReplyMatchesRequest
  DoneAfterFinal
PROPERTIES
  DoneIsLast
