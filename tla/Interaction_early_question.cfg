SPECIFICATION Spec
CONSTANTS
  MaxQuestions = 2
  MaxSteps = 0
  StepKinds = {}
  MaxFeedback = 0
  MaxDrop = 0
  MaxCrash = 0
  MaxLen = 4
  TrimSlack = 0
  Endpoints = {"keep_open"}
PROPERTIES
  QuestionsWaitTheirTurn
