SPECIFICATION FairSpec
CONSTANTS
  MaxQuestions = 1
  MaxSteps = 0
  StepKinds = {}
  MaxFeedback = 1
  MaxDrop = 0
  MaxCrash = 1
  MaxLen = 5
  TrimSlack = 0
  Endpoints = {"once", "http"}
PROPERTIES
  AnswersEnd
