SPECIFICATION FairSpec
CONSTANTS
  Callers = 2
  MaxMessages = 3
  GeminiMessages <- GeminiSays
  OpenAIMessages <- OpenAISays
  Runs <- MeasuredRuns
  Budgets <- OtherBudgets
  Ulps <- PowersOfTwo
  Sig = 8192
  One <- OneFloat
  Percent = 2
INVARIANTS
  TypeOK AudioInTurns ClosedAndJoined ExitTellsTheEnd BaselineIsComplete GateJudgesTheRuns
PROPERTIES
  BoundedRunExits
