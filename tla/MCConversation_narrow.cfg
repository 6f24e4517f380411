SPECIFICATION Spec
CONSTANTS
  Turns <- LongWinded
  NoBargeIn = NoBargeIn
  FakeConfig <- Stopping
  StallThresholdMs = 3
  Profile <- Narrow
INVARIANTS
  TypeOK OneResponsePerBurst StopsWithinLatency LogsTurnsRight
PROPERTIES
  AnswersAfterSilence
