SPECIFICATION Spec
CONSTANTS
  Turns <- Brief
  NoBargeIn = NoBargeIn
  FakeConfig <- Stalling
  StallThresholdMs = 3
  Profile <- LossyReordering
INVARIANTS
  EveryUtteranceAnswered TurnsAreBracketed EveryFrameLogged DoubleTalkIsSharedTime
  ReorderedIsOvertaken StallsWithinTurns TimeToStopWithinLatency
