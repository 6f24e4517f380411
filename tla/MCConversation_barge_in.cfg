SPECIFICATION Spec
CONSTANTS
  Turns <- TwoPrompts
  NoBargeIn = NoBargeIn
  FakeConfig <- Stopping
  StallThresholdMs = 3
  Profile <- Clean
INVARIANTS
  BargeInHitsItsPrompt
