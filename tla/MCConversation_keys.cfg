SPECIFICATION Spec
CONSTANTS
  Turns <- Meeting
  NoBargeIn = NoBargeIn
  FakeConfig <- Stopping
  StallThresholdMs = 3
  Profile <- Latent
INVARIANTS
  KeysAreTotal
