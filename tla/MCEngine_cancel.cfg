SPECIFICATION Spec
CONSTANTS
  Sessions = {0}
  Prompts = 1
  MaxWork = 2
  SemCap <- TwoPerSession
INVARIANTS
  TypeOK DriverAlone OneReaction FrameConservation CompleteRun NothingLeftRunning
PROPERTIES SerialRun
