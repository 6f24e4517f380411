SPECIFICATION FairSpec
CONSTANTS
  Sessions = {0}
  Prompts = 1
  MaxWork = 0
  SemCap <- TwoPerSession
PROPERTIES Termination SelfUnblocking
