SPECIFICATION FairSpec
CONSTANTS
  LATENCY = 6
  IoDelay = 3
  InitTime = 3
  NumWords = 2
  Value = {"a", "b"}
  Zero = "a"
  PowerUp <- MCPowerUp
  ResetCycles = 2
  Strobes <- MCWordStrobes
  WData <- MCOther
INVARIANTS ConfiguredFirst
PROPERTIES ImplementsMemory ConfigAfterDelay Answered
