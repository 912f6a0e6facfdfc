SPECIFICATION SteadySpec
CONSTANTS
  LATENCY = 3
  IoDelay = 4
  InitTime = 2
  NumWords = 2
  Value = {"a", "b"}
  Zero = "a"
  PowerUp <- MCPowerUp
  ResetCycles = 2
  Strobes <- MCByteStrobes
  WData <- MCData
INVARIANTS WritesLanded PinsInTime
PROPERTIES ImplementsMemory CsHighBetween
