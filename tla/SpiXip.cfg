SPECIFICATION FairSpec
CONSTANTS
  config_pudly = 3
  Addrs <- MCAddrs
  Content <- MCContent
  Versions = {0, 1}
  ResetClocks = 1
  Float = 0
INVARIANTS XipFaithful Recovered NoContention
PROPERTIES Answered
