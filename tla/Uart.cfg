SPECIFICATION OneWaySpec
CONSTANTS
  Divider = 6
  Rates <- MCRates
  PutBytes = {0, 85, 240}
  PeerBytes = {0, 18}
  MaxDivs = 2
  MaxPuts = 2
  MaxSends = 2
INVARIANTS TxFaithful RxComplete
PROPERTIES PutTaken
