SPECIFICATION Spec
CONSTANTS
  PAGE = 2
  SECTPAGES = 2
  FLASHSECTS = 3
  Images <- MCImage
  OldByte = 90
  MaxTries = 3
  RetryLimit = 3
  Noise = {7, 16}
  Banner <- MCBanner
  Cleared <- MCCleared
INVARIANTS DetectedInIspMode
CHECK_DEADLOCK FALSE
