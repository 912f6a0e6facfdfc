SPECIFICATION FairSpec
CONSTANTS
  PAGE = 2
  SECTPAGES = 2
  FLASHSECTS = 3
  Images <- MCImages
  OldByte = 90
  MaxTries = 3
  RetryLimit = 3
  Noise = {7, 16}
  Banner <- MCBanner
  Cleared <- MCCleared
INVARIANTS Completed RestUntouched NoOverrun
PROPERTIES VerifiedProgram ProgramErased SessionEnds
CHECK_DEADLOCK FALSE
