SPECIFICATION ProgramsSpec
CONSTANTS
  ParamSets <- MCUnknown
  Rates <- MCRates
  TicksPerSec = 763
  ClockWrap = 65536
  MaxIterated = 2
  Directives <- MCDirectives
  Words <- MCWords
  Strings <- MCStrings
  Addresses <- MCAddresses
  TimerClocks = 4
  PrintClocks = 6
  InstrClocks = {1, 3}
  MaxResets = 1
  LineMax = 3
  Keys = {"I", "s", "D", "C", "A", "1", "BS", "CR"}
  FlashIds <- MCIds
  MaxFwResets = 1
INVARIANT UnknownNotValidated
CHECK_DEADLOCK FALSE
