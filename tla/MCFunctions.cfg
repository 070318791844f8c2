CONSTANTS
  None = None
  NumberOf <- Numerals
  IndexOf <- Indices
  Language <- Languages
  HostOf <- Hosts
  DeepEqual <- SameStructure
  Typo = "typo"
  ToolNames <- Names
  Arguments <- Args
  Floor <- Floors
  Factor = 3
  MinHistory = 3
  MaxPattern = 5
  MaxName = 4
  MaxPieces = 7
  MaxEdits = 3
  MaxDepth = 3
  MaxEntries = 6
SPECIFICATION Spec
INVARIANT GlobsKeepSeparators
INVARIANT NestingIsRefused
INVARIANT LoadedIsAsAssumed
INVARIANT PositiveWindowsLimit
INVARIANT OtherKindsAreRefused
INVARIANT TyposAreRefused
INVARIANT RecordedArgumentsSurvive
INVARIANT RedactionIsLocal
INVARIANT OneBadRunHidesNothing
CHECK_DEADLOCK FALSE
