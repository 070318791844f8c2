CONSTANTS
  None = None
  NumberOf <- Numerals
  IndexOf <- Indices
  Language <- Languages
  HostOf <- Hosts
  DeepEqual <- SameStructure
  Typo = "typo"
  ToolNames <- Names
  Arguments <- Args
  Floor <- Floors
  Factor = 3
  MinHistory = 3
  MaxPattern = 0
  MaxName = 0
  MaxPieces = 0
  MaxEdits = 4
  MaxDepth = 0
  MaxEntries = 0
SPECIFICATION Spec
INVARIANT LoadedKeepsAPromise
CHECK_DEADLOCK FALSE
