CONSTANTS
  None = None
  c1 = c1
  c2 = c2
  c3 = c3
  x = x
  Tools <- ToolNames
  Args <- Anything
  Calls = {c1, c2, c3, c4}
  Policy <- WindowedBytesPolicy
  Requests <- ReadsAndWrites
  Results <- Sizes
  Figures <- UnitFigures
  HasOnAsk = TRUE
  OnWarnThrows = FALSE
  Nested <- OneInsideTwo
  MaxClock = 1
  MaxMetered = 1
  MaxFaults = 0
SPECIFICATION FairSpec
INVARIANT BytesCeiling
INVARIANT CrossedIsReported
INVARIANT RateLimitHolds
INVARIANT LimitsCountCalls
INVARIANT DecidedInOrder
PROPERTY CallsAndBytesEnforced
PROPERTY OnlySelfWaitStalls
CHECK_DEADLOCK FALSE
