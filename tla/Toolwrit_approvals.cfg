CONSTANTS
  None = None
  c1 = c1
  c2 = c2
  c3 = c3
  x = x
  Tools <- ToolNames
  Args <- Anything
  Calls = {c1, c2, c3}
  Policy <- ApprovalPolicy
  Requests <- AllRequests
  Results <- NoBytes
  Figures <- SomeFigures
  HasOnAsk = TRUE
  OnWarnThrows = TRUE
  Nested <- OneInsideTwo
  MaxClock = 0
  MaxMetered = 1
  MaxFaults = 1
SPECIFICATION FairSpec
INVARIANT TypeOK
INVARIANT SectionExclusive
INVARIANT RecordedBeforeRun
INVARIANT CallsCeiling
INVARIANT ReceiptTellsTheRun
INVARIANT UnaskedReplayable
PROPERTY EveryGuardSettles
PROPERTY ExhaustedStays
PROPERTY ImplementsWrit
CHECK_DEADLOCK FALSE
