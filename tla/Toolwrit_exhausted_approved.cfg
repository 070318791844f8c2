CONSTANTS
  None = None
  c1 = c1
  c2 = c2
  c3 = c3
  x = x
  Tools <- ToolNames
  Args <- Anything
  Calls = {c1, c2, c3}
  Policy <- TokenPolicy
  Requests <- ReadsAndWrites
  Results <- NoBytes
  Figures <- UnitFigures
  HasOnAsk = TRUE
  OnWarnThrows = FALSE
  Nested <- NoNesting
  MaxClock = 0
  MaxMetered = 1
  MaxFaults = 0
SPECIFICATION Spec
PROPERTY ExhaustedDenies
CHECK_DEADLOCK FALSE
