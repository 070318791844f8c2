CONSTANTS
  Calls = {c1, c2, i1, i2}
  Inner = {i1, i2}
  Ceiling = {2}
  None = None
SPECIFICATION Spec
INVARIANT HandlerRunsPermitted
INVARIANT AnswersAreTrue
CHECK_DEADLOCK FALSE
