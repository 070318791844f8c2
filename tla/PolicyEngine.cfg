CONSTANTS
  None = None
  Policies <- SmallPolicies
  Tools <- Names
  Args <- Values
  MaxEntries = 2
  MaxTokens = 3
  MaxTime = 2
  MaxRules = 3
SPECIFICATION Spec
INVARIANT OrderIrrelevant
INVARIANT CapacityReturns
INVARIANT LimitBoundsItsRule
CHECK_DEADLOCK FALSE
