CONSTANTS
  Payloads = {p, q}
  Genesis = Genesis
  Malformed = Malformed
  MaxEntries = 1
  MaxRuns = 2
SPECIFICATION Spec
INVARIANT SharedFileVerifies
CHECK_DEADLOCK FALSE
