CONSTANTS
  Payloads = {p, q}
  Genesis = Genesis
  Malformed = Malformed
  MaxEntries = 3
  MaxRuns = 2
SPECIFICATION Spec
INVARIANT VerifiedIsOneLog
INVARIANT EditsAreDetected
CHECK_DEADLOCK FALSE
