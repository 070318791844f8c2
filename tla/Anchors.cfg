CONSTANTS
  Payloads = {}
  Genesis = Genesis
  Malformed = Malformed
  None = None
  NoOne = NoOne
  Redacted = Redacted
  MaxEntries = 2
  MaxRuns = 1
  Run <- RunName
  Kinds <- MCKinds
  Files <- MCFiles
  Commands = {a1, a2}
  OtherRuns <- MCOtherRuns
  Bundled <- MCBundled
  OwnCA <- MCOwnCA
  Signers <- MCSigners
  Skews <- MCSkews
  Tolerance = 1
  Timeout = 1
  MaxTime = 2
  MaxLines = 3
SPECIFICATION AnchorsFairSpec
INVARIANT AcceptedIsAnchored
INVARIANT LandedVerifies
PROPERTY AnchorSettles
CHECK_DEADLOCK FALSE
