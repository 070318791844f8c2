CONSTANTS
  c1 = c1
  c2 = c2
  n1 = n1
  q1 = q1
  s1 = s1
  None = None
  Calls = {c1, c2}
  Notices = {}
  Queries = {}
  ServerRequests = {}
  IdOf <- NoIds
  Held = TRUE
  Ceiling = {2}
SPECIFICATION FairSpec
PROPERTY TransportEnds
CHECK_DEADLOCK FALSE
