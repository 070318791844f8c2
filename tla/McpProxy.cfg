CONSTANTS
  c1 = c1
  c2 = c2
  n1 = n1
  q1 = q1
  s1 = s1
  None = None
  Calls = {c1, c2}
  Notices = {n1}
  Queries = {q1}
  ServerRequests = {s1}
  IdOf <- OwnIds
  Held = FALSE
  Ceiling = {2}
SPECIFICATION FairSpec
INVARIANT OnlyPermittedForwarded
INVARIANT OwnReply
INVARIANT AnsweredOnce
INVARIANT RepliedBeforeEnd
PROPERTY ForwardedIsAnswered
CHECK_DEADLOCK FALSE
