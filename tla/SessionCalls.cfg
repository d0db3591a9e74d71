SPECIFICATION FairSpec
CONSTANTS
  c1 = c1
  c2 = c2
  c3 = c3
  Calls = {c1, c2, c3}
  MaxSessions = 2
  MaxRequests = 2
  None = None
CHECK_DEADLOCK FALSE
INVARIANTS SessionInvariant SoleSession AnswerIsOwn
PROPERTIES ClosedSessionReleasesCalls CloseEnds
