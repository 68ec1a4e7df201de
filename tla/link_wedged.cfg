SPECIFICATION Spec
CONSTANTS
  mst = mst
  s1 = s1
  s2 = s2
  zero = zero
  Master = mst
  Slaves = {s1}
  MaxConns = 2
  None = None
  Pairs <- MCOnePair
  Secret <- MCNoSecret
  ZeroSecret = zero
  MaxRings = 3
  Crashers = {s1}
  Disconnecters = {}
  Results = {TRUE}
  ConcurrentRequests = FALSE
  MaxUnread = 1
INVARIANTS
  ClosedIsDisconnected
CHECK_DEADLOCK FALSE
