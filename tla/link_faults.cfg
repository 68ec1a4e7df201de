SPECIFICATION Spec
CONSTANTS
  mst = mst
  s1 = s1
  s2 = s2
  zero = zero
  Master = mst
  Slaves = {s1, s2}
  MaxConns = 2
  None = None
  Pairs <- MCPairs
  Secret <- MCNoSecret
  ZeroSecret = zero
  MaxRings = 3
  Crashers = {mst, s1, s2}
  Disconnecters = {mst, s1, s2}
  Results = {TRUE, FALSE}
  ConcurrentRequests = TRUE
  MaxUnread = 1
INVARIANTS
  TypeOK
  OneChannelPerInterface
  NoMessagePanic
  LockStep
  QueuesPaired
  NothingLeaks
  NeverUpTwice
CHECK_DEADLOCK FALSE
