SPECIFICATION FairSpec
CONSTANTS
  mst = mst
  s1 = s1
  s2 = s2
  zero = zero
  Master = mst
  Slaves = {s1, s2}
  MaxConns = 2
  None = None
  Pairs <- MCOnePair
  Secret <- MCNoSecret
  ZeroSecret = zero
  MaxRings = 3
  Crashers = {mst, s1}
  Disconnecters = {mst}
  Results = {TRUE}
  ConcurrentRequests = FALSE
  MaxUnread = 2
INVARIANTS
  ClosedOnlyUnmapped
PROPERTIES
  HandshakeSettles
  PeerLossNoticed
CHECK_DEADLOCK FALSE
