CONSTANTS
  Conns = {c1, c2}
  Closers = {k1, k2}
  Hosts = {h1, h2}
  None = None
  MaxRequests = 2
  MaxLeaves = 1
SPECIFICATION FairSpec
INVARIANTS WaitGroupExact NoneSlipsBehind CloseLeavesNothing
PROPERTIES CloseReturns HungUpIsForgotten
CHECK_DEADLOCK FALSE
