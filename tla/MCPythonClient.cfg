CONSTANTS
  Requests = {r1, r2}
  Closers = {k1, k2}
  None = None
  PipeRoom = 1
  MaxFaults = 2
SPECIFICATION FairSpec
INVARIANT AloneWithItsProcess
PROPERTIES EndIsItsOwn Implements EveryCallReturns DaemonsEnd
CHECK_DEADLOCK FALSE
