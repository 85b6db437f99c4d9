CONSTANTS
  m1 = m1  m2 = m2  n1 = n1  d1 = d1
  b1 = b1  b2 = b2  w1 = w1  w2 = w2
  Conns = {m1, m2, n1}
  CaptureConns = {d1}
  Callers = {w1, w2}
  Owner <- MCOwner
  Launches <- MCLaunches
  None = None
  MaxRequests <- MCRequests
SPECIFICATION Spec
INVARIANT NavigationHeaders
CHECK_DEADLOCK FALSE
