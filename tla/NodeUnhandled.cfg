CONSTANTS
  Requests = {r1, r2, r3}
  None = None
  MaxFaults = 0
SPECIFICATION Spec
INVARIANTS NoUnhandledError
CHECK_DEADLOCK FALSE
