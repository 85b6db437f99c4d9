CONSTANTS
  Procs = {r1, r2}
  Paths = {sessions}
  NoFile = NoFile
  Torn = Torn
  Stamps = {1, 2}
  MaxSessions = 2
  MaxLosses = 0
SPECIFICATION Spec
INVARIANT NothingSavedIsLost
CHECK_DEADLOCK FALSE
