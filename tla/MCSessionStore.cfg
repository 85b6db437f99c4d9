CONSTANTS
  Procs = {r1, r2}
  Paths = {sessions}
  NoFile = NoFile
  Torn = Torn
  Stamps = {1, 2}
  MaxSessions = 2
  MaxLosses = 1
SPECIFICATION Spec
INVARIANTS AlwaysLoadable LeftOnlyByFailure
PROPERTY KeptUnlessRaced
CHECK_DEADLOCK FALSE
