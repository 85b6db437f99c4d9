CONSTANTS
  Requests = {r1, r2, r3}
  None = None
  MaxFaults = 1
SPECIFICATION FairSpec
INVARIANTS NoCrossedAnswer NoLostRequest LoopHeldOpen OneIdentity SentAtMostOnce CloseIsFinal
PROPERTIES Implements EventuallySettled
CHECK_DEADLOCK FALSE
