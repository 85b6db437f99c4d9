SPECIFICATION FairSpec
CONSTANTS
  l1 = l1
  l2 = l2
  a = a
  sub = sub
  ip = ip
  None = None
  NoDomain = NoDomain
  Nobody = Nobody
  Callers = {l1, l2}
  Hosts <- MCHosts
  Addresses = {ip}
  Under <- MCUnder
  Names = {"s"}
  Warm <- MCWarm
  Settable <- MCSettable
  Input <- MCInput
  Shared <- MCShared
  HTTP1 <- MCHTTP1
  Extra <- MCExtra
  Targets = {a, ip}
  Configs <- MCConfigs
INVARIANTS WarmFirst NothingAcrossOrigins WireAsMeasured AnsweredInOrder
PROPERTIES SeededOnce EveryLineSettled
CHECK_DEADLOCK FALSE
