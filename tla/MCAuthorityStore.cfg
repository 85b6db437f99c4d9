CONSTANTS
  Procs = {p1, p2, p3}
  Paths = {cert, key}
  Cert = cert
  Key = key
  Mine = Mine
  Other = Other
  NoFile = NoFile
  Torn = Torn
  MaxLosses = 1
  Hosts = {h1, h2, h3, h4}
  MaxLeaves = 3
  MaxMinted = 8
SPECIFICATION MCSpec
INVARIANTS OneAuthority LeafSound
PROPERTY TrustedStays
CHECK_DEADLOCK FALSE
