CONSTANTS
  Workers = {w1, w2}
  Jobs <- MCJobs
  Repeat = 1
  None = None
SPECIFICATION FairSpec
INVARIANTS Accounted OneClientPerProxy BodiesApart
PROPERTY Returns
