SPECIFICATION FairSpec
CONSTANTS
  p1 = p1
  p2 = p2
  p3 = p3
  i1 = i1
  i2 = i2
  j1 = j1
  j2 = j2
  Procs = {p1, p2}
  Pids = {i1, i2}
  Jobs = {j1}
  MayFail = {}
  Shared = {j1}
  None = None
CHECK_DEADLOCK FALSE
PROPERTIES NoProvenanceIsReplaced
