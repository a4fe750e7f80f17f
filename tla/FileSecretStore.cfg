SPECIFICATION FairSpec
CONSTANTS
  Threads = {t1, t2}
  Keys = {k1, k2}
  MaxOps = 3
  MayFail = {"create", "write", "rename", "crash"}
  None = None
\* every mutation may have been made
CHECK_DEADLOCK FALSE
INVARIANTS AckedIsOnDisk GapIsReported
PROPERTIES VersionsAreIssuedOnce EveryCallReturns ImplementsPort
