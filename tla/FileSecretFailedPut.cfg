SPECIFICATION Spec
CONSTANTS
  Threads = {t1}
  Keys = {k1}
  MaxOps = 2
  MayFail = {"create", "write", "rename"}
  None = None
\* every mutation may have been made
CHECK_DEADLOCK FALSE
PROPERTIES FailedPutLeavesNoTrace
