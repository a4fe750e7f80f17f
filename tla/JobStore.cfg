SPECIFICATION MCSpec
CONSTANTS
  p1 = p1
  p2 = p2
  p3 = p3
  i1 = i1
  i2 = i2
  j1 = j1
  j2 = j2
  Procs = {p1, p2, p3}
  Pids = {i1, i2}
  Jobs = {j1, j2}
  MayFail = {"request", "client", "rejected", "open", "write", "rename", "remove", "crash"}
  Shared = {j1}
  None = None
\* every invocation may have ended
CHECK_DEADLOCK FALSE
INVARIANTS ReportIsRecorded RepeatIsExplained ExportAgreesWithReports ProvenanceIsWhole TemporaryIsExplained
PROPERTIES ProvenanceIsFinal EveryCommandEnds
