SPECIFICATION Spec

CONSTANTS
    p1 = p1
    p2 = p2
    p3 = p3
    Procs = {p1, p2, p3}
    NServices = 2
    Extras = {}
    ServiceOrder <- TwoServices
    Teardown <- NoTeardown
    MayFail = {"helper", "clock", "rename", "no_such", "stop", "crash"}
    Overlap <- AllCommands
    None = None
    Empty = Empty
    Garbled = Garbled

SYMMETRY Symmetry

INVARIANTS
    DownMeansStopped
    RollbackIsComplete
    EveryOrphanIsExplained

\* every invocation may have ended
CHECK_DEADLOCK FALSE
