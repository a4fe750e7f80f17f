SPECIFICATION FairSpec

CONSTANTS
    p1 = p1
    p2 = p2
    p3 = p3
    Procs = {p1, p2, p3}
    NServices = 1
    Extras = {}
    ServiceOrder <- OneService
    Teardown <- NoTeardown
    MayFail = {"write", "rename", "exit", "remove"}
    Overlap <- AllCommands
    None = None
    Empty = Empty
    Garbled = Garbled

PROPERTIES
    EveryCommandEnds
    DownTakesEffect

\* every invocation may have ended
CHECK_DEADLOCK FALSE
