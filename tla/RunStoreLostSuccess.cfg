SPECIFICATION Spec

CONSTANTS
    p1 = p1
    p2 = p2
    Procs = {p1, p2}
    NServices = 2
    Extras = {}
    ServiceOrder <- TwoServices
    Teardown <- NoTeardown
    MayFail = {}
    Overlap <- AllCommands
    None = None
    Empty = Empty
    Garbled = Garbled

SYMMETRY Symmetry

INVARIANT SuccessIsPersistedAtRest

\* every invocation may have ended
CHECK_DEADLOCK FALSE
