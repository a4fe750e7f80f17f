SPECIFICATION Spec

CONSTANTS
    p1 = p1
    p2 = p2
    p3 = p3
    Procs = {p1, p2, p3}
    NServices = 1
    Extras = {2}
    ServiceOrder <- OneService
    Teardown <- NoTeardown
    MayFail = {"publish", "clock", "open", "write", "rename", "read", "inspect", "stop", "crash"}
    Overlap = {}
    None = None
    Empty = Empty
    Garbled = Garbled

SYMMETRY Symmetry

INVARIANTS
    StateFileReadable
    SuccessIsPersisted
    CommittedIsNotRolledBack
PROPERTY StateIsFinal

\* every invocation may have ended
CHECK_DEADLOCK FALSE
