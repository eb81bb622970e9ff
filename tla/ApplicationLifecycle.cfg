SPECIFICATION Spec
CONSTANTS
    Requests = {r1, r2}
    Conns = {r1, r2}
    MayFail <- AllFaults
INVARIANTS
    DatabaseIsTakenLast
    NoLostWakeup
    ExitCodeTruthful
    ProcessMayExit
PROPERTIES
    ShutdownIsReported
    KeepsPromise
CHECK_DEADLOCK FALSE
