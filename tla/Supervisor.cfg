SPECIFICATION SupervisorSpec
CONSTANTS
    Runs = {r1}
    RecoveryLaunches = 1
    LogMayFail = TRUE
    BrokerMayThrow = TRUE
INVARIANTS
    NothingLeftWithoutLease
    OwnedIsKept
PROPERTIES
    BackendOutlivesApplication
    NeverReplacedAlive
CHECK_DEADLOCK FALSE
