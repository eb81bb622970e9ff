SPECIFICATION SupervisorSpec
CONSTANTS
    Runs = {r1, r2}
    RecoveryLaunches = 1
    LogMayFail = FALSE
    BrokerMayThrow = FALSE
PROPERTIES
    OnlyTheOwnerConsumes
CHECK_DEADLOCK FALSE
