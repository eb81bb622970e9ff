SPECIFICATION SupervisorSpec
CONSTANTS
    Runs = {r1}
    RecoveryLaunches = 1
    LogMayFail = TRUE
    BrokerMayThrow = FALSE
INVARIANTS
    RemainsOwner
CHECK_DEADLOCK FALSE
