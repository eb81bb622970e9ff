SPECIFICATION SupervisorSpec
CONSTANTS
    Runs = {r1}
    RecoveryLaunches = 1
    LogMayFail = FALSE
    BrokerMayThrow = FALSE
PROPERTIES
    StopIsHonoured
    CrashStopsChildren
CHECK_DEADLOCK FALSE
