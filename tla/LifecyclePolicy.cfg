SPECIFICATION Spec
CONSTANTS
    StartupMs = 2
    ShutdownMs = 1
    HealthFailures = 2
    RecoveryLaunches = 2
    RecoveryWindowMs = 4
    BackoffMs <- Backoffs
    AutoRecovery = TRUE
    MaxObservationAgeMs = 1
    MaxTime = 6
INVARIANTS
    NoForgottenProcess
    RecoveryBudgetHolds
    NeverAnIllegalTransition
PROPERTIES
    NoLaunchOverALiveProcess
    DeliberateStopSuppresses
CHECK_DEADLOCK FALSE
