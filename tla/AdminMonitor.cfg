SPECIFICATION Spec
CONSTANTS
    MaxRows = 2
    MaxSamples = 4
INVARIANTS
    PollingIsSequential
    NothingNewAfterRevocation
    StoppedShowsNothing
    ReadingsInOrder
PROPERTY
    RevokedPageStops
CHECK_DEADLOCK FALSE
