SPECIFICATION FairSpec
CONSTANTS
    Calls = {c1, c2, c3}
    FailureThreshold = 2
    ResetTimeout = 2
    MaxAttempts = 2
    MaxFailures = 6
    MaxTrips = 5
INVARIANTS
    BlockedOncePerTrip
CHECK_DEADLOCK FALSE
