SPECIFICATION Spec
CONSTANTS
    Events = {e1, e2, e3}
    Kinds = {"EventSourced", "DurableState"}
    Policies = {"Stop", "Retry", "RetryNone", "SkipAndStart"}
    MaxAttempts = 2
    MaxSnapshots = 2
    MaxRestarts = 3
    None = None
INVARIANTS
    RecoveryIsExact
    AckedSurvives
PROPERTIES
    RecoveryEnds
CHECK_DEADLOCK FALSE
