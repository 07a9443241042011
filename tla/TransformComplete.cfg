CONSTANTS
    Calls <- Transform
    Items = 3
    Buffer = 1
    MaxItems = 3
    MaxDelay = 2
SPECIFICATION Spec
INVARIANT CompleteOnlyIfNotCancelled
CHECK_DEADLOCK FALSE
