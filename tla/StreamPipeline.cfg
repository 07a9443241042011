CONSTANTS
    Calls <- AllCalls
    Items = 3
    Buffer = 1
    MaxItems = 3
    MaxDelay = 2
SPECIFICATION Spec
INVARIANTS
    TypeOK
    ItemsConserved
    BatchWaitBounded
PROPERTY TasksEnd
CHECK_DEADLOCK FALSE
