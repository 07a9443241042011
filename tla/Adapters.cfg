SPECIFICATION Spec
CONSTANTS
    a1 = a1
    a2 = a2
    m1 = m1
    m2 = m2
    Actors = {a1, a2}
    Msgs = {m1, m2}
    KindsOf <- Modes
    Cancellable = {m1}
    Capacity <- OneBounded
    Strategies = {"DropNewest"}
    WatchPairs <- Supervises
    MaxWatches = 1
    Awaited = {a2}
    Stoppable = {a1}
    None = None
INVARIANTS
    CallerIsServed
PROPERTIES
    DeadLetterIsUndelivered
    AdapterImplementsContract
    AdapterStopTerminates
CHECK_DEADLOCK FALSE
