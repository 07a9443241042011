SPECIFICATION Spec
CONSTANTS
    a1 = a1
    a2 = a2
    Actors = {a1, a2}
    Names = {n}
    Tells = {m}
    Asks = {q}
    Cancellable = {q}
    Capacity <- MixedCapacity
    Strategies = {"RejectWithError", "DropNewest"}
    HooksMayPanic = TRUE
    UserOps = {}
    WatchPairs <- AllPairs
    MaxStops = 1
    MaxWatches = 1
    None = None
INVARIANTS
    TypeOK
    WaitingIsHeld
    ReplyIsTruthful
PROPERTIES
    ImplementsContract
    AskResolves
    StopTerminates
CHECK_DEADLOCK FALSE
