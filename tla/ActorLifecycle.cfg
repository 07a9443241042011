SPECIFICATION Spec
CONSTANTS
    a1 = a1
    a2 = a2
    Actors = {a1, a2}
    Names = {n}
    Tells = {}
    Asks = {}
    Cancellable = {}
    Capacity <- Unbounded
    Strategies = {}
    HooksMayPanic = TRUE
    UserOps = {"refs", "watch", "await"}
    WatchPairs <- Mutual
    MaxStops = 1
    MaxWatches = 2
    None = None
SYMMETRY ActorSymmetry
INVARIANTS
    TerminationIsFinal
    AliveWatchIsTold
CHECK_DEADLOCK FALSE
