SPECIFICATION Spec
CONSTANTS
    MaxRate = 1
    Window = 2
    MaxPerWindow = 2
    WireWindow = 2
    ErrorThreshold = 2
    ErrorWindow = 3
    Cooldown = 2
    MaxQueue = 1
INVARIANTS
    RateIsBounded
    BreakerIsConsistent
PROPERTIES
    ProbeDecides
