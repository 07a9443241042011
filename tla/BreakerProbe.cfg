SPECIFICATION TrafficSpec
CONSTANTS
    MaxRate = 1
    Window = 1
    MaxPerWindow = 1
    WireWindow = 1
    ErrorThreshold = 1
    ErrorWindow = 1
    Cooldown = 1
    MaxQueue = 1
PROPERTIES
    HalfOpenEnds
