SPECIFICATION Spec
CONSTANTS
    s1 = s1
    s2 = s2
    top = top
    critical = critical
    high = high
    unmarked = unmarked
    background = background
    Envelopes = {s1, s2, top, critical, high, unmarked, background}
    SendModeOf <- MCSendModeOf
    PriorityOf <- MCPriorityOf
    Modes = {"strict", "fair", "comparer", "aging"}
    MaxConsecutive = 2
    Capacity = 4
    MaxAge = 2
    NoHeader = NoHeader
INVARIANTS
    CountersAreExact
PROPERTIES
    AlternatesBetweenPushes
    AgedIsNotOvertaken
