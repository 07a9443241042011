SPECIFICATION Spec
CONSTANTS
    s1 = s1
    s2 = s2
    top = top
    critical = critical
    high = high
    unmarked = unmarked
    background = background
    Envelopes = {s1, s2, unmarked}
    SendModeOf <- MCSendModeOf
    PriorityOf <- MCPriorityOf
    Modes = {"strict"}
    MaxConsecutive = 2
    Capacity = 4
    MaxAge = 2
    NoHeader = NoHeader
PROPERTIES
    PriorityIsNotStarved
