SPECIFICATION NodeSpec
CONSTANTS
    Types = {ty}
    Targets = {t1, t2}
    Watchers = {w1}
    Keys = {k1}
    Peers = {p1, p2}
    Addrs = {d}
    Nil = Nil
    MaxReqs = 3
    Pool = 2
    Subs = {s1, s2}
    Majors = {0, 1}
    MaxLocal = 2
    MaxMoves = 3
    Parts = {"spawn", "watch", "cancel", "peers", "directory", "struct"}
INVARIANTS
    SpawnsAreSound
    NativeKeepsPromises
    PeersAreSound
PROPERTIES
    RouteIsAnswered
CHECK_DEADLOCK FALSE
