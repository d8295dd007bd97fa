SPECIFICATION Spec
CONSTANTS
    Null = Null
    Infinity = Infinity
    k1 = k1
    c1 = c1
    c2 = c2
    Keys = {k1}
    Blobs = {}
    Tags = {}
    TicksPerSecond = 2
    DefaultSliding = 1
    Century = 9
    Callers = {c1, c2}
    ttl = 4
    early_ttl = 2
    MaxClock = 6
    MaxRefreshers = 1
SYMMETRY CallerSymmetry
PROPERTIES
    StaleHitsRefresh
CHECK_DEADLOCK FALSE
