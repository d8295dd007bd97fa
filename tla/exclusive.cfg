SPECIFICATION Spec
CONSTANTS
    Null = Null
    Infinity = Infinity
    k1 = k1
    c1 = c1
    c2 = c2
    c3 = c3
    Keys = {k1}
    Blobs = {}
    Tags = {}
    TicksPerSecond = 1
    DefaultSliding = 1
    Century = 9
    Clients = {c1, c2}
    Expires <- BothExpires
    UnitTicks <- SecondTicks
    Waits = {0}
    UseWal = TRUE
    MaxClock = 3
    MaxCalls = 2
    MaxCrashes = 0
SYMMETRY ClientSymmetry
INVARIANTS
    ExclusiveWithinExpire
CHECK_DEADLOCK FALSE
