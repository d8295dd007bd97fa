SPECIFICATION FairSpec
CONSTANTS
    Null = Null
    Infinity = Infinity
    k1 = k1
    c1 = c1
    c2 = c2
    c3 = c3
    Keys = {k1}
    Blobs = {}
    Tags = {}
    TicksPerSecond = 1
    DefaultSliding = 1
    Century = 9
    Clients = {c1, c2}
    Expires <- ShortExpire
    UnitTicks <- SecondTicks
    Waits = {0, 1}
    UseWal = FALSE
    MaxClock = 2
    MaxCalls = 3
    MaxCrashes = 1
INVARIANTS
    TypeOK
    ExclusiveWhileLeased
    LeasesRunOut
PROPERTIES
    FreeMeansFree
    CallsEnd
    ImplementsLeases
CHECK_DEADLOCK FALSE
