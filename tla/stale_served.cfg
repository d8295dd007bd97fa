SPECIFICATION Spec
CONSTANTS
    Null = Null
    Infinity = Infinity
    k1 = k1
    c1 = c1
    c2 = c2
    c3 = c3
    Keys = {k1}
    Blobs = {c1, c2, other}
    Tags = {}
    TicksPerSecond = 1
    DefaultSliding = 1
    Century = 9
    Callers = {c1, c2}
    Plain = other
    OptionChoices <- CutoffChoices
    Modes = {"failover"}
    Interference = {}
    PoolSize = 2
    UseWal = FALSE
    MaxClock = 2
    MaxFaults = 0
PROPERTIES
    StaleServedOnFailure
