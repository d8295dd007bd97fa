SPECIFICATION Spec
CONSTANTS
    Null = Null
    Infinity = Infinity
    k1 = k1
    c1 = c1
    c2 = c2
    c3 = c3
    Keys = {k1}
    Blobs = {c1, c2, c3, other}
    Tags = {}
    TicksPerSecond = 1
    DefaultSliding = 1
    Century = 9
    Callers = {c1, c2, c3}
    Plain = other
    OptionChoices <- CutoffChoices
    Modes = {"plain", "failover"}
    Interference = {"get", "set", "remove", "scan"}
    PoolSize = 3
    UseWal = FALSE
    MaxClock = 2
    MaxFaults = 1
SYMMETRY CallerSymmetry
INVARIANTS
    TypeOK
    OneFlightPerKey
    NoComputationWasted
PROPERTIES
    ImplementsSingleFlight
    StaleServedWithRoom
