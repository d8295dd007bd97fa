SPECIFICATION Spec
CONSTANTS
    Null = Null
    Infinity = Infinity
    k1 = k1
    k2 = k2
    t1 = t1
    t2 = t2
    c1 = c1
    c2 = c2
    Keys = {k1, k2}
    Blobs = {b}
    Tags = {t1, t2}
    TicksPerSecond = 2
    DefaultSliding = 1
    Century = 9
    Clients = {c1, c2}
    EntryKeys = {k1}
    CounterKeys = {k2}
    KeySets <- BothKeys
    TagSets <- TagLists
    OptionChoices <- StoreChoices
    Amounts = {1}
    UseWal = TRUE
    MaxClock = 3
    MaxTotal = 2
    MaxCrashes = 0
SYMMETRY ClientSymmetry
INVARIANTS
    TypeOK
    HardCutoff
    IdleEntriesExpire
    CounterExact
PROPERTIES
    LiveRowsLeaveOnlyByInvalidation
    OnlyOvertakenReadsShorten
    ImplementsContract
