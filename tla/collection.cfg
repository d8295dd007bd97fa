SPECIFICATION FairSpec
CONSTANTS
    Null = Null
    Infinity = Infinity
    k1 = k1
    k2 = k2
    t1 = t1
    t2 = t2
    c1 = c1
    c2 = c2
    Keys = {k1, k2}
    Blobs = {b}
    Tags = {t1, t2}
    TicksPerSecond = 1
    DefaultSliding = 1
    Century = 9
    Clients = {c1}
    EntryKeys = {k1, k2}
    CounterKeys = {}
    KeySets <- BothKeys
    TagSets <- TagLists
    OptionChoices <- ScanChoices
    Amounts = {}
    UseWal = FALSE
    MaxClock = 3
    MaxTotal = 0
    MaxCrashes = 1
PROPERTIES
    ImplementsContract
    ExpiredRowsAreCollected
