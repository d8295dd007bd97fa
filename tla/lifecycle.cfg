SPECIFICATION FairSpec
CONSTANTS
    Null = Null
    w1 = w1
    w2 = w2
    s1 = s1
    s2 = s2
    cache = cache
    other = other
    Workers = {w1, w2}
    Scanners = {s1, s2}
    Tables = {cache, other}
    OptionChoices <- AllChoices
    MIN_SCAN_INTERVAL = 5
INVARIANTS
    TypeOK
    TableReady
    DdlOnce
    OneScanner
    HasScanner
    NoScannerAfterClose
PROPERTIES
    CallsReturn
    ScannerStops
