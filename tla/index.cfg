SPECIFICATION Spec
CONSTANTS
    Null = Null
    w1 = w1
    w2 = w2
    s1 = s1
    s2 = s2
    cache = cache
    other = other
    Workers = {w1}
    Scanners = {s1}
    Tables = {cache, other}
    OptionChoices <- DefaultChoice
    MIN_SCAN_INTERVAL = 5
INVARIANTS
    IndexReady
