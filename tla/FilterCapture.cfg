SPECIFICATION Spec
CONSTANTS
    Threads = {t1, t2}
    Contexts = {c1, c2}
    NoContext = NoContext
    NoName = NoName
    MaxName = 1
    MaxTime = 1
    MaxRefs = 3
    MaxCount = 3
INVARIANTS ReferencesExact CapturesLogged
CHECK_DEADLOCK FALSE
