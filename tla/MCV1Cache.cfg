SPECIFICATION Spec
CONSTANTS
    k1 = k1
    k2 = k2
    d1 = d1
    d2 = d2
    v1 = v1
    g = g
    None = None
    Keys = {k1, k2}
    Dirs = {d1, d2}
    DirOf <- MCDirOf
    Viewers = {v1}
    Guesser = g
    Slots = 1
    CacheMax = 1
    Patient = TRUE
    MaxJobs = 2
INVARIANTS
    TypeOK
    OneWriter
    CompleteIsFull
    NoGuessInTheWay
    ViewerNotDropped
    ReaderWhole
CHECK_DEADLOCK FALSE
