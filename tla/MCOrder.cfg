SPECIFICATION Spec
CONSTANTS
    mkv = mkv
    avi = avi
    film = film
    o1 = o1
    o2 = o2
    None = None
    Rels <- MCRels
    Outputs <- MCOutputs
    OutputOf <- MCOutputOf
    RemuxRels <- MCRemux
    Requests <- MCRequests
    Converted = {}
    MayStop = FALSE
    Callers = {c1}
    MaxJobs = 3
    Workers = 1
    HistoryLimit = 2
INVARIANTS
    SlotsBounded
    NoJobLost
    EncodesInOrder
PROPERTY PoolSafe
CHECK_DEADLOCK FALSE
