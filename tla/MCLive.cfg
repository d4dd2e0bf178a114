SPECIFICATION FairSpec
CONSTANTS
    mkv = mkv
    avi = avi
    film = film
    o1 = o1
    o2 = o2
    None = None
    Rels <- MCRels
    Outputs <- MCOutputs
    OutputOf <- MCOutputOf
    RemuxRels = {}
    Requests <- MCPair
    Converted = {}
    MayStop = TRUE
    Callers = {c1}
    MaxJobs = 2
    Workers = 1
    HistoryLimit = 1
PROPERTIES
    EveryJobSettles
    ShutdownDrains
    PoolLive
CHECK_DEADLOCK FALSE
