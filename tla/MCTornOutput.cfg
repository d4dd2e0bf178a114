SPECIFICATION Spec
CONSTANTS
    mkv = mkv
    avi = avi
    film = film
    o1 = o1
    o2 = o2
    None = None
    Rels <- MCRels
    Outputs <- MCOutputs
    OutputOf <- MCOutputOf
    RemuxRels = {}
    Requests <- MCTwins
    Converted = {}
    MayStop = FALSE
    Callers = {c1, c2}
    MaxJobs = 2
    Workers = 2
    HistoryLimit = 1
INVARIANT OutputComplete
SYMMETRY Clients
CHECK_DEADLOCK FALSE
