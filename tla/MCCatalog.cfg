SPECIFICATION Spec
CONSTANTS
    r1 = r1
    r2 = r2
    None = None
    Titles <- MCTitles
    Fixed <- MCFixed
    Earlier <- MCEarlier
    Junk <- MCJunk
    OutDir <- MCOutDir
    Ready <- MCReady
    Soft = {1}
    Requests = {r1, r2}
    MaxJobs = 2
SYMMETRY Symmetric
INVARIANTS
    TypeOK
    TrackBelongs
    DiscardSpares
    RowsOnce
PROPERTIES
    ConvertedListed
    DiscardedNotListed
    NotGuessed
CHECK_DEADLOCK FALSE
