SPECIFICATION Spec
CONSTANTS
    e1 = e1
    e2 = e2
    t1 = t1
    t2 = t2
    t3 = t3
    films <- MCfilms
    Folders <- MCFolders
    MaxBatches = 2
    MaxRestarts = 1
    NoTrack = NoTrack
    NoPage = NoPage
    NoJob = NoJob
    NotMade = NotMade
    Titles <- MCTitles
    Places <- MCPlaces
    keep = 2
    MaxNotes = 3
    MaxStarts = 2
    MaxClock = 1
    Absent = Absent
    Torn = Torn
SYMMETRY Symmetric
INVARIANTS
    TypeOK
    PlacesKept
    SubtitleAsAsked
CHECK_DEADLOCK FALSE
