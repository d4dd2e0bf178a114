SPECIFICATION FairSpec
CONSTANTS
    a1 = a1
    a2 = a2
    b1 = b1
    A = A
    B = B
    Absent = Absent
    Empty = Empty
    Torn = Torn
    Main = Main
    Batches <- MCBatches
    MaxBoots = 2
    Lists <- Singles
    Savers = {s1, s2}
CONSTRAINT HarmIsFirst
INVARIANTS
    TypeOK
    StoreReadable
    StoreCurrent
    KeptUntilSettled
PROPERTY FileSettles
CHECK_DEADLOCK FALSE
