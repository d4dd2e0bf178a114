SPECIFICATION Spec
CONSTANTS
    a1 = a1
    a2 = a2
    b1 = b1
    A = A
    B = B
    Absent = Absent
    Empty = Empty
    Torn = Torn
    Main = Main
    Batches <- MCBatches
    MaxBoots = 2
    Lists <- Singles
    Savers = {s1}
PROPERTY RecordStands
CHECK_DEADLOCK FALSE
