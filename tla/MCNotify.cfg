SPECIFICATION Spec
CONSTANTS
    b1 = b1
    j1 = j1
    j2 = j2
    tab = tab
    tg = tg
    None = None
    Batches = {b1}
    Jobs = {j1, j2}
    JobsOf <- MCJobsOf
    Left <- MCLeft
    Pages = {tab}
    Notifier = tg
    Audiences <- MCAudiences
    Workers = 1
    Buffer = 2
    MaxChat = 2
    MaxPress = 1
    MaxBoots = 2
INVARIANTS
    TypeOK
    PictureCurrent
    OnePrompt
    BatchReported
    ButtonsRetired
    PressesKept
CHECK_DEADLOCK FALSE
