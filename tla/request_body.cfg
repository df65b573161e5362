SPECIFICATION Spec
CONSTANTS
    IdleLimit = 2
    Totals = {1, 3}
    Limit = 3
    DefaultLimit = 2
    FrameSizes = {0, 1, 3}
    MaxOctets = 4
    MaxUnread = 2
    Unstated = Unstated
INVARIANTS
    WholeMeansAll
    SizeRefusalsAreEarned
    CutBodiesClose
PROPERTIES
    ClocksFireOnSilence
    ReadsEnd
