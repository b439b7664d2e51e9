SPECIFICATION FairSpec
CONSTANTS
    Actions = {1, 2}
    OnHost = {2}
    ListLimit = 1
    Slots = {1, 2}
    MaxReads = 1
    MaxFaults = 1
INVARIANTS
    TypeOK
    TimelineOneAtATime
    ShownRevertedWasUndone
    TickedWereApplied
    UndoneWereApplied
    BusyMeansWorking
PROPERTIES
    HistoryCatchesUp
