SPECIFICATION FairSpec
CONSTANTS
    Slots = {1, 2}
    Tasks = {1}
    MaxRows = 2
    MaxSug = 2
    MaxTriage = 1
    MaxAttempts = 1
    MaxReads = 1
    MaxRequests = 3
    MaxFaults = 1
INVARIANTS
    TypeOK
    MarkedRowWasActedOn
    ReviewedIsFinal
    SpinnersMeanWork
PROPERTIES
    SpinnersEnd
