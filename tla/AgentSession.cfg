SPECIFICATION FairSpec
CONSTANTS
    Cmds = {c1, c2}
    MaxRetries = 1
    MaxSurplus = 2
    MaxFaults = 1
INVARIANTS TypeOK OneAnswerPerRequest PairedWithoutSurplus
PROPERTIES ImplementsDelivery PendingSettles
CHECK_DEADLOCK FALSE
