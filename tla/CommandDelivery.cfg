SPECIFICATION FairSpec
CONSTANTS
    Cmds = {c1, c2}
    MaxRetries = 2
INVARIANTS TypeOK OneAttempt RunsAreBounded VerdictIsEarned
PROPERTIES VerdictIsFinal PendingSettles
CHECK_DEADLOCK FALSE
