SPECIFICATION Spec
CONSTANTS
    Cmds = {c1, c2}
    MaxRetries = 1
    MaxSurplus = 2
    MaxFaults = 0
PROPERTY AnswersMatchRequests
CHECK_DEADLOCK FALSE
