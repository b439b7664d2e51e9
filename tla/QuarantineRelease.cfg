SPECIFICATION Spec
CONSTANTS
    Cmds = {c1, c2, c3}
    MaxRetries = 1
    Acts = {1, 2}
    Types = {"kill_process"}
    RawKinds = {"quarantine", "release_quarantine"}
    PostKinds = {}
    Sessions = {"scheduler", "batch"}
    Scheduler = "scheduler"
    MaxFaults = 0
SYMMETRY Symmetry
INVARIANT ReleaseEndsQuarantine
CHECK_DEADLOCK FALSE
