SPECIFICATION Spec
CONSTANTS
    Cmds = {c1, c2, c3}
    MaxRetries = 1
    Acts = {1, 2}
    Types = {"isolate"}
    RawKinds = {}
    PostKinds = {}
    Sessions = {"scheduler", "batch"}
    Scheduler = "scheduler"
    MaxFaults = 1
SYMMETRY Symmetry
INVARIANT ReleasedMeansReleased
CHECK_DEADLOCK FALSE
