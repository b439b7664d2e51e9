SPECIFICATION Spec
CONSTANTS
    Cmds = {c1, c2, c3}
    MaxRetries = 1
    Acts = {1, 2}
    Types = {"isolate", "kill_process"}
    RawKinds = {"isolate", "unisolate", "quarantine", "release_quarantine"}
    PostKinds = {"isolate", "quarantine"}
    Sessions = {"scheduler", "batch"}
    Scheduler = "scheduler"
    MaxFaults = 1
SYMMETRY Symmetry
INVARIANTS TypeOK RowIsConsistent AppliedWasReported ActionFollowsCommand RowAgreesWithHost
CHECK_DEADLOCK FALSE
