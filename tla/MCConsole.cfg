SPECIFICATION Spec
CONSTANTS
    Incidents = {1, 2}
    Bare = {2}
    Target = 2
    Tabs = {"story", "process"}
    OthersSet = {"resolved"}
    MaxIncidentRequests = 2
    Policies = {1, 2}
    Rules = {1, 2}
    MaxProcessGroupRequests = 2
    Agents = {1, 2}
    MaxProcessRequests = 3
    Groups = {1, 2}
    Hosts = {1, 2}
    Slots = {1, 2}
    MaxReads = 1
    MaxRequests = 3
    MaxFaults = 1
INVARIANTS
    TypeOK
    ShownWasTrueOrMadeUp
    OneWriteAtATime
    KillNamesOwnProcess
    UncontestedRowsAreExact
    NothingRunsUnconfirmed
    SettledKillNamesOwnPid
    BatchNamesItsGroup
    SettledMembersAreExact
    VerdictsAreRecent
    CacheIsExact
    BusyMeansWorking
CHECK_DEADLOCK FALSE
