SPECIFICATION MCSpec
CONSTANTS
    l1 = l1
    l2 = l2
    goog = goog
    allLogs = allLogs
    NoGroup = NoGroup
    BaseName = allLogs
    Logs <- MCLogs
    Groups <- MCGroups
    Members <- MCMembers
    MinInclusions <- MCMin
    Usable = {u1}
    Pending = {p1, p2}
    Clients = {u1, p1}
    Roots = {r1, r2}
    UnparsableRoots = {r2}
    MinSCTs = 1
    Requests = {q1}
INVARIANTS
    SuccessIsSound
    OneRequestPerLog
    NothingIsWasted
    RefusalIsJustified
PROPERTIES
    Termination
    
CHECK_DEADLOCK FALSE
