SPECIFICATION ProxySpec
CONSTANTS
    MaxLists = 4
    Unparsable = {2}
    Unusable = {3}
    Submissions = {r1}
INVARIANT
    RequestsGetDistributor
PROPERTIES
    LatestListIsUsed
    NothingIsLeftRunning
CHECK_DEADLOCK FALSE
