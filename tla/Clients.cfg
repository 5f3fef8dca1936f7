SPECIFICATION MCSpec
CONSTANTS
    Dates = {0, 1, 2}
    Nil = Nil
    Bad = Bad
    MaxShards = 2
    Roots = {r1}
    Callers = {c1, c2}
    MaxMultiplier = 2
    RetryAfters = {0, 2}
    MaxTime = 3
    Logs = {g1, g2, n1}
    GoogleLogs = {g1, g2}
    Months = {1, 16, 29}
    Days = {10, 11}
    Threads = {t1, t2}
    Files <- MCFiles
    Issuers <- MCIssuers
    URLs <- MCURLs
    Content <- MCContent
    Raw32 <- MCRaw32
    Batches <- MCBatches
    Replacements = {"r"}
    AcceptedRoots = {"root", "root2"}
    Fixers = {f1, f2}
    Posters = {o1, o2}
    MaxChainLength = 3
    NoCert = NoCert
    Matchers = {m1, m2}
    Submitters = {s1}
    BufferSize = 1
    SameBeginning = {}
INVARIANTS
    RoutedToItsShard
    RootsAreUnion
    RetryAfterHonoured
    GroupsAreReachable
    EveryCertIsAccounted

    
CHECK_DEADLOCK FALSE
