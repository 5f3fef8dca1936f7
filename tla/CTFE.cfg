SPECIFICATION MCSpec
CONSTANTS
    Handlers = {h1, h2}
    Certs = {c1, p1}
    Precerts = {p1}
    Accepted = {p1}
    Times = {1, 2}
    Endpoints = {"add-chain", "add-pre-chain", "get-sth"}
    Kind = "log"
    IsReadonly = FALSE
    MaxGetEntries = 2
    Align = TRUE
    FaultyBackend = FALSE
    MaxInt = 7
    MaxParam = 3
    MaxTreeSize = 3
    MaxRefresh = 1
    MirrorHandlers = {m1}
    MirrorCerts = {d1, d2, d3}
    MirrorEndpoints = {"get-sth", "get-sth-consistency", "get-proof-by-hash", "get-entries", "get-entry-and-proof"}
INVARIANTS
    HeadsAreHonest
    MirrorHeadsAreStored
    
PROPERTIES
    IsCTLog
    SCTsAreMerged
