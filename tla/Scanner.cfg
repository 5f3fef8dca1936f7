SPECIFICATION Spec
CONSTANTS
    Workers = {w1, w2}
    Matchers = {m1, m2}
    BatchSize = 2
    Modes = {TRUE, FALSE}
    StartIndex = 0
    EndIndex = 0
    MaxTreeSize = 2
    BufferSize = 1
    MatcherType = "Matcher"
    PrecertOnly = TRUE
    Kinds = {"oddCert", "precert", "badCert"}
    Wanted = {"oddCert", "precert"}

    
PROPERTY
    ScanEnds
CHECK_DEADLOCK FALSE
