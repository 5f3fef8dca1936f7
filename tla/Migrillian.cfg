SPECIFICATION MCSpec
CONSTANTS
    Workers = {w1}
    BatchSize = 1
    MaxTreeSize = 3
    Submitters = {s1}
    ChannelSize = 1
    Modes = {TRUE, FALSE}
    NoConsistencyCheck = FALSE
    FromIndex = 0
    ToIndex = 2
    Instances = {i1, i2}
    HasStopAfter = TRUE
    NoOne = NoOne
    MaxFaults = 3

    
PROPERTIES
    Migrates
    MastershipMoves
CHECK_DEADLOCK FALSE
