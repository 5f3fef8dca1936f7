SPECIFICATION Spec
CONSTANTS
    Workers = {w1, w2}
    BatchSize = 2
    Modes = {TRUE, FALSE}
    StartIndex = 1
    EndIndex = 0
    MaxTreeSize = 4
INVARIANTS
    StartedFetchesFinish
    RunIsComplete

    
    
CHECK_DEADLOCK FALSE
