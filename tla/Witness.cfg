SPECIFICATION Spec
CONSTANTS
    Leaves = {a, b}
    Feeders = {f1, f2}
    Pollers = {c1}
    Modes = {TRUE, FALSE}
    MaxSize = 2
    None = None
INVARIANT
    CosignedConsistent
PROPERTIES
    KeepsOneHistory
    CatchesUp
CHECK_DEADLOCK FALSE
