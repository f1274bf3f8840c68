SPECIFICATION Spec
CONSTANTS
    Conns = {c1, c2}
    NoConn = NoConn
    Cap = 2
    Low = 2
    Hard = 3
    HelloMax = 1
    LoopLimit = 3
    MaxSeq = 6
SYMMETRY Symmetry
INVARIANT ResumedIsInSync
CHECK_DEADLOCK FALSE
