SPECIFICATION Spec
CONSTANTS
    Calls = {r1, r2}
    Limit = 1
    Conns = {c1, c2}
    NoConn = NoConn
INVARIANT ShutdownLeavesNoneWaiting
CHECK_DEADLOCK FALSE
