SPECIFICATION Spec
CONSTANTS
    Calls = {r1, r2}
    Limit = 1
    Conns = {c1, c2}
    NoConn = NoConn
INVARIANT TimeoutMeansProxied
CHECK_DEADLOCK FALSE
