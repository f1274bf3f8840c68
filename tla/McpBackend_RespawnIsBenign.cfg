CONSTANTS
    Calls = {c1, c2, c3, c4, c5}
    Lives = 2
    Ports = {p1}
    NoPort = none
    Limit = 5
    Mishaps = 0
SPECIFICATION ShimSpec
INVARIANT RespawnIsBenign

CHECK_DEADLOCK FALSE
