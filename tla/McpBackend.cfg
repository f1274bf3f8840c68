CONSTANTS
    Calls = {c1, c2}
    Lives = 2
    Ports = {p1, p2}
    NoPort = none
    Limit = 5
    Mishaps = 2
SPECIFICATION ShimSpec
INVARIANTS SteadyIsAnswered
PROPERTIES Recovers
CHECK_DEADLOCK FALSE
