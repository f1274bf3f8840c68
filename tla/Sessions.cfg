SPECIFICATION Spec
CONSTANTS
    Exts = {e1, e2, e3}
    NoExt = NoExt
    Nonces = {n1, n2}
    Reqs = {r1, r2}
    TrustAny = FALSE
    CliPin = NoExt
    NonceCap = 1
    Burst = 1
    RevalBurst = 1
    MaxIssued = 3
    MaxLives = 2
SYMMETRY Symmetry
INVARIANTS
    NonceOneShot
    SessionsDescendFromExchange
    AtMostTwoOrigins
CHECK_DEADLOCK FALSE
