SPECIFICATION Spec
CONSTANTS
    GiveUpCap = 3
    RevalidateCap = 2
    MaxRevalidating = 1
INVARIANT AuthLoopEnds
CHECK_DEADLOCK FALSE
