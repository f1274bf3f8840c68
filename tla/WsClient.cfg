SPECIFICATION FairSpec
CONSTANTS
    GiveUpCap = 3
    RevalidateCap = 2
    MaxRevalidating = 2
INVARIANTS
    OneConnection
    NeverStranded
PROPERTIES
    ClosedStaysClosed
    WaitingEnds
CHECK_DEADLOCK FALSE
