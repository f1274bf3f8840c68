CONSTANTS
    Bridges = {b1, b2}
    Ghost = ghost
    Missing = missing
SPECIFICATION Spec
INVARIANTS UpIsFound ClosedIsDead
PROPERTIES NoneOutlives ClosingEnds
CHECK_DEADLOCK FALSE
