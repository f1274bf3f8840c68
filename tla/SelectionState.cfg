SPECIFICATION Spec
CONSTANTS
    m1 = m1
    m2 = m2
    p1 = p1
    p2 = p2
    Contents = {m1, m2}
    Bad = Bad
    NoManifest = NoManifest
    MaxWrites = 2
    Ids = {i1, i2, i3, i4}
    Places = {p1, p2}
    Covers <- MCCovers
    Tabs = {t1, t2, t3}
    NoSelection = NoSelection
    HistoryCap = 3
    TabCap = 2
    MaxPuts = 4
SYMMETRY Symmetry
INVARIANTS
    HistoryWellFormed
    StaleMeansUncovered
    WireIsCurrent
    TabSeqIsLRU
PROPERTY ClickMomentKept
CHECK_DEADLOCK FALSE
