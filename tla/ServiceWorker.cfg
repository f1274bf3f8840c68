CONSTANTS
    MaxPorts = 3
    MaxSubs = 1
    Tabs = {t1}
    PanelTab = t1
    Picks = 2
    Daemons = 2
    Sleeps = 1
    MaxUnderWay = 1
SPECIFICATION Spec
INVARIANTS QuietMirrors
PROPERTIES ResyncEnds PickEnds
CHECK_DEADLOCK FALSE
