CONSTANTS
    Servers = {s1, s2}
    Files = {f1, f2}
    Nobody = nobody
    MaxEdits = 2
SPECIFICATION ServersSpec
INVARIANT OneServes
PROPERTIES WritesAreOwned CommitsReachDisk
CHECK_DEADLOCK FALSE
