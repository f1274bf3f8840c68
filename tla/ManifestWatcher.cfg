SPECIFICATION FairSpec
CONSTANTS
    Contents = {m1, m2}
    Bad = Bad
    NoManifest = NoManifest
    MaxWrites = 3
    MaxPolls = 2
INVARIANTS
    CachedIsDisk
PROPERTIES
    ImplementsFeed
    CatchesUp
CHECK_DEADLOCK FALSE
