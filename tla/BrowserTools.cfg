SPECIFICATION FairSpec
CONSTANTS
    Calls = {r1, r2, r3}
    Limit = 2
    Conns = {c1, c2}
    NoConn = NoConn
INVARIANTS
    SlotAccounting
    WaitingOnSubscriber
PROPERTIES
    DisconnectBlamesItsOwn
    EveryCallIsAnswered
    SlotsComeBack
CHECK_DEADLOCK FALSE
