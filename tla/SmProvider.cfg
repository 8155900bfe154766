SPECIFICATION Spec
CONSTANTS
    Connections = {k1, k2}
    Messages = {m1, m2, m3}
    MaxPending = 2
    MaxBuffered = 1
    MaxNotices = 2
INVARIANTS
    Inv
    SentInOrder
    ClosedOnceEach
    HeardOnce
PROPERTIES
    SilentOnceStopped
    DisconnectReleases
    EveryMessageHeard
CHECK_DEADLOCK FALSE
