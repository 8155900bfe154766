SPECIFICATION Spec
CONSTANTS
    Queries = {q1, q2}
    Subscribes = {s1}
    MaxDrops = 2
    MaxConnects = 2
    MaxNotices = 1
    LeavesPending = FALSE
INVARIANTS
    Inv
    AnswersExpected
    ListenedIsRegistered
PROPERTIES
    KeepsPromise
    EveryRequestSettles
CHECK_DEADLOCK FALSE
