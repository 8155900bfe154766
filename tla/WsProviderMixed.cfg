SPECIFICATION Spec
CONSTANTS
    Queries = {q1}
    Subscribes = {s1}
    MaxDrops = 1
    MaxConnects = 2
    MaxNotices = 1
    LeavesPending = TRUE
INVARIANTS
    AnswersAreOwn
CHECK_DEADLOCK FALSE
