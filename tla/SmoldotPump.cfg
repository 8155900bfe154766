SPECIFICATION Spec
CONSTANTS
    Chains = {x, y}
    Pulls = {p1, p2, p3}
    MaxResponses = 2
INVARIANTS
    Inv
    WaitingIsServed
    LaterGetsLater
PROPERTIES
    KeepsPromise
    ResponsesArrive
CHECK_DEADLOCK FALSE
