SPECIFICATION Spec
CONSTANTS
    Chains = {x}
    Pulls = {p1}
    MaxResponses = 1
INVARIANTS
    CallbacksReleased
CHECK_DEADLOCK FALSE
