SPECIFICATION Spec
CONSTANTS
    Clients = {x}
    Adds = {a1, a2, a3}
    NoChain = NoChain
INVARIANTS
    Inv
    Served
    OwnChain
    NothingLeft
    CallbacksOpen
    DisposeCompletes
PROPERTIES
    EveryAddEnds
CHECK_DEADLOCK FALSE
