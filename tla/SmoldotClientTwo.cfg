SPECIFICATION Spec
CONSTANTS
    Clients = {x, y}
    Adds = {a1, a2}
    NoChain = NoChain
INVARIANTS
    OwnChain
SYMMETRY AddSymmetry
CHECK_DEADLOCK FALSE
