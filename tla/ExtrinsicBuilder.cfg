SPECIFICATION Spec
CONSTANTS
    Signers = {alice, bob}
    Periods = {3, 5000}
    FirstBlock = 8191
    LastBlock = 8194
    MaxSpec = 2
    MaxNonce = 1
    MaxSetters = 2
    MaxSigns = 2
    Nothing = Nothing
INVARIANTS Inv RefusedOnlyIfOvertaken
SYMMETRY Symmetry
CHECK_DEADLOCK FALSE
