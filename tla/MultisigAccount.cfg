SPECIFICATION FactorySpec
CONSTANTS
    Addresses <- MCAddresses
    Garbage = Garbage
    Wallets = {w1, w2}
    MaxAddresses = 3
    MaxCount = 3
INVARIANTS
    SameForEveryOrder
    PalletActsForIt
SYMMETRY WalletSymmetry
CHECK_DEADLOCK FALSE
