SPECIFICATION Spec
CONSTANTS
    Q = 5
    G = 2
    ByteMax = 7
    Messages <- MCMessages
    Seeds = {1, 3}
    MaxSigned = 2
    Null = Null
    Junk = Junk
    Throws = Throws
    Nothing = Nothing
INVARIANTS KeysBelongTogether SignaturesHold
