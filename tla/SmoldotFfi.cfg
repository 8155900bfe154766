SPECIFICATION Spec
CONSTANTS
    Clients = {c1, c2}
    MaxCalls = 2
    MaxSends = 1
    U64Max = 15
    UsizeMax = 3
    StatementJson <- MCStatementJson
    None = None
INVARIANTS Inv StringsOwned HandlesMeant AbortsOnlyByAdd
PROPERTY EveryCallReturns
CHECK_DEADLOCK FALSE
