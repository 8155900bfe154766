SPECIFICATION Spec
CONSTANTS
    Accounts = {a1, a2, a3}
    Signatories = {a1, a2, a3}
    Threshold = 3
    Calls = {c1, c2, c3, c4, c5}
    GivenNonces = {0}
    Nobody = Nobody
INVARIANTS
    Inv
    ApprovalsAreMeant
PROPERTIES
    KeepsPromise
    FailsOnlyIfOvertaken
    CompletedOnlyByStaleApproval
SYMMETRY CallSymmetry
CHECK_DEADLOCK FALSE
