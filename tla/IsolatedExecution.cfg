SPECIFICATION Spec
CONSTANTS
    m1 = m1
    m2 = m2
    Pinsets = {1, 2}
    Managers <- MCManagers
    Agreeing = {1}
    Nothing = Nothing
    LedgerLimit = 2
    MaxFaults = 1
    MaxCommands = 2
SYMMETRY MCSymmetry
CHECK_DEADLOCK FALSE
INVARIANTS
    BodyAtMostOnce
    VerifiedLeafIsFinal
    BurnIsEarned
    LeftoversAreReported
