SPECIFICATION RecoverySpec
CONSTANTS
    Jobs = {j1}
    Clis = {c1}
    None = None
    Sources = {a, b}
    Keeps = {1, 2}
    MaxStamp = 3
    MaxKills = 1
    MaxMoves = 1
    Rehearsers = {r1}
    MaxSyncs = 1
    MaxRuns = 2
CONSTRAINT Scope
INVARIANTS
    NewestIsWhole
    OneDump
    VerifiedCopyRecovers
PROPERTIES
    PublishedIsWhole
    GcKeepsNewest
    VerifiedRehearsalIsTrue
SYMMETRY Symmetry
CHECK_DEADLOCK FALSE
