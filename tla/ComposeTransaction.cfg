SPECIFICATION Spec
CONSTANTS
    Backends = {backend}
    Clis = {cli}
    Configs = {1, 2, 3}
    First = 1
    Bare = 2
    Refused = {3}
    Leaks <- MCLeaks
    VolumeGraph <- MCVolumeGraph
    Examples = {1}
    Nobody = Nobody
    Outside = Outside
    MaxRequests = 2
    MaxEdits = 2
    MaxFaults = 2
INVARIANTS
    RefusalChangedNothing
    DriftIsExplained
CHECK_DEADLOCK FALSE
