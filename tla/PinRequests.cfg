SPECIFICATION RequestsSpec
CONSTANTS
    Maps = {1, 2}
    Pinvis = {1, 2}
    Managers = {1}
    Absent = Absent
    Floor = {}
    Seed <- MCSeed
    MaxBlocked = 0
    MaxFaults = 1
    MaxInstalls = 0
    Posters = {p1, p2}
    Removers = {r1}
    ReadsRegistry = FALSE
    MaxRequests = 2
INVARIANTS
    AppliesWhatWasAsked
    RecordedIsKept
CHECK_DEADLOCK FALSE
CONSTRAINT Scope
