SPECIFICATION FairSpec
CONSTANTS
    Maps = {1, 2}
    Pinvis = {1, 2}
    Managers = {1, 2}
    Absent = Absent
    Floor <- MCFloor
    Seed <- MCSeed
    MaxBlocked = 1
    MaxFaults = 1
    MaxInstalls = 1
PROPERTIES
    BlocksSurvive
    TerminalLeftByPair
    IntentResolves
    RotatesAtOnce
