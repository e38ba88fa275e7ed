SPECIFICATION FairSpec
CONSTANTS
    Pairs = {1, 2}
    Builds = {1, 2}
    Ids = {1, 2, 3}
    Head <- MCHead
    OperatorConcurrent = FALSE
    MaxFaults = 2
    MaxSwaps = 1
    MaxReleases = 1
INVARIANTS
    WriterExclusion
    RestartRecordIsTrue
    DeploysOnlyKnownDatabases
PROPERTIES
    RerunCommits
    CommitIsWhatRuns
