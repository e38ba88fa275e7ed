SPECIFICATION FairSpec
CONSTANTS
    Pairs = {1}
    Builds = {1}
    Ids = {1, 2, 3}
    Head <- OnePairHead
    OperatorConcurrent = FALSE
    MaxFaults = 1
    MaxSwaps = 0
    MaxReleases = 0
PROPERTIES
    RerunAlwaysCommits
