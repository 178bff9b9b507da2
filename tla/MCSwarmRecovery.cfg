SPECIFICATION SwarmLiveSpec
CONSTANTS
    base = base
    dependent = dependent
    NoRun = NoRun
    Work <- OneWork
    Deps <- MCDeps
    Rank <- MCRank
    MaxActive = 2
    MaxPerWork = 1
    MaxRestarts = 0
    MaxLaunches = 2
    LeaseTicks = 1
    MaxGraph = 1
PROPERTY
    SlotsFreed
