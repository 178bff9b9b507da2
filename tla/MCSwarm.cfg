SPECIFICATION SwarmSpec
CONSTANTS
    base = base
    dependent = dependent
    NoRun = NoRun
    Work <- MCWork
    Deps <- MCDeps
    Rank <- MCRank
    MaxActive = 2
    MaxPerWork = 1
    MaxRestarts = 1
    MaxLaunches = 2
    LeaseTicks = 1
    MaxGraph = 2
INVARIANTS
    SwarmTypeOK
    StartedAfterPrerequisites
    CompletedIntegrated
PROPERTY
    SuccessStands
CONSTRAINT Bounded
