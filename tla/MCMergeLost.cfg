SPECIFICATION MergeSpec
CONSTANTS
    base = base
    other = other
    dependent = dependent
    NoWork = NoWork
    Work <- Two
    Deps <- MCDeps
    Rank <- MCRank
    Integrators = {i1, i2}
    Planners = {}
    Rescuers = {r1}
    MaxAttempts = 2
    MaxRepairs = 2
INVARIANT
    IntegratedOnBranch
CHECK_DEADLOCK FALSE
