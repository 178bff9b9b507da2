SPECIFICATION MergeSpec
CONSTANTS
    base = base
    other = other
    dependent = dependent
    NoWork = NoWork
    Work <- Three
    Deps <- MCDeps
    Rank <- MCRank
    Integrators = {i1}
    Planners = {}
    Rescuers = {r1}
    MaxAttempts = 2
    MaxRepairs = 2
INVARIANTS
    IntegratedOnBranch
    OneRunPerWork
    DependenciesFirst
    VerifiedComposed
    RepairsBounded
    SupersededUnpublished
CONSTRAINT OneOperatorBounded
CHECK_DEADLOCK FALSE
