SPECIFICATION RunSpec
CONSTANTS
    h1 = h1
    h2 = h2
    start = start
    again = again
    task = task
    propose = propose
    edit = edit
    stop = stop
    turn = turn
    Hooks <- MCHooks
    Requests <- MCRequests
    Operation <- MCOperation
    After <- MCAfter
    MaxVersion = 2
INVARIANTS
    OneOutcomePerRequest
    CachedIsRecorded
    VerifiedReportIsCompleted
    VerifiedRunIsCompleted
    CancelRevokes
CONSTRAINT FewErrors
CONSTRAINT Overlap
SYMMETRY Symmetry
CHECK_DEADLOCK FALSE
