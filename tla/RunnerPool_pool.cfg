CONSTANTS
    Pids = {1, 2, 3}
    MaxPreCachedRunners = 2
    CloseTimeout = 2
    CommandMayFail = TRUE
SPECIFICATION FairPoolSpec
INVARIANTS
    PoolTypeOK
    PoolBound
    CloseTimerCoversDeadlines
PROPERTIES
    KillOnlyAfterTimeout
    RefilledUnlessExecFails
    ClosedProcessGoes
    PoolFillsUp
CHECK_DEADLOCK FALSE
