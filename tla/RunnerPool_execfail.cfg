CONSTANTS
    Pids = {1, 2, 3}
    MaxPreCachedRunners = 2
    CloseTimeout = 1
    CommandMayFail = TRUE
SPECIFICATION PoolSpec
INVARIANTS
    ShortPoolIsRefilled
CHECK_DEADLOCK FALSE
