CONSTANTS
    Pids = {1, 2, 3}
    MaxPreCachedRunners = 1
    CloseTimeout = 1
    CommandMayFail = FALSE
    Apps = {a, b}
    NoApp = NoApp
    MaxRequests = 2
    RunnersMayCrash = TRUE
    PatientClients = TRUE
SPECIFICATION FairSpec
PROPERTIES
    CallIsAnswered
CHECK_DEADLOCK FALSE
