CONSTANTS
    Pids = {1, 2, 3}
    MaxPreCachedRunners = 1
    CloseTimeout = 1
    CommandMayFail = TRUE
    Apps = {a, b}
    NoApp = NoApp
    MaxRequests = 3
    RunnersMayCrash = TRUE
    PatientClients = TRUE
SPECIFICATION Spec
SYMMETRY AppSymmetry
INVARIANTS
    OneRunnerPerApp
    AnsweredRunnerIsListed
PROPERTIES
    ImplementsPool
CHECK_DEADLOCK FALSE
