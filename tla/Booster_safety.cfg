CONSTANTS
    Pids = {1, 2, 3}
    MaxPreCachedRunners = 1
    CloseTimeout = 1
    CommandMayFail = FALSE
    Apps = {a, b}
    NoApp = NoApp
    MaxRequests = 3
    RunnersMayCrash = TRUE
    PatientClients = FALSE
SPECIFICATION Spec
SYMMETRY AppSymmetry
INVARIANTS
    CallbackInOnePlace
    ReplyFromHost
    CallbackHasCarrier
    DeferredOnlyWhenPoolEmpty
    MapsAgree
    SubscribersUpToDate
PROPERTIES
    NoOvertaking
    ListedUntilExit
CHECK_DEADLOCK FALSE
