CONSTANTS
    Params = {p1, empty}
    Empty = empty
    MaxCalls = 4
    MaxFailures = 1
    MaxRestarts = 2
    MaxReports = 2
    MaxMessages = 2
SPECIFICATION Spec
INVARIANTS
    CallsAreOwned
    HeardOnce
PROPERTIES
    RegistersAgain
    SamIsObeyed
CHECK_DEADLOCK FALSE
