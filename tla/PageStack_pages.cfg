CONSTANTS
    MaxCalls = 4
    ReplaceTransition = TRUE
SPECIFICATION Spec
INVARIANTS
    CurrentIsOnStack
    NoPageLost
PROPERTIES
    PopUncoversPage
CHECK_DEADLOCK FALSE
