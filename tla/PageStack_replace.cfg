CONSTANTS
    MaxCalls = 4
    ReplaceTransition = FALSE
SPECIFICATION Spec
INVARIANTS
    ReplacementIsSaved
CHECK_DEADLOCK FALSE
