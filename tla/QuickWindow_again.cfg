CONSTANTS
    Properties = {title}
    Hint = hint
    Addon = addon
    KeyMask = keyMask
    InputRegion = inputRegion
    Values = {v1, v2}
    Unset = Unset
    PlatformDrops = FALSE
    MaxChanges = 4
    MaxShows = 3
SPECIFICATION Spec
INVARIANTS
    SurfaceShowsProperties
CHECK_DEADLOCK FALSE
