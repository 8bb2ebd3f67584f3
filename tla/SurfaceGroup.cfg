CONSTANTS
    Properties = {title}
    Hint = hint
    Addon = addon
    KeyMask = keyMask
    InputRegion = inputRegion
    Values = {v1, v2}
    Unset = Unset
    PlatformDrops = TRUE
    MaxChanges = 4
    MaxShows = 2
    LayerNames = {l1, l2}
    Anonymous = Anonymous
    NotAttached = NotAttached
    Zs = {z1, z2}
    NotThere = NotThere
SPECIFICATION GroupSpec
SYMMETRY WindowSymmetry
INVARIANTS
    AskedHiddenIsShown
    MembersAreShown
    AttachedWhileShown
    GroupHasItsLayers
CHECK_DEADLOCK FALSE
