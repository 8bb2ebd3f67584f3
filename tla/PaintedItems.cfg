CONSTANTS
    Sources = {s1, s2}
    Providers = {p1, p2}
    None = None
    MaxChanges = 4
    SettablePoints = {"topLeft", "controlTopLeft"}
    Angles = {a1, a2}
    FirstAngle = a1
    UShortMax = 40
    IntMax = 1000
    Resolutions <- SomeResolutions
SPECIFICATION Spec
INVARIANTS
    FringeWhenNeeded
    WindowRefsBalanced
    LastNodeForgetsProvider
    DefaultsFollow
    ScreenShowsItem
    MeshIsDrawn
PROPERTY
    PaintShowsItem
SYMMETRY Addresses
CHECK_DEADLOCK FALSE
