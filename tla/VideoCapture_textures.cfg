CONSTANTS
    Textures = {t1, t2, t3}
    None = None
    MaxToggles = 5
    MaxFrames = 5
    MaxQueue = 3
SPECIFICATION Spec
INVARIANTS
    DisabledHoldsNothing
    ShownTextureIsLive
    NoTextureLeaks
CHECK_DEADLOCK FALSE
