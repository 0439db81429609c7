SPECIFICATION Spec
CONSTANTS
    Exchanges <- MCExchanges
    Denials = {"ACCESS_DENIED"}
    Envs <- MCEnvs
    ShareIds = {1, 2}
    Sizes <- MCSizes
    CapLists <- MCCapLists
    Points <- MCPoints
    CursorPad = 1
    Traffic = {"rdpsnd"}
    MaxQueue = 2
    MaxReactivations = 1
INVARIANTS
    IInv
    ChannelsSurvive
    PaintedUnlessDeactivated
    TrailCovers
PROPERTIES
    ReactivationDecodes
    Establishes
    DesktopStarts
CHECK_DEADLOCK FALSE
