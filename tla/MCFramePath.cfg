SPECIFICATION FairSpec
CONSTANTS
    Sizes <- SmallSizes
    MaxPaints = 2
    MaxStarts = 2
    Sources <- Both
    StreamsFail = TRUE
    SurfaceErrors = 1
INVARIANTS IInv
PROPERTIES LatestFrameLands
CHECK_DEADLOCK FALSE
