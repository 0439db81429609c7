SPECIFICATION Spec
CONSTANTS
    MaxStreams = 5
    MaxParts = 3
    MaxPerPdu = 2
    MaxPacked = 2
    MaxEpochs = 2
    FailLimit = 2
    OkReset = 2
    PlainBundles = FALSE
INVARIANTS
    IInv
    RendersWhatWasSent
    GivesUpExactly
    RecoveryBound
