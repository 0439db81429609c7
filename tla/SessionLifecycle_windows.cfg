SPECIFICATION FairSpec
CONSTANTS
    Hosts = {h1, h2}
    MaxSessions = 2
    MaxPdus = 1
    HookBuild = TRUE
    SlowThreads = TRUE
    LinksFail = TRUE
INVARIANTS
    IInv
PROPERTIES
    OrphanCauses
    NoConnectAfterShutdown
    ShutdownDrains
    ReconnectsAfterLoss
    CloseTerminates
