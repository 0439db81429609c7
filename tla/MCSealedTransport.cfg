SPECIFICATION FairSpec
CONSTANTS
    HeaderLen = 2
    MaxBody = 2
    MaxChunk = 3
    MaxFrames = 4
    NPdus = 4
    PduEnd <- MCPduEnd
    PduKind <- MCPduKind
INVARIANTS
    IInv
    NothingLeftAtEnd
PROPERTIES
    ImplementsChannel
    EveryPduHandled
