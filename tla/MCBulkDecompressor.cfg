SPECIFICATION MppcSpec
CONSTANTS
    HistorySize = 8
    ByteBits = 3
    Classes <- MCClasses
    MaxOnes = 3
    Alphabet = {1, 6}
    MaxPackets = 3
    MaxTokens = 3
    Offsets = {1, 2, 3, 6, 7}
    Lengths = {3, 5}
    Cuts = TRUE
INVARIANTS
    MppcInv
    DecompressesWhatWasSent
PROPERTIES
    Terminates
