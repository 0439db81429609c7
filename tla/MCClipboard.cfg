SPECIFICATION FairSpec
CONSTANTS
    LocalTexts = {mine}
    RemoteTexts = {theirs}
    f1 = f1
    f2 = f2
    Files <- TwoFiles
    Selections <- BothFiles
    MaxEvents = 3
    MaxWire = 1
    None = none
INVARIANTS IInv
PROPERTIES ServedIsDescribed OfferSettles CurtainFollows
