SPECIFICATION Spec
CONSTANTS
    Touched <- MCTouched
    Values = {0, 1}
    CacheIds = {0}
    Indices = {0, 1}
    WaitingList = 1
    Kinds = {"bitmap", "waiting"}
    Contents = {"a"}
    Edges = {"left"}
    MaxOrders = 4
    None = None
INVARIANTS
    IInv
    DrawsAsMeant
PROPERTIES
    NoiseOnlyAfterLoss
