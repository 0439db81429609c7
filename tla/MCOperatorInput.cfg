SPECIFICATION Spec
CONSTANTS
    Keys = {"ctrl", "shift", "v", "esc", "win"}
    Repeats = {"v"}
    Scancode <- MCScancode
    Printable = {"a", "A", "umlaut"}
    Clip <- MCClip
    Capacity = 2
    MaxInput = 2
    MaxActs = 4
    MaxDrops = 1
INVARIANTS
    IInv
    TypedAsMeant
PROPERTIES
    PasteSettles
    ViewOnlyExceptions
