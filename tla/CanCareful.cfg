SPECIFICATION CarefulSpec
CONSTANTS
    NSlots = 2
    Filters = {f1, f2}
    NoFilter = NoFilter
    Other = Other
    AnyId = AnyId
    Configs = {}
    NoConfig = NoConfig
    Modes = {1, 3}
    Gated = {1}
    Outcomes = {"ok"}
    f1 = f1
    f2 = f2
PROPERTIES
    ImplementsCanChannels
SYMMETRY Symmetry
