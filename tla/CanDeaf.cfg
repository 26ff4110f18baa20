SPECIFICATION Spec
CONSTANTS
    NSlots = 2
    Filters = {}
    NoFilter = NoFilter
    Other = Other
    AnyId = AnyId
    Configs = {}
    NoConfig = NoConfig
    Modes = {1}
    Gated = {}
    Outcomes = {"ok"}
INVARIANTS
    OpenChannelHears
