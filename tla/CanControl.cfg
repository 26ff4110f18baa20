SPECIFICATION Spec
CONSTANTS
    NSlots = 2
    Filters = {f1}
    NoFilter = NoFilter
    Other = Other
    AnyId = AnyId
    Configs = {c1}
    NoConfig = NoConfig
    Modes = {0, 2, 3}
    Gated = {}
    Outcomes = {"ok", "stuck"}
    c1 = c1
    f1 = f1
INVARIANTS
    ClocksMatchUse
    BanksInOrder
PROPERTIES
    UnansweredChangesNothing
    FilterIsolation
