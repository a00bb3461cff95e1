CONSTANTS
    Requests = {r1, r2}
    NoRequest = NoRequest
    Count <- One21
    Capacity <- One
    PreallocSlots = 1
    PreallocSize = 2
    Sizes = {1, 3}
    Faults = {"denoise", "decode"}
    Timeouts = FALSE
SPECIFICATION FairSpec
INVARIANTS
    TypeOK
    SlotsConserved
    NoIdleCapacity
    PushGoesToStager
    NothingLeftBehind
PROPERTY EveryRequestAnswered
