CONSTANTS
    Requests = {r1, r2, r3}
    NoRequest = NoRequest
    Count <- One21
    Capacity <- One
    PreallocSlots = 0
    PreallocSize = 2
    Sizes = {1}
    Faults = {}
    Timeouts = TRUE
SPECIFICATION Spec
INVARIANT
    PendingCanExpire
CHECK_DEADLOCK FALSE
