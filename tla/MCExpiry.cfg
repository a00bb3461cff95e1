CONSTANTS
    Requests = {r1, r2}
    NoRequest = NoRequest
    Count <- Two11
    Capacity <- One
    PreallocSlots = 1
    PreallocSize = 2
    Sizes = {1, 3}
    Faults = {"encode", "alloc", "denoise", "decode"}
    Timeouts = TRUE
SPECIFICATION ServerFairSpec
INVARIANTS
    SlotsWithinCapacity
    ClientsAccounted
    ReadyDataLanded
    PreallocSlotsSound
PROPERTIES
    EveryRequestAnswered
    ImplementsPipeline
