CONSTANTS
    Threads = {t1, t2}
    NoThread = NoThread
    MaxOrder = 3
    SizeAt <- MCSizeAt
    ReqSizes = {1, 3, 8, 20}
SPECIFICATION Spec
SYMMETRY Symmetry
INVARIANTS
    TypeOK
    CallsConsistent
    BlocksTilePool
    BlocksAligned
    HandlesAreSlots
    FreeListsExact
    CountersExact
    RefusalIsHonest
PROPERTY ImplementsSlotPool
