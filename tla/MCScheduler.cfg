CONSTANTS
    a1 = a1
    a2 = a2
    a3 = a3
    b1 = b1
    op1 = op1
    op2 = op2
    Requests = {a1, a2, b1, op1, op2}
    Ranks = {0, 1}
    Kind <- Mixed
    Class <- MCClass
    Outs <- Two
    Cost <- One
    Batching = TRUE
    MaxSize = 4
    Limit = 4
    MaxCost = 3
    Delay = FALSE
    Sequential = FALSE
    Warmup = FALSE
    MaxRecv = 2
    MaxErrors = 3
    Faults = {"recv", "forward"}
SPECIFICATION FairSpec
INVARIANTS
    TypeOK
    OwnReplyOnce
    NothingDropped
    RanksInStep
PROPERTY EveryRequestAnswered
CHECK_DEADLOCK FALSE
