CONSTANTS
    a1 = a1
    a2 = a2
    a3 = a3
    b1 = b1
    op1 = op1
    op2 = op2
    Requests = {a1, a2, a3, b1, op1}
    Ranks = {0}
    Kind <- Updating
    Class <- MCClass
    Outs <- Uneven
    Cost <- One
    Batching = TRUE
    MaxSize = 3
    Limit = 3
    MaxCost = 2
    Delay = TRUE
    Sequential = TRUE
    Warmup = TRUE
    MaxRecv = 3
    MaxErrors = 3
    Faults = {"send", "forward", "operate"}
SPECIFICATION Spec
INVARIANTS
    OwnReplyOnce
    BatchesAdmitted
    FifoWithinClass
