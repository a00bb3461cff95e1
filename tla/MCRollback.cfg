SPECIFICATION Spec
CONSTANTS
    vae = vae
    dit = dit
    base = base
    tuned = tuned
    part = part
    Components <- MCComponents
    Transformer = dit
    Paths = {base, tuned, part}
    Start = base
    Files <- MCFiles
    Native = {base, tuned}
    Sent = Sent
    Torn = Torn
    NoPath = NoPath
    N = 1
    Ranks = {0}
    RpcTimeout = TRUE
    Calls = {c1}
    Operations <- DiskOperations
    Jobs = {j1}
    Cloud = TRUE
    Budgets <- FewCalls
INVARIANT FailedUpdateRestores
CHECK_DEADLOCK FALSE
