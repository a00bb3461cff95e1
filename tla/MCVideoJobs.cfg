SPECIFICATION Spec
CONSTANTS
    vae = vae
    dit = dit
    base = base
    tuned = tuned
    part = part
    Components <- MCComponents
    Transformer = dit
    Paths = {base, tuned, part}
    Start = base
    Files <- MCFiles
    Native = {base, tuned}
    Sent = Sent
    Torn = Torn
    NoPath = NoPath
    N = 2
    Ranks = {0, 1}
    RpcTimeout = TRUE
    Calls = {c1, c2}
    Operations <- MCOperations
    Jobs = {j1, j2}
    Cloud = TRUE
    Budgets <- MCBudgets
INVARIANTS
    SucceededEverywhere
    WeightsKnown
    ModulesWhole
    JobsAccounted
PROPERTY JobsSettle
CHECK_DEADLOCK FALSE
