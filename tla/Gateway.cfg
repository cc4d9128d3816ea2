SPECIFICATION Spec
CONSTANTS
    User = user
    Executor = executor
    Foreign = {foreign}
    Pool = pool
    usd = usd
    shares = shares
    target = target
    Token = {usd, shares}
    Target = {target}
    Policies <- SwapPolicies
    Batches <- Submissions
    FinalReserve = 1
    PlainReserve = 1
    PostReserve = 1
    SelfReserve = 1
    SpareGas = {0, 2}
    MaxAmount = 1
    MaxBalance = 2
    MaxStash = 1
    MaxNonce = 1
    MaxBlock = 2
    None = None
INVARIANTS FundsKept SettledAsSigned NeverShortOfGas
CHECK_DEADLOCK FALSE
