SPECIFICATION FairSpec
CONSTANTS
    Account = {alice}
    Gateway = {gate}
    Token = {usd, eth}
    MaxAmount = 1
    MaxBatchSize = 2
    CancelDelay = 2
    MaxNonce = 2
    RescueCommitment = {rescue}
    NoRescue = NoRescue
INVARIANTS SettledOnce FundsCovered
PROPERTIES ImplementsEscrow NobodyIsStuck
CHECK_DEADLOCK FALSE
