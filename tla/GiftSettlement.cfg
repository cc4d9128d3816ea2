SPECIFICATION FairSpec
CONSTANTS
    alice = alice
    bob = bob
    ka = ka
    g1 = g1
    g2 = g2
    Gift = {g1, g2}
    Account = {alice, bob}
    Key = {ka}
    Holder <- KeyHolder
    Bearer = bearer
    Terms <- BearerTerms
    Signable <- Payouts
    Expiries = {0}
    Approvers = {}
    Lost = {}
    FeeRates = {0, 1, 2}
    Treasuries = {FALSE, TRUE}
    BasisPoints = 4
    MaxStaleness = 0
    MaxProofAge = 0
    MaxBatch = 2
    MaxBlock = 2
    None = None
INVARIANTS TypeOK SettledOnce PaidExactly
CHECK_DEADLOCK FALSE
PROPERTY EveryGiftEnds
