SPECIFICATION Spec
CONSTANTS
    alice = alice
    bob = bob
    ka = ka
    g1 = g1
    g2 = g2
    Gift = {g1}
    Account = {alice, bob}
    Key = {ka}
    Holder <- KeyHolder
    Bearer = bearer
    Terms <- WalletTerms
    Signable <- Authorities
    Expiries = {2}
    Approvers = {bob}
    Lost = {ka}
    FeeRates = {0}
    Treasuries = {FALSE}
    BasisPoints = 4
    MaxStaleness = 1
    MaxProofAge = 0
    MaxBatch = 1
    MaxBlock = 3
    None = None
INVARIANT SettledWithAuthority
CHECK_DEADLOCK FALSE
