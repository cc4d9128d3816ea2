SPECIFICATION FairSpec
CONSTANTS
    alice = alice
    bob = bob
    twin1 = twin1
    twin2 = twin2
    single = single
    cTwin = cTwin
    cSingle = cSingle
    AccountId = {alice, bob}
    Note = {twin1, twin2, single}
    Commitment = {cTwin, cSingle}
    CommitmentOf <- MCCommitmentOf
    AccountOf <- MCAccountOf
    ValueOf <- MCValueOf
    InputBounds = {1, 2}
    FeeRates = {0, 1000}
    Delay = 1
    NoRequest = NoRequest
INVARIANTS BindingsExact SpentOnce PoolKeepsTheRest
PROPERTIES PaidAsSigned EveryRequestEnds
CHECK_DEADLOCK FALSE
