SPECIFICATION Spec
CONSTANTS
    Modulus = 11
    MaxAmount = 3
    Address = {"bob"}
    Ground <- GroundKey
    MaxInputs = 2
    MaxOutputs = 2
    Account <- Accounts
    Token = {"usd", "eur"}
    Honest = {"alice", "safe"}
    NullifyingKey <- KeysOf
    Randomness <- Random
    KeyLeaves <- KeysRegistered
    OutputLists <- Outputs
    FeeKeys <- FeeKeysOffered
    Shown <- Displays
    LegacyTree <- Legacy
    Requests <- RequestsMade
    Sweeps <- SweepsMade
    Recipient = {"bob"}
    TreeCapacity = 4
    MaxTree = 1
    MaxTransfers = 2
    MaxDeposits = 2
    MaxConsents = 1
    MaxProofAge = 0
    MaxTime = 2
    MaxForced = 1
    FeeTokenLists <- FeeTokens
    Expiries <- Until
INVARIANTS ValueConserved NewLeavesOpen PortalNotesDistinct
PROPERTIES SpentAsSigned ShownIsPaid
CHECK_DEADLOCK FALSE
