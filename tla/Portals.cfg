SPECIFICATION FairSpec
CONSTANTS
    Portal = {e1}
    Sweeper = {s1, s2}
    Token = {weth}
    WrappedNative = weth
    Binding = {h1}
    NoBinding = NoBinding
    OutOfField = OutOfField
    MaxAmount = 2
    GasReserve = 1
    BasisPoints = 2
    FeeRates = {0, 1}
    DustLimits = {0, 2}
    CancelDelay = 1
    MaxBalance = 1
    MaxSweeps = 2
    MaxBatch = 2
    MaxBlock = 2
CHECK_DEADLOCK FALSE
INVARIANTS SweepsExact
PROPERTIES EverySweepEnds ImplementsEscrow
