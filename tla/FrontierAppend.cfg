SPECIFICATION TreeSpec
CONSTANTS
    Depth = 3
    Commitment = {n1, n2}
    Zero = Zero
    Junk = Junk
    SumTag = SumTag
    OutputSlots <- TwoTransfers
    FeeSlots = 1
    DepositSlots = 3
    GiftSlots = 2
SYMMETRY Renamings
INVARIANTS AppendsExact FittingBatchesAreProvable
