SPECIFICATION Spec
CONSTANTS
    Commitment = {n1, g1}
    GiftNote = {g1}
    Capacity = 2
    MaxTree = 1
    HistorySize = 2
    MaxRoots = 1
    MaxBatch = 1
    MaxInputs = 1
    MaxProofs = 2
    Kinds <- AllKinds
    NoRoot = NoRoot
    NoProof = NoProof
INVARIANTS KnownRootsAreGenuine FinalizedTreesSealed NoDoubleSpend RecentRootsStayKnown SpentNotesExist ExitsProvenAtGenuineTips
PROPERTY ImplementsNoteLog
