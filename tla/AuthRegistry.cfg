SPECIFICATION Spec
CONSTANTS
    Account = {alice}
    Key = {k1, k2}
    Batch = {b1, b2, b3}
    Expiries = {0, 2}
    Stalenesses = {0, 1}
    Depth = 2
    MaxTree = 1
    MaxLifetime = 1
    MaxNonce = 2
    MaxBlock = 3
    NoLeaf = NoLeaf
SYMMETRY Renamings
INVARIANTS LeavesExact AcceptedRootsAreRecent
PROPERTIES OrdersTakeEffectOnce RevokedForever
CHECK_DEADLOCK FALSE
