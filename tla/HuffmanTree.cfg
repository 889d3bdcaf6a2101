CONSTANTS
    ByteBits = 2
    K = 4
    Counts = {0, 1, 2, 3}
SPECIFICATION Spec
INVARIANTS
    TypeOK
    SlotBounds
    PicksTwoLightest
    Forest
    TreeCoversBlock
    FreeIsExact
    OptimalPlusOneBit
    BuildsTree
PROPERTY CallReturns
