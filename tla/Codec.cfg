CONSTANTS
    ByteBits = 2
    SizeWidth = 2
    IntWidth = 3
    Inputs <- MCInputs
    BlockSizes = {0, 1, 2, 3}
    Damageable <- MCTwoBlocks
    Holes = {3}
SPECIFICATION Spec
INVARIANTS
    TypeOK
    EveryByteHasCode
    EncodesBlocks
    RoundTrip
    DecodesPrefix
    CutIsNoticed
    RestoredWithinBlock
    CorruptOnlyIfDamaged
PROPERTY BothReturn
