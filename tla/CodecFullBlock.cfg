CONSTANTS
    ByteBits = 2
    SizeWidth = 2
    IntWidth = 3
    Inputs <- MCFullInputs
    BlockSizes = {0}
    Damageable = {}
    Holes = {}
SPECIFICATION Spec
INVARIANT AllDataRoundTrips
