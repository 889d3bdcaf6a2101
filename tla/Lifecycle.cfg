CONSTANTS
    Symbols = {0, 1}
    MaxBlocks = 3
SPECIFICATION Spec
INVARIANTS
    NoDoubleFree
    OneLeftAtMost
PROPERTY ReadyReturns
