CONSTANTS
    MemSize = 8
    Sizes = {1, 2}
SPECIFICATION Spec
INVARIANTS
    FreeReturnsRegion
