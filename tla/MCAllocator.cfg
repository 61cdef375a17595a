CONSTANTS
    MemSize = 8
    Sizes = {1, 2, 3}
SPECIFICATION Spec
INVARIANTS
    AllocatorInv
PROPERTIES
    AbstractSpec
