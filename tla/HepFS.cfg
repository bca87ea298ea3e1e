SPECIFICATION Spec
CONSTANTS
    Names = {a, b}
    Datas <- LongDatas
    DIRECT_PTRS = 1
    WORDS = 2
    MAX_INODES = 4
    DATA_BLOCK_START = 2
    BLOCK_BITS = 14
INVARIANTS
    BlocksOwnedOnce
    TreeShape
PROPERTIES
    ListingBumps
    ImplementsTree
SYMMETRY NameSymmetry
CONSTRAINT SmallOrShort
