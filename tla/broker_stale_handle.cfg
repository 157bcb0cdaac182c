SPECIFICATION Spec
CONSTANTS
    Workers = {w1, w2}
    Names = {a}
    NoName = NoName
    INODE_TABLE_SIZE = 3
    DATA_BLOCKS = 2
    MAX_OPEN_FILES = 2
    BLOCK_SIZE = 1
    MAX_DIR_ENTRIES = 1
    MaxRequests = 5
    MaxOffset = 1
SYMMETRY WorkersAreAlike
CHECK_DEADLOCK FALSE
INVARIANT
    NoAssertionFails
