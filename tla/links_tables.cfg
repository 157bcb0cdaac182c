SPECIFICATION Spec
CONSTANTS
    a = a
    b = b
    long = long
    Names <- MCNames
    LongNames <- MCLongNames
    ReadsAs <- MCReadsAs
    NoName = NoName
    Garbled = Garbled
    INODE_TABLE_SIZE = 3
    DATA_BLOCKS = 3
    MAX_OPEN_FILES = 1
    BLOCK_SIZE = 1
    MAX_DIR_ENTRIES = 2
    MaxTransfer = 2
    MaxOffset = 2
SYMMETRY NamesAreAlike
CHECK_DEADLOCK FALSE
INVARIANTS
    TypeOK
    EntriesBacked
    BlocksExclusive
    NothingLeaks
    SymlinksTerminate
