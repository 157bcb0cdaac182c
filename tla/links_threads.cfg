SPECIFICATION ThreadsSpec
CONSTANTS
    a = a
    b = b
    Names <- MCNames
    ReadsAs <- MCReadsAs
    LongNames = {}
    NoName = NoName
    Garbled = Garbled
    INODE_TABLE_SIZE = 4
    DATA_BLOCKS = 4
    MAX_OPEN_FILES = 2
    BLOCK_SIZE = 2
    MAX_DIR_ENTRIES = 3
    MaxTransfer = 1
    MaxOffset = 2
    Threads = {t1, t2}
    CallsEach = 2
    NoThread = NoThread
SYMMETRY ThreadsAndNamesAreAlike
INVARIANTS
    SafeApart
    AppendsKept
