SPECIFICATION Spec
CONSTANTS
    a = a
    b = b
    long = long
    x = x
    y = y
    Names <- MCNames
    LongNames <- MCLongNames
    NoName = NoName
    Bytes = {x}
    Junk = Junk
    INODE_TABLE_SIZE = 3
    DATA_BLOCKS = 3
    MAX_OPEN_FILES = 2
    BLOCK_SIZE = 2
    MAX_DIR_ENTRIES = 2
    MaxTransfer = 2
    MaxOffset = 3
SYMMETRY NamesAreAlike
CHECK_DEADLOCK FALSE
INVARIANTS
    TypeOK
    DirectoryMatchesInodes
    BlocksExclusive
    DirectoryBlockSafe
    UnlinkClearsWhatItFound
