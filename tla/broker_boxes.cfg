SPECIFICATION Spec
CONSTANTS
    Workers = {w1, w2}
    Names = {a, b, c}
    NoName = NoName
    INODE_TABLE_SIZE = 4
    DATA_BLOCKS = 3
    MAX_OPEN_FILES = 2
    BLOCK_SIZE = 2
    MAX_DIR_ENTRIES = 2
    MaxRequests = 4
    MaxOffset = 4
SYMMETRY WorkersAndNamesAreAlike
CHECK_DEADLOCK FALSE
INVARIANTS
    TypeOK
    HandlesOwned
    ListMatchesStore
    CountsMatchSessions
    OnePublisher
    ListingTellsTheTruth
PROPERTIES
    RemovedWithoutPublisher
    ListingStopsShort
