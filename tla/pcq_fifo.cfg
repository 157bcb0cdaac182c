SPECIFICATION Spec
CONSTANTS
    Pushers = {main}
    Poppers = {w1, w2}
    Capacity = 2
    MaxRequests = 4
    NoThread = NoThread
    Torn = Torn
SYMMETRY WorkersAreAlike
CHECK_DEADLOCK FALSE
INVARIANTS
    TypeOK
    NoPhantomDequeue
    TornOnlyWhenLapped
PROPERTY
    FifoSpec
