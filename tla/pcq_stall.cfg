SPECIFICATION Spec
CONSTANTS
    Pushers = {main}
    Poppers = {w1, w2}
    Capacity = 2
    MaxRequests = 4
    NoThread = NoThread
    Torn = Torn
CHECK_DEADLOCK FALSE
INVARIANT
    NotAllAsleep
