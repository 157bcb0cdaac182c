SPECIFICATION FairSpec
CONSTANTS
    Lengths = {0, 3, 1022}
    MaxMessages = 3
    Descriptors = 2
CHECK_DEADLOCK FALSE
INVARIANTS
    StoredAsTyped
    NothingLeftInThePipe
    PrintedAsStored
    OnlyRemovalEndsASession
PROPERTIES
    PublisherReleasesWorker
