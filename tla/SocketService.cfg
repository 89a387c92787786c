SPECIFICATION FairSpec
CONSTANTS
    Connects = 1
    MaxDrops = 2
    MaxRequests = 3
    MaxSeconds = 2
CHECK_DEADLOCK FALSE
INVARIANTS ConnectionsBounded OpenIsUsed ResultStoredBeforeTold StoredMeansSucceeded
PROPERTIES ImplementsService EveryRequestSettles EventuallyConnected
