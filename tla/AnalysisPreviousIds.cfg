SPECIFICATION FairSpec
CONSTANTS
    Contents = {a, b}
    MaxNumber = 2
    MaxFeatures = 2
    MaxDeps = 1
    MaxResults = 1
PROPERTY
    PreviousIdsKept
CHECK_DEADLOCK FALSE
