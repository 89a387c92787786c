SPECIFICATION FairSpec
CONSTANTS
    Contents = {a, b}
    MaxNumber = 2
    MaxFeatures = 2
    MaxDeps = 1
    MaxResults = 2
INVARIANTS
    BundleKeepsSections
    KnowledgeIsChecked
PROPERTIES
    RtmKeepsEarlier
    NumberingKeepsDependencies
    EveryAnalysisEnds
CHECK_DEADLOCK FALSE
