\* The same pull request number in two repositories, delivered and analysed
\* again, deleted, interrupted, decided twice.
SPECIFICATION Spec
CONSTANTS
    Events <- TwoRepos
    Gaps = {g1}
    Teams = {"team"}
    PatchStatuses = {}
    ManualDirs = {"none"}
    MaxTasks = 2
    MaxAnalyses = 2
    MaxDecisions = 2
    MaxFaults = 1
    Nil = Nil
INVARIANTS
    OneTaskPerTitle
    
    LeftoverWorktrees
    ResultMatchesGitHub
PROPERTIES
    ImplementsLedger
CHECK_DEADLOCK FALSE
