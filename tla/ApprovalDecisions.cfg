\* One analysis with two GAPs, two decisions of the PM on its items and its
\* task, a PATCH of a task, weak fairness of the handler in flight.
SPECIFICATION FairSpec
CONSTANTS
    Events <- OneHead
    Gaps = {g1, g2}
    Teams = {"team"}
    PatchStatuses = {"unassigned"}
    ManualDirs = {}
    MaxTasks = 3
    MaxAnalyses = 1
    MaxDecisions = 2
    MaxFaults = 1
    Nil = Nil
INVARIANTS
    TypeOK
    AnalysisFollowsItems
    PromotionIsUnanimous
    TaskOfAnalysis
    ResultMatchesGitHub
PROPERTIES
    EffectsFollowDecision
    DecisionCompletes
CHECK_DEADLOCK FALSE
