\* One analysis with two GAPs, of which the PM rejects one.
SPECIFICATION Spec
CONSTANTS
    Events <- OneHead
    Gaps = {g1, g2}
    Teams = {"team"}
    PatchStatuses = {}
    ManualDirs = {}
    MaxTasks = 2
    MaxAnalyses = 1
    MaxDecisions = 1
    MaxFaults = 0
    Nil = Nil
INVARIANT
    PromotionWaitsForItems
CHECK_DEADLOCK FALSE
