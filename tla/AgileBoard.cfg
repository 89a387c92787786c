SPECIFICATION FairSpec
CONSTANTS
    Panels = {p}
    Teams = {t, u}
    Titles <- MCTitles
    Refs = {f}
    Areas = {"backend"}
    Members = {m}
    RoleOf <- MCRoleOf
    NoRef = NoRef
    NoOne = NoOne
    MaxTasks = 2
    MaxProposals = 2
    MaxChanges = 5
    MaxAnswers = 2
INVARIANTS
    OneTaskPerFeature
    StartedWorkHasAssignee
PROPERTIES
    PanelSettles
CHECK_DEADLOCK FALSE
