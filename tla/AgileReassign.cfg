SPECIFICATION Spec
CONSTANTS
    Panels = {p}
    Teams = {t}
    Titles <- MCTitles
    Refs = {f}
    Areas = {"backend"}
    Members = {m, n}
    RoleOf <- MCRoleOf
    NoRef = NoRef
    NoOne = NoOne
    MaxTasks = 2
    MaxProposals = 2
    MaxChanges = 5
    MaxAnswers = 2
PROPERTY
    ReassignTakesEffect
CHECK_DEADLOCK FALSE
