\* An analysis in one team while a chat is unanswered.
SPECIFICATION Spec
CONSTANTS
    Teams = {a, b}
    Members = {a, b}
    FirstTeam = a
    SessionIds = {s1}
    MaxRequests = 2
    MaxSwitches = 2
    MaxPending = 1
    Nil = Nil
CHECK_DEADLOCK FALSE
PROPERTY ResultAlwaysReachesOwner
