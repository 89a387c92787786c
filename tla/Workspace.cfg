\* Two teams and one the user may create, two calls about teams at once.
SPECIFICATION FairSpec
CONSTANTS
    Teams = {a, b, c}
    Members = {a, b}
    FirstTeam = a
    SessionIds = {s1}
    MaxRequests = 2
    MaxSwitches = 2
    MaxPending = 2
    Nil = Nil
CHECK_DEADLOCK FALSE
INVARIANTS WorkspaceOfActiveTeam OwnerIsWaiting RunningIsServed
PROPERTIES ResultReachesOwner NoReturnToRunning RunningEnds
