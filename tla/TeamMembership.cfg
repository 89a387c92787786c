SPECIFICATION FairSpec
CONSTANTS
    Users <- MCUsers
    Teams = {t1, t2}
    Codes = {c1}
    Githubs = {g1}
    Roles <- MCRoles
    Slots = {s1, s2}
    NoTeam = NoTeam
    MaxUses = 1
    MaxMessages = 1
    MaxChanges = 5
PROPERTIES
    RoleSettles
INVARIANTS
    ActiveTeamIsJoined
    InviteAdmitsAtMost
    MessageAmongMembers
CHECK_DEADLOCK FALSE
