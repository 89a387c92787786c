----------------------- MODULE TeamMembership_proofs -----------------------
(***************************************************************************)
(* What is proved of accounts and teams, for any users, teams, invites,    *)
(* requests in flight and bounds.                                          *)
(*                                                                         *)
(* A request writes with a row that is as old as its dependency.  What     *)
(* makes that harmless is that nobody ever loses a membership (the code    *)
(* has no DELETE on team_members): the team of an old row is still one of  *)
(* the user's teams when the body runs.                                    *)
(***************************************************************************)
EXTENDS TeamMembership, FiniteSetTheorems, TLAPS

\* u works in no team, or is registered and a member of the team.
WorksInJoined(u) ==
    activeTeam[u] # NoTeam =>
      u \in users /\ member[u][activeTeam[u]] # NoRole

\* The team of a row that was loaded.
LoadedTeamIsJoined ==
    \A s \in Slots : request[s].user \in Users /\ request[s].team # NoTeam =>
      member[request[s].user][request[s].team] # NoRole

\* An invite gives a role.
InviteGivesRole == \A c \in Codes : invite[c].team # NoTeam => invite[c].role \in Roles

MInv ==
    /\ \A u \in Users : WorksInJoined(u)
    /\ LoadedTeamIsJoined
    /\ MessageAmongMembers
    /\ InviteGivesRole

---------------------------------------------------------------------------
(* Types.                                                                  *)

LEMMA InitTypeOK == Init => TypeOK
  BY MembershipAssumption
  DEF Init, TypeOK, NoInvite, Idle, OauthStates

\* The types of the tables of accounts.
AccountTypes ==
    /\ users \subseteq Users /\ teams \subseteq Teams
    /\ activeTeam \in [Users -> Teams \cup {NoTeam}]
    /\ role \in [Users -> Roles \cup {NoRole}]
    /\ github \in [Users -> Githubs \cup {NoGithub}]
    /\ member \in [Users -> [Teams -> Roles \cup {NoRole}]]

\* The type of a loaded row.
Row == [user : Users \cup {0}, team : Teams \cup {NoTeam},
        role : Roles \cup {NoRole}, github : Githubs \cup {NoGithub}]

\* The type of a message.
Message == [from : Users, to : Users, team : Teams \cup {NoTeam}, read : BOOLEAN]

\* _build_user_response returns a role.
LEMMA SyncedType ==
  ASSUME NEW members \in [Users -> [Teams -> Roles \cup {NoRole}]],
         NEW u \in Users, NEW t \in Teams \cup {NoTeam},
         NEW r \in Roles \cup {NoRole}
  PROVE  Synced(members, u, t, r) \in Roles \cup {NoRole}
  BY DEF Synced

\* The row of a body is the row of a registered user.
LEMMA BodyRow ==
  ASSUME TypeOK, NEW s \in Slots, Body(s)
  PROVE  /\ request[s] \in Row /\ request[s].user \in Users
         /\ request' \in [Slots -> Row]
         /\ request' = [request EXCEPT ![s] = Idle]
  <1>1. request[s] \in Row
    BY DEF TypeOK, Row
  <1>2. request[s].user \in Users
    BY DEF TypeOK, Body
  <1>3. Idle \in Row
    BY DEF Idle, Row
  <1> QED
    BY <1>1, <1>2, <1>3 DEF TypeOK, Body, Row

\* What the columns are after a row is written.
LEMMA WriteTypes ==
  ASSUME AccountTypes, NEW l \in Row, l.user \in Users,
         NEW t \in Teams \cup {NoTeam}, NEW r \in Roles \cup {NoRole}
  PROVE  /\ TeamAfter(l, t) \in Teams \cup {NoTeam}
         /\ RoleAfter(l, r) \in Roles \cup {NoRole}
  BY DEF AccountTypes, TeamAfter, RoleAfter

LEMMA RequestTypes ==
  ASSUME TypeOK, NEW s \in Slots, Request(s)
  PROVE  TypeOK'
  <1> DEFINE l == request[s]
  <1>0. AccountTypes /\ changes \in Nat /\ MaxChanges \in Nat /\ MaxUses \in Nat
    BY MembershipAssumption DEF TypeOK, AccountTypes
  <1>1. ASSUME NEW u \in Users, get_current_user(s, u) PROVE TypeOK'
    <2>1. Loaded(u) \in Row
      BY DEF TypeOK, Loaded, Row
    <2> QED
      BY <1>1, <2>1
      DEF TypeOK, get_current_user, accounts, others, Row
  <1>2. ASSUME Refuse(s) PROVE TypeOK'
    BY <1>2, BodyRow DEF Refuse, TypeOK, accounts, others, Row
  <1>3. ASSUME get_me(s) PROVE TypeOK'
    <2>1. l \in Row /\ l.user \in Users /\ request' \in [Slots -> Row]
      BY <1>3, BodyRow DEF get_me
    <2>2. Synced(member, l.user, l.team, l.role) \in Roles \cup {NoRole}
      BY <2>1, SyncedType DEF TypeOK, Row
    <2>3. RoleAfter(l, Synced(member, l.user, l.team, l.role)) \in Roles \cup {NoRole}
      BY <1>0, <2>1, <2>2, WriteTypes
    <2> QED
      BY <1>3, <2>1, <2>3 DEF get_me, TypeOK, others, Row
  <1>4. ASSUME github_disconnect(s) PROVE TypeOK'
    <2>1. l \in Row /\ l.user \in Users /\ request' \in [Slots -> Row]
      BY <1>4, BodyRow DEF github_disconnect
    <2> QED
      BY <1>0, <1>4, <2>1
      DEF github_disconnect, Unlinked, Change, TypeOK, others, Row
  <1>5. ASSUME NEW t \in Teams, create_team(s, t) PROVE TypeOK'
    <2>1. l \in Row /\ l.user \in Users /\ request' \in [Slots -> Row]
      BY <1>5, BodyRow DEF create_team
    <2>2. /\ TeamAfter(l, t) \in Teams \cup {NoTeam}
          /\ RoleAfter(l, "pm") \in Roles \cup {NoRole}
      BY <1>0, <2>1, WriteTypes, MembershipAssumption
    <2>3. WithCreator(l.user, t) \in [Users -> [Teams -> Roles \cup {NoRole}]]
      BY <2>1, MembershipAssumption DEF WithCreator, TypeOK
    <2> QED
      BY <1>0, <1>5, <2>1, <2>2, <2>3
      DEF create_team, Write, Change, TypeOK, others, Row
  <1>6. ASSUME NEW t \in Teams, switch_team(s, t) PROVE TypeOK'
    <2>1. l \in Row /\ l.user \in Users /\ request' \in [Slots -> Row]
      BY <1>6, BodyRow DEF switch_team
    <2>2. member[l.user][t] \in Roles \cup {NoRole}
      BY <2>1 DEF TypeOK
    <2>3. /\ TeamAfter(l, t) \in Teams \cup {NoTeam}
          /\ RoleAfter(l, member[l.user][t]) \in Roles \cup {NoRole}
      BY <1>0, <2>1, <2>2, WriteTypes
    <2>4. Synced(member, l.user, TeamAfter(l, t), RoleAfter(l, member[l.user][t]))
            \in Roles \cup {NoRole}
      BY <2>1, <2>3, SyncedType DEF TypeOK
    <2> QED
      BY <1>0, <1>6, <2>1, <2>3, <2>4
      DEF switch_team, WriteSynced, Change, TypeOK, others, Row
  <1>7. ASSUME NEW u \in Users, send_message(s, u) PROVE TypeOK'
    <2>1. l \in Row /\ l.user \in Users /\ request' \in [Slots -> Row]
      BY <1>7, BodyRow DEF send_message
    <2>2. [from |-> l.user, to |-> u, team |-> l.team, read |-> FALSE] \in Message
      BY <2>1 DEF Row, Message
    <2>3. messages' \subseteq Message
      BY <1>7, <2>2 DEF send_message, TypeOK, Message
    <2> QED
      BY <1>0, <1>7, <2>1, <2>3
      DEF send_message, Change, TypeOK, accounts, Row, Message
  <1>8. ASSUME NEW u \in Users, NEW r \in Roles, update_user_role(s, u, r)
        PROVE  TypeOK'
    <2>1. l \in Row /\ l.user \in Users /\ request' \in [Slots -> Row]
      BY <1>8, BodyRow DEF update_user_role
    <2>2. RoleAfter(l, r) \in Roles \cup {NoRole}
      BY <1>0, <2>1, WriteTypes
    <2>3. MemberRoles(l, u, r) \in [Users -> [Teams -> Roles \cup {NoRole}]]
      BY <2>1 DEF MemberRoles, TypeOK, Row
    <2>4. role' \in [Users -> Roles \cup {NoRole}]
      BY <1>8, <2>2 DEF update_user_role, TypeOK
    <2> QED
      BY <1>0, <1>8, <2>1, <2>3, <2>4
      DEF update_user_role, Change, TypeOK, others, Row
  <1>9. ASSUME NEW c \in Codes, cancel_team_invite(s, c) PROVE TypeOK'
    <2>1. request' \in [Slots -> Row]
      BY <1>9, BodyRow DEF cancel_team_invite
    <2> QED
      BY <1>0, <1>9, <2>1
      DEF cancel_team_invite, NoInvite, Change, TypeOK, accounts, Row
  <1>10. ASSUME NEW c \in Codes, join_team_via_invite(s, c) PROVE TypeOK'
    <2> DEFINE i == invite[c]
               new == member[l.user][i.team] = NoRole
               members == IF new THEN [member EXCEPT ![l.user][i.team] = i.role]
                                 ELSE member
    <2>1. l \in Row /\ l.user \in Users /\ request' \in [Slots -> Row]
      BY <1>10, BodyRow DEF join_team_via_invite
    <2>2. /\ i.team \in Teams /\ i.role \in Roles \cup {NoRole}
          /\ i.used \in Nat
      BY <1>10 DEF join_team_via_invite, Admits, Usable, TypeOK
    <2>3. members \in [Users -> [Teams -> Roles \cup {NoRole}]]
      BY <2>1, <2>2 DEF TypeOK
    <2>4. /\ TeamAfter(l, i.team) \in Teams \cup {NoTeam}
          /\ RoleAfter(l, i.role) \in Roles \cup {NoRole}
      BY <1>0, <2>1, <2>2, WriteTypes
    <2>5. Synced(members, l.user, TeamAfter(l, i.team), RoleAfter(l, i.role))
            \in Roles \cup {NoRole}
      BY <2>1, <2>3, <2>4, SyncedType
    <2>6. /\ member' = members
          /\ activeTeam' = [activeTeam EXCEPT ![l.user] = TeamAfter(l, i.team)]
          /\ role' = [role EXCEPT ![l.user] =
                       Synced(members, l.user, TeamAfter(l, i.team),
                              RoleAfter(l, i.role))]
      BY <1>10 DEF join_team_via_invite, WriteSynced
    <2>7. /\ member' \in [Users -> [Teams -> Roles \cup {NoRole}]]
          /\ activeTeam' \in [Users -> Teams \cup {NoTeam}]
          /\ role' \in [Users -> Roles \cup {NoRole}]
      <3> HIDE DEF members
      <3> QED
        BY <2>3, <2>4, <2>5, <2>6 DEF TypeOK
    <2>8. invite' \in [Codes -> [team : Teams \cup {NoTeam},
                                 role : Roles \cup {NoRole},
                                 max : 0 .. MaxUses, used : Nat,
                                 expired : BOOLEAN]]
      BY <1>10, <2>2 DEF join_team_via_invite, TypeOK
    <2>9. admitted' \in [Codes -> SUBSET Users]
      BY <1>10, <2>1 DEF join_team_via_invite, TypeOK
    <2> QED
      BY <1>0, <1>10, <2>1, <2>7, <2>8, <2>9
      DEF join_team_via_invite, Change, TypeOK, Row
  <1>11. ASSUME NEW c \in Codes, NEW r \in Roles, NEW max \in 0 .. MaxUses,
                create_team_invite(s, c, r, max)
         PROVE  TypeOK'
    <2>1. l \in Row /\ request' \in [Slots -> Row]
      BY <1>11, BodyRow DEF create_team_invite
    <2>2. NewInvite(l, r, max) \in [team : Teams \cup {NoTeam},
                                    role : Roles \cup {NoRole},
                                    max : 0 .. MaxUses, used : Nat,
                                    expired : BOOLEAN]
      BY <1>0, <2>1 DEF NewInvite, NoInvite, Row
    <2> QED
      BY <1>0, <1>11, <2>1, <2>2
      DEF create_team_invite, Change, TypeOK, accounts, Row
  <1>12. ASSUME NEW m \in messages, mark_read(s, m) PROVE TypeOK'
    <2>1. request' \in [Slots -> Row]
      BY <1>12, BodyRow DEF mark_read
    <2>2. m \in Message /\ [m EXCEPT !.read = TRUE] \in Message
      BY DEF TypeOK, Message
    <2>3. messages' \subseteq Message
      BY <1>12, <2>2 DEF mark_read, TypeOK, Message
    <2> QED
      BY <1>0, <1>12, <2>1, <2>3
      DEF mark_read, Change, TypeOK, accounts, Row, Message
  <1> QED
    BY <1>1, <1>2, <1>3, <1>4, <1>5, <1>6, <1>7, <1>8, <1>9, <1>10, <1>11,
       <1>12 DEF Request

\* What a sign-in with GitHub leaves.
LEMMA SignInTypes ==
  ASSUME TypeOK, NEW g \in Githubs, NEW u \in Users, GithubSignIn(g, u)
  PROVE  AccountTypes'
  <1>1. Synced(member, u, activeTeam[u], role[u]) \in Roles \cup {NoRole}
    BY SyncedType DEF TypeOK
  <1>2. role' \in [Users -> Roles \cup {NoRole}]
    BY <1>1, MembershipAssumption DEF GithubSignIn, TypeOK
  <1> QED
    BY <1>2 DEF GithubSignIn, TypeOK, AccountTypes

LEMMA NextTypes ==
  ASSUME TypeOK, [Next]_vars
  PROVE  TypeOK'
  <1>0. changes \in Nat /\ MaxChanges \in Nat
    BY MembershipAssumption DEF TypeOK
  <1>1. ASSUME NEW s \in Slots, Request(s) PROVE TypeOK'
    BY <1>1, RequestTypes
  <1>2. ASSUME NEW u \in Users, NEW t \in Teams \cup {NoTeam}, NEW r \in Roles,
               register(u, t, r)
        PROVE  TypeOK'
    <2>1. member' \in [Users -> [Teams -> Roles \cup {NoRole}]]
      BY <1>2 DEF register, create_user, TypeOK
    <2> QED
      BY <1>0, <1>2, <2>1 DEF register, create_user, Change, TypeOK, others
  <1>3. ASSUME NEW u \in Users, login(u) PROVE TypeOK'
    <2>1. Synced(member, u, activeTeam[u], role[u]) \in Roles \cup {NoRole}
      BY SyncedType DEF TypeOK
    <2> QED
      BY <1>3, <2>1 DEF login, TypeOK, others
  <1>4. ASSUME NEW g \in Githubs, NEW u \in Users, github_device_poll(g, u)
        PROVE  TypeOK'
    BY <1>0, <1>4, SignInTypes
    DEF github_device_poll, Change, TypeOK, AccountTypes, others
  <1>5. ASSUME NEW g \in Githubs, NEW u \in Users, github_device_link(g, u)
        PROVE  TypeOK'
    <2>1. Synced(member, u, activeTeam[u], role[u]) \in Roles \cup {NoRole}
      BY SyncedType DEF TypeOK
    <2> QED
      BY <1>0, <1>5, <2>1 DEF github_device_link, Change, TypeOK, others
  <1>6. CASE github_oauth_url
    BY <1>6 DEF github_oauth_url, TypeOK, OauthStates, accounts
  <1>7. CASE github_callback
    <2>1. AccountTypes'
      <3>1. CASE UNCHANGED accounts
        BY <3>1 DEF accounts, TypeOK, AccountTypes
      <3>2. ASSUME NEW g \in Githubs, NEW u \in Users, GithubSignIn(g, u)
            PROVE  AccountTypes'
        BY <3>2, SignInTypes
      <3> QED
        BY <1>7, <3>1, <3>2 DEF github_callback
    <2> QED
      BY <1>0, <1>7, <2>1
      DEF github_callback, Change, TypeOK, AccountTypes, OauthStates
  <1>8. CASE github_callback_poll
    BY <1>8 DEF github_callback_poll, TypeOK, OauthStates, accounts
  <1>9. ASSUME NEW c \in Codes, InviteExpires(c) PROVE TypeOK'
    BY <1>9 DEF InviteExpires, TypeOK, accounts
  <1>10. CASE UNCHANGED vars
    BY <1>10 DEF vars, accounts, others, TypeOK
  <1> QED
    BY <1>1, <1>2, <1>3, <1>4, <1>5, <1>6, <1>7, <1>8, <1>9, <1>10 DEF Next

\* Type correctness of the rows, the tables and the requests in flight.
THEOREM TypeCorrect == Spec => []TypeOK
  BY InitTypeOK, NextTypes, PTL DEF Spec

---------------------------------------------------------------------------
(* Memberships.                                                            *)

\* Nobody loses a membership.
MembersKept ==
    \A u \in Users, t \in Teams : member[u][t] # NoRole => member'[u][t] # NoRole

\* Where a step may leave the team of a user: as it was, or at one the user
\* has joined.
TeamMoves ==
    \A u \in Users :
      \/ activeTeam'[u] = activeTeam[u]
      \/ activeTeam'[u] = NoTeam
      \/ u \in users' /\ member'[u][activeTeam'[u]] # NoRole

\* The rows in flight after a step: as before, done, or just loaded.
RowsOld ==
    \A s \in Slots :
      \/ request'[s] = request[s]
      \/ request'[s] = Idle
      \/ \E u \in users : request'[s] = Loaded(u)

\* A message was there, perhaps unread, or is sent in no team or among members.
MessagesOld ==
    \A m \in messages' :
      \/ \E n \in messages : n.from = m.from /\ n.to = m.to /\ n.team = m.team
      \/ m.team = NoTeam
      \/ member'[m.from][m.team] # NoRole /\ member'[m.to][m.team] # NoRole

\* What every step does as far as memberships are concerned.
MembershipStep ==
    /\ users \subseteq users'
    /\ MembersKept /\ TeamMoves /\ RowsOld /\ MessagesOld
    /\ InviteGivesRole'

\* Such a step keeps the invariant.
LEMMA MembershipStepKeeps ==
  ASSUME TypeOK, TypeOK', MInv, MembershipStep
  PROVE  MInv'
  <1>1. ASSUME NEW u \in Users PROVE WorksInJoined(u)'
    <2>1. activeTeam[u] \in Teams \cup {NoTeam} /\ WorksInJoined(u)
      BY DEF TypeOK, MInv
    <2> QED
      BY <2>1 DEF MembershipStep, MembersKept, TeamMoves, WorksInJoined
  <1>2. LoadedTeamIsJoined'
    <2> SUFFICES ASSUME NEW s \in Slots,
                        request'[s].user \in Users, request'[s].team # NoTeam
                 PROVE  member'[request'[s].user][request'[s].team] # NoRole
      BY DEF LoadedTeamIsJoined
    <2>1. CASE request'[s] = request[s]
      <3>1. request[s].team \in Teams
        BY <2>1 DEF TypeOK
      <3>2. member[request[s].user][request[s].team] # NoRole
        BY <2>1 DEF MInv, LoadedTeamIsJoined
      <3> QED
        BY <2>1, <3>1, <3>2 DEF MembershipStep, MembersKept
    <2>2. CASE request'[s] = Idle
      BY <2>2 DEF Idle
    <2>3. ASSUME NEW u \in users, request'[s] = Loaded(u)
          PROVE  member'[request'[s].user][request'[s].team] # NoRole
      <3>1. u \in Users /\ activeTeam[u] \in Teams
        BY <2>3 DEF TypeOK, Loaded
      <3>2. member[u][activeTeam[u]] # NoRole
        BY <2>3, <3>1 DEF MInv, WorksInJoined, Loaded
      <3> QED
        BY <2>3, <3>1, <3>2 DEF MembershipStep, MembersKept, Loaded
    <2> QED
      BY <2>1, <2>2, <2>3 DEF MembershipStep, RowsOld
  <1>3. MessageAmongMembers'
    <2> SUFFICES ASSUME NEW m \in messages', m.team # NoTeam
                 PROVE  member'[m.from][m.team] # NoRole /\ member'[m.to][m.team] # NoRole
      BY DEF MessageAmongMembers
    <2>1. ASSUME NEW n \in messages,
                 n.from = m.from, n.to = m.to, n.team = m.team
          PROVE  member'[m.from][m.team] # NoRole /\ member'[m.to][m.team] # NoRole
      <3>1. n.from \in Users /\ n.to \in Users /\ n.team \in Teams
        BY <2>1 DEF TypeOK
      <3>2. member[n.from][n.team] # NoRole /\ member[n.to][n.team] # NoRole
        BY <2>1 DEF MInv, MessageAmongMembers
      <3> QED
        BY <2>1, <3>1, <3>2 DEF MembershipStep, MembersKept
    <2> QED
      BY <2>1 DEF MembershipStep, MessagesOld
  <1> QED
    BY <1>1, <1>2, <1>3 DEF MInv, MembershipStep

\* A body that leaves memberships, teams, messages and invites as they are.
LEMMA QuietBody ==
  ASSUME TypeOK, MInv, NEW s \in Slots, Body(s),
         UNCHANGED <<users, activeTeam, member, messages, invite>>
  PROVE  MembershipStep
  <1>1. RowsOld
    BY BodyRow DEF RowsOld, TypeOK
  <1> QED
    BY <1>1 DEF MembershipStep, MembersKept, TeamMoves, MessagesOld, MInv,
                InviteGivesRole

\* A body that moves its user to a team the user has joined.
LEMMA MovingBody ==
  ASSUME TypeOK, MInv, NEW s \in Slots, Body(s), NEW t \in Teams,
         UNCHANGED <<users, messages>>, InviteGivesRole', MembersKept,
         activeTeam' = [activeTeam EXCEPT
                          ![request[s].user] = TeamAfter(request[s], t)],
         member'[request[s].user][t] # NoRole
  PROVE  MembershipStep
  <1>1. RowsOld
    BY BodyRow DEF RowsOld, TypeOK
  <1>2. TeamMoves
    BY DEF TeamMoves, TeamAfter, TypeOK, Body
  <1> QED
    BY <1>1, <1>2 DEF MembershipStep, MessagesOld

LEMMA RequestMembership ==
  ASSUME TypeOK, MInv, NEW s \in Slots, Request(s)
  PROVE  MembershipStep
  <1> DEFINE l == request[s]
  <1>1. ASSUME NEW u \in Users, get_current_user(s, u) PROVE MembershipStep
    <2>1. RowsOld
      BY <1>1 DEF get_current_user, RowsOld, TypeOK
    <2> QED
      BY <1>1, <2>1
      DEF get_current_user, accounts, others, MembershipStep, MembersKept,
          TeamMoves, MessagesOld, MInv, InviteGivesRole
  <1>2. CASE Refuse(s)
    BY <1>2, QuietBody DEF Refuse, accounts, others
  <1>3. CASE get_me(s)
    BY <1>3, QuietBody DEF get_me, others
  <1>4. CASE github_disconnect(s)
    BY <1>4, QuietBody DEF github_disconnect, others
  <1>5. ASSUME NEW t \in Teams, create_team(s, t) PROVE MembershipStep
    <2>1. l.user \in Users /\ Body(s)
      BY <1>5, BodyRow DEF create_team
    <2>2. MembersKept /\ member'[l.user][t] # NoRole
      BY <1>5, <2>1, MembershipAssumption
      DEF create_team, WithCreator, MembersKept, TypeOK
    <2>3. InviteGivesRole'
      BY <1>5 DEF create_team, others, MInv, InviteGivesRole
    <2> QED
      BY <1>5, <2>1, <2>2, <2>3, MovingBody DEF create_team, Write, others
  <1>6. ASSUME NEW t \in Teams, switch_team(s, t) PROVE MembershipStep
    <2>1. MembersKept /\ member'[l.user][t] # NoRole /\ Body(s)
      BY <1>6 DEF switch_team, Joined, MembersKept
    <2>2. InviteGivesRole'
      BY <1>6 DEF switch_team, others, MInv, InviteGivesRole
    <2> QED
      BY <1>6, <2>1, <2>2, MovingBody DEF switch_team, WriteSynced, others
  <1>7. ASSUME NEW u \in Users, send_message(s, u) PROVE MembershipStep
    <2>1. l.user \in Users /\ l \in Row /\ Body(s)
      BY <1>7, BodyRow DEF send_message
    <2>2. l.team # NoTeam => member[l.user][l.team] # NoRole
      BY <2>1 DEF MInv, LoadedTeamIsJoined
    <2>3. l.team # NoTeam => member[u][l.team] # NoRole
      BY <1>7, <2>2 DEF send_message, SameTeam, MInv, WorksInJoined
    <2>4. MessagesOld
      BY <1>7, <2>2, <2>3 DEF send_message, accounts, MessagesOld
    <2>5. RowsOld
      BY <2>1, BodyRow DEF RowsOld, TypeOK
    <2> QED
      BY <1>7, <2>4, <2>5
      DEF send_message, accounts, MembershipStep, MembersKept, TeamMoves,
          MInv, InviteGivesRole
  <1>8. ASSUME NEW u \in Users, NEW r \in Roles, update_user_role(s, u, r)
        PROVE  MembershipStep
    <2>1. RowsOld
      BY <1>8, BodyRow DEF update_user_role, RowsOld, TypeOK
    <2>2. l \in Row
      BY <1>8, BodyRow DEF update_user_role
    <2>3. MembersKept
      BY <1>8, <2>2, MembershipAssumption
      DEF update_user_role, MemberRoles, MembersKept, TypeOK, Row
    <2>4. UNCHANGED <<users, activeTeam, messages, invite>>
      BY <1>8 DEF update_user_role, others
    <2>5. MessagesOld /\ TeamMoves /\ InviteGivesRole'
      BY <2>4 DEF MessagesOld, TeamMoves, MInv, InviteGivesRole
    <2> QED
      BY <2>1, <2>3, <2>4, <2>5 DEF MembershipStep
  <1>9. ASSUME NEW c \in Codes, cancel_team_invite(s, c) PROVE MembershipStep
    <2>1. InviteGivesRole'
      BY <1>9 DEF cancel_team_invite, NoInvite, TypeOK, MInv, InviteGivesRole
    <2>2. RowsOld
      BY <1>9, BodyRow DEF cancel_team_invite, RowsOld, TypeOK
    <2> QED
      BY <1>9, <2>1, <2>2
      DEF cancel_team_invite, accounts, MembershipStep, MembersKept,
          TeamMoves, MessagesOld
  <1>10. ASSUME NEW c \in Codes, join_team_via_invite(s, c)
         PROVE  MembershipStep
    <2> DEFINE i == invite[c]
    <2>1. /\ l.user \in Users /\ Body(s)
          /\ i.team \in Teams /\ i.role \in Roles
      BY <1>10, BodyRow
      DEF join_team_via_invite, Admits, Usable, TypeOK, MInv, InviteGivesRole
    <2>2. member' = IF member[l.user][i.team] = NoRole
                    THEN [member EXCEPT ![l.user][i.team] = i.role] ELSE member
      BY <1>10 DEF join_team_via_invite
    <2>3. MembersKept /\ member'[l.user][i.team] # NoRole
      BY <2>1, <2>2, MembershipAssumption DEF MembersKept, TypeOK
    <2>4. InviteGivesRole'
      BY <1>10 DEF join_team_via_invite, TypeOK, MInv, InviteGivesRole
    <2> QED
      BY <1>10, <2>1, <2>3, <2>4, MovingBody
      DEF join_team_via_invite, WriteSynced
  <1>11. ASSUME NEW c \in Codes, NEW r \in Roles, NEW max \in 0 .. MaxUses,
                create_team_invite(s, c, r, max)
         PROVE  MembershipStep
    <2>1. InviteGivesRole'
      BY <1>11
      DEF create_team_invite, NewInvite, NoInvite, TypeOK, MInv, InviteGivesRole
    <2>2. RowsOld
      BY <1>11, BodyRow DEF create_team_invite, RowsOld, TypeOK
    <2> QED
      BY <1>11, <2>1, <2>2
      DEF create_team_invite, accounts, MembershipStep, MembersKept,
          TeamMoves, MessagesOld
  <1>12. ASSUME NEW m \in messages, mark_read(s, m) PROVE MembershipStep
    <2>1. RowsOld
      BY <1>12, BodyRow DEF mark_read, RowsOld, TypeOK
    <2>2. m \in Message
      BY DEF TypeOK, Message
    <2>3. MessagesOld
      BY <1>12, <2>2 DEF mark_read, MessagesOld, Message
    <2> QED
      BY <1>12, <2>1, <2>3
      DEF mark_read, accounts, MembershipStep, MembersKept, TeamMoves, MInv,
          InviteGivesRole
  <1> QED
    BY <1>1, <1>2, <1>3, <1>4, <1>5, <1>6, <1>7, <1>8, <1>9, <1>10, <1>11,
       <1>12 DEF Request

\* A step outside the requests that leaves teams and memberships as they are.
LEMMA QuietOutside ==
  ASSUME MInv, users \subseteq users',
         UNCHANGED <<activeTeam, member, request, messages>>,
         InviteGivesRole'
  PROVE  MembershipStep
  BY DEF MembershipStep, MembersKept, TeamMoves, RowsOld, MessagesOld

LEMMA NextMembership ==
  ASSUME TypeOK, MInv, [Next]_vars
  PROVE  MembershipStep
  <1>0. ASSUME UNCHANGED invite PROVE InviteGivesRole'
    BY <1>0 DEF MInv, InviteGivesRole
  <1>1. ASSUME NEW s \in Slots, Request(s) PROVE MembershipStep
    BY <1>1, RequestMembership
  <1>2. ASSUME NEW u \in Users, NEW t \in Teams \cup {NoTeam}, NEW r \in Roles,
               register(u, t, r)
        PROVE  MembershipStep
    <2>1. users \subseteq users' /\ u \in users'
      BY <1>2 DEF register, create_user
    <2>2. MembersKept
      BY <1>2, MembershipAssumption
      DEF register, create_user, MembersKept, TypeOK
    <2>3. t # NoTeam => member'[u][t] # NoRole
      BY <1>2, MembershipAssumption DEF register, create_user, TypeOK
    <2>4. TeamMoves
      BY <1>2, <2>1, <2>3 DEF register, create_user, TeamMoves, TypeOK
    <2>5. UNCHANGED <<request, messages, invite>>
      BY <1>2 DEF register, others
    <2> QED
      BY <1>0, <2>1, <2>2, <2>4, <2>5
      DEF MembershipStep, RowsOld, MessagesOld
  <1>3. ASSUME NEW u \in Users, login(u) PROVE MembershipStep
    BY <1>0, <1>3, QuietOutside DEF login, others
  <1>4. ASSUME NEW g \in Githubs, NEW u \in Users, github_device_poll(g, u)
        PROVE  MembershipStep
    BY <1>0, <1>4, QuietOutside DEF github_device_poll, GithubSignIn, others
  <1>5. ASSUME NEW g \in Githubs, NEW u \in Users, github_device_link(g, u)
        PROVE  MembershipStep
    BY <1>0, <1>5, QuietOutside DEF github_device_link, others
  <1>6. CASE github_oauth_url
    BY <1>0, <1>6, QuietOutside DEF github_oauth_url, accounts
  <1>7. CASE github_callback
    <2>1. users \subseteq users' /\ UNCHANGED <<activeTeam, member>>
      BY <1>7 DEF github_callback, GithubSignIn, accounts
    <2> QED
      BY <1>0, <1>7, <2>1, QuietOutside DEF github_callback
  <1>8. CASE github_callback_poll
    BY <1>0, <1>8, QuietOutside DEF github_callback_poll, accounts
  <1>9. ASSUME NEW c \in Codes, InviteExpires(c) PROVE MembershipStep
    <2>1. InviteGivesRole'
      BY <1>9 DEF InviteExpires, MInv, InviteGivesRole, TypeOK
    <2> QED
      BY <1>9, <2>1, QuietOutside DEF InviteExpires, accounts
  <1>10. CASE UNCHANGED vars
    BY <1>0, <1>10, QuietOutside DEF vars, accounts, others
  <1> QED
    BY <1>1, <1>2, <1>3, <1>4, <1>5, <1>6, <1>7, <1>8, <1>9, <1>10 DEF Next

LEMMA MembershipInvariant == Spec => []MInv
  <1>1. Init => MInv
    BY DEF Init, MInv, WorksInJoined, LoadedTeamIsJoined, Idle,
           MessageAmongMembers, InviteGivesRole, NoInvite
  <1>2. TypeOK /\ TypeOK' /\ MInv /\ [Next]_vars => MInv'
    BY NextMembership, MembershipStepKeeps
  <1> QED
    BY <1>1, <1>2, TypeCorrect, PTL DEF Spec

\* The team a user works in is one of which the user is a member, for any
\* number of requests that write with rows loaded before others were changed.
THEOREM TeamsAreJoined == Spec => []ActiveTeamIsJoined
  <1>1. TypeOK /\ MInv => ActiveTeamIsJoined
    BY DEF TypeOK, MInv, WorksInJoined, ActiveTeamIsJoined
  <1> QED
    BY <1>1, TypeCorrect, MembershipInvariant, PTL

\* A message kept in a team is between members of the team.
THEOREM MessagesAmongMembers == Spec => []MessageAmongMembers
  <1>1. MInv => MessageAmongMembers
    BY DEF MInv
  <1> QED
    BY <1>1, MembershipInvariant, PTL

---------------------------------------------------------------------------
(* Invites.                                                                *)

\* Whom an invite has admitted are counted by its uses.
Counted(c) ==
    invite[c].max > 0 =>
      /\ Cardinality(admitted[c]) <= invite[c].used
      /\ invite[c].used <= invite[c].max

AllCounted == \A c \in Codes : Counted(c)

\* A step that leaves the uses of an invite, and whom it admitted, or makes
\* it one without limit.
LEMMA CountedKept ==
  ASSUME NEW c \in Codes, Counted(c), admitted'[c] = admitted[c],
         invite'[c].max = 0 \/ (/\ invite'[c].max = invite[c].max
                                 /\ invite'[c].used = invite[c].used)
  PROVE  Counted(c)'
  BY DEF Counted

\* One more member.
LEMMA OneMore ==
  ASSUME TypeOK, NEW c \in Codes, NEW u \in Users
  PROVE  /\ Cardinality(admitted[c]) \in Nat
         /\ Cardinality(admitted[c] \cup {u}) <= Cardinality(admitted[c]) + 1
         /\ Cardinality(admitted[c] \cup {u}) \in Nat
  <1>1. IsFiniteSet(admitted[c])
    BY FS_Subset, MembershipAssumption DEF TypeOK
  <1>2. Cardinality(admitted[c]) \in Nat
    BY <1>1, FS_CardinalityType
  <1>3. Cardinality(admitted[c] \cup {u}) = IF u \in admitted[c]
          THEN Cardinality(admitted[c]) ELSE Cardinality(admitted[c]) + 1
    BY <1>1, FS_AddElement
  <1> QED
    BY <1>2, <1>3

LEMMA JoinCounts ==
  ASSUME TypeOK, NEW s \in Slots, NEW c \in Codes, join_team_via_invite(s, c),
         Counted(c)
  PROVE  Counted(c)'
  <1> DEFINE i == invite[c]
  <1>1. /\ i.max \in Nat /\ i.used \in Nat
        /\ i.max > 0 => i.used < i.max
        /\ request[s].user \in Users
    BY BodyRow, MembershipAssumption
    DEF join_team_via_invite, Admits, Usable, TypeOK
  <1>2. invite'[c].max = i.max /\ invite'[c].used = i.used + 1
    BY DEF join_team_via_invite, TypeOK
  <1>3. \/ admitted'[c] = admitted[c]
        \/ admitted'[c] = admitted[c] \cup {request[s].user}
    BY DEF join_team_via_invite, TypeOK
  <1>4. /\ Cardinality(admitted[c]) \in Nat
        /\ Cardinality(admitted'[c]) \in Nat
        /\ Cardinality(admitted'[c]) <= Cardinality(admitted[c]) + 1
    <2>1. \A u \in Users :
            /\ Cardinality(admitted[c]) \in Nat
            /\ Cardinality(admitted[c] \cup {u}) <= Cardinality(admitted[c]) + 1
            /\ Cardinality(admitted[c] \cup {u}) \in Nat
      BY OneMore
    <2>2. CASE admitted'[c] = admitted[c]
      <3>1. Cardinality(admitted[c]) \in Nat
        BY <1>1, <2>1
      <3>2. Cardinality(admitted'[c]) = Cardinality(admitted[c])
        BY <2>2
      <3> QED
        BY <3>1, <3>2
    <2>3. CASE admitted'[c] = admitted[c] \cup {request[s].user}
      BY <1>1, <2>1, <2>3
    <2> QED
      BY <1>3, <2>2, <2>3
  <1> QED
    BY <1>1, <1>2, <1>4 DEF Counted

LEMMA NextCounted ==
  ASSUME TypeOK, AllCounted, [Next]_vars, NEW c \in Codes
  PROVE  Counted(c)'
  <1> Counted(c)
    BY DEF AllCounted
  <1>0. ASSUME UNCHANGED <<invite, admitted>> PROVE Counted(c)'
    BY <1>0, CountedKept
  <1>1. ASSUME NEW s \in Slots, Request(s) PROVE Counted(c)'
    <2>1. ASSUME NEW d \in Codes, cancel_team_invite(s, d) PROVE Counted(c)'
      <3>1. invite'[c] = invite[c] \/ invite'[c].max = 0
        BY <2>1 DEF cancel_team_invite, NoInvite, TypeOK
      <3> QED
        BY <2>1, <3>1, CountedKept DEF cancel_team_invite
    <2>2. ASSUME NEW d \in Codes, NEW r \in Roles, NEW max \in 0 .. MaxUses,
                 create_team_invite(s, d, r, max)
          PROVE  Counted(c)'
      <3>1. CASE c = d
        <4>1. /\ invite'[c].used = 0 /\ invite'[c].max = max
              /\ admitted'[c] = {}
          BY <2>2, <3>1 DEF create_team_invite, NewInvite, NoInvite, TypeOK
        <4>2. Cardinality(admitted'[c]) = 0 /\ max \in Nat
          BY <4>1, FS_EmptySet, MembershipAssumption
        <4> QED
          BY <4>1, <4>2 DEF Counted
      <3>2. CASE c # d
        <4>1. invite'[c] = invite[c]
          BY <2>2, <3>2 DEF create_team_invite, TypeOK
        <4> QED
          BY <2>2, <4>1, CountedKept DEF create_team_invite
      <3> QED
        BY <3>1, <3>2
    <2>3. ASSUME NEW d \in Codes, join_team_via_invite(s, d) PROVE Counted(c)'
      <3>1. CASE c = d
        BY <2>3, <3>1, JoinCounts
      <3>2. CASE c # d
        <4>1. invite'[c] = invite[c] /\ admitted'[c] = admitted[c]
          BY <2>3, <3>2 DEF join_team_via_invite, TypeOK
        <4> QED
          BY <4>1, CountedKept
      <3> QED
        BY <3>1, <3>2
    <2>4. \/ UNCHANGED <<invite, admitted>>
          \/ \E d \in Codes : cancel_team_invite(s, d) \/ join_team_via_invite(s, d)
          \/ \E d \in Codes, r \in Roles, max \in 0 .. MaxUses :
                create_team_invite(s, d, r, max)
      BY <1>1
      DEF Request, get_current_user, Refuse, get_me, github_disconnect,
          create_team, switch_team, send_message, update_user_role, mark_read,
          others
    <2> QED
      BY <1>0, <2>1, <2>2, <2>3, <2>4
  <1>2. ASSUME NEW d \in Codes, InviteExpires(d) PROVE Counted(c)'
    <2>1. invite'[c].max = invite[c].max /\ invite'[c].used = invite[c].used
      BY <1>2 DEF InviteExpires, TypeOK
    <2> QED
      BY <1>2, <2>1, CountedKept DEF InviteExpires
  <1>3. \/ UNCHANGED <<invite, admitted>>
        \/ \E s \in Slots : Request(s)
        \/ \E d \in Codes : InviteExpires(d)
    BY DEF Next, register, login, github_device_poll, github_device_link,
           github_oauth_url, github_callback, github_callback_poll, vars, others
  <1> QED
    BY <1>0, <1>1, <1>2, <1>3

\* An invite makes no more users members than max_uses, for any number of
\* joins, cancellations and expirations in any order.
THEOREM InvitesBounded == Spec => []InviteAdmitsAtMost
  <1>1. Init => AllCounted
    BY DEF Init, AllCounted, Counted, NoInvite
  <1>2. TypeOK /\ AllCounted /\ [Next]_vars => AllCounted'
    BY NextCounted DEF AllCounted
  <1>3. AllCounted => InviteAdmitsAtMost
    BY DEF AllCounted, Counted, InviteAdmitsAtMost
  <1> QED
    BY <1>1, <1>2, <1>3, TypeCorrect, PTL DEF Spec
=============================================================================
