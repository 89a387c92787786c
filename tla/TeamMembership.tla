--------------------------- MODULE TeamMembership ---------------------------
(***************************************************************************)
(* Accounts, teams, invites and messages.  Two services have the same      *)
(* endpoints over a database of their own: the account server (server/)    *)
(* and the backend (backend/auth, team_router, message_router); service    *)
(* says which of the two a behaviour is about.                             *)
(*                                                                         *)
(* An endpoint is two steps.  A dependency (get_current_user) runs in a    *)
(* worker thread and loads the user's row; the endpoint's body, which      *)
(* never awaits, runs later on the event loop with that row.  Other bodies *)
(* run in between, and SQLAlchemy writes only the columns that differ from *)
(* the row as it was loaded.                                               *)
(*                                                                         *)
(* Names, passwords, tokens and GitHub's tables are left out; a team is    *)
(* its name.  "Fault:" marks a wrong version of the definition after it.   *)
(***************************************************************************)
EXTENDS Naturals, FiniteSets

CONSTANTS
    Users,        \* ids of user rows; numbers, because a flush sorts by id
    Teams,
    Codes,        \* codes of invites
    Githubs,      \* GitHub accounts
    Roles,
    Slots,        \* requests in flight at once
    NoTeam,
    MaxUses,      \* bound: max_uses of an invite
    MaxMessages,  \* bound: messages kept
    MaxChanges    \* bound: requests that change something

NoRole == "none"
NoGithub == "none"

ASSUME MembershipAssumption ==
    /\ Users \subseteq Nat \ {0} /\ IsFiniteSet(Users)
    /\ NoTeam \notin Teams
    /\ "pm" \in Roles /\ "engineer" \in Roles /\ NoRole \notin Roles
    /\ NoGithub \notin Githubs
    /\ MaxUses \in Nat /\ MaxMessages \in Nat /\ MaxChanges \in Nat

VARIABLES
    service,    \* "server" or "backend"
    users,      \* ids of the rows of users
    teams,      \* ids of the rows of teams
    activeTeam, \* users.team_id
    role,       \* users.role
    github,     \* users.github_id
    member,     \* team_members: the role of a user in a team
    invite,     \* team_invites
    request,    \* the row each request in flight has loaded
    messages,   \* direct_messages
    oauth,      \* _oauth_sessions: how a sign-in in the browser stands
    admitted,   \* history: whom each invite made a member
    changes     \* requests that changed something

accounts == <<users, teams, activeTeam, role, github, member>>
others == <<invite, messages, oauth, admitted>>
vars == <<service, accounts, request, others, changes>>

NoInvite == [team |-> NoTeam, role |-> NoRole, max |-> 0, used |-> 0,
             expired |-> FALSE]
Idle == [user |-> 0, team |-> NoTeam, role |-> NoRole, github |-> NoGithub]

Init ==
    /\ service \in {"server", "backend"}
    /\ users = {} /\ teams = {}
    /\ activeTeam = [u \in Users |-> NoTeam]
    /\ role = [u \in Users |-> NoRole]
    /\ github = [u \in Users |-> NoGithub]
    /\ member = [u \in Users |-> [t \in Teams |-> NoRole]]
    /\ invite = [c \in Codes |-> NoInvite]
    /\ request = [s \in Slots |-> Idle]
    /\ messages = {}
    /\ oauth = "none"
    /\ admitted = [c \in Codes |-> {}]
    /\ changes = 0

Change == changes < MaxChanges /\ changes' = changes + 1

(***************************************************************************)
(* Rows, as the ORM reads and writes them.                                 *)
(***************************************************************************)

\* The row as it is read by its id.
Loaded(u) == [user |-> u, team |-> activeTeam[u], role |-> role[u],
              github |-> github[u]]

\* get_current_user keeps the row for the body.
get_current_user(s, u) ==
    /\ request[s] = Idle /\ u \in users
    /\ request' = [request EXCEPT ![s] = Loaded(u)]
    /\ UNCHANGED <<service, accounts, others, changes>>

\* The body of the request in slot s, which ends it.
Body(s) ==
    /\ request[s].user \in users
    /\ request' = [request EXCEPT ![s] = Idle]

\* Columns equal to what was loaded are left out of the UPDATE.
TeamAfter(l, t) == IF t # l.team THEN t ELSE activeTeam[l.user]
RoleAfter(l, r) == IF r # l.role THEN r ELSE role[l.user]

Write(l, t, r) ==
    /\ activeTeam' = [activeTeam EXCEPT ![l.user] = TeamAfter(l, t)]
    /\ role' = [role EXCEPT ![l.user] = RoleAfter(l, r)]

\* Fault: the row is trusted.
SyncedRow(members, u, t, r) == r

\* _build_user_response of the server corrects the row by the membership;
\* build_user_response of the backend reads the row only.
Synced(members, u, t, r) ==
    IF service = "server" /\ t # NoTeam /\ members[u][t] # NoRole
    THEN members[u][t] ELSE r

WriteSynced(l, t, r, members) ==
    /\ activeTeam' = [activeTeam EXCEPT ![l.user] = TeamAfter(l, t)]
    /\ role' = [role EXCEPT ![l.user] =
                  Synced(members, l.user, TeamAfter(l, t), RoleAfter(l, r))]

\* The body reads only, or raises before it writes.
Refuse(s) ==
    /\ Body(s)
    /\ UNCHANGED <<service, accounts, others, changes>>

(***************************************************************************)
(* Signing up and in.                                                      *)
(***************************************************************************)

\* A team is found by its name or created.
create_user(u, t, r) ==
    /\ u \in Users \ users /\ users' = users \cup {u}
    /\ t \in Teams \cup {NoTeam} /\ teams' = teams \cup ({t} \ {NoTeam})
    /\ activeTeam' = [activeTeam EXCEPT ![u] = t]
    /\ role' = [role EXCEPT ![u] = r]
    /\ member' = IF t = NoTeam THEN member ELSE [member EXCEPT ![u][t] = r]

register(u, t, r) ==
    /\ Change
    /\ create_user(u, t, r)
    /\ UNCHANGED <<service, github, request, others>>

\* The row that has the email; whether the password fits is left open.
authenticate_user(u) == u \in users

\* login reads the row in its body.
login(u) ==
    /\ authenticate_user(u)
    /\ role' = [role EXCEPT ![u] = Synced(member, u, activeTeam[u], @)]
    /\ UNCHANGED <<service, users, teams, activeTeam, github, member, request,
                   others, changes>>

\* auth/me compares the row as it was loaded with the membership as it is.
get_me(s) ==
    LET l == request[s]
        r == Synced(member, l.user, l.team, l.role)
    IN /\ Body(s)
       /\ role' = [role EXCEPT ![l.user] = RoleAfter(l, r)]
       /\ UNCHANGED <<service, users, teams, activeTeam, github, member, others,
                      changes>>

\* create_or_update_github_user, and github_device_poll of the server without
\* a token: the account is found by GitHub id, then by email, or created.
GithubSignIn(g, u) ==
    /\ IF \E w \in users : github[w] = g
       THEN u \in users /\ github[u] = g
       ELSE u \in Users
    /\ users' = users \cup {u}
    /\ github' = [github EXCEPT ![u] = g]
    /\ role' = [role EXCEPT ![u] = IF u \in users
                                   THEN Synced(member, u, activeTeam[u], @)
                                   ELSE "engineer"]
    /\ UNCHANGED <<teams, activeTeam, member>>

github_device_poll(g, u) ==
    /\ Change
    /\ GithubSignIn(g, u)
    /\ UNCHANGED <<service, request, others>>

\* github_device_poll of the server with a token.  The account another user
\* has linked is released in the same flush, whose UPDATEs are sorted by id:
\* when the releasing one comes second the UNIQUE column refuses the first.
github_device_link(g, u) ==
    /\ service = "server" /\ Change
    /\ u \in users
    /\ \A w \in users \ {u} : github[w] = g => w < u
    /\ github' = [w \in Users |-> IF w = u THEN g
                                  ELSE IF github[w] = g THEN NoGithub
                                  ELSE github[w]]
    /\ role' = [role EXCEPT ![u] = Synced(member, u, activeTeam[u], @)]
    /\ UNCHANGED <<service, users, teams, activeTeam, member, request, others>>

\* None is written only over what was loaded as linked.
Unlinked(l) == IF l.github = NoGithub
               THEN github ELSE [github EXCEPT ![l.user] = NoGithub]

github_disconnect(s) ==
    LET l == request[s]
    IN /\ Body(s) /\ Change
       /\ github' = Unlinked(l)
       /\ UNCHANGED <<service, users, teams, activeTeam, role, member, others>>

(***************************************************************************)
(* The backend's sign-in through the browser: the app polls for the result *)
(* that the callback leaves in memory for ten minutes.                     *)
(***************************************************************************)

\* An entry is pending until the callback sets its result.
OauthStates == {"none", "pending", "done", "error"}

github_oauth_url ==
    /\ service = "backend" /\ oauth = "none"
    /\ oauth' = "pending"
    /\ UNCHANGED <<service, accounts, request, invite, messages, admitted, changes>>

\* The exchange of the code succeeds or fails, and replaces what was there.
github_callback ==
    /\ oauth # "none" /\ Change
    /\ \/ \E g \in Githubs, u \in Users : GithubSignIn(g, u) /\ oauth' = "done"
       \/ UNCHANGED accounts /\ oauth' = "error"
    /\ UNCHANGED <<service, request, invite, messages, admitted>>

\* The poll that finds a result takes it, or the entry expires.
github_callback_poll ==
    /\ oauth # "none"
    /\ oauth' = "none"
    /\ UNCHANGED <<service, accounts, request, invite, messages, admitted, changes>>

(***************************************************************************)
(* Teams.                                                                  *)
(***************************************************************************)

\* Whoever creates a team is its PM.
WithCreator(u, t) == [member EXCEPT ![u][t] = "pm"]

create_team(s, t) ==
    LET l == request[s]
    IN /\ Body(s) /\ Change
       /\ t \in Teams \ teams /\ teams' = teams \cup {t}
       /\ member' = WithCreator(l.user, t)
       /\ Write(l, t, "pm")
       /\ UNCHANGED <<service, users, github, others>>

\* Fault: whoever asks is let in.
switch_teamUnchecked(s, t) ==
    LET l == request[s]
    IN /\ Body(s) /\ Change
       /\ t \in teams
       /\ WriteSynced(l, t, l.role, member)
       /\ UNCHANGED <<service, users, teams, github, member, others>>

\* list_my_teams: the teams of a user's memberships.
Joined(u) == {t \in Teams : member[u][t] # NoRole}

switch_team(s, t) ==
    LET l == request[s]
    IN /\ Body(s) /\ Change
       /\ t \in Joined(l.user)
       /\ WriteSynced(l, t, member[l.user][t], member)
       /\ UNCHANGED <<service, users, teams, github, member, others>>

\* The backend leaves the membership as it is.
MemberRoles(l, u, r) ==
    IF service = "server" /\ l.team # NoTeam /\ member[u][l.team] # NoRole
    THEN [member EXCEPT ![u][l.team] = r] ELSE member

\* A PM changes a role.  The PM's own row is the one that was loaded, any
\* other is read here.
update_user_role(s, u, r) ==
    LET l == request[s]
        self == u = l.user
    IN /\ Body(s) /\ Change
       /\ l.role = "pm" /\ u \in users
       /\ self \/ activeTeam[u] = l.team
       /\ role' = [role EXCEPT ![u] = IF self THEN RoleAfter(l, r) ELSE r]
       /\ member' = MemberRoles(l, u, r)
       /\ UNCHANGED <<service, users, teams, activeTeam, github, others>>

NewInvite(l, r, max) ==
    [NoInvite EXCEPT !.team = l.team, !.role = r, !.max = max]

create_team_invite(s, c, r, max) ==
    LET l == request[s]
    IN /\ Body(s) /\ Change
       /\ l.role = "pm" /\ l.team # NoTeam
       /\ invite[c] = NoInvite /\ admitted[c] = {}
       /\ invite' = [invite EXCEPT ![c] = NewInvite(l, r, max)]
       /\ UNCHANGED <<service, accounts, messages, oauth, admitted>>

\* The invites a PM may end.
Cancellable(l) ==
    {c \in Codes : l.role = "pm" /\ l.team # NoTeam /\ invite[c].team = l.team}

cancel_team_invite(s, c) ==
    LET l == request[s]
    IN /\ Body(s) /\ Change
       /\ c \in Cancellable(l)
       /\ invite' = [invite EXCEPT ![c] = NoInvite]
       /\ UNCHANGED <<service, accounts, messages, oauth, admitted>>

\* datetime.utcnow() passes expires_at.
InviteExpires(c) ==
    /\ invite[c].team # NoTeam /\ ~invite[c].expired
    /\ invite' = [invite EXCEPT ![c].expired = TRUE]
    /\ UNCHANGED <<service, accounts, request, messages, oauth, admitted, changes>>

\* Fault: the use that would be one too many is let in.
UsableOnce(i) == i.team # NoTeam /\ ~i.expired /\ (i.max = 0 \/ i.used <= i.max)

\* 0 is no limit.
Usable(i) == i.team # NoTeam /\ ~i.expired /\ (i.max = 0 \/ i.used < i.max)

\* The server takes a use even from a member; the backend refuses members.
Admits(i, new) == Usable(i) /\ (service = "backend" => new)

join_team_via_invite(s, c) ==
    LET l == request[s]
        i == invite[c]
        new == member[l.user][i.team] = NoRole
        members == IF new THEN [member EXCEPT ![l.user][i.team] = i.role]
                          ELSE member
    IN /\ Body(s) /\ Change
       /\ Admits(i, new)
       /\ member' = members
       /\ invite' = [invite EXCEPT ![c].used = @ + 1]
       /\ admitted' = IF new THEN [admitted EXCEPT ![c] = @ \cup {l.user}]
                             ELSE admitted
       /\ WriteSynced(l, i.team, i.role, members)
       /\ UNCHANGED <<service, users, teams, github, messages, oauth>>

(***************************************************************************)
(* Messages between members.                                               *)
(***************************************************************************)

\* Fault: the team is not compared.
send_messageAnywhere(s, v) ==
    LET l == request[s]
    IN /\ Body(s) /\ Change
       /\ v \in users
       /\ Cardinality(messages) < MaxMessages
       /\ messages' = messages \cup {[from |-> l.user, to |-> v, team |-> l.team,
                                      read |-> FALSE]}
       /\ UNCHANGED <<service, accounts, invite, oauth, admitted>>

\* The sender's team is the one that was loaded, the receiver's is read here.
SameTeam(l, v) == v \in users /\ (v = l.user \/ activeTeam[v] = l.team)

send_message(s, v) ==
    LET l == request[s]
    IN /\ Body(s) /\ Change
       /\ SameTeam(l, v)
       /\ Cardinality(messages) < MaxMessages
       /\ messages' = messages \cup {[from |-> l.user, to |-> v, team |-> l.team,
                                      read |-> FALSE]}
       /\ UNCHANGED <<service, accounts, invite, oauth, admitted>>

Inbox(u) == {m \in messages : m.to = u}

mark_read(s, m) ==
    /\ Body(s) /\ Change
    /\ m \in Inbox(request[s].user) /\ ~m.read
    /\ messages' = (messages \ {m}) \cup {[m EXCEPT !.read = TRUE]}
    /\ UNCHANGED <<service, accounts, invite, oauth, admitted>>

(***************************************************************************)
(* The specification.                                                      *)
(***************************************************************************)

Request(s) ==
    \/ \E u \in Users : get_current_user(s, u)
    \/ Refuse(s) \/ get_me(s) \/ github_disconnect(s)
    \/ \E t \in Teams : create_team(s, t) \/ switch_team(s, t)
    \/ \E u \in Users : send_message(s, u)
    \/ \E u \in Users, r \in Roles : update_user_role(s, u, r)
    \/ \E c \in Codes : cancel_team_invite(s, c) \/ join_team_via_invite(s, c)
    \/ \E c \in Codes, r \in Roles, max \in 0 .. MaxUses :
         create_team_invite(s, c, r, max)
    \/ \E m \in messages : mark_read(s, m)

Next ==
    \/ \E s \in Slots : Request(s)
    \/ \E u \in Users, t \in Teams \cup {NoTeam}, r \in Roles : register(u, t, r)
    \/ \E u \in Users : login(u)
    \/ \E g \in Githubs, u \in Users :
         github_device_poll(g, u) \/ github_device_link(g, u)
    \/ github_oauth_url \/ github_callback \/ github_callback_poll
    \/ \E c \in Codes : InviteExpires(c)

Spec == Init /\ [][Next]_vars

\* A token is valid for seven days: whoever uses the system signs in again.
FairSpec == Spec /\ \A u \in Users : WF_vars(login(u))

(***************************************************************************)
(* Properties.                                                             *)
(***************************************************************************)

\* The variables stay within their types (the columns of models.py).
TypeOK ==
    /\ service \in {"server", "backend"}
    /\ users \subseteq Users /\ teams \subseteq Teams
    /\ activeTeam \in [Users -> Teams \cup {NoTeam}]
    /\ role \in [Users -> Roles \cup {NoRole}]
    /\ github \in [Users -> Githubs \cup {NoGithub}]
    /\ member \in [Users -> [Teams -> Roles \cup {NoRole}]]
    /\ invite \in [Codes -> [team : Teams \cup {NoTeam},
                             role : Roles \cup {NoRole},
                             max : 0 .. MaxUses, used : Nat, expired : BOOLEAN]]
    /\ request \in [Slots -> [user : Users \cup {0},
                              team : Teams \cup {NoTeam},
                              role : Roles \cup {NoRole},
                              github : Githubs \cup {NoGithub}]]
    /\ messages \subseteq [from : Users, to : Users, team : Teams \cup {NoTeam},
                           read : BOOLEAN]
    /\ oauth \in OauthStates
    /\ admitted \in [Codes -> SUBSET Users]
    /\ changes \in 0 .. MaxChanges

\* The team a user works in is one of which the user is a member, also when a
\* request writes with a row it loaded before another one changed it
\* (create_team, switch_team, join_team_via_invite, register).
ActiveTeamIsJoined ==
    \A u \in users : activeTeam[u] # NoTeam => member[u][activeTeam[u]] # NoRole

\* An invite never makes more users members than it may, however joins of it
\* interleave (used_count and max_uses, join_team_via_invite).
InviteAdmitsAtMost ==
    \A c \in Codes : invite[c].max > 0 =>
      Cardinality(admitted[c]) <= invite[c].used /\ invite[c].used <= invite[c].max

\* A message is kept in a team only if its sender and its receiver are members
\* of it, though the sender's team is as old as the loaded row (send_message).
MessageAmongMembers ==
    \A m \in messages : m.team # NoTeam =>
      member[m.from][m.team] # NoRole /\ member[m.to][m.team] # NoRole

\* On the server a role that overlapping requests have left at odds with the
\* membership is corrected (_build_user_response).
RoleSettles ==
    \A u \in Users :
      <>[](service = "server" /\ u \in users /\ activeTeam[u] # NoTeam
           => role[u] = member[u][activeTeam[u]])
=============================================================================
