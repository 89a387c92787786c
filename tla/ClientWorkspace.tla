--------------------------- MODULE ClientWorkspace ---------------------------
(***************************************************************************)
(* The client's store as its user works in several teams: an analysis is   *)
(* started in one team, the user switches teams and sessions while it      *)
(* runs, and its answer is routed to the workspace of the team that        *)
(* started it.  One team's workspace is displayed; those of the others are *)
(* parked.  Requests and answers are those of AnswerService.               *)
(*                                                                         *)
(* A request is named by its number, which also names its result.  Nil and *)
(* 0 stand for null.                                                       *)
(*                                                                         *)
(* The code does not stop the user from sending a request while another is *)
(* unanswered, from switching again before the server has answered, or     *)
(* from going on while a team is created, and a socket may be lost.  The   *)
(* model has it all, and records it, so that the properties can say what   *)
(* is kept and of which of these it depends.                               *)
(*                                                                         *)
(* An operator marked "Fault:" is no part of the specification: it is a    *)
(* wrong version of the definition after it, and shows that a property     *)
(* depends on that definition.                                             *)
(***************************************************************************)
EXTENDS AnswerService, FiniteSets

CONSTANTS
    Teams,          \* the teams there can be
    Members,        \* the teams the user is a member of at first
    FirstTeam,      \* the team the user logs in with
    SessionIds,     \* bound: sessions the user creates
    MaxSwitches,    \* bound: calls to switch or create teams
    MaxPending,     \* bound: switches not answered yet
    Nil

ASSUME WorkspaceAssumption ==
    /\ IsFiniteSet(Teams) /\ Members \subseteq Teams /\ FirstTeam \in Members
    /\ MaxSwitches \in Nat /\ MaxPending \in Nat
    /\ Nil \notin Teams /\ Nil \notin SessionIds

\* The fields of a workspace and of a saved session that matter here.
Workspaces ==
    [of : Teams, pipelineStatus : {"idle", "running", "done", "error"},
     resultData : Nat, currentSessionId : SessionIds \cup {Nil},
     started : BOOLEAN]
SavedSessions == [team : Teams, resultData : Nat, started : BOOLEAN]

\* An entry of teamWorkspaces: a workspace that was parked whole, with the
\* sessions of its team, or a bare patch.
ParkedSpaces ==
    [whole : BOOLEAN, space : Workspaces,
     list : [SessionIds -> SavedSessions \cup {Nil}]]

\* A call to switch teams, numbered among the calls, and the call createTeam
\* awaits, with the teams that /auth/me can name when it returns.
Calls == [to : Teams, prev : Teams, nr : Nat]
Creations == [to : Teams, named : SUBSET Teams, nr : Nat]

ASSUME NilAssumption == Nil \notin ParkedSpaces /\ Nil \notin Creations

VARIABLES
    team,           \* currentUser.team_id
    myTeams,
    ws,             \* the displayed workspace
    sessions,       \* the displayed list of sessions
    parked,         \* teamWorkspaces
    owner,          \* analysisOwnerTeamId
    calls,          \* switchTeam's calls the server has not answered
    creating,       \* createTeam's call
    restores,       \* results restoreSessionFromRag has asked for
    switches,       \* calls to switch or create teams so far
    lost,           \* requests whose socket was lost before their answer
    sender,         \* history: who sent each request, team and session
    overlapped,     \* history: requests unanswered at the same time
    outrun,         \* history: teams displayed when an answer came to them
                    \* while createTeam waited, after it had parked them
    late            \* history: a call of a team was answered after a later
                    \* such call was made

store == <<team, myTeams, ws, sessions, parked, owner, calls, creating,
           restores, switches>>
crossings == <<lost, sender, overlapped, outrun, late>>
vars == <<serviceVars, store, crossings>>

\* A workspace: the fields of _workspaceFields that matter here.  "of" is the
\* team whose work it holds, which the code does not record.
BLANK_WORKSPACE(t) ==
    [of |-> t, pipelineStatus |-> "idle", resultData |-> 0,
     currentSessionId |-> Nil, started |-> FALSE]

Init ==
    /\ ServiceInit
    /\ team = FirstTeam /\ myTeams = Members
    /\ ws = BLANK_WORKSPACE(FirstTeam)
    /\ sessions = [i \in SessionIds |-> Nil]
    /\ parked = [t \in Teams |-> Nil]
    /\ owner = Nil
    /\ calls = <<>> /\ creating = Nil /\ restores = {} /\ switches = 0
    /\ lost = {} /\ sender = <<>>
    /\ overlapped = {} /\ outrun = {} /\ late = FALSE

IsRunning == ws.pipelineStatus = "running"

\* The sessions of a team, as _parkCurrentWorkspace and _restoreWorkspace
\* filter them.
OfTeam(list, t) ==
    [i \in SessionIds |->
       IF list[i] # Nil /\ list[i].team = t THEN list[i] ELSE Nil]

(***************************************************************************)
(* Asking.                                                                 *)
(***************************************************************************)

\* The requests that are still to be answered.
Pending == LastAnswered + 1 .. Len(requests) \ lost

\* createSession, when no session is open.
OpenSession(i) ==
    IF ws.currentSessionId # Nil
    THEN i = ws.currentSessionId /\ UNCHANGED sessions
    ELSE /\ \A n \in 1 .. Len(sender) : sender[n].session # i
         /\ sessions' = [sessions EXCEPT
                           ![i] = [team |-> team, resultData |-> 0,
                                   started |-> FALSE]]

Sent(kind, i) ==
    /\ Ask(kind)
    /\ sender' = Append(sender, [team |-> team, session |-> i])
    /\ overlapped' = IF Pending = {} THEN overlapped
                     ELSE overlapped \cup Pending \cup {Len(requests) + 1}
    /\ UNCHANGED <<lost, outrun, late>>

\* handleSend: the first message opens a session, later ones wait for the run.
sendIdeaChat ==
    \E i \in SessionIds \cup {Nil} :
      /\ ws.started => ~IsRunning
      /\ IF ws.started
         THEN i = ws.currentSessionId /\ UNCHANGED sessions
         ELSE i # Nil /\ OpenSession(i)
      /\ ws' = [ws EXCEPT !.currentSessionId = i, !.started = TRUE]
      /\ Sent("idea_chat", i)
      /\ UNCHANGED <<team, myTeams, parked, owner, calls,
                     creating, restores, switches>>

\* runSyncUpdate, from the sync button or after an attachment, which opens a
\* session and puts a message in the chat first.  While a run is displayed
\* nothing is sent.
runSyncUpdate(attach) ==
    \E i \in SessionIds \cup {Nil} :
      /\ ~IsRunning
      /\ IF attach
         THEN i # Nil /\ OpenSession(i)
         ELSE /\ i = ws.currentSessionId /\ UNCHANGED sessions
              /\ ws.started \/ i # Nil
      /\ ws' = [ws EXCEPT !.currentSessionId = i,
                          !.started = @ \/ attach,
                          !.pipelineStatus = "running"]
      /\ owner' = team
      /\ Sent("analyze", i)
      /\ UNCHANGED <<team, myTeams, parked, calls, creating,
                     restores, switches>>

(***************************************************************************)
(* Answers.                                                                *)
(***************************************************************************)

isBackground == owner # Nil /\ owner # team

\* _updateParkedWorkspace: it makes a workspace of the patch alone when none
\* is parked.
Patched(t, status, result) ==
    IF parked[t] # Nil
    THEN [parked[t] EXCEPT !.space.pipelineStatus = status,
                           !.space.resultData = result]
    ELSE [whole |-> FALSE,
          space |-> [BLANK_WORKSPACE(t) EXCEPT !.pipelineStatus = status,
                                               !.resultData = result],
          list |-> [i \in SessionIds |-> Nil]]

ResultOfParked(t) == IF parked[t] # Nil THEN parked[t].space.resultData ELSE 0

\* _processResult for an analysis: it displays the result.  SessionMemos has the
\* memos of the update.
processResult(n) ==
    /\ ws' = [ws EXCEPT !.pipelineStatus = "done", !.resultData = n]

\* Fault: the result goes to the workspace that is displayed.
BackgroundResultHere(n) ==
    /\ isBackground
    /\ processResult(n)
    /\ UNCHANGED parked

\* A result for a team that is not displayed is parked, a chat's included.
BackgroundResult(n) ==
    /\ isBackground
    /\ parked' = [parked EXCEPT ![owner] = Patched(owner, "done", n)]
    /\ UNCHANGED ws

ForegroundAnalysis(n) ==
    /\ ~isBackground /\ requests[n] = "analyze"
    /\ processResult(n)
    /\ UNCHANGED parked

ForegroundChat(n) ==
    /\ ~isBackground /\ requests[n] = "idea_chat"
    /\ ws' = [ws EXCEPT !.started = TRUE]
    /\ UNCHANGED parked

BackgroundError ==
    /\ isBackground
    /\ parked' = [parked EXCEPT
                    ![owner] = Patched(owner, "error", ResultOfParked(owner))]
    /\ UNCHANGED ws

\* Fault: an error leaves the status of the run.
ForegroundErrorUnseen ==
    /\ ~isBackground
    /\ UNCHANGED <<ws, parked>>

ForegroundError ==
    /\ ~isBackground
    /\ ws' = [ws EXCEPT !.pipelineStatus = "error"]
    /\ UNCHANGED parked

\* Answers come in the order of the requests.
Handle(n, type) ==
    /\ n \in Pending /\ \A k \in Pending : n <= k
    /\ Answer(n, type)
    /\ IF type = "result"
       THEN BackgroundResult(n) \/ ForegroundAnalysis(n) \/ ForegroundChat(n)
       ELSE BackgroundError \/ ForegroundError
    /\ outrun' = IF creating # Nil /\ ~isBackground
                 THEN outrun \cup {team} ELSE outrun
    /\ UNCHANGED <<team, myTeams, sessions, calls, creating, restores,
                   switches, lost, sender, overlapped, late>>

\* Fault: the answer leaves the owner of the analysis.
handleWsMessageOwned(n, type) == Handle(n, type) /\ UNCHANGED owner

\* _handleWsMessage: every result or error ends the ownership.
handleWsMessage(n, type) == Handle(n, type) /\ owner' = Nil

\* The socket is lost, and with it the answers of what was sent on it.  The
\* client connects again, and its store does not change.
connectionLost ==
    /\ Pending # {}
    /\ lost' = lost \cup Pending
    /\ UNCHANGED <<serviceVars, store, sender, overlapped, outrun, late>>

(***************************************************************************)
(* Sessions.                                                               *)
(***************************************************************************)

\* saveCurrentSession, half a second after the last change of the store.
saveCurrentSession ==
    LET i == ws.currentSessionId
    IN /\ i # Nil /\ sessions[i] # Nil
       /\ sessions' = [sessions EXCEPT ![i].resultData = ws.resultData,
                                       ![i].started = ws.started]
       /\ UNCHANGED <<serviceVars, team, myTeams, ws, parked, owner,
                      calls, creating, restores, switches, crossings>>

\* loadSession: the saved result is displayed, and its stored copy asked for.
loadSession(i) ==
    /\ sessions[i] # Nil /\ sessions[i].team = team
    /\ LET n == sessions[i].resultData
       IN /\ ws' = [of |-> team, currentSessionId |-> i, resultData |-> n,
                    started |-> sessions[i].started,
                    pipelineStatus |-> IF n # 0 THEN "done" ELSE "idle"]
          /\ restores' = IF n # 0 /\ requests[n] = "analyze"
                         THEN restores \cup {n} ELSE restores
    /\ UNCHANGED <<serviceVars, team, myTeams, sessions, parked, owner,
                   calls, creating, switches, crossings>>

\* The stored copy arrives, or the call fails.
restoreSessionFromRag(n) ==
    /\ n \in restores
    /\ restores' = restores \ {n}
    /\ processResult(n) \/ UNCHANGED ws
    /\ UNCHANGED <<serviceVars, team, myTeams, sessions, parked, owner, calls,
                   creating, switches, crossings>>

\* startNewProject forgets the run in flight, but neither its owner nor the
\* backend does.
startNewProject ==
    /\ ws' = BLANK_WORKSPACE(team)
    /\ UNCHANGED <<serviceVars, team, myTeams, sessions, parked, owner,
                   calls, creating, restores, switches, crossings>>

(***************************************************************************)
(* Teams.                                                                  *)
(***************************************************************************)

\* _parkCurrentWorkspace
Park == [parked EXCEPT ![team] = [whole |-> TRUE, space |-> ws,
                                  list |-> OfTeam(sessions, team)]]

\* _restoreWorkspace; what a bare patch lacks stays as it is displayed.
Restore(spaces, t) ==
    LET p == spaces[t]
    IN IF p = Nil
       THEN ws' = BLANK_WORKSPACE(t) /\ sessions' = OfTeam(sessions, t)
       ELSE IF p.whole
       THEN ws' = p.space /\ sessions' = p.list
       ELSE /\ ws' = [ws EXCEPT !.pipelineStatus = p.space.pipelineStatus,
                                !.resultData = p.space.resultData]
            /\ sessions' = OfTeam(sessions, t)

\* Fault: a team that is parked already is not parked again.
ParkOnce == IF parked[team] = Nil THEN Park ELSE parked

\* switchTeam displays the other team at once; the server's answer follows.
\* A creation under way may then find the user in that team.
switchTeamWith(spaces, t) ==
    /\ t \in myTeams \ {team}
    /\ switches < MaxSwitches /\ Len(calls) < MaxPending
    /\ switches' = switches + 1
    /\ calls' = Append(calls, [to |-> t, prev |-> team, nr |-> switches + 1])
    /\ creating' = IF creating = Nil THEN Nil
                   ELSE [creating EXCEPT !.named = @ \cup {t}]
    /\ parked' = spaces
    /\ team' = t
    /\ Restore(spaces, t)
    /\ UNCHANGED <<serviceVars, myTeams, owner, restores, crossings>>

switchTeamParksOnce(t) == switchTeamWith(ParkOnce, t)

switchTeam(t) == switchTeamWith(Park, t)

Answered(c) == SubSeq(calls, 1, c - 1) \o SubSeq(calls, c + 1, Len(calls))

\* An answer is late when another call was made after its own.
AnswersCall(nr) ==
    /\ late' = (late \/ nr # switches)
    /\ UNCHANGED <<serviceVars, owner, restores, switches, lost, sender,
                   overlapped, outrun>>

\* The server names the team of the user; the workspace stays.
switchDone(c) ==
    /\ calls' = Answered(c)
    /\ team' = calls[c].to
    /\ AnswersCall(calls[c].nr)
    /\ UNCHANGED <<myTeams, ws, sessions, parked, creating>>

\* Fault: the rollback gives the user the old team, but not its workspace.
switchFailedUser(c) ==
    /\ calls' = Answered(c)
    /\ team' = calls[c].prev
    /\ AnswersCall(calls[c].nr)
    /\ UNCHANGED <<myTeams, ws, sessions, parked, creating>>

\* The rollback parks what is displayed and restores the team before.
switchFailed(c) ==
    /\ calls' = Answered(c)
    /\ parked' = Park
    /\ team' = calls[c].prev
    /\ Restore(parked', calls[c].prev)
    /\ AnswersCall(calls[c].nr)
    /\ UNCHANGED <<myTeams, creating>>

\* createTeam parks, and awaits two calls before it restores: the creation,
\* and /auth/me.  One team is created at a time.
createTeam(t) ==
    /\ t \in Teams \ myTeams /\ creating = Nil
    /\ switches < MaxSwitches
    /\ switches' = switches + 1
    /\ creating' = [to |-> t, nr |-> switches + 1,
                    named |-> {t} \cup {calls[c].to : c \in DOMAIN calls}]
    /\ parked' = Park
    /\ UNCHANGED <<serviceVars, team, myTeams, ws, sessions, owner, calls,
                   restores, crossings>>

\* /auth/me names the new team, or that of a switch the server served since.
teamCreated ==
    /\ creating # Nil
    /\ creating' = Nil
    /\ \E t \in creating.named :
          /\ team' = t
          /\ Restore(parked, t)
    /\ myTeams' = myTeams \cup {creating.to}
    /\ AnswersCall(creating.nr)
    /\ UNCHANGED <<parked, calls>>

\* A call that fails leaves createTeam, and the store as it is.
teamNotCreated ==
    /\ creating # Nil
    /\ creating' = Nil
    /\ UNCHANGED <<serviceVars, team, myTeams, ws, sessions, parked, owner,
                   calls, restores, switches, crossings>>

Answering ==
    \E n \in 1 .. Len(requests), type \in AnswerTypes :
      handleWsMessage(n, type)

Next ==
    \/ sendIdeaChat
    \/ \E attach \in BOOLEAN : runSyncUpdate(attach)
    \/ Answering \/ connectionLost
    \/ saveCurrentSession
    \/ \E i \in SessionIds : loadSession(i)
    \/ \E n \in restores : restoreSessionFromRag(n)
    \/ startNewProject
    \/ \E t \in Teams : switchTeam(t) \/ createTeam(t)
    \/ \E c \in DOMAIN calls : switchDone(c) \/ switchFailed(c)
    \/ teamCreated \/ teamNotCreated

Spec == Init /\ [][Next]_vars

\* An answer arrives, or the socket is lost (EveryRequestSettles of
\* PipelineSocket); nothing is assumed of the user.
FairSpec == Spec /\ WF_vars(Answering)

(***************************************************************************)
(* Properties.                                                             *)
(***************************************************************************)

\* The workspace a team has: the displayed one, or the one that is parked.
WorkspaceOf(t) ==
    IF ws.of = t THEN ws
    ELSE IF parked[t] # Nil THEN parked[t].space ELSE BLANK_WORKSPACE(t)

\* The analyses of a team after the last request that was answered.
Outstanding(t) ==
    {n \in LastAnswered + 1 .. Len(requests) :
       requests[n] = "analyze" /\ sender[n].team = t}

\* A step that handles the result of analysis n, and brings it to the
\* workspace of the team that started it, displayed or parked, alone.
ResultHandled(n) ==
    /\ answers' = Append(answers, [request |-> n, type |-> "result"])
    /\ requests[n] = "analyze"

ResultDelivered(n) ==
    \A t \in Teams :
      WorkspaceOf(t)'.resultData =
        IF t = sender[n].team THEN n ELSE WorkspaceOf(t).resultData

\* The result of an analysis reaches the team that started it
\* (_handleWsMessage's routing by analysisOwnerTeamId), whatever the user
\* switches or creates, the server refuses and the socket loses before, if
\* no other request was unanswered beside it and no answer about the teams
\* came late.
ResultReachesOwner ==
    [][\A n \in 1 .. Len(requests) :
         ResultHandled(n) /\ n \notin overlapped /\ ~late
         => ResultDelivered(n)]_vars

\* What the comment on the routing says of every analysis: its result goes to
\* the team that started it, also when that is not the active team.
ResultAlwaysReachesOwner ==
    [][\A n \in 1 .. Len(requests) :
         ResultHandled(n) => ResultDelivered(n)]_vars

\* As long as no answer about the teams came late, what is displayed is the
\* work of the user's team, and what is parked for a team is that team's work
\* (switchTeam, its rollback, createTeam, _parkCurrentWorkspace): also with
\* several calls open, answers of runs in between, and refusals.
WorkspaceOfActiveTeam ==
    ~late =>
      /\ ws.of = team
      /\ \A t \in Teams : parked[t] # Nil => parked[t].space.of = t

\* What can leave a team with a run that is over: an answer about the teams
\* that came late, one that came while createTeam kept an older copy, or an
\* analysis of the team that was lost or beside which another was unanswered.
Hindered(t) ==
    \/ late \/ t \in outrun
    \/ \E n \in overlapped \cup lost :
         requests[n] = "analyze" /\ sender[n].team = t

\* A workspace that says its analysis runs has one that can still be answered,
\* so that its sync button comes back -- unless one of the four crossings the
\* client has no guard for has met this team.
RunningIsServed ==
    \A t \in Teams :
      WorkspaceOf(t).pipelineStatus = "running"
      => Outstanding(t) # {} \/ Hindered(t)

\* Only a new request or the copy that createTeam kept makes a workspace
\* running: no switch, rollback, session, answer or lost socket brings back a
\* run that had ended, however requests overlap, while answers about the
\* teams are not late.
NoReturnToRunning ==
    [][\A t \in Teams :
         /\ WorkspaceOf(t).pipelineStatus # "running"
         /\ WorkspaceOf(t)'.pipelineStatus = "running"
         => requests' # requests \/ teamCreated \/ late']_vars

\* analysisOwnerTeamId names a team with an analysis after the last request
\* that was answered, so that no later answer is routed by an analysis that
\* is over.
OwnerIsWaiting == owner # Nil => Outstanding(owner) # {}

\* A run ends in every workspace, displayed or parked, that is not hindered.
RunningEnds ==
    \A t \in Teams :
      WorkspaceOf(t).pipelineStatus = "running"
      ~> WorkspaceOf(t).pipelineStatus # "running" \/ Hindered(t)
=============================================================================
