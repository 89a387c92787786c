----------------------- MODULE ClientWorkspace_proofs ------------------------
(***************************************************************************)
(* Theorems about ClientWorkspace, for any teams, sessions and requests,   *)
(* however many calls are open: requests may overlap or be lost, and calls *)
(* be answered late.  The theorems are the properties of the runs, without *)
(* a hypothesis of their own.                                              *)
(***************************************************************************)
EXTENDS ClientWorkspace, SequenceTheorems, TLAPS

\* Every request has a sender, and answers are answers to requests.
Numbering ==
    /\ requests \in Seq(Kinds)
    /\ sender \in Seq([team : Teams, session : SessionIds \cup {Nil}])
    /\ Len(sender) = Len(requests)
    /\ LastAnswered \in 0 .. Len(requests)

\* Whichever call is answered, the user's team is a team.
TeamTypes ==
    /\ team \in Teams /\ myTeams \subseteq Teams
    /\ creating \in Creations \cup {Nil}
    /\ calls \in Seq(Calls) /\ switches \in Nat /\ late \in BOOLEAN

\* The inductive invariant.
OwnerInv == Numbering /\ TeamTypes /\ OwnerIsWaiting

-----------------------------------------------------------------------------

\* What no later answer and no request touches stays true.
LEMMA QuietKeepsOwner ==
    ASSUME OwnerInv, UNCHANGED <<serviceVars, sender, owner>>
    PROVE  Numbering' /\ OwnerIsWaiting'
BY DEF OwnerInv, Numbering, OwnerIsWaiting, Outstanding, LastAnswered,
       serviceVars

LEMMA AnsweredIsSeq ==
    ASSUME TeamTypes, NEW c \in DOMAIN calls
    PROVE  /\ Answered(c) \in Seq(Calls)
           /\ \A k \in 1 .. Len(Answered(c)) :
                \E d \in 1 .. Len(calls) \ {c} : Answered(c)[k] = calls[d]
<1> DEFINE a == SubSeq(calls, 1, c - 1)
           b == SubSeq(calls, c + 1, Len(calls))
<1>1. calls \in Seq(Calls) /\ c \in 1 .. Len(calls) /\ Len(calls) \in Nat
  BY LenProperties DEF TeamTypes
<1>2. \A i \in 1 .. Len(calls) : calls[i] \in Calls
  BY <1>1, ElementOfSeq
<1>3. /\ a \in Seq(Calls) /\ Len(a) = c - 1
      /\ \A k \in 1 .. Len(a) : a[k] = calls[k]
  BY <1>1, <1>2, SubSeqProperties
<1>4. /\ b \in Seq(Calls) /\ Len(b) = Len(calls) - c
      /\ \A k \in 1 .. Len(b) : b[k] = calls[k + c]
  BY <1>1, <1>2, SubSeqProperties
<1>5. Answered(c) = a \o b
  BY DEF Answered
<1> HIDE DEF a, b
<1>6. /\ a \o b \in Seq(Calls)
      /\ Len(a \o b) = Len(a) + Len(b)
      /\ \A k \in 1 .. Len(a) + Len(b) :
           (a \o b)[k] = IF k <= Len(a) THEN a[k] ELSE b[k - Len(a)]
  <2> HIDE DEF Calls
  <2> QED
    BY <1>3, <1>4, ConcatProperties
<1>7. ASSUME NEW k \in 1 .. Len(a \o b)
      PROVE  \E d \in 1 .. Len(calls) \ {c} : (a \o b)[k] = calls[d]
  <2>1. k \in 1 .. Len(calls) - 1 /\ (k < c \/ k >= c)
    BY <1>1, <1>3, <1>4, <1>6
  <2>2. CASE k < c
    <3>1. (a \o b)[k] = calls[k]
      BY <1>1, <1>3, <1>4, <1>6, <2>1, <2>2
    <3>2. k \in 1 .. Len(calls) \ {c}
      BY <1>1, <2>1, <2>2
    <3> QED
      BY <3>1, <3>2, Zenon
  <2>3. CASE k >= c
    <3>1. /\ k - Len(a) \in 1 .. Len(b) /\ k - Len(a) + c = k + 1
          /\ ~(k <= Len(a)) /\ k \in 1 .. Len(a) + Len(b)
      BY <1>1, <1>3, <1>4, <2>1, <2>3
    <3>2. (a \o b)[k] = b[k - Len(a)] /\ b[k - Len(a)] = calls[k + 1]
      BY <1>4, <1>6, <3>1
    <3>3. k + 1 \in 1 .. Len(calls) \ {c}
      BY <1>1, <2>1, <2>3
    <3> QED
      BY <3>2, <3>3, Zenon
  <2> QED
    BY <2>1, <2>2, <2>3
<1> QED
  BY <1>5, <1>6, <1>7

\* A request is numbered, and remembers the team of its user.
LEMMA SentKeeps ==
    ASSUME OwnerInv, NEW kind \in Kinds, NEW i \in SessionIds \cup {Nil},
           Sent(kind, i)
    PROVE  /\ Numbering'
           /\ requests'[Len(requests) + 1] = kind
           /\ sender'[Len(requests) + 1].team = team
           /\ Len(requests') = Len(requests) + 1
           /\ LastAnswered' = LastAnswered
           /\ \A n \in 1 .. Len(requests) :
                requests'[n] = requests[n] /\ sender'[n] = sender[n]
<1> DEFINE R == [team |-> team, session |-> i]
<1>1. requests' = Append(requests, kind) /\ sender' = Append(sender, R)
      /\ answers' = answers
  BY DEF Sent, Ask
<1>2. R \in [team : Teams, session : SessionIds \cup {Nil}]
  BY DEF OwnerInv, TeamTypes
<1>3. /\ requests' \in Seq(Kinds) /\ Len(requests') = Len(requests) + 1
      /\ requests'[Len(requests) + 1] = kind
      /\ \A n \in 1 .. Len(requests) : requests'[n] = requests[n]
  BY <1>1, AppendProperties DEF OwnerInv, Numbering
<1>4. /\ sender' \in Seq([team : Teams, session : SessionIds \cup {Nil}])
      /\ Len(sender') = Len(sender) + 1
      /\ sender'[Len(sender) + 1] = R
      /\ \A n \in 1 .. Len(sender) : sender'[n] = sender[n]
  <2> HIDE DEF R
  <2> QED
    BY <1>1, <1>2, AppendProperties DEF OwnerInv, Numbering
<1>5. LastAnswered' = LastAnswered
  BY <1>1 DEF LastAnswered
<1>6. Len(requests) \in Nat
  BY LenProperties DEF OwnerInv, Numbering
<1> QED
  BY <1>3, <1>4, <1>5, <1>6 DEF OwnerInv, Numbering

LEMMA IdeaChatKeeps ==
    ASSUME OwnerInv, sendIdeaChat
    PROVE  OwnerInv'
<1>1. PICK i \in SessionIds \cup {Nil} :
        /\ Sent("idea_chat", i)
        /\ UNCHANGED <<team, myTeams, owner, calls, creating, switches, late>>
  BY DEF sendIdeaChat, Sent
<1>2. "idea_chat" \in Kinds
  BY DEF Kinds
<1>3. TeamTypes'
  BY <1>1 DEF OwnerInv, TeamTypes
<1>4. OwnerIsWaiting'
  <2> SUFFICES ASSUME owner' # Nil PROVE Outstanding(owner)' # {}
    BY DEF OwnerIsWaiting
  <2>1. PICK n \in Outstanding(owner) : TRUE
    BY <1>1 DEF OwnerInv, OwnerIsWaiting
  <2> QED
    BY <1>1, <1>2, <2>1, SentKeeps, LenProperties
       DEF Outstanding, OwnerInv, Numbering
<1> QED
  BY <1>1, <1>2, <1>3, <1>4, SentKeeps DEF OwnerInv

LEMMA SyncUpdateKeeps ==
    ASSUME OwnerInv, NEW attach \in BOOLEAN, runSyncUpdate(attach)
    PROVE  OwnerInv'
<1>1. PICK i \in SessionIds \cup {Nil} :
        /\ Sent("analyze", i)
        /\ owner' = team
        /\ UNCHANGED <<team, myTeams, calls, creating, switches, late>>
  BY DEF runSyncUpdate, Sent
<1>2. "analyze" \in Kinds
  BY DEF Kinds
<1>3. TeamTypes'
  BY <1>1 DEF OwnerInv, TeamTypes
<1>4. Len(requests) \in Nat
  BY LenProperties DEF OwnerInv, Numbering
<1>5. Len(requests) + 1 \in Outstanding(owner)'
  BY <1>1, <1>2, <1>4, SentKeeps DEF Outstanding, OwnerInv, Numbering
<1> QED
  BY <1>1, <1>2, <1>3, <1>5, SentKeeps DEF OwnerInv, OwnerIsWaiting

LEMMA AnsweringKeeps ==
    ASSUME OwnerInv, Answering
    PROVE  OwnerInv'
<1>1. PICK n \in 1 .. Len(requests), type \in AnswerTypes :
        handleWsMessage(n, type)
  BY DEF Answering
<1>2. /\ answers' = Append(answers, [request |-> n, type |-> type])
      /\ owner' = Nil
      /\ UNCHANGED <<requests, sender, team, myTeams, calls, creating,
                     switches, late>>
  BY <1>1 DEF handleWsMessage, Handle, Answer
<1>3. LastAnswered' \in 0 .. Len(requests)
  BY <1>1, <1>2 DEF LastAnswered
<1> QED
  BY <1>2, <1>3 DEF OwnerInv, Numbering, TeamTypes, OwnerIsWaiting

LEMMA TeamStepsKeep ==
    ASSUME OwnerInv, NEW t \in Teams, switchTeam(t) \/ createTeam(t)
    PROVE  OwnerInv'
<1>1. CASE switchTeam(t)
  <2> DEFINE r == [to |-> t, prev |-> team, nr |-> switches + 1]
  <2>1. /\ UNCHANGED <<serviceVars, sender, owner, myTeams, late>>
        /\ team' = t /\ calls' = Append(calls, r) /\ switches' = switches + 1
        /\ creating' \in {Nil, [creating EXCEPT !.named = @ \cup {t}]}
        /\ creating = Nil => creating' = Nil
    BY <1>1 DEF switchTeam, switchTeamWith, crossings
  <2>2. r \in Calls
    BY DEF OwnerInv, TeamTypes, Calls
  <2>3. creating' \in Creations \cup {Nil}
    BY <2>1 DEF OwnerInv, TeamTypes, Creations
  <2> HIDE DEF r
  <2>4. TeamTypes'
    BY <2>1, <2>2, <2>3, AppendProperties DEF OwnerInv, TeamTypes
  <2> QED
    BY <2>1, <2>4, QuietKeepsOwner DEF OwnerInv
<1>2. CASE createTeam(t)
  <2> DEFINE named == {t} \cup {calls[c].to : c \in DOMAIN calls}
  <2>1. /\ UNCHANGED <<serviceVars, sender, owner, myTeams, team, calls, late>>
        /\ creating' = [to |-> t, nr |-> switches + 1, named |-> named]
        /\ switches' = switches + 1
    BY <1>2 DEF createTeam, crossings
  <2>2. \A c \in DOMAIN calls : calls[c].to \in Teams
    <3>1. \A c \in 1 .. Len(calls) : calls[c] \in Calls
      BY ElementOfSeq DEF OwnerInv, TeamTypes
    <3> QED
      BY <3>1, LenProperties DEF Calls, OwnerInv, TeamTypes
  <2>3. named \subseteq Teams
    BY <2>2
  <2> HIDE DEF named
  <2>4. TeamTypes'
    BY <2>1, <2>3 DEF OwnerInv, TeamTypes, Creations
  <2> QED
    BY <2>1, <2>4, QuietKeepsOwner DEF OwnerInv
<1> QED
  BY <1>1, <1>2

\* A call is one of Calls.
LEMMA CallTypes ==
    ASSUME TeamTypes, NEW c \in DOMAIN calls
    PROVE  /\ calls[c].to \in Teams /\ calls[c].prev \in Teams
           /\ calls[c].nr \in Nat /\ c \in 1 .. Len(calls)
<1>1. calls[c] \in Calls /\ c \in 1 .. Len(calls)
  BY ElementOfSeq, LenProperties DEF TeamTypes
<1> QED
  BY <1>1 DEF Calls

LEMMA CallAnsweredKeeps ==
    ASSUME OwnerInv, NEW c \in DOMAIN calls, switchDone(c) \/ switchFailed(c)
    PROVE  OwnerInv'
<1>1. /\ UNCHANGED <<serviceVars, sender, owner, myTeams, creating, switches>>
      /\ calls' = Answered(c) /\ team' \in {calls[c].to, calls[c].prev}
      /\ late' \in BOOLEAN
  BY DEF switchDone, switchFailed, AnswersCall
<1>2. calls[c].to \in Teams /\ calls[c].prev \in Teams
  BY CallTypes DEF OwnerInv
<1>3. TeamTypes'
  BY <1>1, <1>2, AnsweredIsSeq DEF OwnerInv, TeamTypes
<1> QED
  BY <1>1, <1>3, QuietKeepsOwner DEF OwnerInv

LEMMA TeamCreatedKeeps ==
    ASSUME OwnerInv, teamCreated
    PROVE  OwnerInv'
<1>1. /\ UNCHANGED <<serviceVars, sender, owner, calls, switches>>
      /\ creating # Nil /\ creating' = Nil /\ team' \in creating.named
      /\ myTeams' = myTeams \cup {creating.to} /\ late' \in BOOLEAN
  BY DEF teamCreated, AnswersCall
<1>2. creating.to \in Teams /\ creating.named \subseteq Teams
  BY <1>1 DEF OwnerInv, TeamTypes, Creations
<1>3. TeamTypes'
  BY <1>1, <1>2 DEF OwnerInv, TeamTypes
<1> QED
  BY <1>1, <1>3, QuietKeepsOwner DEF OwnerInv

\* Sessions, projects and restored results leave teams and requests alone.
LEMMA SessionStepsKeep ==
    ASSUME OwnerInv,
           UNCHANGED <<serviceVars, sender, owner, team, myTeams, calls,
                       switches, late>>,
           creating' \in {Nil, creating}
    PROVE  OwnerInv'
<1>1. TeamTypes'
  BY DEF OwnerInv, TeamTypes
<1> QED
  BY <1>1, QuietKeepsOwner DEF OwnerInv

LEMMA NextOwnerInv ==
    ASSUME OwnerInv, [Next]_vars
    PROVE  OwnerInv'
<1>1. CASE sendIdeaChat
  BY <1>1, IdeaChatKeeps
<1>2. ASSUME NEW attach \in BOOLEAN, runSyncUpdate(attach) PROVE OwnerInv'
  BY <1>2, SyncUpdateKeeps
<1>3. CASE Answering
  BY <1>3, AnsweringKeeps
<1>4. CASE saveCurrentSession
  BY <1>4, SessionStepsKeep DEF saveCurrentSession, crossings
<1>5. ASSUME NEW i \in SessionIds, loadSession(i) PROVE OwnerInv'
  BY <1>5, SessionStepsKeep DEF loadSession, crossings
<1>6. ASSUME NEW n \in restores, restoreSessionFromRag(n) PROVE OwnerInv'
  BY <1>6, SessionStepsKeep DEF restoreSessionFromRag, crossings
<1>7. CASE startNewProject
  BY <1>7, SessionStepsKeep DEF startNewProject, crossings
<1>8. ASSUME NEW t \in Teams, switchTeam(t) \/ createTeam(t) PROVE OwnerInv'
  BY <1>8, TeamStepsKeep
<1>9. ASSUME NEW c \in DOMAIN calls, switchDone(c) \/ switchFailed(c)
      PROVE  OwnerInv'
  BY <1>9, CallAnsweredKeeps
<1>10. CASE teamCreated
  BY <1>10, TeamCreatedKeeps
<1>11. CASE teamNotCreated
  BY <1>11, SessionStepsKeep DEF teamNotCreated, crossings
<1>12. CASE connectionLost \/ UNCHANGED vars
  BY <1>12, SessionStepsKeep DEF connectionLost, vars, store, crossings
<1> QED
  BY <1>1, <1>2, <1>3, <1>4, <1>5, <1>6, <1>7, <1>8, <1>9, <1>10, <1>11,
     <1>12 DEF Next

LEMMA InitOwnerInv ==
    ASSUME Init
    PROVE  OwnerInv
<1>1. Numbering
  BY EmptySeq DEF Init, ServiceInit, Numbering, LastAnswered
<1>2. TeamTypes
  BY WorkspaceAssumption, EmptySeq DEF Init, TeamTypes
<1> QED
  BY <1>1, <1>2 DEF Init, OwnerInv, OwnerIsWaiting

\* analysisOwnerTeamId names a team one of whose analyses can still be answered
\* (_handleWsMessage and runSyncUpdate, whatever the user switches).
THEOREM OwnerWaits == Spec => []OwnerIsWaiting
<1>1. Init => OwnerInv
  BY InitOwnerInv
<1>2. OwnerInv /\ [Next]_vars => OwnerInv'
  BY NextOwnerInv
<1>3. OwnerInv => OwnerIsWaiting
  BY DEF OwnerInv
<1> QED
  BY <1>1, <1>2, <1>3, PTL DEF Spec

-----------------------------------------------------------------------------
(***************************************************************************)
(* What is displayed belongs to the user's team, until an answer about the *)
(* teams comes late.  A team that waits for an answer or for the end of a  *)
(* call is parked as a whole, so that no bare patch is restored.           *)
(***************************************************************************)

StoreTypes ==
    /\ ws \in Workspaces /\ sessions \in [SessionIds -> SavedSessions \cup {Nil}]
    /\ parked \in [Teams -> ParkedSpaces \cup {Nil}]
    /\ restores \subseteq Nat /\ owner \in Teams \cup {Nil}

\* The last call, as long as it is open, is about the team that is displayed;
\* if it creates a team, the displayed one is parked.
LastCall ==
    /\ \A c \in 1 .. Len(calls) :
         /\ calls[c].nr <= switches
         /\ calls[c].nr = switches => calls[c].to = team
    /\ \A c, d \in 1 .. Len(calls) :
         calls[c].nr = switches /\ calls[d].nr = switches => c = d
    /\ creating # Nil =>
         /\ creating.nr <= switches
         /\ creating.nr = switches =>
              /\ parked[team] # Nil
              /\ \A c \in 1 .. Len(calls) : calls[c].nr # switches

\* Whatever is parked is whole, and the work of its team.
ParkedWhole ==
    /\ \A t \in Teams :
         parked[t] # Nil => parked[t].whole /\ parked[t].space.of = t
    /\ owner \notin {Nil, team} => parked[owner] # Nil

DisplayInv == StoreTypes /\ LastCall /\ ParkedWhole /\ ws.of = team

LEMMA InitDisplay ==
    ASSUME Init
    PROVE  DisplayInv
<1>1. LastCall
  BY DEF Init, LastCall
<1> QED
  BY <1>1, WorkspaceAssumption
     DEF Init, DisplayInv, StoreTypes, ParkedWhole, BLANK_WORKSPACE, Workspaces

\* A step that touches neither the teams, what is parked nor the owner only
\* has to keep the workspace a workspace of its team.
LEMMA SameTeams ==
    ASSUME DisplayInv,
           UNCHANGED <<team, parked, owner, calls, creating, switches>>,
           ws' \in Workspaces, ws'.of = ws.of,
           sessions' \in [SessionIds -> SavedSessions \cup {Nil}],
           restores' \subseteq Nat
    PROVE  DisplayInv'
BY DEF DisplayInv, StoreTypes, LastCall, ParkedWhole

LEMMA OpenedSession ==
    ASSUME DisplayInv, OwnerInv, NEW i \in SessionIds \cup {Nil}, OpenSession(i)
    PROVE  sessions' \in [SessionIds -> SavedSessions \cup {Nil}]
<1> DEFINE r == [team |-> team, resultData |-> 0, started |-> FALSE]
<1>1. r \in SavedSessions
  BY DEF OwnerInv, TeamTypes, SavedSessions
<1>2. UNCHANGED sessions \/ sessions' = [sessions EXCEPT ![i] = r]
  BY DEF OpenSession
<1> HIDE DEF r
<1> QED
  BY <1>1, <1>2 DEF DisplayInv, StoreTypes

LEMMA IdeaChatDisplay ==
    ASSUME DisplayInv, OwnerInv, sendIdeaChat
    PROVE  DisplayInv'
<1>1. PICK i \in SessionIds \cup {Nil} :
        /\ OpenSession(i) \/ UNCHANGED sessions
        /\ ws' = [ws EXCEPT !.currentSessionId = i, !.started = TRUE]
        /\ UNCHANGED <<team, parked, owner, calls, creating, restores, switches>>
  BY DEF sendIdeaChat
<1>2. sessions' \in [SessionIds -> SavedSessions \cup {Nil}]
  BY <1>1, OpenedSession DEF DisplayInv, StoreTypes
<1>3. ws' \in Workspaces /\ ws'.of = ws.of
  BY <1>1 DEF DisplayInv, StoreTypes, Workspaces
<1> QED
  BY <1>1, <1>2, <1>3, SameTeams DEF DisplayInv, StoreTypes

LEMMA SyncUpdateDisplay ==
    ASSUME DisplayInv, OwnerInv, NEW attach \in BOOLEAN, runSyncUpdate(attach)
    PROVE  DisplayInv'
<1>1. PICK i \in SessionIds \cup {Nil} :
        /\ OpenSession(i) \/ UNCHANGED sessions
        /\ ws' = [ws EXCEPT !.currentSessionId = i, !.started = @ \/ attach,
                            !.pipelineStatus = "running"]
        /\ owner' = team
        /\ UNCHANGED <<team, parked, calls, creating, restores, switches>>
  BY DEF runSyncUpdate
<1>2. sessions' \in [SessionIds -> SavedSessions \cup {Nil}]
  BY <1>1, OpenedSession DEF DisplayInv, StoreTypes
<1>3. ws' \in Workspaces /\ ws'.of = ws.of
  BY <1>1 DEF DisplayInv, StoreTypes, Workspaces
<1> QED
  BY <1>1, <1>2, <1>3
     DEF DisplayInv, StoreTypes, LastCall, ParkedWhole, OwnerInv, TeamTypes

\* A late answer is put into a workspace that was parked whole.
LEMMA PatchedIsWhole ==
    ASSUME DisplayInv, OwnerInv, isBackground, NEW result \in Nat,
           NEW status \in {"done", "error"},
           parked' = [parked EXCEPT ![owner] = Patched(owner, status, result)],
           UNCHANGED ws
    PROVE  /\ ws' \in Workspaces /\ ws'.of = ws.of
           /\ parked' \in [Teams -> ParkedSpaces \cup {Nil}]
           /\ \A t \in Teams : parked'[t] # Nil =>
                parked[t] # Nil /\ parked'[t].whole /\ parked'[t].space.of = t
           /\ \A t \in Teams : parked[t] # Nil => parked'[t] # Nil
<1>1. owner \in Teams /\ parked[owner] # Nil /\ parked[owner] \in ParkedSpaces
      /\ parked[owner].whole /\ parked[owner].space.of = owner
  BY DEF DisplayInv, isBackground, StoreTypes, ParkedWhole
<1> DEFINE p == [parked[owner] EXCEPT !.space.pipelineStatus = status,
                                      !.space.resultData = result]
<1>2. p \in ParkedSpaces /\ p.whole /\ p.space.of = owner
  BY <1>1 DEF ParkedSpaces, Workspaces
<1>3. parked' = [parked EXCEPT ![owner] = p]
  BY <1>1 DEF Patched
<1> HIDE DEF p
<1> QED
  BY <1>1, <1>2, <1>3, NilAssumption DEF DisplayInv, StoreTypes, ParkedWhole

LEMMA AnsweringDisplay ==
    ASSUME DisplayInv, OwnerInv, Answering
    PROVE  DisplayInv'
<1>1. PICK n \in 1 .. Len(requests), type \in AnswerTypes :
        handleWsMessage(n, type)
  BY DEF Answering
<1>2. /\ owner' = Nil
      /\ UNCHANGED <<team, sessions, calls, creating, restores, switches>>
  BY <1>1 DEF handleWsMessage, Handle
<1>3. n \in Nat
  BY <1>1
<1>4. \/ BackgroundResult(n) \/ BackgroundError
      \/ ForegroundAnalysis(n) \/ ForegroundChat(n) \/ ForegroundError
  BY <1>1 DEF handleWsMessage, Handle
<1>5. isBackground => ResultOfParked(owner) \in Nat
  BY DEF isBackground, ResultOfParked, DisplayInv, StoreTypes, ParkedWhole,
         ParkedSpaces, Workspaces
<1>6. /\ ws' \in Workspaces /\ ws'.of = ws.of
      /\ parked' \in [Teams -> ParkedSpaces \cup {Nil}]
      /\ \A t \in Teams : parked'[t] # Nil =>
           parked'[t].whole /\ parked'[t].space.of = t
      /\ \A t \in Teams : parked[t] # Nil => parked'[t] # Nil
  <2>1. CASE BackgroundResult(n)
    BY <1>3, <2>1, PatchedIsWhole DEF BackgroundResult
  <2>2. CASE BackgroundError
    BY <1>5, <2>2, PatchedIsWhole DEF BackgroundError
  <2>3. CASE ForegroundAnalysis(n) \/ ForegroundChat(n) \/ ForegroundError
    BY <1>3, <2>3
       DEF ForegroundAnalysis, ForegroundChat, ForegroundError, processResult,
           DisplayInv, StoreTypes, ParkedWhole, Workspaces
  <2> QED
    BY <1>4, <2>1, <2>2, <2>3
<1> QED
  BY <1>2, <1>6
     DEF DisplayInv, StoreTypes, LastCall, ParkedWhole, OwnerInv, TeamTypes

LEMMA SessionsDisplay ==
    ASSUME DisplayInv, OwnerInv,
           \/ saveCurrentSession
           \/ \E i \in SessionIds : loadSession(i)
           \/ \E n \in restores : restoreSessionFromRag(n)
           \/ startNewProject
    PROVE  DisplayInv'
<1>1. CASE saveCurrentSession
  <2>1. /\ sessions' = [sessions EXCEPT
                           ![ws.currentSessionId].resultData = ws.resultData,
                           ![ws.currentSessionId].started = ws.started]
        /\ ws.currentSessionId \in SessionIds
        /\ sessions[ws.currentSessionId] \in SavedSessions
        /\ ws.resultData \in Nat /\ ws.started \in BOOLEAN
    BY <1>1 DEF saveCurrentSession, DisplayInv, StoreTypes, Workspaces
  <2>2. sessions' \in [SessionIds -> SavedSessions \cup {Nil}]
    BY <2>1 DEF DisplayInv, StoreTypes, SavedSessions
  <2> QED
    BY <1>1, <2>2, SameTeams DEF saveCurrentSession, DisplayInv, StoreTypes
<1>2. ASSUME NEW i \in SessionIds, loadSession(i) PROVE DisplayInv'
  <2>1. /\ sessions[i] \in SavedSessions /\ team \in Teams
        /\ restores' \in {restores \cup {sessions[i].resultData}, restores}
        /\ UNCHANGED <<team, sessions, parked, owner, calls, creating, switches>>
        /\ ws' = [of |-> team, currentSessionId |-> i,
                  resultData |-> sessions[i].resultData,
                  started |-> sessions[i].started,
                  pipelineStatus |->
                    IF sessions[i].resultData # 0 THEN "done" ELSE "idle"]
    BY <1>2 DEF loadSession, DisplayInv, OwnerInv, TeamTypes, StoreTypes
  <2>2. ws' \in Workspaces /\ ws'.of = ws.of /\ restores' \subseteq Nat
    BY <2>1 DEF DisplayInv, StoreTypes, Workspaces, SavedSessions
  <2> QED
    BY <2>1, <2>2, SameTeams DEF DisplayInv, StoreTypes
<1>3. ASSUME NEW n \in restores, restoreSessionFromRag(n) PROVE DisplayInv'
  <2>1. ws' \in Workspaces /\ ws'.of = ws.of
    BY <1>3 DEF restoreSessionFromRag, processResult, DisplayInv, StoreTypes,
                Workspaces
  <2> QED
    BY <1>3, <2>1, SameTeams DEF restoreSessionFromRag, DisplayInv, StoreTypes
<1>4. CASE startNewProject
  <2>1. ws' \in Workspaces /\ ws'.of = ws.of
    BY <1>4 DEF startNewProject, BLANK_WORKSPACE, DisplayInv, OwnerInv,
                TeamTypes, Workspaces
  <2> QED
    BY <1>4, <2>1, SameTeams DEF startNewProject, DisplayInv, StoreTypes
<1> QED
  BY <1>1, <1>2, <1>3, <1>4

\* After parking, the displayed team is parked whole.
LEMMA ParkKeeps ==
    ASSUME DisplayInv, OwnerInv
    PROVE  /\ Park \in [Teams -> ParkedSpaces \cup {Nil}] /\ Park[team] # Nil
           /\ \A t \in Teams : parked[t] # Nil => Park[t] # Nil
           /\ \A t \in Teams : Park[t] # Nil =>
                Park[t].whole /\ Park[t].space.of = t
<1> DEFINE p == [whole |-> TRUE, space |-> ws, list |-> OfTeam(sessions, team)]
<1>1. OfTeam(sessions, team) \in [SessionIds -> SavedSessions \cup {Nil}]
  BY DEF OfTeam, DisplayInv, StoreTypes
<1>2. p \in ParkedSpaces /\ p.whole /\ p.space.of = team
  BY <1>1 DEF ParkedSpaces, DisplayInv, StoreTypes
<1>3. Park = [parked EXCEPT ![team] = p] /\ team \in Teams
  BY DEF Park, OwnerInv, TeamTypes
<1> HIDE DEF p
<1> QED
  BY <1>2, <1>3, NilAssumption DEF DisplayInv, StoreTypes, ParkedWhole

\* What is restored is the work of the team.
LEMMA RestoreKeeps ==
    ASSUME DisplayInv, NEW t \in Teams,
           NEW spaces \in [Teams -> ParkedSpaces \cup {Nil}],
           spaces[t] # Nil => spaces[t].whole /\ spaces[t].space.of = t,
           Restore(spaces, t)
    PROVE  /\ ws' \in Workspaces /\ ws'.of = t
           /\ sessions' \in [SessionIds -> SavedSessions \cup {Nil}]
<1>1. OfTeam(sessions, t) \in [SessionIds -> SavedSessions \cup {Nil}]
  BY DEF OfTeam, DisplayInv, StoreTypes
<1>2. CASE spaces[t] = Nil
  <2>1. ws' = BLANK_WORKSPACE(t) /\ sessions' = OfTeam(sessions, t)
    BY <1>2 DEF Restore
  <2>2. BLANK_WORKSPACE(t) \in Workspaces /\ BLANK_WORKSPACE(t).of = t
    BY DEF BLANK_WORKSPACE, Workspaces
  <2> QED
    BY <1>1, <2>1, <2>2
<1>3. CASE spaces[t] # Nil
  <2>1. spaces[t] \in ParkedSpaces
    BY <1>3
  <2> QED
    BY <1>3, <2>1 DEF Restore, ParkedSpaces
<1> QED
  BY <1>2, <1>3

\* The switch is the last call.
LEMMA SwitchDisplay ==
    ASSUME DisplayInv, OwnerInv, NEW t \in Teams, switchTeam(t)
    PROVE  DisplayInv'
<1> DEFINE r == [to |-> t, prev |-> team, nr |-> switches + 1]
<1>1. /\ parked' = Park /\ team' = t /\ Restore(parked', t)
      /\ calls' = Append(calls, r) /\ switches' = switches + 1
      /\ UNCHANGED <<owner, restores>>
  BY DEF switchTeam, switchTeamWith
<1>2. creating' # Nil => creating # Nil /\ creating'.nr = creating.nr
  BY DEF switchTeam, switchTeamWith, OwnerInv, TeamTypes, Creations
<1>3. calls \in Seq(Calls) /\ r \in Calls /\ switches \in Nat
      /\ Len(calls) \in Nat /\ r.nr = switches + 1 /\ r.to = t
  BY LenProperties DEF OwnerInv, TeamTypes, Calls
<1> HIDE DEF r
<1>4. /\ Len(calls') = Len(calls) + 1 /\ calls'[Len(calls) + 1] = r
      /\ \A c \in 1 .. Len(calls) : calls'[c] = calls[c]
  BY <1>1, <1>3, AppendProperties
<1>5. \A c \in 1 .. Len(calls) : calls'[c].nr \in Nat /\ calls'[c].nr <= switches
  BY <1>3, <1>4, CallTypes DEF OwnerInv, DisplayInv, LastCall
<1>6. /\ ws' \in Workspaces /\ ws'.of = t
      /\ sessions' \in [SessionIds -> SavedSessions \cup {Nil}]
  BY <1>1, ParkKeeps, RestoreKeeps
<1>7. ParkedWhole'
  BY <1>1, ParkKeeps DEF ParkedWhole, DisplayInv, StoreTypes
<1>8. StoreTypes'
  BY <1>1, <1>6, ParkKeeps DEF StoreTypes, DisplayInv
<1>9. \A c \in 1 .. Len(calls') : calls'[c].nr <= switches'
        /\ (calls'[c].nr = switches' => c = Len(calls) + 1 /\ calls'[c].to = t)
  BY <1>1, <1>3, <1>4, <1>5
<1>10. creating' # Nil => creating'.nr < switches'
  <2>1. creating # Nil => creating.nr \in Nat /\ creating.nr <= switches
    BY DEF OwnerInv, TeamTypes, Creations, DisplayInv, LastCall
  <2> QED
    BY <1>1, <1>2, <1>3, <2>1
<1>11. creating' # Nil => creating'.nr \in Nat
  BY <1>2 DEF OwnerInv, TeamTypes, Creations
<1>12. LastCall'
  BY <1>1, <1>3, <1>9, <1>10, <1>11 DEF LastCall
<1> QED
  BY <1>1, <1>6, <1>7, <1>8, <1>12 DEF DisplayInv

\* The last call is answered: the team is the displayed one, or the rollback
\* displays the team before.
LEMMA CallAnsweredDisplay ==
    ASSUME DisplayInv, OwnerInv, NEW c \in DOMAIN calls, calls[c].nr = switches,
           switchDone(c) \/ switchFailed(c)
    PROVE  DisplayInv'
<1>1. /\ c \in 1 .. Len(calls) /\ calls[c].to = team
      /\ calls[c].prev \in Teams
      /\ \A d \in 1 .. Len(calls) \ {c} :
           calls[d].nr <= switches /\ calls[d].nr # switches
      /\ creating # Nil => creating.nr <= switches /\ creating.nr # switches
  BY CallTypes DEF OwnerInv, DisplayInv, LastCall
<1>2. /\ calls' = Answered(c)
      /\ UNCHANGED <<creating, owner, restores, switches>>
  BY DEF switchDone, switchFailed, AnswersCall
<1>3. \A k \in 1 .. Len(calls') :
        calls'[k].nr <= switches /\ calls'[k].nr # switches
  BY <1>1, <1>2, AnsweredIsSeq, Zenon DEF OwnerInv
<1>4. LastCall'
  BY <1>1, <1>2, <1>3 DEF LastCall
<1>5. CASE switchDone(c)
  <2>1. team' = team /\ UNCHANGED <<ws, sessions, parked>>
    BY <1>1, <1>5 DEF switchDone
  <2> QED
    BY <1>2, <1>4, <2>1 DEF DisplayInv, StoreTypes, ParkedWhole
<1>6. CASE switchFailed(c)
  <2> DEFINE t == calls[c].prev
  <2>1. /\ team' = t /\ parked' = Park /\ Restore(parked', t) /\ t \in Teams
    BY <1>1, <1>6 DEF switchFailed
  <2> HIDE DEF t
  <2>2. /\ ws' \in Workspaces /\ ws'.of = t
        /\ sessions' \in [SessionIds -> SavedSessions \cup {Nil}]
    BY <2>1, ParkKeeps, RestoreKeeps
  <2>3. ParkedWhole'
    BY <1>2, <2>1, ParkKeeps DEF ParkedWhole, DisplayInv, StoreTypes
  <2>4. StoreTypes'
    BY <1>2, <2>1, <2>2, ParkKeeps DEF StoreTypes, DisplayInv
  <2> QED
    BY <1>4, <2>1, <2>2, <2>3, <2>4 DEF DisplayInv
<1> QED
  BY <1>5, <1>6

LEMMA CreateDisplay ==
    ASSUME DisplayInv, OwnerInv, NEW t \in Teams, createTeam(t)
    PROVE  DisplayInv'
<1>1. /\ parked' = Park /\ creating'.nr = switches + 1
      /\ switches' = switches + 1 /\ switches \in Nat
      /\ UNCHANGED <<team, ws, sessions, owner, calls, restores>>
  BY DEF createTeam, OwnerInv, TeamTypes
<1>2. \A c \in 1 .. Len(calls) : calls[c].nr \in Nat /\ calls[c].nr <= switches
  BY CallTypes DEF OwnerInv, DisplayInv, LastCall
<1>3. ParkedWhole' /\ StoreTypes'
  BY <1>1, ParkKeeps DEF ParkedWhole, StoreTypes, DisplayInv
<1>4. parked'[team] # Nil
  BY <1>1, ParkKeeps
<1>5. LastCall'
  BY <1>1, <1>2, <1>4 DEF LastCall
<1> QED
  BY <1>1, <1>3, <1>5 DEF DisplayInv

\* When the creation is the last call, the team it leaves is parked.
LEMMA TeamCreatedDisplay ==
    ASSUME DisplayInv, OwnerInv, teamCreated, creating.nr = switches
    PROVE  DisplayInv'
<1>1. PICK t \in creating.named : team' = t /\ Restore(parked, t)
  BY DEF teamCreated
<1>2. /\ creating # Nil /\ creating' = Nil
      /\ UNCHANGED <<parked, owner, calls, restores, switches>>
  BY DEF teamCreated, AnswersCall
<1>3. t \in Teams
  BY <1>2 DEF OwnerInv, TeamTypes, Creations
<1>4. /\ parked[team] # Nil
      /\ \A c \in 1 .. Len(calls) : calls[c].nr # switches
  BY <1>2 DEF DisplayInv, LastCall
<1>5. /\ ws' \in Workspaces /\ ws'.of = t
      /\ sessions' \in [SessionIds -> SavedSessions \cup {Nil}]
  BY <1>1, <1>3, RestoreKeeps DEF DisplayInv, StoreTypes, ParkedWhole
<1>6. ParkedWhole' /\ StoreTypes'
  BY <1>1, <1>2, <1>4, <1>5 DEF ParkedWhole, StoreTypes, DisplayInv
<1>7. LastCall'
  BY <1>2, <1>4 DEF DisplayInv, LastCall
<1> QED
  BY <1>1, <1>5, <1>6, <1>7 DEF DisplayInv

LEMMA LateStays ==
    ASSUME OwnerInv, [Next]_vars, late
    PROVE  late'
<1>1. CASE Answering \/ sendIdeaChat \/ \E attach \in BOOLEAN : runSyncUpdate(attach)
  BY <1>1 DEF sendIdeaChat, runSyncUpdate, Sent, Answering, handleWsMessage,
              Handle
<1>2. CASE \/ teamCreated
           \/ \E c \in DOMAIN calls : switchDone(c) \/ switchFailed(c)
  BY <1>2 DEF teamCreated, switchDone, switchFailed, AnswersCall
<1>3. CASE \/ teamNotCreated \/ connectionLost \/ UNCHANGED vars
           \/ \E t \in Teams : switchTeam(t) \/ createTeam(t)
  BY <1>3 DEF switchTeam, switchTeamWith, createTeam, teamNotCreated,
              connectionLost, vars, crossings
<1>4. CASE \/ saveCurrentSession \/ startNewProject
           \/ \E i \in SessionIds : loadSession(i)
           \/ \E n \in restores : restoreSessionFromRag(n)
  BY <1>4 DEF saveCurrentSession, loadSession, restoreSessionFromRag,
              startNewProject, crossings
<1> QED
  BY <1>1, <1>2, <1>3, <1>4 DEF Next

\* An answer that is not late is that to the last call.
LEMMA NextDisplay ==
    ASSUME late \/ DisplayInv, OwnerInv, [Next]_vars
    PROVE  late' \/ DisplayInv'
<1>0. SUFFICES ASSUME ~late' PROVE DisplayInv'
  OBVIOUS
<1>1. ASSUME NEW c \in DOMAIN calls, switchDone(c) \/ switchFailed(c)
      PROVE  DisplayInv'
  <2>1. late' = (late \/ calls[c].nr # switches)
    BY <1>1 DEF switchDone, switchFailed, AnswersCall
  <2> QED
    BY <1>0, <1>1, <2>1, CallAnsweredDisplay
<1>2. CASE teamCreated
  <2>1. late' = (late \/ creating.nr # switches)
    BY <1>2 DEF teamCreated, AnswersCall
  <2> QED
    BY <1>0, <1>2, <2>1, TeamCreatedDisplay
<1>3. CASE /\ \A c \in DOMAIN calls : ~switchDone(c) /\ ~switchFailed(c)
           /\ ~teamCreated
  <2>1. late' = late
    BY <1>3 DEF Next, sendIdeaChat, runSyncUpdate, Sent, Answering,
       handleWsMessage, Handle, connectionLost, saveCurrentSession, loadSession,
       restoreSessionFromRag, startNewProject, switchTeam, switchTeamWith,
       createTeam, teamNotCreated, vars, crossings
  <2>2. DisplayInv
    BY <1>0, <2>1
  <2>3. CASE sendIdeaChat
    BY <2>2, <2>3, IdeaChatDisplay
  <2>4. ASSUME NEW attach \in BOOLEAN, runSyncUpdate(attach) PROVE DisplayInv'
    BY <2>2, <2>4, SyncUpdateDisplay
  <2>5. CASE Answering
    BY <2>2, <2>5, AnsweringDisplay
  <2>6. CASE \/ saveCurrentSession \/ startNewProject
             \/ \E i \in SessionIds : loadSession(i)
             \/ \E n \in restores : restoreSessionFromRag(n)
    BY <2>2, <2>6, SessionsDisplay
  <2>7. ASSUME NEW t \in Teams, switchTeam(t) PROVE DisplayInv'
    BY <2>2, <2>7, SwitchDisplay
  <2>8. ASSUME NEW t \in Teams, createTeam(t) PROVE DisplayInv'
    BY <2>2, <2>8, CreateDisplay
  <2>9. CASE teamNotCreated
    BY <2>2, <2>9
       DEF teamNotCreated, DisplayInv, StoreTypes, LastCall, ParkedWhole
  <2>10. CASE connectionLost \/ UNCHANGED vars
    BY <2>2, <2>10 DEF connectionLost, vars, store, DisplayInv, StoreTypes,
                       LastCall, ParkedWhole
  <2> QED
    BY <1>3, <2>3, <2>4, <2>5, <2>6, <2>7, <2>8, <2>9, <2>10 DEF Next
<1> QED
  BY <1>1, <1>2, <1>3

\* Until an answer about the teams comes late, the user sees the work of the
\* team, and each team keeps its own (switchTeam, its rollback, createTeam and
\* _updateParkedWorkspace), however many calls are open.
THEOREM WorkspaceFollowsTeam == Spec => []WorkspaceOfActiveTeam
<1>1. OwnerInv /\ (late \/ DisplayInv) /\ [Next]_vars
        => OwnerInv' /\ (late' \/ DisplayInv')
  BY NextOwnerInv, NextDisplay
<1>2. Init => OwnerInv /\ (late \/ DisplayInv)
  BY InitOwnerInv, InitDisplay
<1>3. late \/ DisplayInv => WorkspaceOfActiveTeam
  BY DEF DisplayInv, ParkedWhole, WorkspaceOfActiveTeam
<1> QED
  BY <1>1, <1>2, <1>3, PTL DEF Spec

-----------------------------------------------------------------------------
(***************************************************************************)
(* Runs.  A workspace becomes running by a request only, or by the copy of *)
(* createTeam; and a running one is still to be answered, unless the team  *)
(* is hindered.                                                            *)
(***************************************************************************)

Running(t) == WorkspaceOf(t).pipelineStatus = "running"

\* A workspace that is displayed before and after, and does not start to run.
LEMMA DisplayedStatus ==
    ASSUME UNCHANGED parked, ws'.of = ws.of,
           ws'.pipelineStatus = "running" => ws.pipelineStatus = "running",
           NEW t \in Teams, Running(t)'
    PROVE  Running(t)
BY DEF Running, WorkspaceOf

\* Parking and restoring move a workspace without changing it.
LEMMA MovedStatus ==
    ASSUME DisplayInv, OwnerInv, parked' = Park,
           NEW u \in Teams, Restore(parked', u),
           NEW t \in Teams, Running(t)'
    PROVE  Running(t)
<1> DEFINE p == [whole |-> TRUE, space |-> ws, list |-> OfTeam(sessions, team)]
<1>1. /\ parked' = [parked EXCEPT ![team] = p] /\ team \in Teams
      /\ parked \in [Teams -> ParkedSpaces \cup {Nil}] /\ p.space = ws
      /\ ws.of = team
  BY DEF Park, OwnerInv, TeamTypes, DisplayInv, StoreTypes
<1> HIDE DEF p
<1>2. parked'[team] # Nil /\ parked'[team].space = ws
  BY <1>1, ParkKeeps
<1>3. \A x \in Teams \ {team} : parked'[x] = parked[x]
  BY <1>1
<1>4. parked' \in [Teams -> ParkedSpaces \cup {Nil}]
      /\ \A x \in Teams : parked'[x] # Nil =>
           parked'[x].whole /\ parked'[x].space.of = x
  BY ParkKeeps
<1>5. ws'.of = u
  BY <1>4, RestoreKeeps
<1>6. parked'[u] # Nil => ws' = parked'[u].space
  BY <1>4 DEF Restore
<1>7. parked'[u] = Nil => ws'.pipelineStatus = "idle"
  BY DEF Restore, BLANK_WORKSPACE
<1>8. CASE t = u
  <2>1. ws'.pipelineStatus = "running"
    BY <1>5, <1>8 DEF Running, WorkspaceOf
  <2>2. parked'[t] # Nil /\ parked'[t].space.pipelineStatus = "running"
    BY <1>6, <1>7, <1>8, <2>1
  <2> QED
    BY <1>1, <1>2, <1>3, <2>2 DEF Running, WorkspaceOf
<1>9. CASE t # u
  <2>1. (IF parked'[t] # Nil THEN parked'[t].space ELSE BLANK_WORKSPACE(t))
          .pipelineStatus = "running"
    BY <1>5, <1>9 DEF Running, WorkspaceOf
  <2>2. parked'[t] # Nil /\ parked'[t].space.pipelineStatus = "running"
    BY <2>1 DEF BLANK_WORKSPACE
  <2> QED
    BY <1>1, <1>2, <1>3, <2>2 DEF Running, WorkspaceOf
<1> QED
  BY <1>8, <1>9

\* An answer only ends runs.
LEMMA AnswerStatus ==
    ASSUME DisplayInv, OwnerInv, NEW n \in 1 .. Len(requests),
           NEW type \in AnswerTypes, handleWsMessage(n, type),
           NEW t \in Teams, Running(t)'
    PROVE  /\ Running(t)
           /\ requests[n] = "analyze" => owner # t
<1>1. \/ BackgroundResult(n) \/ BackgroundError
      \/ ForegroundAnalysis(n) \/ ForegroundChat(n) \/ ForegroundError
  BY DEF handleWsMessage, Handle
<1>2. /\ ws \in Workspaces /\ ws.of = team
      /\ parked \in [Teams -> ParkedSpaces \cup {Nil}]
      /\ owner \in Teams \cup {Nil}
  BY DEF DisplayInv, StoreTypes
<1>3. CASE BackgroundResult(n) \/ BackgroundError
  <2>1. PICK status \in {"done", "error"}, result \in {n, ResultOfParked(owner)} :
          parked' = [parked EXCEPT ![owner] = Patched(owner, status, result)]
    <3>1. CASE BackgroundResult(n)
      BY <3>1 DEF BackgroundResult
    <3>2. CASE BackgroundError
      BY <3>2 DEF BackgroundError
    <3> QED
      BY <1>3, <3>1, <3>2
  <2>2. owner \in Teams /\ owner # team /\ parked[owner] # Nil /\ ws' = ws
    BY <1>2, <1>3 DEF BackgroundResult, BackgroundError, isBackground,
                      DisplayInv, ParkedWhole
  <2> DEFINE p == [parked[owner] EXCEPT !.space.pipelineStatus = status,
                                        !.space.resultData = result]
  <2>3. parked' = [parked EXCEPT ![owner] = p]
    BY <2>1, <2>2 DEF Patched
  <2>4. p.space.pipelineStatus # "running"
    <3>1. parked[owner] \in ParkedSpaces
      BY <1>2, <2>2
    <3> QED
      BY <3>1 DEF ParkedSpaces, Workspaces
  <2>5. parked'[owner] = p /\ \A x \in Teams \ {owner} : parked'[x] = parked[x]
    BY <1>2, <2>2, <2>3
  <2> HIDE DEF p
  <2>6. t # owner
    <3> SUFFICES ASSUME t = owner PROVE FALSE
      OBVIOUS
    <3>1. WorkspaceOf(t)' \in {p.space, BLANK_WORKSPACE(t)}
      BY <1>2, <2>2, <2>5 DEF WorkspaceOf
    <3> QED
      BY <2>4, <3>1 DEF Running, BLANK_WORKSPACE
  <2> QED
    BY <2>2, <2>5, <2>6 DEF Running, WorkspaceOf
<1>4. CASE ForegroundAnalysis(n) \/ ForegroundChat(n) \/ ForegroundError
  <2>1. UNCHANGED parked /\ ws'.of = ws.of /\ owner \in {Nil, team}
        /\ (ws'.pipelineStatus = "running" => ws.pipelineStatus = "running")
    BY <1>2, <1>4 DEF ForegroundAnalysis, ForegroundChat, ForegroundError,
                      processResult, isBackground, Workspaces
  <2>2. requests[n] = "analyze" => ws'.pipelineStatus # "running"
    BY <1>2, <1>4 DEF ForegroundAnalysis, ForegroundChat, ForegroundError,
                      processResult, Workspaces
  <2>3. requests[n] = "analyze" => t # team
    BY <1>2, <2>1, <2>2 DEF Running, WorkspaceOf
  <2> QED
    BY <2>1, <2>3, DisplayedStatus, WorkspaceAssumption
<1> QED
  BY <1>1, <1>3, <1>4

\* A step that sends nothing, and restores no copy of createTeam, starts no
\* run.
LEMMA UnsentStatus ==
    ASSUME DisplayInv, OwnerInv, [Next]_vars, ~teamCreated,
           ~sendIdeaChat, \A attach \in BOOLEAN : ~runSyncUpdate(attach),
           NEW t \in Teams, Running(t)'
    PROVE  Running(t)
<1>1. CASE Answering
  BY <1>1, AnswerStatus DEF Answering
<1>2. CASE saveCurrentSession
  BY <1>2, DisplayedStatus DEF saveCurrentSession
<1>3. ASSUME NEW i \in SessionIds, loadSession(i) PROVE Running(t)
  BY <1>3, DisplayedStatus DEF loadSession, DisplayInv
<1>4. ASSUME NEW n \in restores, restoreSessionFromRag(n) PROVE Running(t)
  BY <1>4, DisplayedStatus
     DEF restoreSessionFromRag, processResult, DisplayInv, StoreTypes, Workspaces
<1>5. CASE startNewProject
  BY <1>5, DisplayedStatus DEF startNewProject, BLANK_WORKSPACE, DisplayInv
<1>6. ASSUME NEW u \in Teams, switchTeam(u) PROVE Running(t)
  BY <1>6, MovedStatus DEF switchTeam, switchTeamWith
<1>7. ASSUME NEW u \in Teams, createTeam(u) PROVE Running(t)
  <2>1. /\ ws' = ws /\ ws.of = team /\ team \in Teams
        /\ \A x \in Teams \ {team} : parked'[x] = parked[x]
    BY <1>7 DEF createTeam, Park, DisplayInv, StoreTypes, OwnerInv, TeamTypes
  <2> QED
    BY <2>1 DEF Running, WorkspaceOf
<1>8. ASSUME NEW c \in DOMAIN calls, switchDone(c) PROVE Running(t)
  BY <1>8, DisplayedStatus DEF switchDone
<1>9. ASSUME NEW c \in DOMAIN calls, switchFailed(c) PROVE Running(t)
  <2>1. calls[c].prev \in Teams
    BY CallTypes DEF OwnerInv
  <2> QED
    BY <1>9, <2>1, MovedStatus DEF switchFailed
<1>10. CASE teamNotCreated \/ connectionLost \/ UNCHANGED vars
  BY <1>10, DisplayedStatus DEF teamNotCreated, connectionLost, vars, store
<1> QED
  BY <1>1, <1>2, <1>3, <1>4, <1>5, <1>6, <1>7, <1>8, <1>9, <1>10 DEF Next

\* A request is new, and starts the run of the displayed team at most.
LEMMA SentStatus ==
    ASSUME DisplayInv, OwnerInv,
           sendIdeaChat \/ \E attach \in BOOLEAN : runSyncUpdate(attach)
    PROVE  /\ requests' # requests
           /\ \A t \in Teams : Running(t)' =>
                Running(t) \/ (~sendIdeaChat /\ t = team)
<1>1. PICK i \in SessionIds \cup {Nil}, kind \in Kinds : Sent(kind, i)
  BY DEF sendIdeaChat, runSyncUpdate, Kinds
<1>2. requests' # requests
  <2>1. Len(requests') = Len(requests) + 1 /\ Len(requests) \in Nat
    BY <1>1, SentKeeps, LenProperties DEF OwnerInv, Numbering
  <2> QED
    BY <2>1
<1>3. UNCHANGED parked /\ ws'.of = ws.of /\ ws.of = team
      /\ (sendIdeaChat => ws'.pipelineStatus = ws.pipelineStatus)
  BY DEF sendIdeaChat, runSyncUpdate, DisplayInv, StoreTypes, Workspaces
<1>4. ASSUME NEW t \in Teams, Running(t)'
      PROVE  Running(t) \/ (~sendIdeaChat /\ t = team)
  BY <1>3, <1>4 DEF Running, WorkspaceOf
<1> QED
  BY <1>2, <1>4

\* While an answer about the teams has not come late, no switch, rollback,
\* session, answer or lost socket brings back a run that had ended, however
\* requests overlap.
THEOREM RunsNeverReturn == Spec => NoReturnToRunning
<1> DEFINE Inv == OwnerInv /\ (late \/ DisplayInv)
           Step == \A t \in Teams :
                     /\ WorkspaceOf(t).pipelineStatus # "running"
                     /\ WorkspaceOf(t)'.pipelineStatus = "running"
                     => requests' # requests \/ teamCreated \/ late'
<1>1. Inv /\ [Next]_vars => Step
  <2> SUFFICES ASSUME Inv, [Next]_vars, NEW t \in Teams,
                      ~Running(t), Running(t)', ~teamCreated, ~late'
               PROVE  requests' # requests
    BY DEF Running
  <2>1. DisplayInv
    BY LateStays
  <2> QED
    BY <2>1, UnsentStatus, SentStatus
<1>2. Inv /\ [Next]_vars => [Step]_vars
  BY <1>1
<1>3. Init => Inv
  BY InitOwnerInv, InitDisplay
<1>4. Inv /\ [Next]_vars => Inv'
  BY NextOwnerInv, NextDisplay
<1> QED
  BY <1>2, <1>3, <1>4, PTL DEF Spec, NoReturnToRunning

-----------------------------------------------------------------------------
(***************************************************************************)
(* The owner.  An analysis that never had another request unanswered       *)
(* beside it is the only one to answer, and its team is the owner.         *)
(***************************************************************************)

\* The histories name requests that were made.
Recorded ==
    lost \subseteq 1 .. Len(requests) /\ overlapped \subseteq 1 .. Len(requests)

Alone ==
    \A n \in Pending \ overlapped :
      /\ Pending = {n}
      /\ requests[n] = "analyze" => owner = sender[n].team

LoneInv == Recorded /\ Alone

\* The other steps neither ask, answer nor lose a request.
LEMMA QuietSteps ==
    ASSUME [Next]_vars, ~Answering, ~sendIdeaChat, ~connectionLost,
           \A attach \in BOOLEAN : ~runSyncUpdate(attach)
    PROVE  UNCHANGED <<serviceVars, sender, owner, lost, overlapped, outrun>>
BY DEF Next, saveCurrentSession, loadSession, restoreSessionFromRag,
       startNewProject, switchTeam, switchTeamWith, createTeam, switchDone,
       switchFailed, AnswersCall, teamCreated, teamNotCreated, vars, store,
       crossings

LEMMA SentLone ==
    ASSUME OwnerInv, LoneInv,
           sendIdeaChat \/ \E attach \in BOOLEAN : runSyncUpdate(attach)
    PROVE  LoneInv'
<1>1. PICK i \in SessionIds \cup {Nil}, kind \in Kinds :
        Sent(kind, i) /\ (kind = "analyze" => owner' = team)
  BY DEF sendIdeaChat, runSyncUpdate, Kinds
<1> DEFINE k == Len(requests) + 1
<1>2. /\ requests'[k] = kind /\ sender'[k].team = team
      /\ Len(requests') = k /\ LastAnswered' = LastAnswered
      /\ \A n \in 1 .. Len(requests) :
           requests'[n] = requests[n] /\ sender'[n] = sender[n]
  BY <1>1, SentKeeps
<1>3. Len(requests) \in Nat /\ LastAnswered \in Nat
      /\ LastAnswered <= Len(requests)
  BY LenProperties DEF OwnerInv, Numbering
<1>4. /\ lost' = lost
      /\ overlapped' = IF Pending = {} THEN overlapped
                       ELSE overlapped \cup Pending \cup {k}
  BY <1>1 DEF Sent
<1>5. Pending \subseteq 1 .. Len(requests)
  BY <1>3 DEF Pending
<1>6. Pending' = Pending \cup {k}
  <2> DEFINE A == LastAnswered + 1 .. Len(requests)
             B == LastAnswered + 1 .. k
  <2>1. k \notin lost /\ B = A \cup {k}
    BY <1>3 DEF LoneInv, Recorded
  <2>2. Pending' = B \ lost /\ Pending = A \ lost
    BY <1>2, <1>4 DEF Pending
  <2> HIDE DEF A, B, k
  <2>3. B \ lost = (A \ lost) \cup {k}
    BY <2>1
  <2> QED
    BY <2>2, <2>3
<1>7. Recorded'
  <2>1. overlapped' \subseteq overlapped \cup Pending \cup {k}
    BY <1>4
  <2>2. 1 .. Len(requests') = (1 .. Len(requests)) \cup {k}
    BY <1>2, <1>3
  <2> QED
    BY <1>4, <1>5, <2>1, <2>2 DEF LoneInv, Recorded
<1>8. Alone'
  <2>1. CASE Pending = {}
    BY <1>1, <1>2, <1>6, <2>1 DEF Alone
  <2>2. CASE Pending # {}
    BY <1>4, <1>6, <2>2 DEF Alone
  <2> QED
    BY <2>1, <2>2
<1> QED
  BY <1>7, <1>8 DEF LoneInv

\* What an answer leaves to be answered.
LEMMA AnswerPending ==
    ASSUME OwnerInv, NEW n \in 1 .. Len(requests),
           NEW type \in AnswerTypes, handleWsMessage(n, type)
    PROVE  /\ n \in Pending /\ \A k \in Pending : n <= k
           /\ LastAnswered < n /\ LastAnswered' = n
           /\ UNCHANGED <<requests, sender, lost, overlapped>>
           /\ Pending' = Pending \ {n}
<1>1. Len(requests) \in Nat /\ LastAnswered \in Nat
  BY LenProperties DEF OwnerInv, Numbering
<1>2. /\ answers' = Append(answers, [request |-> n, type |-> type])
      /\ LastAnswered < n /\ n <= Len(requests)
      /\ n \in Pending /\ \A k \in Pending : n <= k
      /\ UNCHANGED <<requests, sender, lost, overlapped>>
  BY DEF handleWsMessage, Handle, Answer
<1>3. LastAnswered' = n
  BY <1>2 DEF LastAnswered
<1>4. Pending' = Pending \ {n}
  BY <1>1, <1>2, <1>3 DEF Pending
<1> QED
  BY <1>2, <1>3, <1>4

LEMMA NextLone ==
    ASSUME OwnerInv, LoneInv, [Next]_vars
    PROVE  LoneInv'
<1>1. CASE sendIdeaChat \/ \E attach \in BOOLEAN : runSyncUpdate(attach)
  BY <1>1, SentLone
<1>2. CASE Answering
  <2>1. PICK n \in 1 .. Len(requests), type \in AnswerTypes :
          handleWsMessage(n, type)
    BY <1>2 DEF Answering
  <2>2. Pending' \ overlapped' = {}
    BY <2>1, AnswerPending DEF LoneInv, Alone
  <2> QED
    BY <2>1, <2>2, AnswerPending DEF LoneInv, Alone, Recorded
<1>3. CASE connectionLost
  <2>1. /\ UNCHANGED <<serviceVars, sender, owner, overlapped>>
        /\ lost' = lost \cup Pending
    BY <1>3 DEF connectionLost, store
  <2>2. Pending' = {} /\ Pending \subseteq 1 .. Len(requests)
    BY <2>1, LenProperties
       DEF Pending, LastAnswered, serviceVars, OwnerInv, Numbering
  <2> QED
    BY <2>1, <2>2 DEF LoneInv, Alone, Recorded, serviceVars
<1>4. CASE /\ ~Answering /\ ~sendIdeaChat /\ ~connectionLost
           /\ \A attach \in BOOLEAN : ~runSyncUpdate(attach)
  BY <1>4, QuietSteps
     DEF LoneInv, Alone, Recorded, Pending, LastAnswered, serviceVars
<1> QED
  BY <1>1, <1>2, <1>3, <1>4

LEMMA InitLone ==
    ASSUME Init
    PROVE  LoneInv
<1>1. Pending = {}
  BY DEF Init, ServiceInit, Pending, LastAnswered
<1> QED
  BY <1>1 DEF Init, LoneInv, Recorded, Alone

-----------------------------------------------------------------------------

\* createTeam keeps a copy of the team it leaves, which may be displayed again.
CopyIsServed ==
    /\ creating # Nil /\ creating.nr = switches
    /\ parked[team] # Nil /\ parked[team].space.pipelineStatus = "running"
    => Outstanding(team) # {} \/ Hindered(team)

RunInv == RunningIsServed /\ CopyIsServed

\* A team stays hindered.
LEMMA HinderedStays ==
    ASSUME OwnerInv, LoneInv, [Next]_vars, NEW t \in Teams, Hindered(t)
    PROVE  Hindered(t)'
<1>1. late => late'
  BY LateStays
<1>2. /\ lost \subseteq lost' /\ overlapped \subseteq overlapped'
      /\ outrun \subseteq outrun'
      /\ \A n \in 1 .. Len(requests) :
           requests'[n] = requests[n] /\ sender'[n] = sender[n]
  <2>1. CASE sendIdeaChat \/ \E attach \in BOOLEAN : runSyncUpdate(attach)
    <3>1. PICK i \in SessionIds \cup {Nil}, kind \in Kinds : Sent(kind, i)
      BY <2>1 DEF sendIdeaChat, runSyncUpdate, Kinds
    <3>2. /\ lost' = lost /\ outrun' = outrun
          /\ overlapped \subseteq overlapped'
      BY <3>1 DEF Sent
    <3> QED
      BY <3>1, <3>2, SentKeeps
  <2>2. CASE Answering
    <3>1. UNCHANGED <<requests, sender, lost, overlapped>>
      BY <2>2, AnswerPending DEF Answering
    <3>2. outrun \subseteq outrun'
      BY <2>2 DEF Answering, handleWsMessage, Handle
    <3> QED
      BY <3>1, <3>2
  <2>3. CASE connectionLost
    BY <2>3 DEF connectionLost, serviceVars
  <2>4. CASE /\ ~Answering /\ ~sendIdeaChat /\ ~connectionLost
             /\ \A attach \in BOOLEAN : ~runSyncUpdate(attach)
    BY <2>4, QuietSteps DEF serviceVars
  <2> QED
    BY <2>1, <2>2, <2>3, <2>4
<1>3. \A n \in overlapped \cup lost : n \in 1 .. Len(requests)
  BY DEF LoneInv, Recorded
<1> QED
  BY <1>1, <1>2, <1>3, Zenon DEF Hindered

\* An analysis that is answered while its team is not hindered is that of the
\* owner; otherwise the team's analysis is still to be answered.
LEMMA AnswerServes ==
    ASSUME OwnerInv, LoneInv, NEW n \in 1 .. Len(requests),
           NEW type \in AnswerTypes, handleWsMessage(n, type),
           NEW t \in Teams, Outstanding(t) # {}, ~Hindered(t)
    PROVE  \/ Outstanding(t)' # {}
           \/ requests[n] = "analyze" /\ owner = t
<1>1. PICK m \in Outstanding(t) : TRUE
  OBVIOUS
<1>2. /\ m \in LastAnswered + 1 .. Len(requests) /\ requests[m] = "analyze"
      /\ sender[m].team = t
  BY <1>1 DEF Outstanding
<1>3. m \notin overlapped \cup lost
  BY <1>2 DEF Hindered
<1>4. m \in Pending
  BY <1>2, <1>3 DEF Pending
<1>5. Pending = {m} /\ owner = t
  BY <1>2, <1>3, <1>4 DEF LoneInv, Alone
<1> QED
  BY <1>2, <1>5, AnswerPending

\* A request leaves the others to be answered.
LEMMA SentServes ==
    ASSUME OwnerInv, NEW kind \in Kinds, NEW i \in SessionIds \cup {Nil},
           Sent(kind, i), NEW t \in Teams
    PROVE  /\ Outstanding(t) # {} => Outstanding(t)' # {}
           /\ kind = "analyze" /\ t = team => Outstanding(t)' # {}
<1>1. Len(requests) \in Nat /\ LastAnswered \in Nat
      /\ LastAnswered <= Len(requests)
  BY LenProperties DEF OwnerInv, Numbering
<1>2. Outstanding(t) \subseteq Outstanding(t)'
  BY <1>1, SentKeeps DEF Outstanding
<1>3. kind = "analyze" /\ t = team => Len(requests) + 1 \in Outstanding(t)'
  BY <1>1, SentKeeps DEF Outstanding
<1> QED
  BY <1>2, <1>3

\* The creation restores what was parked: only the team it leaves may have
\* changed since.
LEMMA CreatedStatus ==
    ASSUME DisplayInv, OwnerInv, teamCreated, NEW t \in Teams, Running(t)'
    PROVE  \/ Running(t)
           \/ /\ t = team /\ parked[team] # Nil
              /\ parked[team].space.pipelineStatus = "running"
<1>1. PICK u \in creating.named : team' = u /\ Restore(parked, u)
  BY DEF teamCreated
<1>2. u \in Teams /\ parked' = parked
  BY DEF teamCreated, OwnerInv, TeamTypes, Creations
<1>3. ws'.of = u
  BY <1>1, <1>2, RestoreKeeps DEF DisplayInv, StoreTypes, ParkedWhole
<1>4. IF parked[u] = Nil THEN ws' = BLANK_WORKSPACE(u) ELSE ws' = parked[u].space
  BY <1>1, <1>2 DEF Restore, DisplayInv, ParkedWhole
<1>5. parked[t] # Nil /\ parked[t].space.pipelineStatus = "running"
  BY <1>2, <1>3, <1>4 DEF Running, WorkspaceOf, BLANK_WORKSPACE
<1>6. ws.of = team
  BY DEF DisplayInv
<1> QED
  BY <1>5, <1>6 DEF Running, WorkspaceOf

LEMMA NextServed ==
    ASSUME OwnerInv, DisplayInv, LoneInv, RunInv, [Next]_vars, ~late'
    PROVE  RunningIsServed'
<1> SUFFICES ASSUME NEW t \in Teams, Running(t)', ~Hindered(t)'
             PROVE  Outstanding(t)' # {}
  BY DEF RunningIsServed, Running
<1>1. ~Hindered(t)
  BY HinderedStays
<1>2. Running(t) => Outstanding(t) # {}
  BY <1>1 DEF RunInv, RunningIsServed, Running
<1>3. CASE sendIdeaChat \/ \E attach \in BOOLEAN : runSyncUpdate(attach)
  <2>1. PICK i \in SessionIds \cup {Nil}, kind \in Kinds :
          Sent(kind, i) /\ (~sendIdeaChat => kind = "analyze")
    BY <1>3 DEF sendIdeaChat, runSyncUpdate, Kinds
  <2> QED
    BY <1>2, <1>3, <2>1, SentServes, SentStatus
<1>4. CASE Answering
  <2>1. PICK n \in 1 .. Len(requests), type \in AnswerTypes :
          handleWsMessage(n, type)
    BY <1>4 DEF Answering
  <2>2. Running(t) /\ (requests[n] = "analyze" => owner # t)
    BY <2>1, AnswerStatus
  <2> QED
    BY <1>1, <1>2, <2>1, <2>2, AnswerServes
<1>5. CASE connectionLost
  <2>1. Running(t) /\ Outstanding(t)' = Outstanding(t)
    BY <1>5 DEF connectionLost, store, Running, WorkspaceOf, Outstanding,
                LastAnswered, serviceVars
  <2> QED
    BY <1>2, <2>1
<1>6. CASE /\ ~Answering /\ ~sendIdeaChat /\ ~connectionLost
           /\ \A attach \in BOOLEAN : ~runSyncUpdate(attach)
  <2>1. Outstanding(t)' = Outstanding(t)
    BY <1>6, QuietSteps DEF Outstanding, LastAnswered, serviceVars
  <2>2. CASE ~teamCreated
    BY <1>2, <1>6, <2>1, <2>2, UnsentStatus
  <2>3. CASE teamCreated
    <3>1. creating # Nil /\ creating.nr = switches
      BY <2>3 DEF teamCreated, AnswersCall
    <3>2. t = team /\ parked[team] # Nil
          /\ parked[team].space.pipelineStatus = "running" => Outstanding(t) # {}
      BY <1>1, <3>1 DEF RunInv, CopyIsServed
    <3> QED
      BY <1>2, <2>1, <2>3, <3>2, CreatedStatus
  <2> QED
    BY <2>2, <2>3
<1> QED
  BY <1>3, <1>4, <1>5, <1>6

LEMMA NextCopy ==
    ASSUME OwnerInv, DisplayInv, LoneInv, RunInv, [Next]_vars, ~late'
    PROVE  CopyIsServed'
<1> SUFFICES ASSUME creating' # Nil, creating'.nr = switches', parked'[team'] # Nil,
                    parked'[team'].space.pipelineStatus = "running",
                    ~Hindered(team)'
             PROVE  Outstanding(team)' # {}
  BY DEF CopyIsServed
<1>0. team \in Teams
  BY DEF OwnerInv, TeamTypes
<1>1. CASE sendIdeaChat \/ \E attach \in BOOLEAN : runSyncUpdate(attach)
  <2>1. PICK i \in SessionIds \cup {Nil}, kind \in Kinds : Sent(kind, i)
    BY <1>1 DEF sendIdeaChat, runSyncUpdate, Kinds
  <2>2. UNCHANGED <<team, parked, creating, switches>>
    BY <1>1 DEF sendIdeaChat, runSyncUpdate
  <2>3. Outstanding(team) # {}
    BY <1>0, <2>2, HinderedStays DEF RunInv, CopyIsServed
  <2>4. ASSUME NEW u \in Teams, Outstanding(u) # {} PROVE Outstanding(u)' # {}
    BY <2>1, <2>4, SentServes
  <2>5. Outstanding(team') = Outstanding(team)
    BY <2>2
  <2> QED
    BY <1>0, <2>2, <2>3, <2>4 DEF Outstanding
<1>2. CASE Answering
  <2>1. PICK n \in 1 .. Len(requests), type \in AnswerTypes :
          handleWsMessage(n, type)
    BY <1>2 DEF Answering
  <2>2. UNCHANGED <<team, creating, switches>>
    BY <2>1 DEF handleWsMessage, Handle
  <2>3. isBackground
    <3>1. ~isBackground => team \in outrun'
      BY <2>1, <2>2 DEF handleWsMessage, Handle
    <3> QED
      BY <2>2, <3>1 DEF Hindered
  <2>4. owner # team /\ parked'[team] = parked[team]
    BY <1>0, <2>1, <2>3
       DEF handleWsMessage, Handle, isBackground, BackgroundResult,
           BackgroundError, ForegroundAnalysis, ForegroundChat, ForegroundError,
           DisplayInv, StoreTypes
  <2>5. ~Hindered(team)
    BY <1>0, <2>2, HinderedStays DEF Hindered
  <2>6. Outstanding(team) # {}
    BY <2>2, <2>4, <2>5 DEF RunInv, CopyIsServed
  <2>7. ASSUME NEW u \in Teams, u = team PROVE Outstanding(u)' # {}
    BY <2>1, <2>4, <2>5, <2>6, <2>7, AnswerServes
  <2> QED
    BY <1>0, <2>2, <2>7 DEF Outstanding
<1>3. CASE connectionLost
  <2>1. UNCHANGED <<serviceVars, sender, team, parked, creating, switches>>
    BY <1>3 DEF connectionLost, store
  <2>2. ~Hindered(team)
    BY <1>0, <2>1, HinderedStays DEF Hindered
  <2> QED
    BY <2>1, <2>2 DEF RunInv, CopyIsServed, Outstanding, LastAnswered, serviceVars
<1>4. CASE /\ ~Answering /\ ~sendIdeaChat /\ ~connectionLost
           /\ \A attach \in BOOLEAN : ~runSyncUpdate(attach)
  <2>1. UNCHANGED <<serviceVars, sender, owner, lost, overlapped, outrun>>
    BY <1>4, QuietSteps
  <2>2. ASSUME UNCHANGED team, Outstanding(team) # {} PROVE Outstanding(team)' # {}
    BY <2>1, <2>2 DEF Outstanding, LastAnswered, serviceVars
  <2>3. ASSUME UNCHANGED team PROVE ~Hindered(team)
    BY <1>0, <2>3, HinderedStays DEF Hindered
  <2>4. ASSUME UNCHANGED <<team, parked, creating, switches>>
        PROVE  Outstanding(team)' # {}
    BY <2>2, <2>3, <2>4 DEF RunInv, CopyIsServed
  <2>5. CASE \/ saveCurrentSession \/ startNewProject \/ UNCHANGED vars
             \/ \E i \in SessionIds : loadSession(i)
             \/ \E n \in restores : restoreSessionFromRag(n)
    BY <2>4, <2>5 DEF saveCurrentSession, startNewProject, loadSession,
                      restoreSessionFromRag, vars, store
  <2>6. CASE \E t \in Teams : switchTeam(t)
    <3>1. /\ creating' # Nil => creating # Nil /\ creating'.nr = creating.nr
          /\ switches' = switches + 1 /\ switches \in Nat
      BY <2>6 DEF switchTeam, switchTeamWith, OwnerInv, TeamTypes, Creations
    <3>2. creating # Nil => creating.nr \in Nat /\ creating.nr <= switches
      BY DEF OwnerInv, TeamTypes, Creations, DisplayInv, LastCall
    <3> QED
      BY <3>1, <3>2
  <2>7. CASE \E t \in Teams : createTeam(t)
    <3>1. UNCHANGED <<team, ws>> /\ parked'[team].space = ws /\ ws.of = team
      BY <1>0, <2>7 DEF createTeam, Park, DisplayInv, StoreTypes
    <3>2. Running(team)
      BY <3>1 DEF Running, WorkspaceOf
    <3> QED
      BY <1>0, <2>2, <2>3, <3>1, <3>2 DEF RunInv, RunningIsServed, Running
  <2>8. CASE \E c \in DOMAIN calls : switchDone(c) \/ switchFailed(c)
    <3>1. PICK c \in DOMAIN calls : switchDone(c) \/ switchFailed(c)
      BY <2>8
    <3>2. /\ calls[c].nr = switches /\ UNCHANGED <<creating, switches>>
          /\ c \in 1 .. Len(calls)
      BY <3>1, CallTypes DEF switchDone, switchFailed, AnswersCall, OwnerInv
    <3> QED
      BY <3>2 DEF DisplayInv, LastCall
  <2>9. CASE teamCreated \/ teamNotCreated
    BY <2>9 DEF teamCreated, teamNotCreated
  <2> QED
    BY <1>4, <2>5, <2>6, <2>7, <2>8, <2>9 DEF Next
<1> QED
  BY <1>1, <1>2, <1>3, <1>4

LEMMA NextRun ==
    ASSUME OwnerInv, late \/ DisplayInv, LoneInv, RunInv, [Next]_vars
    PROVE  RunInv'
<1>1. CASE late'
  BY <1>1 DEF RunInv, RunningIsServed, CopyIsServed, Hindered
<1>2. CASE ~late'
  <2>1. DisplayInv
    BY <1>2, LateStays
  <2> QED
    BY <1>2, <2>1, NextServed, NextCopy DEF RunInv
<1> QED
  BY <1>1, <1>2

\* A running workspace, displayed or parked, has an analysis to be answered,
\* unless its team is hindered: its sync button is not blocked by a run that
\* is over.
THEOREM RunningServed == Spec => []RunningIsServed
<1> DEFINE Inv == OwnerInv /\ (late \/ DisplayInv) /\ LoneInv /\ RunInv
<1>1. Init => Inv
  <2>1. Init => RunInv
    BY DEF Init, RunInv, RunningIsServed, CopyIsServed, WorkspaceOf,
           BLANK_WORKSPACE
  <2> QED
    BY <2>1, InitOwnerInv, InitDisplay, InitLone
<1>2. Inv /\ [Next]_vars => Inv'
  BY NextOwnerInv, NextDisplay, NextLone, NextRun
<1>3. Inv => RunningIsServed
  BY DEF RunInv
<1> QED
  BY <1>1, <1>2, <1>3, PTL DEF Spec

-----------------------------------------------------------------------------

\* A result goes to the workspace of the owner, and to no other.
LEMMA ResultRouted ==
    ASSUME OwnerInv, DisplayInv, LoneInv, NEW n \in 1 .. Len(requests),
           handleWsMessage(n, "result"), requests[n] = "analyze",
           n \notin overlapped, NEW t \in Teams
    PROVE  WorkspaceOf(t)'.resultData =
             IF t = sender[n].team THEN n ELSE WorkspaceOf(t).resultData
<1>1. owner = sender[n].team
  BY AnswerPending DEF AnswerTypes, LoneInv, Alone
<1>2. /\ ws \in Workspaces /\ ws.of = team
      /\ parked \in [Teams -> ParkedSpaces \cup {Nil}]
      /\ owner \in Teams \cup {Nil} /\ n \in Nat
  BY DEF DisplayInv, StoreTypes
<1>3. owner \in Teams
  <2>1. sender[n] \in [team : Teams, session : SessionIds \cup {Nil}]
    BY ElementOfSeq DEF OwnerInv, Numbering
  <2> QED
    BY <1>1, <2>1
<1>4. BackgroundResult(n) \/ ForegroundAnalysis(n)
  BY DEF handleWsMessage, Handle, ForegroundChat
<1>5. CASE BackgroundResult(n)
  <2> DEFINE p == [parked[owner] EXCEPT !.space.pipelineStatus = "done",
                                        !.space.resultData = n]
  <2>1. /\ owner # team /\ parked[owner] # Nil /\ ws' = ws
        /\ parked' = [parked EXCEPT ![owner] = p]
    BY <1>2, <1>5 DEF BackgroundResult, isBackground, Patched, DisplayInv,
                      ParkedWhole
  <2>2. p \in ParkedSpaces /\ p.space.resultData = n
    BY <1>2, <1>3, <2>1 DEF ParkedSpaces, Workspaces
  <2>3. parked'[owner] = p /\ \A x \in Teams \ {owner} : parked'[x] = parked[x]
    BY <1>2, <1>3, <2>1
  <2> HIDE DEF p
  <2>4. parked'[owner] # Nil
    BY <2>2, <2>3, NilAssumption
  <2>5. CASE t = owner
    <3>1. WorkspaceOf(t)' = p.space
      BY <1>2, <2>1, <2>3, <2>4, <2>5 DEF WorkspaceOf
    <3> QED
      BY <1>1, <2>2, <2>5, <3>1
  <2>6. CASE t # owner
    <3>1. WorkspaceOf(t)' = WorkspaceOf(t)
      BY <2>1, <2>3, <2>6 DEF WorkspaceOf
    <3> QED
      BY <1>1, <2>6, <3>1
  <2> QED
    BY <2>5, <2>6
<1>6. CASE ForegroundAnalysis(n)
  <2>1. /\ owner = team /\ parked' = parked
        /\ ws' = [ws EXCEPT !.pipelineStatus = "done", !.resultData = n]
    BY <1>3, <1>6, WorkspaceAssumption
       DEF ForegroundAnalysis, processResult, isBackground
  <2>2. ws'.of = team /\ ws'.resultData = n
    BY <1>2, <2>1 DEF Workspaces
  <2>3. CASE t = team
    BY <1>1, <2>1, <2>2, <2>3 DEF WorkspaceOf
  <2>4. CASE t # team
    <3>1. WorkspaceOf(t)' = WorkspaceOf(t)
      BY <1>2, <2>1, <2>2, <2>4 DEF WorkspaceOf
    <3> QED
      BY <1>1, <2>1, <2>4, <3>1
  <2> QED
    BY <2>3, <2>4
<1> QED
  BY <1>4, <1>5, <1>6

AnswersTyped == answers \in Seq(Answers)

LEMMA NextAnswersTyped ==
    ASSUME OwnerInv, AnswersTyped, [Next]_vars
    PROVE  AnswersTyped'
<1>1. CASE Answering
  <2>1. PICK n \in 1 .. Len(requests), type \in AnswerTypes :
          answers' = Append(answers, [request |-> n, type |-> type])
    BY <1>1 DEF Answering, handleWsMessage, Handle, Answer
  <2>2. [request |-> n, type |-> type] \in Answers
    BY <2>1 DEF Answers
  <2> HIDE DEF Answers
  <2> QED
    BY <2>1, <2>2, AppendProperties DEF AnswersTyped
<1>2. CASE sendIdeaChat \/ \E attach \in BOOLEAN : runSyncUpdate(attach)
  BY <1>2 DEF sendIdeaChat, runSyncUpdate, Sent, Ask, AnswersTyped
<1>3. CASE connectionLost
  BY <1>3 DEF connectionLost, serviceVars, AnswersTyped
<1>4. CASE /\ ~Answering /\ ~sendIdeaChat /\ ~connectionLost
           /\ \A attach \in BOOLEAN : ~runSyncUpdate(attach)
  BY <1>4, QuietSteps DEF serviceVars, AnswersTyped
<1> QED
  BY <1>1, <1>2, <1>3, <1>4

\* The step that appends an answer is the handler of that answer.
LEMMA AnswerHandled ==
    ASSUME OwnerInv, AnswersTyped, [Next]_vars, NEW n \in 1 .. Len(requests),
           answers' = Append(answers, [request |-> n, type |-> "result"])
    PROVE  handleWsMessage(n, "result")
<1> DEFINE x == [request |-> n, type |-> "result"]
<1>1. x \in Answers
  BY DEF Answers, AnswerTypes
<1>2. answers' # answers
  <2> HIDE DEF x
  <2>1. Len(Append(answers, x)) = Len(answers) + 1 /\ Len(answers) \in Nat
    BY <1>1, AppendProperties, LenProperties DEF AnswersTyped
  <2> QED
    BY <2>1 DEF x
<1>3. Answering
  <2>1. /\ ~sendIdeaChat /\ ~connectionLost
        /\ \A attach \in BOOLEAN : ~runSyncUpdate(attach)
    BY <1>2 DEF sendIdeaChat, runSyncUpdate, Sent, Ask, connectionLost,
                serviceVars
  <2> QED
    BY <1>2, <2>1, QuietSteps DEF serviceVars
<1>4. PICK m \in 1 .. Len(requests), type \in AnswerTypes :
        /\ handleWsMessage(m, type)
        /\ answers' = Append(answers, [request |-> m, type |-> type])
  BY <1>3 DEF Answering, handleWsMessage, Handle, Answer
<1> DEFINE y == [request |-> m, type |-> type]
<1>5. y \in Answers
  BY DEF Answers
<1>6. x = y
  <2> HIDE DEF x, y
  <2>1. /\ Append(answers, x)[Len(answers) + 1] = x
        /\ Append(answers, y)[Len(answers) + 1] = y
    BY <1>1, <1>5, AppendProperties DEF AnswersTyped
  <2> QED
    BY <1>4, <2>1 DEF x, y
<1>7. m = n /\ type = "result"
  BY <1>6
<1> QED
  BY <1>4, <1>7

\* The result of an analysis reaches the workspace of the team that asked for
\* it, displayed or parked, and no other, when no other request was unanswered
\* beside it and no answer about the teams came late (_handleWsMessage).
THEOREM ResultsReachOwner == Spec => ResultReachesOwner
<1> DEFINE Inv == OwnerInv /\ (late \/ DisplayInv) /\ LoneInv /\ AnswersTyped
           Step == \A n \in 1 .. Len(requests) :
                     ResultHandled(n) /\ n \notin overlapped /\ ~late
                     => ResultDelivered(n)
<1>1. Init => Inv
  <2>1. Init => AnswersTyped
    BY EmptySeq DEF Init, ServiceInit, AnswersTyped
  <2> QED
    BY <2>1, InitOwnerInv, InitDisplay, InitLone
<1>2. Inv /\ [Next]_vars => Inv'
  BY NextOwnerInv, NextDisplay, NextLone, NextAnswersTyped
<1>3. Inv /\ [Next]_vars => [Step]_vars
  BY AnswerHandled, ResultRouted DEF ResultHandled, ResultDelivered
<1> QED
  BY <1>1, <1>2, <1>3, PTL DEF Spec, ResultReachesOwner
=============================================================================
