------------------------ MODULE PipelineSocket_proofs ------------------------
(***************************************************************************)
(* Theorems about PipelineSocket, for any number of calls of App, lost     *)
(* sockets, requests and seconds.  The client stays connected or will try  *)
(* again, and never has more sockets than it asked for.  The backend       *)
(* stores a result before it tells it, and stores only what went through.  *)
(* When App connects once, all of it together implements AnswerService.    *)
(***************************************************************************)
EXTENDS PipelineSocket, FiniteSetTheorems, TLAPS

\* The types of the client's part.
ClientTypes ==
    /\ calls \in 0 .. Connects
    /\ timers \in Nat
    /\ sock \in [Sockets -> {"unborn", "connecting", "open", "closed"}]
    /\ wsConnection \in Sockets \cup {0}
    /\ wsStatus \in {"disconnected", "connecting", "connected"}

\* The status is only raised by a socket that lives: whenever one closes the
\* status falls.  The timer relies on it when it leaves the client alone.
StatusMeansLive == wsStatus # "disconnected" => Live # {}

\* The inductive invariant of the client.
ClientInv == ClientTypes /\ StatusMeansLive /\ ConnectionsBounded
               /\ (calls = 0 => Cardinality(Live) = 0 /\ timers = 0)

-----------------------------------------------------------------------------

LEMMA SocketSetsFinite ==
    ASSUME NEW S, S \subseteq Sockets
    PROVE  /\ IsFiniteSet(S) /\ Cardinality(S) \in Nat
           /\ Cardinality(S) = 0 <=> S = {}
<1>1. IsFiniteSet(Sockets)
  BY FS_Interval, SocketAssumption DEF Sockets
<1>2. IsFiniteSet(S)
  BY <1>1, FS_Subset
<1> QED
  BY <1>2, FS_CardinalityType, FS_EmptySet

LEMMA LiveIsFinite ==
    /\ IsFiniteSet(Live) /\ Cardinality(Live) \in Nat
    /\ Cardinality(Live) = 0 <=> Live = {}
BY SocketSetsFinite DEF Live

LEMMA NextLiveIsFinite ==
    /\ IsFiniteSet(Live') /\ Cardinality(Live') \in Nat
    /\ Cardinality(Live') = 0 <=> Live' = {}
<1>1. Live' \subseteq Sockets
  BY DEF Live
<1> QED
  BY <1>1, SocketSetsFinite

\* connectWebSocket keeps an open socket or makes one.
LEMMA ConnectLives ==
    ASSUME ClientTypes, connectWebSocket
    PROVE  /\ sock' \in [Sockets ->
                           {"unborn", "connecting", "open", "closed"}]
           /\ wsConnection' \in Sockets \cup {0}
           /\ wsStatus' \in {"disconnected", "connecting", "connected"}
           /\ Live' # {}
           /\ \/ Cardinality(Live') = Cardinality(Live)
              \/ Cardinality(Live') = Cardinality(Live) + 1
           /\ \/ UNCHANGED <<sock, wsConnection, wsStatus>>
              \/ \E s \in Sockets :
                   /\ sock' = [sock EXCEPT ![s] = "connecting"]
                   /\ wsConnection' = s
<1>1. CASE CanSend
  <2>1. UNCHANGED <<sock, wsConnection, wsStatus>>
    BY <1>1 DEF connectWebSocket
  <2>2. wsConnection \in Live
    BY <1>1 DEF CanSend, ClientTypes, Live
  <2>3. Live' = Live
    BY <2>1 DEF Live
  <2> QED
    BY <2>1, <2>2, <2>3 DEF ClientTypes
<1>2. CASE ~CanSend
  <2>1. PICK s \in Sockets :
          /\ sock[s] = "unborn"
          /\ sock' = [sock EXCEPT ![s] = "connecting"]
          /\ wsConnection' = s
          /\ wsStatus' = "connecting"
    BY <1>2 DEF connectWebSocket
  <2>2. Live' = Live \cup {s} /\ s \notin Live
    BY <2>1 DEF ClientTypes, Live
  <2>3. Cardinality(Live') = Cardinality(Live) + 1
    BY <2>2, LiveIsFinite, FS_AddElement
  <2> QED
    BY <2>1, <2>2, <2>3 DEF ClientTypes
<1> QED
  BY <1>1, <1>2

\* Only the actions of the client's socket change the client.
LEMMA OtherStepsKeepClient ==
    ASSUME NEW s \in Sockets, Handler(s) \/ onmessage(s)
    PROVE  UNCHANGED client
BY DEF Handler, Receive, Refuse, StartRun, PmDone, RunFails, SaDone, ChatDone,
       HandlerDies, HandlerLeaves, onmessage

LEMMA ClientKept ==
    ASSUME ClientInv, UNCHANGED client
    PROVE  ClientInv'
BY DEF ClientInv, client, ClientTypes, StatusMeansLive, ConnectionsBounded,
       Live

LEMMA AppConnectsKeeps ==
    ASSUME ClientInv, AppConnects
    PROVE  ClientInv'
<1> USE SocketAssumption
<1>1. /\ calls' = calls + 1 /\ calls < Connects /\ timers' = timers
      /\ connectWebSocket
  BY DEF AppConnects
<1>2. Cardinality(Live) \in Nat /\ Cardinality(Live') # 0
      /\ Cardinality(Live') \in Nat
  BY <1>1, ConnectLives, LiveIsFinite, NextLiveIsFinite DEF ClientInv
<1>3. ClientTypes' /\ StatusMeansLive'
  BY <1>1, ConnectLives DEF ClientInv, ClientTypes, StatusMeansLive
<1>4. ConnectionsBounded'
  BY <1>1, <1>2, ConnectLives
     DEF ClientInv, ClientTypes, ConnectionsBounded
<1> QED
  BY <1>1, <1>3, <1>4 DEF ClientInv, ClientTypes

LEMMA OpenKeeps ==
    ASSUME ClientInv, NEW s \in Sockets, onopen(s)
    PROVE  ClientInv' /\ Live' = Live
<1>1. Live' = Live /\ s \in Live
  BY DEF onopen, ClientInv, ClientTypes, Live
<1>2. ClientTypes'
  BY DEF onopen, ClientInv, ClientTypes
<1> QED
  BY <1>1, <1>2
     DEF onopen, ClientInv, StatusMeansLive, ConnectionsBounded

LEMMA CloseKeeps ==
    ASSUME ClientInv, NEW s \in Sockets, onclose(s)
    PROVE  ClientInv' /\ Live' = Live \ {s} /\ s \in Live
<1>1. Live' = Live \ {s} /\ s \in Live
  BY DEF onclose, ClientInv, ClientTypes, Live
<1>2. Cardinality(Live') = Cardinality(Live) - 1
  BY <1>1, LiveIsFinite, FS_RemoveElement
<1>3. ClientTypes'
  BY DEF onclose, ClientInv, ClientTypes
<1>4. StatusMeansLive' /\ timers' = timers + 1 /\ calls' = calls
  BY DEF onclose, StatusMeansLive
<1>5. Cardinality(Live) \in Nat /\ Cardinality(Live) # 0
  BY <1>1, LiveIsFinite
<1> QED
  BY <1>1, <1>2, <1>3, <1>4, <1>5
     DEF ClientInv, ClientTypes, ConnectionsBounded

LEMMA RetryKeeps ==
    ASSUME ClientInv, RetryTimer
    PROVE  ClientInv'
<1>1. timers > 0 /\ timers' = timers - 1 /\ calls' = calls
  BY DEF RetryTimer
<1>2. Cardinality(Live) \in Nat /\ Cardinality(Live') \in Nat
  BY LiveIsFinite, NextLiveIsFinite
<1>3. CASE wsStatus = "disconnected"
  <2>1. connectWebSocket
    BY <1>3 DEF RetryTimer
  <2>2. Cardinality(Live') # 0
    BY <2>1, ConnectLives, NextLiveIsFinite DEF ClientInv
  <2>3. ClientTypes' /\ StatusMeansLive'
    BY <1>1, <2>1, ConnectLives
       DEF ClientInv, ClientTypes, StatusMeansLive
  <2> QED
    BY <1>1, <1>2, <2>1, <2>2, <2>3, ConnectLives
       DEF ClientInv, ClientTypes, ConnectionsBounded
<1>4. CASE wsStatus # "disconnected"
  <2>1. UNCHANGED <<sock, wsConnection, wsStatus>>
    BY <1>4 DEF RetryTimer
  <2>2. Live' = Live /\ Cardinality(Live) # 0
    BY <1>4, <2>1, LiveIsFinite DEF ClientInv, StatusMeansLive, Live
  <2>3. ClientTypes' /\ StatusMeansLive'
    BY <1>1, <2>1, <2>2 DEF ClientInv, ClientTypes, StatusMeansLive
  <2> QED
    BY <1>1, <1>2, <2>2, <2>3 DEF ClientInv, ClientTypes, ConnectionsBounded
<1> QED
  BY <1>3, <1>4

LEMMA InitClientInv ==
    ASSUME Init
    PROVE  ClientInv
<1>1. Live = {}
  BY DEF Init, Live
<1>2. Cardinality(Live) = 0
  BY <1>1, FS_EmptySet
<1> QED
  BY <1>1, <1>2, SocketAssumption
     DEF Init, ClientInv, ClientTypes, StatusMeansLive, ConnectionsBounded

LEMMA NextClientInv ==
    ASSUME ClientInv, [Next]_vars
    PROVE  ClientInv'
<1>1. CASE AppConnects
  BY <1>1, AppConnectsKeeps
<1>2. CASE RetryTimer
  BY <1>2, RetryKeeps
<1>3. CASE Tick
  BY <1>3, ClientKept DEF Tick
<1>4. ASSUME NEW kind \in Kinds, sendWsMessage(kind)
      PROVE  ClientInv'
  BY <1>4, ClientKept DEF sendWsMessage
<1>5. ASSUME NEW s \in Sockets, onopen(s) PROVE ClientInv'
  BY <1>5, OpenKeeps
<1>6. ASSUME NEW s \in Sockets, onclose(s) PROVE ClientInv'
  BY <1>6, CloseKeeps
<1>7. ASSUME NEW s \in Sockets, onmessage(s) \/ Handler(s) PROVE ClientInv'
  BY <1>7, ClientKept, OtherStepsKeepClient
<1>8. CASE UNCHANGED vars
  BY <1>8, ClientKept DEF vars
<1> QED
  BY <1>1, <1>2, <1>3, <1>4, <1>5, <1>6, <1>7, <1>8 DEF Next

\* The client's part of every reachable state satisfies its invariant.
THEOREM ClientInvariance == Spec => []ClientInv
<1>1. Init => ClientInv
  BY InitClientInv
<1>2. ClientInv /\ [Next]_vars => ClientInv'
  BY NextClientInv
<1> QED
  BY <1>1, <1>2, PTL DEF Spec

\* The client never gives up and never has more sockets and timers than calls
\* of connectWebSocket by App (wsSlice.js, onclose and its timer).
THEOREM ConnectionsStayBounded == Spec => []ConnectionsBounded
<1>1. ClientInv => ConnectionsBounded
  BY DEF ClientInv
<1> QED
  BY <1>1, ClientInvariance, PTL

-----------------------------------------------------------------------------

\* With one call of App there is one live socket at most, and whoever opens,
\* closes or follows it finds no other one.
LEMMA OneLiveSocket ==
    ASSUME ClientInv, Connects = 1, NEW s \in Live
    PROVE  Live = {s} /\ timers = 0
<1>1. IsFiniteSet(Live \ {s}) /\ Cardinality(Live \ {s}) \in Nat
  BY LiveIsFinite, FS_RemoveElement, FS_CardinalityType
<1>2. Cardinality(Live \ {s}) = Cardinality(Live) - 1
  BY LiveIsFinite, FS_RemoveElement
<1>3. Cardinality(Live) + timers <= 1
  BY DEF ClientInv, ClientTypes, ConnectionsBounded
<1>4. Cardinality(Live \ {s}) = 0 /\ timers = 0
  BY <1>1, <1>2, <1>3, LiveIsFinite DEF ClientInv, ClientTypes
<1>5. Live \ {s} = {}
  BY <1>1, <1>4, FS_EmptySet
<1> QED
  BY <1>4, <1>5

LEMMA ConnectFollowsNone ==
    ASSUME ClientInv, OpenIsUsed, Connects = 1, Live = {}, connectWebSocket
    PROVE  OpenIsUsed'
<1>1. \A t \in Sockets : sock[t] # "open"
  BY DEF Live
<1>2. ~CanSend
  BY <1>1 DEF CanSend, ClientInv, ClientTypes
<1> QED
  BY <1>1, <1>2 DEF connectWebSocket, OpenIsUsed, ClientInv, ClientTypes

LEMMA NextOpenIsUsed ==
    ASSUME ClientInv, OpenIsUsed, [Next]_vars
    PROVE  OpenIsUsed'
<1> SUFFICES ASSUME Connects = 1 PROVE OpenIsUsed'
  BY DEF OpenIsUsed
<1>0. ASSUME UNCHANGED client PROVE OpenIsUsed'
  BY <1>0 DEF client, OpenIsUsed
<1>1. CASE AppConnects
  <2>1. calls = 0 /\ connectWebSocket
    BY <1>1 DEF AppConnects, ClientInv, ClientTypes
  <2>2. Live = {}
    BY <2>1, LiveIsFinite DEF ClientInv
  <2> QED
    BY <2>1, <2>2, ConnectFollowsNone
<1>2. CASE RetryTimer
  <2>1. Live = {}
    BY <1>2, OneLiveSocket DEF RetryTimer
  <2>2. CASE wsStatus = "disconnected"
    BY <1>2, <2>1, <2>2, ConnectFollowsNone DEF RetryTimer
  <2>3. CASE wsStatus # "disconnected"
    BY <1>2, <2>3 DEF RetryTimer, OpenIsUsed
  <2> QED
    BY <2>2, <2>3
<1>3. CASE Tick
  BY <1>0, <1>3 DEF Tick
<1>4. ASSUME NEW kind \in Kinds, sendWsMessage(kind)
      PROVE  OpenIsUsed'
  BY <1>0, <1>4 DEF sendWsMessage
<1>5. ASSUME NEW s \in Sockets, onopen(s) PROVE OpenIsUsed'
  <2>1. Live = {s}
    BY <1>5, OneLiveSocket DEF onopen, Live
  <2>2. \A t \in Sockets \ {s} : sock[t] # "open"
    BY <2>1 DEF Live
  <2> QED
    BY <1>5, <2>2 DEF onopen, OpenIsUsed, ClientInv, ClientTypes
<1>6. ASSUME NEW s \in Sockets, onclose(s) PROVE OpenIsUsed'
  <2>1. Live' = {}
    BY <1>6, CloseKeeps, OneLiveSocket
  <2> QED
    BY <2>1 DEF Live, OpenIsUsed
<1>7. ASSUME NEW s \in Sockets, onmessage(s) \/ Handler(s) PROVE OpenIsUsed'
  BY <1>0, <1>7, OtherStepsKeepClient
<1>8. CASE UNCHANGED vars
  BY <1>0, <1>8 DEF vars
<1> QED
  BY <1>1, <1>2, <1>3, <1>4, <1>5, <1>6, <1>7, <1>8 DEF Next

\* When App connects once, messages are sent on the socket that is open
\* (wsSlice.js, onclose clears wsConnection whichever socket closed).
THEOREM OpenSocketIsUsed == Spec => []OpenIsUsed
<1>1. Init => OpenIsUsed
  BY DEF Init, OpenIsUsed
<1>2. ClientInv /\ OpenIsUsed /\ [Next]_vars => OpenIsUsed'
  BY NextOpenIsUsed
<1> QED
  BY <1>1, <1>2, ClientInvariance, PTL DEF Spec

-----------------------------------------------------------------------------
(***************************************************************************)
(* The backend: a request waits on one socket or is worked on by one       *)
(* handler, and when neither is so any more it is spent.  Frames and       *)
(* stored results are about spent requests.                                *)
(***************************************************************************)

Elems(q) == {q[i] : i \in 1 .. Len(q)}
NoDup(q) == \A i, j \in 1 .. Len(q) : q[i] = q[j] => i = j

LEMMA AppendElems ==
    ASSUME NEW S, NEW q \in Seq(S), NEW x \in S
    PROVE  /\ Append(q, x) \in Seq(S)
           /\ Elems(Append(q, x)) = Elems(q) \cup {x}
           /\ NoDup(q) /\ x \notin Elems(q) => NoDup(Append(q, x))
<1> DEFINE r == Append(q, x)
<1>1. /\ r \in Seq(S) /\ Len(r) = Len(q) + 1 /\ Len(q) \in Nat
      /\ \A i \in 1 .. Len(q) : r[i] = q[i]
      /\ r[Len(q) + 1] = x
  OBVIOUS
<1> HIDE DEF r
<1>2. Elems(r) = Elems(q) \cup {x}
  BY <1>1 DEF Elems
<1>3. NoDup(q) /\ x \notin Elems(q) => NoDup(r)
  BY <1>1 DEF Elems, NoDup
<1> QED
  BY <1>1, <1>2, <1>3 DEF r

LEMMA TailElems ==
    ASSUME NEW S, NEW q \in Seq(S), q # <<>>
    PROVE  /\ Tail(q) \in Seq(S) /\ Head(q) \in Elems(q) /\ Head(q) \in S
           /\ Elems(q) = {Head(q)} \cup Elems(Tail(q))
           /\ NoDup(q) => NoDup(Tail(q)) /\ Head(q) \notin Elems(Tail(q))
<1> DEFINE r == Tail(q)
           h == Head(q)
<1>1. /\ r \in Seq(S) /\ Len(q) \in Nat /\ Len(q) > 0 /\ Len(r) = Len(q) - 1
      /\ \A i \in 1 .. Len(r) : r[i] = q[i + 1]
      /\ h = q[1] /\ h \in S
  OBVIOUS
<1> HIDE DEF r, h
<1>2. Elems(q) \subseteq {h} \cup Elems(r)
  <2> SUFFICES ASSUME NEW i \in 1 .. Len(q) PROVE q[i] \in {h} \cup Elems(r)
    BY DEF Elems
  <2>1. CASE i = 1
    BY <1>1, <2>1
  <2>2. CASE i # 1
    <3>1. i - 1 \in 1 .. Len(r) /\ r[i - 1] = q[i]
      BY <1>1, <2>2
    <3> QED
      BY <3>1 DEF Elems
  <2> QED
    BY <2>1, <2>2
<1>3. {h} \cup Elems(r) \subseteq Elems(q)
  BY <1>1 DEF Elems
<1>4. NoDup(q) => NoDup(r) /\ h \notin Elems(r)
  BY <1>1 DEF Elems, NoDup
<1> QED
  BY <1>1, <1>2, <1>3, <1>4 DEF r, h

LEMMA PrefixElems ==
    ASSUME NEW S, NEW q \in Seq(S), NEW k \in 0 .. Len(q)
    PROVE  /\ SubSeq(q, 1, k) \in Seq(S)
           /\ Elems(SubSeq(q, 1, k)) \subseteq Elems(q)
           /\ NoDup(q) => NoDup(SubSeq(q, 1, k))
<1> DEFINE r == SubSeq(q, 1, k)
<1>1. /\ r \in Seq(S) /\ Len(r) = k /\ k <= Len(q) /\ Len(q) \in Nat /\ k \in Nat
      /\ \A i \in 1 .. k : r[i] = q[i]
  OBVIOUS
<1> HIDE DEF r
<1>2. Elems(r) \subseteq Elems(q) /\ (NoDup(q) => NoDup(r))
  BY <1>1 DEF Elems, NoDup
<1> QED
  BY <1>1, <1>2 DEF r

LEMMA EmptyElems == Elems(<<>>) = {} /\ NoDup(<<>>)
BY DEF Elems, NoDup

Frames == [request : Nat, type : {"result", "error"}, run : Seconds \cup {0}]
Stages == {"idle", "prepare", "pm", "sa", "chat", "ended"}
Jobs == [stage : Stages, request : Nat, run : Seconds \cup {0}]

BackendTypes ==
    /\ requests \in Seq(Kinds) /\ answers \in Seq(Frames)
    /\ up \in [Sockets -> Seq(Nat)] /\ down \in [Sockets -> Seq(Frames)]
    /\ job \in [Sockets -> Jobs]
    /\ clock \in Seconds /\ stored \in [Seconds -> Nat] /\ unstored \subseteq Nat

\* What the job of a handler is about.
JobKind(j) ==
    /\ j.stage \in {"idle", "ended"} => j.request = 0
    /\ j.stage \in {"prepare", "pm", "sa", "chat"} => j.request \in 1 .. Len(requests)
    /\ j.stage \in {"prepare", "pm", "sa"} => requests[j.request] = "analyze"
    /\ j.stage = "chat" => requests[j.request] = "idea_chat"
    /\ j.stage \in {"pm", "sa"} => j.run \in Seconds

\* A request is in one place only.
OnePlace ==
    /\ \A s \in Sockets :
         /\ Elems(up[s]) \subseteq 1 .. Len(requests) /\ NoDup(up[s])
         /\ JobKind(job[s])
    /\ \A s, t \in Sockets :
         /\ job[t].request \notin Elems(up[s])
         /\ s # t => /\ Elems(up[s]) \cap Elems(up[t]) = {}
                     /\ job[s].request = job[t].request => job[s].request = 0

Spent(n) ==
    /\ n \in 1 .. Len(requests)
    /\ \A s \in Sockets : n \notin Elems(up[s]) /\ job[s].request # n

\* The frames on their way or handled.
Told == Elems(answers) \cup UNION {Elems(down[s]) : s \in Sockets}

\* A result of an analysis names a run under which something is stored.
Restorable(f) ==
    f.type = "result" /\ requests[f.request] = "analyze" /\ f.request \notin unstored
      => f.run \in Seconds /\ stored[f.run] # 0

ToldInv ==
    /\ \A f \in Told : Spent(f.request) /\ Restorable(f)
    /\ \A t \in Seconds : stored[t] # 0 =>
         /\ Spent(stored[t])
         /\ \A f \in Told : f.request = stored[t] => f.type = "result"

BackendInv == BackendTypes /\ OnePlace /\ ToldInv

LEMMA InitBackend == Init => BackendInv
<1> SUFFICES ASSUME Init PROVE BackendInv
  OBVIOUS
<1>1. BackendTypes
  BY SocketAssumption
  DEF Init, BackendTypes, Idle, Jobs, Stages, Seconds
<1>2. OnePlace
  <2>1. \A s \in Sockets : Elems(up[s]) = {} /\ NoDup(up[s]) /\ job[s] = Idle
    BY EmptyElems DEF Init
  <2>2. \A s \in Sockets : JobKind(job[s]) /\ job[s].request = 0
    BY <2>1 DEF JobKind, Idle
  <2> QED
    BY <2>1, <2>2 DEF OnePlace
<1>3. ToldInv
  <2>1. Told = {}
    BY EmptyElems DEF Init, Told
  <2> QED
    BY <2>1 DEF ToldInv, Init
<1> QED
  BY <1>1, <1>2, <1>3 DEF BackendInv

\* Requests are only added.
RequestsGrow ==
    /\ Len(requests) <= Len(requests')
    /\ \A n \in 1 .. Len(requests) : requests'[n] = requests[n]

SpentKept == \A n \in Nat : Spent(n) => Spent(n)'

\* A step that tells and stores nothing new keeps what was told and stored.
LEMMA NothingTold ==
    ASSUME BackendTypes, ToldInv, RequestsGrow, SpentKept, Told' \subseteq Told,
           UNCHANGED <<stored, unstored>>
    PROVE  ToldInv'
<1>1. Told \subseteq Frames
  BY DEF BackendTypes, Told, Elems
<1>2. ASSUME NEW f \in Told' PROVE Spent(f.request)' /\ Restorable(f)'
  <2>1. f \in Told /\ f.request \in Nat
    BY <1>1, <1>2 DEF Frames
  <2>2. Spent(f.request) /\ Restorable(f)
    BY <2>1 DEF ToldInv
  <2> QED
    BY <2>1, <2>2 DEF SpentKept, Restorable, RequestsGrow, Spent
<1>3. ASSUME NEW t \in Seconds, stored'[t] # 0
      PROVE  /\ Spent(stored[t])'
             /\ \A f \in Told' : f.request = stored[t] => f.type = "result"
  BY <1>3 DEF ToldInv, BackendTypes, SpentKept
<1> QED
  BY <1>2, <1>3 DEF ToldInv

\* A step that touches neither requests, frames nor jobs.
LEMMA QuietBackend ==
    ASSUME BackendInv, clock' \in Seconds,
           UNCHANGED <<requests, answers, up, down, job, stored, unstored>>
    PROVE  BackendInv'
BY DEF BackendInv, BackendTypes, OnePlace, JobKind, ToldInv, Spent, Told,
       Restorable

\* What is read of the backend when a handler ends a request.
LEMMA HandlerBusy ==
    ASSUME BackendInv, NEW s \in Sockets,
           job[s].stage \in {"prepare", "pm", "sa", "chat"}
    PROVE  /\ job[s].request \in 1 .. Len(requests) /\ Len(requests) \in Nat
           /\ job[s] \in Jobs
BY DEF BackendInv, BackendTypes, OnePlace, JobKind

\* Places, when the handler of s goes over to a job of no request and what
\* waits on s becomes less.
LEMMA PlaceFreed ==
    ASSUME BackendInv, NEW s \in Sockets, NEW j \in Jobs, j.request = 0,
           j.stage \in {"idle", "ended"},
           job' = [job EXCEPT ![s] = j],
           UNCHANGED requests,
           \A t \in Sockets : Elems(up'[t]) \subseteq Elems(up[t]) /\ NoDup(up'[t]),
           NEW n \in 1 .. Len(requests), job[s].request = n
    PROVE  OnePlace' /\ SpentKept /\ Spent(n)'
<1>1. /\ job'[s] = j /\ \A t \in Sockets \ {s} : job'[t] = job[t]
  BY DEF BackendInv, BackendTypes
<1>2. Len(requests) \in Nat
  BY DEF BackendInv, BackendTypes
<1>3. \A t \in Sockets : JobKind(job[t])'
  BY <1>1 DEF BackendInv, OnePlace, JobKind
<1>4. OnePlace'
  <2>1. \A t \in Sockets : 0 \notin Elems(up[t])
    BY <1>2 DEF BackendInv, OnePlace
  <2>2. \A t \in Sockets : Elems(up'[t]) \subseteq 1 .. Len(requests)
    BY DEF BackendInv, OnePlace
  <2>3. ASSUME NEW t \in Sockets, NEW u \in Sockets
        PROVE  /\ job'[u].request \notin Elems(up'[t])
               /\ t # u => /\ Elems(up'[t]) \cap Elems(up'[u]) = {}
                           /\ job'[t].request = job'[u].request
                                => job'[t].request = 0
    <3>1. \A w \in Sockets : job'[w].request \in {0, job[w].request}
      BY <1>1
    <3>2. 0 \notin Elems(up'[t]) /\ job[u].request \notin Elems(up'[t])
      BY <2>1 DEF BackendInv, OnePlace
    <3>3. t # u => Elems(up'[t]) \cap Elems(up'[u]) = {}
      BY DEF BackendInv, OnePlace
    <3>4. t # u /\ job[t].request = job[u].request => job[t].request = 0
      BY DEF BackendInv, OnePlace
    <3> QED
      BY <3>1, <3>2, <3>3, <3>4
  <2> QED
    BY <1>3, <2>2, <2>3 DEF OnePlace
<1>5. SpentKept
  BY <1>1, <1>2 DEF SpentKept, Spent
<1>6. Spent(n)'
  <2>1. \A t \in Sockets : n \notin Elems(up'[t])
    BY DEF BackendInv, OnePlace
  <2>2. \A t \in Sockets : job'[t].request # n
    BY <1>1, <1>2 DEF BackendInv, OnePlace
  <2> QED
    BY <2>1, <2>2 DEF Spent
<1> QED
  BY <1>4, <1>5, <1>6

\* The frame of the job of s.
Frame(s, type) == [request |-> job[s].request, type |-> type, run |-> job[s].run]

\* send_json adds the frame or nothing.
LEMMA SendTells ==
    ASSUME BackendInv, NEW s \in Sockets, NEW type \in {"result", "error"},
           send_json(s, type), UNCHANGED answers,
           NEW f, f = Frame(s, type)
    PROVE  /\ down' \in [Sockets -> Seq(Frames)]
           /\ Told' \subseteq Told \cup {f}
           /\ Told \subseteq Frames
<1>1. Frame(s, type) \in Frames
  BY DEF BackendInv, BackendTypes, Jobs, Frame, Frames
<1>2. /\ Append(down[s], Frame(s, type)) \in Seq(Frames)
      /\ Elems(Append(down[s], Frame(s, type)))
           = Elems(down[s]) \cup {Frame(s, type)}
  BY <1>1, AppendElems DEF BackendInv, BackendTypes
<1>3. \/ down' = down
      \/ down' = [down EXCEPT ![s] = Append(down[s], Frame(s, type))]
  BY DEF send_json, Frame
<1>4. /\ down' \in [Sockets -> Seq(Frames)]
      /\ \A t \in Sockets : Elems(down'[t]) \subseteq Elems(down[t]) \cup {Frame(s, type)}
  <2>1. CASE down' = down
    BY <2>1 DEF BackendInv, BackendTypes
  <2>2. CASE down' = [down EXCEPT ![s] = Append(down[s], Frame(s, type))]
    BY <1>2, <2>2 DEF BackendInv, BackendTypes
  <2> QED
    BY <1>3, <2>1, <2>2
<1>5. Told' \subseteq Told \cup {Frame(s, type)}
  BY <1>4 DEF Told
<1>6. Told \subseteq Frames
  BY DEF BackendInv, BackendTypes, Told, Elems
<1> QED
  BY <1>4, <1>5, <1>6

\* A request ends with a frame and without a stored result: an error, or the
\* answer of a chat, or an analysis whose result could not be stored.
LEMMA EndsUnstored ==
    ASSUME BackendInv, NEW s \in Sockets, NEW type \in {"result", "error"},
           job[s].stage \in {"prepare", "pm", "sa", "chat"},
           send_json(s, type), NEW j \in Jobs, j.request = 0,
           j.stage \in {"idle", "ended"},
           job' = [job EXCEPT ![s] = j],
           UNCHANGED <<requests, answers, stored, clock>>,
           up' \in [Sockets -> Seq(Nat)],
           \A t \in Sockets : Elems(up'[t]) \subseteq Elems(up[t]) /\ NoDup(up'[t]),
           unstored \subseteq unstored', unstored' \subseteq Nat,
           \/ type = "error" \/ job[s].stage = "chat"
           \/ job[s].request \in unstored'
    PROVE  BackendInv'
<1> PICK n, f : n = job[s].request /\ f = Frame(s, type)
  OBVIOUS
<1>1. n \in 1 .. Len(requests) /\ Len(requests) \in Nat
  BY HandlerBusy
<1>2. OnePlace' /\ SpentKept /\ Spent(n)'
  BY <1>1, PlaceFreed
<1>3. /\ down' \in [Sockets -> Seq(Frames)] /\ Told \subseteq Frames
      /\ Told' \subseteq Told \cup {f}
  BY SendTells
<1>4. BackendTypes'
  BY <1>3 DEF BackendInv, BackendTypes
<1>5. f.request = n /\ f.type = type /\ Restorable(f)'
  <2>1. job[s].stage = "chat" => requests[n] = "idea_chat"
    BY DEF BackendInv, OnePlace, JobKind
  <2> QED
    BY <2>1 DEF Frame, Restorable
<1>6. ASSUME NEW g \in Told PROVE Spent(g.request)' /\ Restorable(g)'
  BY <1>2, <1>3, <1>6
  DEF BackendInv, ToldInv, SpentKept, Restorable, Frames
<1>7. ASSUME NEW t \in Seconds, stored[t] # 0
      PROVE  /\ Spent(stored[t])' /\ stored[t] # n
             /\ \A g \in Told : g.request = stored[t] => g.type = "result"
  BY <1>2, <1>7 DEF BackendInv, BackendTypes, ToldInv, SpentKept, Spent
<1>8. ToldInv'
  <2>1. \A g \in Told' : Spent(g.request)' /\ Restorable(g)'
    BY <1>2, <1>3, <1>5, <1>6
  <2>2. \A t \in Seconds : stored'[t] # 0 =>
          /\ Spent(stored[t])'
          /\ \A g \in Told' : g.request = stored'[t] => g.type = "result"
    BY <1>3, <1>5, <1>7
  <2> QED
    BY <2>1, <2>2 DEF ToldInv
<1> QED
  BY <1>2, <1>4, <1>8 DEF BackendInv

\* The result of an analysis is stored and told: nothing was told of it before.
LEMMA EndsStored ==
    ASSUME BackendInv, NEW s \in Sockets, job[s].stage = "sa",
           send_json(s, "result"),
           job' = [job EXCEPT ![s] = Idle],
           stored' = [stored EXCEPT ![job[s].run] = job[s].request],
           UNCHANGED <<requests, answers, up, clock, unstored>>
    PROVE  BackendInv'
<1> PICK n, r, f : n = job[s].request /\ r = job[s].run /\ f = Frame(s, "result")
  OBVIOUS
<1>1. n \in 1 .. Len(requests) /\ Len(requests) \in Nat
  BY HandlerBusy
<1>2. r \in Seconds
  BY DEF BackendInv, OnePlace, JobKind
<1>3. OnePlace' /\ SpentKept /\ Spent(n)'
  <2>1. Idle \in Jobs /\ Idle.request = 0 /\ Idle.stage = "idle"
    BY DEF Idle, Jobs, Stages
  <2>2. \A t \in Sockets : Elems(up'[t]) \subseteq Elems(up[t]) /\ NoDup(up'[t])
    BY DEF BackendInv, OnePlace
  <2> QED
    BY <1>1, <2>1, <2>2, PlaceFreed
<1>4. /\ down' \in [Sockets -> Seq(Frames)] /\ Told \subseteq Frames
      /\ Told' \subseteq Told \cup {f}
  BY SendTells
<1>5. /\ stored' \in [Seconds -> Nat] /\ stored'[r] = n
      /\ \A t \in Seconds \ {r} : stored'[t] = stored[t]
  BY <1>1, <1>2 DEF BackendInv, BackendTypes
<1>6. BackendTypes'
  <2>1. job' \in [Sockets -> Jobs]
    BY DEF BackendInv, BackendTypes, Idle, Jobs, Stages
  <2> QED
    BY <1>4, <1>5, <2>1 DEF BackendInv, BackendTypes
<1>7. f.request = n /\ f.type = "result" /\ f.run = r
  BY DEF Frame
<1>8. ASSUME NEW g \in Told
      PROVE  Spent(g.request)' /\ Restorable(g)' /\ g.request # n
  <2>1. Spent(g.request) /\ Restorable(g) /\ g.request \in Nat
    BY <1>4 DEF BackendInv, ToldInv, Frames
  <2>2. Restorable(g)'
    BY <1>1, <1>5, <2>1 DEF Restorable
  <2> QED
    BY <1>3, <2>1, <2>2 DEF SpentKept, Spent
<1>9. ASSUME NEW t \in Seconds, stored'[t] # 0
      PROVE  /\ Spent(stored[t])'
             /\ \A g \in Told : g.request = stored'[t] => g.type = "result"
  <2>1. CASE t = r
    BY <1>3, <1>5, <1>8, <2>1
  <2>2. CASE t # r
    BY <1>3, <1>5, <1>9, <2>2
    DEF BackendInv, BackendTypes, ToldInv, SpentKept
  <2> QED
    BY <2>1, <2>2
<1>10. ToldInv'
  <2>1. Restorable(f)'
    BY <1>1, <1>2, <1>5, <1>7 DEF Restorable
  <2>2. \A g \in Told' : Spent(g.request)' /\ Restorable(g)'
    BY <1>3, <1>4, <1>7, <1>8, <2>1
  <2>3. \A t \in Seconds : stored'[t] # 0 =>
          \A g \in Told' : g.request = stored'[t] => g.type = "result"
    BY <1>4, <1>7, <1>9
  <2> QED
    BY <1>9, <2>2, <2>3 DEF ToldInv
<1> QED
  BY <1>3, <1>6, <1>10 DEF BackendInv

\* Work on a request goes on.
LEMMA JobGoesOn ==
    ASSUME BackendInv, NEW s \in Sockets, NEW j \in Jobs,
           j.request = job[s].request, JobKind(j),
           job' = [job EXCEPT ![s] = j],
           UNCHANGED <<requests, answers, up, down, clock, stored, unstored>>
    PROVE  BackendInv'
<1>1. /\ job' \in [Sockets -> Jobs]
      /\ job'[s] = j /\ \A t \in Sockets \ {s} : job'[t] = job[t]
  BY DEF BackendInv, BackendTypes
<1>2. \A t \in Sockets : job'[t].request = job[t].request /\ JobKind(job[t])'
  BY <1>1 DEF BackendInv, OnePlace, JobKind
<1>3. OnePlace'
  BY <1>2 DEF BackendInv, OnePlace
<1>4. ToldInv'
  BY <1>2 DEF BackendInv, ToldInv, Spent, Restorable, Told
<1> QED
  BY <1>1, <1>3, <1>4 DEF BackendInv, BackendTypes

LEMMA ReceiveKeeps ==
    ASSUME BackendInv, NEW s \in Sockets, Receive(s)
    PROVE  BackendInv'
<1> DEFINE n == Head(up[s])
           j == [stage |-> IF requests[n] = "analyze" THEN "prepare" ELSE "chat",
                 request |-> n, run |-> 0]
<1>1. /\ up[s] \in Seq(Nat) /\ up[s] # <<>> /\ job[s].stage = "idle"
      /\ job' = [job EXCEPT ![s] = j] /\ up' = [up EXCEPT ![s] = Tail(up[s])]
      /\ UNCHANGED <<requests, answers, down, clock, stored, unstored>>
  BY DEF Receive, BackendInv, BackendTypes
<1>2. /\ Tail(up[s]) \in Seq(Nat) /\ n \in Elems(up[s]) /\ n \in Nat
      /\ Elems(up[s]) = {n} \cup Elems(Tail(up[s]))
      /\ NoDup(Tail(up[s])) /\ n \notin Elems(Tail(up[s]))
  BY <1>1, TailElems DEF BackendInv, OnePlace
<1>3. n \in 1 .. Len(requests) /\ Len(requests) \in Nat
      /\ requests[n] \in Kinds
  BY <1>2 DEF BackendInv, BackendTypes, OnePlace
<1>4. j \in Jobs /\ j.request = n /\ JobKind(j)
  BY <1>2, <1>3 DEF Jobs, Stages, JobKind, Kinds
<1> HIDE DEF n, j
<1>5. /\ job' \in [Sockets -> Jobs] /\ up' \in [Sockets -> Seq(Nat)]
      /\ job'[s] = j /\ up'[s] = Tail(up[s])
      /\ \A t \in Sockets \ {s} : job'[t] = job[t] /\ up'[t] = up[t]
  BY <1>1, <1>2, <1>4 DEF BackendInv, BackendTypes
<1>6. job[s].request = 0
  BY <1>1 DEF BackendInv, OnePlace, JobKind
<1>7. \A t \in Sockets : JobKind(job[t])'
  BY <1>1, <1>4, <1>5 DEF BackendInv, OnePlace, JobKind
<1>8. \A t \in Sockets : /\ Elems(up'[t]) \subseteq Elems(up[t]) /\ NoDup(up'[t])
                         /\ n \notin Elems(up'[t])
  BY <1>2, <1>5 DEF BackendInv, OnePlace
<1>9. \A t \in Sockets \ {s} : job[t].request # n
  BY <1>2 DEF BackendInv, OnePlace
<1>10. OnePlace'
  BY <1>1, <1>4, <1>5, <1>7, <1>8, <1>9 DEF BackendInv, OnePlace
<1>11. SpentKept
  <2> SUFFICES ASSUME NEW k \in Nat, Spent(k), NEW t \in Sockets
               PROVE  k \notin Elems(up'[t]) /\ job'[t].request # k
    BY <1>1 DEF SpentKept, Spent
  <2>1. k # n
    BY <1>2 DEF Spent
  <2> QED
    BY <1>4, <1>5, <1>8, <2>1 DEF Spent
<1>12. ToldInv'
  <2>1. RequestsGrow /\ Told' = Told
    BY <1>1, <1>3 DEF RequestsGrow, Told
  <2> QED
    BY <1>1, <1>11, <2>1, NothingTold DEF BackendInv
<1> QED
  BY <1>1, <1>5, <1>10, <1>12 DEF BackendInv, BackendTypes

LEMMA SendRequestKeeps ==
    ASSUME BackendInv, NEW kind \in Kinds, sendWsMessage(kind),
           wsConnection \in Sockets \cup {0}
    PROVE  BackendInv'
<1> DEFINE n == Len(requests) + 1
           w == wsConnection
<1>1. /\ requests' \in Seq(Kinds) /\ Len(requests') = n /\ Len(requests) \in Nat
      /\ \A k \in 1 .. Len(requests) : requests'[k] = requests[k]
      /\ UNCHANGED <<answers, down, job, clock, stored, unstored>>
  BY DEF sendWsMessage, backend, BackendInv, BackendTypes
<1>2. RequestsGrow
  BY <1>1 DEF RequestsGrow
<1>3. n \in Nat /\ \A t \in Sockets : n \notin Elems(up[t]) /\ job[t].request # n
  <2>1. \A t \in Sockets : Elems(up[t]) \subseteq 1 .. Len(requests)
    BY DEF BackendInv, OnePlace
  <2>2. \A t \in Sockets : job[t].request \in 0 .. Len(requests)
    <3> TAKE t \in Sockets
    <3>1. job[t].stage \in Stages /\ JobKind(job[t])
      BY DEF BackendInv, BackendTypes, OnePlace, Jobs
    <3> QED
      BY <1>1, <3>1 DEF JobKind, Stages
  <2> QED
    BY <1>1, <2>1, <2>2
<1>4. /\ up' \in [Sockets -> Seq(Nat)]
      /\ \A t \in Sockets : /\ NoDup(up'[t])
                            /\ \/ Elems(up'[t]) = Elems(up[t])
                               \/ t = w /\ Elems(up'[t]) = Elems(up[t]) \cup {n}
  <2>1. CASE up' = up
    BY <2>1 DEF BackendInv, BackendTypes, OnePlace
  <2>2. CASE w \in Sockets /\ up' = [up EXCEPT ![w] = Append(up[w], n)]
    <3>1. /\ Append(up[w], n) \in Seq(Nat)
          /\ Elems(Append(up[w], n)) = Elems(up[w]) \cup {n}
          /\ NoDup(Append(up[w], n))
      BY <1>3, <2>2, AppendElems DEF BackendInv, BackendTypes, OnePlace
    <3> HIDE DEF n, w
    <3> QED
      BY <2>2, <3>1 DEF BackendInv, BackendTypes, OnePlace
  <2> QED
    BY <2>1, <2>2 DEF sendWsMessage, CanSend
<1> HIDE DEF w
<1>5. \A t \in Sockets : JobKind(job[t])'
  BY <1>1 DEF BackendInv, OnePlace, JobKind
<1>6. OnePlace'
  <2>1. \A t \in Sockets : Elems(up'[t]) \subseteq 1 .. Len(requests')
    <3> TAKE t \in Sockets
    <3>1. Elems(up[t]) \subseteq 1 .. Len(requests)
      BY DEF BackendInv, OnePlace
    <3>2. \A k \in 1 .. Len(requests) : k \in 1 .. Len(requests')
      BY <1>1
    <3>3. n \in 1 .. Len(requests')
      BY <1>1
    <3> HIDE DEF n
    <3> QED
      BY <1>4, <3>1, <3>2, <3>3
  <2> HIDE DEF n
  <2>2. ASSUME NEW t \in Sockets, NEW u \in Sockets
        PROVE  /\ job'[u].request \notin Elems(up'[t])
               /\ t # u => /\ Elems(up'[t]) \cap Elems(up'[u]) = {}
                           /\ job'[t].request = job'[u].request
                                => job'[t].request = 0
    <3>1. job'[u].request \notin Elems(up'[t])
      BY <1>1, <1>3, <1>4 DEF BackendInv, OnePlace
    <3>2. t # u => Elems(up'[t]) \cap Elems(up'[u]) = {}
      BY <1>3, <1>4 DEF BackendInv, OnePlace
    <3>3. t # u /\ job'[t].request = job'[u].request => job'[t].request = 0
      BY <1>1 DEF BackendInv, OnePlace
    <3> QED
      BY <3>1, <3>2, <3>3
  <2> QED
    BY <1>4, <1>5, <2>1, <2>2 DEF OnePlace
<1>7. SpentKept
  <2> SUFFICES ASSUME NEW k \in Nat, Spent(k) PROVE Spent(k)'
    BY DEF SpentKept
  <2>1. k \in 1 .. Len(requests') /\ k # n
    BY <1>1 DEF Spent
  <2>2. \A t \in Sockets : k \notin Elems(up'[t]) /\ job'[t].request # k
    <3> HIDE DEF n
    <3> QED
      BY <1>1, <1>4, <2>1 DEF Spent
  <2> QED
    BY <2>1, <2>2 DEF Spent
<1>8. ToldInv'
  BY <1>1, <1>2, <1>7, NothingTold DEF BackendInv, Told
<1> QED
  BY <1>1, <1>4, <1>6, <1>8 DEF BackendInv, BackendTypes

LEMMA OnmessageKeeps ==
    ASSUME BackendInv, NEW s \in Sockets, onmessage(s)
    PROVE  BackendInv'
<1> DEFINE h == Head(down[s])
<1>1. /\ down[s] \in Seq(Frames) /\ down[s] # <<>> /\ answers \in Seq(Frames)
      /\ answers' = Append(answers, h) /\ down' = [down EXCEPT ![s] = Tail(down[s])]
      /\ UNCHANGED <<requests, up, job, clock, stored, unstored>>
  BY DEF onmessage, backend, BackendInv, BackendTypes
<1>2. /\ Tail(down[s]) \in Seq(Frames) /\ h \in Frames
      /\ Elems(down[s]) = {h} \cup Elems(Tail(down[s]))
  BY <1>1, TailElems
<1>3. answers' \in Seq(Frames) /\ Elems(answers') = Elems(answers) \cup {h}
  BY <1>1, <1>2, AppendElems
<1> HIDE DEF h
<1>4. /\ down' \in [Sockets -> Seq(Frames)]
      /\ \A t \in Sockets : Elems(down'[t]) \subseteq Elems(down[t])
  BY <1>1, <1>2 DEF BackendInv, BackendTypes
<1>5. Told' \subseteq Told
  BY <1>2, <1>3, <1>4 DEF Told
<1>6. RequestsGrow /\ SpentKept /\ OnePlace'
  BY <1>1
  DEF BackendInv, BackendTypes, OnePlace, JobKind, RequestsGrow, SpentKept, Spent
<1>7. ToldInv'
  BY <1>1, <1>5, <1>6, NothingTold DEF BackendInv
<1> QED
  BY <1>1, <1>3, <1>4, <1>6, <1>7 DEF BackendInv, BackendTypes

LEMMA OncloseBackend ==
    ASSUME BackendInv, NEW s \in Sockets, onclose(s)
    PROVE  BackendInv'
<1>1. PICK k \in 0 .. Len(up[s]) : up' = [up EXCEPT ![s] = SubSeq(up[s], 1, k)]
  BY DEF onclose
<1>2. /\ down' = [down EXCEPT ![s] = <<>>]
      /\ UNCHANGED <<requests, answers, job, clock, stored, unstored>>
  BY DEF onclose, backend
<1>3. /\ SubSeq(up[s], 1, k) \in Seq(Nat)
      /\ Elems(SubSeq(up[s], 1, k)) \subseteq Elems(up[s])
      /\ NoDup(SubSeq(up[s], 1, k))
  BY PrefixElems DEF BackendInv, BackendTypes, OnePlace
<1>4. /\ up' \in [Sockets -> Seq(Nat)]
      /\ \A t \in Sockets : Elems(up'[t]) \subseteq Elems(up[t]) /\ NoDup(up'[t])
  BY <1>1, <1>3 DEF BackendInv, BackendTypes, OnePlace
<1>5. /\ down' \in [Sockets -> Seq(Frames)]
      /\ \A t \in Sockets : Elems(down'[t]) \subseteq Elems(down[t])
  BY <1>2, EmptyElems DEF BackendInv, BackendTypes
<1>6. RequestsGrow /\ SpentKept /\ OnePlace'
  <2>1. Len(requests) \in Nat
    BY DEF BackendInv, BackendTypes
  <2>2. RequestsGrow /\ SpentKept
    BY <1>2, <1>4, <2>1 DEF RequestsGrow, SpentKept, Spent
  <2>3. \A t \in Sockets : JobKind(job[t])'
    BY <1>2 DEF BackendInv, OnePlace, JobKind
  <2>4. OnePlace'
    BY <1>2, <1>4, <2>3 DEF BackendInv, OnePlace
  <2> QED
    BY <2>2, <2>4
<1>7. Told' \subseteq Told
  BY <1>2, <1>5 DEF Told
<1>8. ToldInv'
  BY <1>2, <1>6, <1>7, NothingTold DEF BackendInv
<1> QED
  BY <1>2, <1>4, <1>5, <1>6, <1>8 DEF BackendInv, BackendTypes

LEMMA HandlerKeeps ==
    ASSUME BackendInv, NEW s \in Sockets, Handler(s)
    PROVE  BackendInv'
<1>0. /\ Idle \in Jobs /\ Idle.request = 0 /\ Idle.stage = "idle"
      /\ [Idle EXCEPT !.stage = "ended"] \in Jobs
      /\ [Idle EXCEPT !.stage = "ended"].request = 0
      /\ [Idle EXCEPT !.stage = "ended"].stage = "ended"
      /\ job[s] \in Jobs /\ JobKind(job[s])
      /\ unstored \subseteq Nat /\ up \in [Sockets -> Seq(Nat)]
  BY DEF Idle, Jobs, Stages, BackendInv, BackendTypes, OnePlace
<1>a. \A t \in Sockets : Elems(up[t]) \subseteq Elems(up[t]) /\ NoDup(up[t])
  BY DEF BackendInv, OnePlace
<1>1. CASE Receive(s)
  BY <1>1, ReceiveKeeps
<1>2. CASE Refuse(s)
  BY <1>0, <1>a, <1>2, EndsUnstored DEF Refuse
<1>3. CASE StartRun(s)
  <2> DEFINE j == [job[s] EXCEPT !.stage = "pm", !.run = clock]
  <2>1. j \in Jobs /\ j.request = job[s].request /\ JobKind(j)
    BY <1>0, <1>3
    DEF StartRun, Jobs, Stages, JobKind, BackendInv, BackendTypes
  <2>2. job' = [job EXCEPT ![s] = j]
    BY <1>3 DEF StartRun, BackendInv, BackendTypes
  <2> HIDE DEF j
  <2> QED
    BY <1>3, <2>1, <2>2, JobGoesOn DEF StartRun
<1>4. CASE PmDone(s)
  <2> DEFINE j == [job[s] EXCEPT !.stage = "sa"]
  <2>1. j \in Jobs /\ j.request = job[s].request /\ JobKind(j)
    BY <1>0, <1>4 DEF PmDone, Jobs, Stages, JobKind
  <2>2. job' = [job EXCEPT ![s] = j]
    BY <1>4 DEF PmDone
  <2> HIDE DEF j
  <2> QED
    BY <1>4, <2>1, <2>2, JobGoesOn DEF PmDone
<1>5. CASE RunFails(s)
  BY <1>0, <1>a, <1>5, EndsUnstored DEF RunFails
<1>6. CASE SaDone(s)
  <2>1. CASE stored' = [stored EXCEPT ![job[s].run] = job[s].request]
             /\ UNCHANGED unstored
    BY <1>6, <2>1, EndsStored DEF SaDone
  <2>2. CASE unstored' = unstored \cup {job[s].request} /\ UNCHANGED stored
    <3>1. job[s].request \in Nat
      BY <1>0 DEF Jobs
    <3> QED
      BY <1>0, <1>a, <1>6, <2>2, <3>1, EndsUnstored DEF SaDone
  <2> QED
    BY <1>6, <2>1, <2>2 DEF SaDone
<1>7. CASE ChatDone(s)
  BY <1>0, <1>a, <1>7, EndsUnstored DEF ChatDone
<1>8. CASE HandlerDies(s)
  <2>1. /\ up' \in [Sockets -> Seq(Nat)]
        /\ \A t \in Sockets : Elems(up'[t]) \subseteq Elems(up[t]) /\ NoDup(up'[t])
    BY <1>0, <1>a, <1>8, EmptyElems DEF HandlerDies
  <2> QED
    BY <1>0, <1>8, <2>1, EndsUnstored DEF HandlerDies
<1>9. CASE HandlerLeaves(s)
  <2> DEFINE j == [job[s] EXCEPT !.stage = "ended"]
  <2>1. j \in Jobs /\ j.request = job[s].request /\ JobKind(j)
    BY <1>0, <1>9 DEF HandlerLeaves, Jobs, Stages, JobKind
  <2>2. job' = [job EXCEPT ![s] = j]
    BY <1>9 DEF HandlerLeaves
  <2> HIDE DEF j
  <2> QED
    BY <1>9, <2>1, <2>2, JobGoesOn DEF HandlerLeaves
<1> QED
  BY <1>1, <1>2, <1>3, <1>4, <1>5, <1>6, <1>7, <1>8, <1>9 DEF Handler

LEMMA NextBackend ==
    ASSUME BackendInv, wsConnection \in Sockets \cup {0}, [Next]_vars
    PROVE  BackendInv'
<1>0. clock \in Seconds
  BY DEF BackendInv, BackendTypes
<1>1. CASE AppConnects
  BY <1>0, <1>1, QuietBackend DEF AppConnects, backend
<1>2. CASE RetryTimer
  BY <1>0, <1>2, QuietBackend DEF RetryTimer, backend
<1>3. CASE Tick
  <2>1. clock' \in Seconds
    BY <1>0, <1>3, SocketAssumption DEF Tick, Seconds
  <2> QED
    BY <1>3, <2>1, QuietBackend DEF Tick
<1>4. ASSUME NEW kind \in Kinds, sendWsMessage(kind) PROVE BackendInv'
  BY <1>4, SendRequestKeeps
<1>5. ASSUME NEW s \in Sockets, onopen(s) PROVE BackendInv'
  BY <1>0, <1>5, QuietBackend DEF onopen, backend
<1>6. ASSUME NEW s \in Sockets, onclose(s) PROVE BackendInv'
  BY <1>6, OncloseBackend
<1>7. ASSUME NEW s \in Sockets, onmessage(s) PROVE BackendInv'
  BY <1>7, OnmessageKeeps
<1>8. ASSUME NEW s \in Sockets, Handler(s) PROVE BackendInv'
  BY <1>8, HandlerKeeps
<1>9. CASE UNCHANGED vars
  BY <1>0, <1>9, QuietBackend DEF vars, backend
<1> QED
  BY <1>1, <1>2, <1>3, <1>4, <1>5, <1>6, <1>7, <1>8, <1>9 DEF Next

LEMMA ConnectionType == Spec => [](wsConnection \in Sockets \cup {0})
<1>1. ClientInv => wsConnection \in Sockets \cup {0}
  BY DEF ClientInv, ClientTypes
<1> QED
  BY <1>1, ClientInvariance, PTL

LEMMA BackendInvariant == Spec => []BackendInv
<1>1. BackendInv /\ wsConnection \in Sockets \cup {0} /\ [Next]_vars => BackendInv'
  BY NextBackend
<1> QED
  BY <1>1, InitBackend, ConnectionType, PTL DEF Spec

\* A result the client got can be restored, for any number of sockets,
\* requests and seconds: the result is stored before it is sent, and what is
\* stored under an id is overwritten and never removed.
THEOREM ResultsStoredFirst == Spec => []ResultStoredBeforeTold
<1>1. BackendInv => ResultStoredBeforeTold
  BY DEF BackendInv, ToldInv, Told, Elems, Restorable, ResultStoredBeforeTold
<1> QED
  BY <1>1, BackendInvariant, PTL

\* What is stored is the outcome of an analysis that went through.
THEOREM StoredSucceeded == Spec => []StoredMeansSucceeded
<1>1. BackendInv => StoredMeansSucceeded
  BY DEF BackendInv, ToldInv, Told, Elems, Spent, StoredMeansSucceeded
<1> QED
  BY <1>1, BackendInvariant, PTL

-----------------------------------------------------------------------------
(***************************************************************************)
(* The refinement of AnswerService.  What a socket carries is in line: the *)
(* frames on their way, the request its handler works on and the requests  *)
(* that wait are in the order of the requests, and all of them are later   *)
(* than the last one that was answered.  w is the state of the socket, q   *)
(* what waits, d the frames, r the request of the handler.                 *)
(***************************************************************************)

LastTold == IF answers = <<>> THEN 0 ELSE answers[Len(answers)].request

InLine(w, q, d, r, last) ==
    /\ w \in {"unborn", "connecting"} => q = <<>> /\ d = <<>> /\ r = 0
    /\ w = "open" =>
         /\ \A i, j \in 1 .. Len(q) : i < j => q[i] < q[j]
         /\ \A i \in 1 .. Len(q) : r < q[i] /\ last < q[i]
         /\ \A i, j \in 1 .. Len(d) : i < j => d[i].request < d[j].request
         /\ \A i \in 1 .. Len(d) :
              /\ last < d[i].request
              /\ r # 0 => d[i].request < r
              /\ \A j \in 1 .. Len(q) : d[i].request < q[j]
         /\ r # 0 => last < r

Lines ==
    \A s \in Sockets :
      InLine(sock[s], up[s], down[s], job[s].request, LastTold)

LEMMA EmptyLine ==
    ASSUME NEW w, NEW last
    PROVE  InLine(w, <<>>, <<>>, 0, last)
BY DEF InLine

LEMMA ClosedLine ==
    ASSUME NEW q, NEW d, NEW r, NEW last
    PROVE  InLine("closed", q, d, r, last)
BY DEF InLine

\* The handler takes the first request that waits.
LEMMA LineReceives ==
    ASSUME NEW w, NEW q \in Seq(Nat), NEW d, NEW last \in Nat, q # <<>>,
           InLine(w, q, d, 0, last)
    PROVE  InLine(w, Tail(q), d, Head(q), last)
<1> DEFINE t == Tail(q)
           h == Head(q)
<1>1. /\ Len(t) = Len(q) - 1 /\ Len(q) \in Nat /\ Len(q) > 0
      /\ \A i \in 1 .. Len(t) : t[i] = q[i + 1]
      /\ h = q[1] /\ h \in Nat
  OBVIOUS
<1> HIDE DEF t, h
<1>2. \A i \in 1 .. Len(t) : i + 1 \in 1 .. Len(q) /\ 1 \in 1 .. Len(q)
  BY <1>1
<1>3. w \notin {"unborn", "connecting"}
  BY DEF InLine
<1>4. ASSUME w = "open"
      PROVE  InLine(w, t, d, h, last)
  <2>1. 1 \in 1 .. Len(q)
    BY <1>1
  <2>2. last < h /\ 0 < h
    BY <1>1, <1>4, <2>1 DEF InLine
  <2>3. ASSUME NEW i \in 1 .. Len(t), NEW j \in 1 .. Len(t), i < j
        PROVE  t[i] < t[j]
    <3>1. /\ i + 1 \in 1 .. Len(q) /\ j + 1 \in 1 .. Len(q) /\ i + 1 < j + 1
          /\ t[i] = q[i + 1] /\ t[j] = q[j + 1]
      BY <1>1, <1>2, <2>3
    <3> QED
      BY <1>4, <3>1 DEF InLine
  <2>4. ASSUME NEW i \in 1 .. Len(t)
        PROVE  h < t[i] /\ last < t[i]
    <3>1. i + 1 \in 1 .. Len(q) /\ 1 < i + 1 /\ t[i] = q[i + 1]
      BY <1>1, <1>2
    <3> QED
      BY <1>1, <1>4, <2>1, <3>1 DEF InLine
  <2>5. /\ \A i, j \in 1 .. Len(d) : i < j => d[i].request < d[j].request
        /\ \A i \in 1 .. Len(d) : last < d[i].request
    BY <1>4 DEF InLine
  <2>6. ASSUME NEW i \in 1 .. Len(d)
        PROVE  d[i].request < h /\ \A j \in 1 .. Len(t) : d[i].request < t[j]
    <3>1. \A j \in 1 .. Len(q) : d[i].request < q[j]
      BY <1>4 DEF InLine
    <3> QED
      BY <1>1, <1>2, <2>1, <3>1
  <2> QED
    BY <1>4, <2>2, <2>3, <2>4, <2>5, <2>6 DEF InLine
<1>5. w # "open" => InLine(w, t, d, h, last)
  BY <1>3 DEF InLine
<1> QED
  BY <1>4, <1>5 DEF t, h

\* The handler is done, with a frame or, on a socket that is gone, without;
\* what waits may be dropped.
LEMMA LineEnds ==
    ASSUME NEW w, NEW q \in Seq(Nat), NEW d \in Seq(Frames), NEW last \in Nat,
           NEW f \in Frames, f.request # 0, InLine(w, q, d, f.request, last)
    PROVE  /\ w = "open" => InLine(w, q, Append(d, f), 0, last)
           /\ w = "open" => InLine(w, <<>>, Append(d, f), 0, last)
           /\ w # "open" => InLine(w, q, d, 0, last) /\ InLine(w, <<>>, d, 0, last)
<1> DEFINE e == Append(d, f)
<1>1. /\ Len(e) = Len(d) + 1 /\ Len(d) \in Nat
      /\ \A i \in 1 .. Len(d) : e[i] = d[i]
      /\ e[Len(d) + 1] = f
  OBVIOUS
<1> HIDE DEF e
<1>2. \A i \in 1 .. Len(e) : i \in 1 .. Len(d) \/ i = Len(d) + 1
  BY <1>1
<1>3. f.request \in Nat /\ \A i \in 1 .. Len(q) : q[i] \in Nat
  <2>1. f.request \in Nat
    BY DEF Frames
  <2>2. \A i \in 1 .. Len(q) : q[i] \in Nat
    OBVIOUS
  <2> QED
    BY <2>1, <2>2
<1>4. ASSUME w = "open"
      PROVE  /\ \A i, j \in 1 .. Len(e) : i < j => e[i].request < e[j].request
             /\ \A i \in 1 .. Len(e) : last < e[i].request
             /\ \A i \in 1 .. Len(e) : \A j \in 1 .. Len(q) : e[i].request < q[j]
             /\ \A i \in 1 .. Len(q) : 0 < q[i]
  <2>1. \A i, j \in 1 .. Len(e) : i < j => e[i].request < e[j].request
    <3> TAKE i, j \in 1 .. Len(e)
    <3>1. CASE j \in 1 .. Len(d)
      BY <1>1, <1>2, <1>4, <3>1 DEF InLine
    <3>2. CASE j = Len(d) + 1
      BY <1>1, <1>2, <1>4, <3>2 DEF InLine
    <3> QED
      BY <1>2, <3>1, <3>2
  <2>2. \A i \in 1 .. Len(e) : last < e[i].request
    BY <1>1, <1>2, <1>4 DEF InLine
  <2>3. \A i \in 1 .. Len(e) : \A j \in 1 .. Len(q) : e[i].request < q[j]
    BY <1>1, <1>2, <1>4 DEF InLine
  <2>4. \A i \in 1 .. Len(q) : 0 < q[i]
    BY <1>3, <1>4 DEF InLine
  <2> QED
    BY <2>1, <2>2, <2>3, <2>4
<1>5. w = "open" => InLine(w, q, e, 0, last) /\ InLine(w, <<>>, e, 0, last)
  BY <1>4 DEF InLine
<1>6. w # "open" => InLine(w, q, d, 0, last) /\ InLine(w, <<>>, d, 0, last)
  BY DEF InLine
<1> QED
  BY <1>5, <1>6 DEF e

\* A request that is later than all the others is sent.
LEMMA LineGrows ==
    ASSUME NEW q \in Seq(Nat), NEW d \in Seq(Frames), NEW r \in Nat,
           NEW last \in Nat, NEW n \in Nat, last < n, r < n,
           \A i \in 1 .. Len(q) : q[i] < n,
           \A i \in 1 .. Len(d) : d[i].request < n,
           InLine("open", q, d, r, last)
    PROVE  InLine("open", Append(q, n), d, r, last)
<1> DEFINE p == Append(q, n)
<1>1. /\ Len(p) = Len(q) + 1 /\ Len(q) \in Nat
      /\ \A i \in 1 .. Len(q) : p[i] = q[i]
      /\ p[Len(q) + 1] = n
  OBVIOUS
<1> HIDE DEF p
<1>2. \A i \in 1 .. Len(p) : i \in 1 .. Len(q) \/ i = Len(q) + 1
  BY <1>1
<1>3. \A i, j \in 1 .. Len(p) : i < j => p[i] < p[j]
  <2> SUFFICES ASSUME NEW i \in 1 .. Len(p), NEW j \in 1 .. Len(p), i < j
               PROVE  p[i] < p[j]
    OBVIOUS
  <2>1. i \in 1 .. Len(q)
    BY <1>1, <1>2
  <2>2. CASE j \in 1 .. Len(q)
    <3>1. p[i] = q[i] /\ p[j] = q[j]
      BY <1>1, <2>1, <2>2
    <3> QED
      BY <2>1, <2>2, <3>1 DEF InLine
  <2>3. CASE j = Len(q) + 1
    BY <1>1, <2>1, <2>3
  <2> QED
    BY <1>2, <2>2, <2>3
<1>4. \A i \in 1 .. Len(p) : r < p[i] /\ last < p[i]
  BY <1>1, <1>2 DEF InLine
<1>5. \A i \in 1 .. Len(d) : \A j \in 1 .. Len(p) : d[i].request < p[j]
  BY <1>1, <1>2 DEF InLine
<1> QED
  BY <1>3, <1>4, <1>5 DEF InLine, p

\* The client takes the first frame.
LEMMA LineTells ==
    ASSUME NEW q, NEW d \in Seq(Frames), NEW r, NEW last, d # <<>>,
           InLine("open", q, d, r, last)
    PROVE  /\ last < Head(d).request
           /\ InLine("open", q, Tail(d), r, Head(d).request)
<1> DEFINE t == Tail(d)
           h == Head(d)
<1>1. /\ Len(t) = Len(d) - 1 /\ Len(d) \in Nat /\ Len(d) > 0
      /\ \A i \in 1 .. Len(t) : t[i] = d[i + 1]
      /\ h = d[1]
  OBVIOUS
<1> HIDE DEF t, h
<1>2. 1 \in 1 .. Len(d) /\ \A i \in 1 .. Len(t) : i + 1 \in 1 .. Len(d) /\ 1 < i + 1
  BY <1>1
<1>3. ASSUME NEW i \in 1 .. Len(t), NEW j \in 1 .. Len(t), i < j
      PROVE  t[i].request < t[j].request
  <2>1. /\ i + 1 \in 1 .. Len(d) /\ j + 1 \in 1 .. Len(d) /\ i + 1 < j + 1
        /\ t[i] = d[i + 1] /\ t[j] = d[j + 1]
    BY <1>1, <1>2, <1>3
  <2> QED
    BY <2>1 DEF InLine
<1>4. \A i \in 1 .. Len(t) : /\ h.request < t[i].request
                             /\ r # 0 => t[i].request < r
                             /\ \A j \in 1 .. Len(q) : t[i].request < q[j]
  BY <1>1, <1>2 DEF InLine
<1>5. /\ last < h.request /\ r # 0 => h.request < r
      /\ \A j \in 1 .. Len(q) : h.request < q[j]
  BY <1>1, <1>2 DEF InLine
<1> QED
  BY <1>3, <1>4, <1>5 DEF InLine, t, h

\* What is on its way, or was told, was asked.
LEMMA AllAsked ==
    ASSUME BackendInv
    PROVE  /\ LastTold \in 0 .. Len(requests) /\ Len(requests) \in Nat
           /\ \A s \in Sockets :
                /\ up[s] \in Seq(Nat) /\ down[s] \in Seq(Frames)
                /\ job[s].request \in 0 .. Len(requests)
                /\ \A i \in 1 .. Len(up[s]) : up[s][i] \in 1 .. Len(requests)
                /\ \A i \in 1 .. Len(down[s]) :
                     down[s][i].request \in 1 .. Len(requests)
<1>1. Len(requests) \in Nat /\ answers \in Seq(Frames)
  BY DEF BackendInv, BackendTypes
<1>2. LastTold \in 0 .. Len(requests)
  <2>1. CASE answers = <<>>
    BY <1>1, <2>1 DEF LastTold
  <2>2. CASE answers # <<>>
    <3>1. Len(answers) \in 1 .. Len(answers)
      BY <1>1, <2>2
    <3>2. answers[Len(answers)] \in Told
      BY <3>1 DEF Told, Elems
    <3> QED
      BY <2>2, <3>2 DEF LastTold, BackendInv, ToldInv, Spent
  <2> QED
    BY <2>1, <2>2
<1>3. ASSUME NEW s \in Sockets
      PROVE  /\ up[s] \in Seq(Nat) /\ down[s] \in Seq(Frames)
             /\ job[s].request \in 0 .. Len(requests)
             /\ \A i \in 1 .. Len(up[s]) : up[s][i] \in 1 .. Len(requests)
             /\ \A i \in 1 .. Len(down[s]) :
                  down[s][i].request \in 1 .. Len(requests)
  <2>1. up[s] \in Seq(Nat) /\ down[s] \in Seq(Frames)
    BY DEF BackendInv, BackendTypes
  <2>2. job[s].request \in 0 .. Len(requests)
    <3>1. job[s].stage \in Stages /\ JobKind(job[s])
      BY DEF BackendInv, BackendTypes, OnePlace, Jobs
    <3> QED
      BY <1>1, <3>1 DEF JobKind, Stages
  <2>3. \A i \in 1 .. Len(up[s]) : up[s][i] \in 1 .. Len(requests)
    BY DEF BackendInv, OnePlace, Elems
  <2>4. ASSUME NEW i \in 1 .. Len(down[s])
        PROVE  down[s][i].request \in 1 .. Len(requests)
    <3>1. down[s][i] \in Told
      BY DEF Told, Elems
    <3> QED
      BY <3>1 DEF BackendInv, ToldInv, Spent
  <2> QED
    BY <2>1, <2>2, <2>3, <2>4
<1> QED
  BY <1>1, <1>2, <1>3

\* A step that changes the line of one socket only.
LEMMA OneLineChanges ==
    ASSUME Lines, NEW s \in Sockets, UNCHANGED answers,
           \A t \in Sockets \ {s} : /\ sock'[t] = sock[t] /\ up'[t] = up[t]
                                    /\ down'[t] = down[t] /\ job'[t] = job[t],
           InLine(sock'[s], up'[s], down'[s], job'[s].request, LastTold)
    PROVE  Lines'
<1>1. LastTold' = LastTold
  BY DEF LastTold
<1>2. ASSUME NEW t \in Sockets
      PROVE  InLine(sock'[t], up'[t], down'[t], job'[t].request, LastTold')
  <2>1. CASE t = s
    BY <1>1, <2>1
  <2>2. CASE t # s
    BY <1>1, <2>2 DEF Lines
  <2> QED
    BY <2>1, <2>2
<1> QED
  BY <1>2 DEF Lines

\* The request of s ends, and what s has sent may be dropped.
LEMMA EndKeepsLine ==
    ASSUME BackendInv, Lines, NEW s \in Sockets,
           job[s].stage \in {"prepare", "pm", "sa", "chat"},
           NEW type \in {"result", "error"}, send_json(s, type),
           NEW j, j.request = 0, job' = [job EXCEPT ![s] = j],
           UNCHANGED <<sock, answers>>,
           \/ up' = up \/ up' = [up EXCEPT ![s] = <<>>]
    PROVE  Lines'
<1> PICK f : f = Frame(s, type)
  OBVIOUS
<1>1. f \in Frames /\ f.request = job[s].request /\ f.request # 0
  BY HandlerBusy DEF Frame, Frames, Jobs
<1>2. /\ up[s] \in Seq(Nat) /\ down[s] \in Seq(Frames) /\ LastTold \in Nat
      /\ InLine(sock[s], up[s], down[s], f.request, LastTold)
  BY <1>1, AllAsked DEF Lines
<1>3. job'[s].request = 0 /\ \A t \in Sockets \ {s} : job'[t] = job[t]
  BY DEF BackendInv, BackendTypes
<1>4. up'[s] \in {up[s], <<>>} /\ \A t \in Sockets \ {s} : up'[t] = up[t]
  BY DEF BackendInv, BackendTypes
<1>5. /\ down'[s] = IF sock[s] = "open" THEN Append(down[s], f) ELSE down[s]
      /\ \A t \in Sockets \ {s} : down'[t] = down[t]
  BY DEF send_json, Frame, BackendInv, BackendTypes
<1>6. InLine(sock'[s], up'[s], down'[s], job'[s].request, LastTold)
  <2>1. sock'[s] = sock[s] /\ f.request # 0
    BY <1>1
  <2>2. CASE sock[s] = "open"
    <3>1. /\ InLine(sock[s], up[s], Append(down[s], f), 0, LastTold)
          /\ InLine(sock[s], <<>>, Append(down[s], f), 0, LastTold)
      BY <1>1, <1>2, <2>2, LineEnds
    <3>2. down'[s] = Append(down[s], f)
      BY <1>5, <2>2
    <3> QED
      BY <1>3, <1>4, <2>1, <3>1, <3>2
  <2>3. CASE sock[s] # "open"
    <3>1. /\ InLine(sock[s], up[s], down[s], 0, LastTold)
          /\ InLine(sock[s], <<>>, down[s], 0, LastTold)
      BY <1>1, <1>2, <2>3, LineEnds
    <3>2. down'[s] = down[s]
      BY <1>5, <2>3
    <3> QED
      BY <1>3, <1>4, <2>1, <3>1, <3>2
  <2> QED
    BY <2>2, <2>3
<1> QED
  BY <1>3, <1>4, <1>5, <1>6, OneLineChanges

LEMMA HandlerKeepsLine ==
    ASSUME BackendInv, Lines, NEW s \in Sockets, Handler(s)
    PROVE  Lines'
<1>0. /\ up \in [Sockets -> Seq(Nat)] /\ job \in [Sockets -> Jobs]
      /\ LastTold \in Nat /\ up[s] \in Seq(Nat)
      /\ InLine(sock[s], up[s], down[s], job[s].request, LastTold)
  BY AllAsked DEF BackendInv, BackendTypes, Lines
<1>1. CASE Receive(s)
  <2>1. /\ up[s] # <<>> /\ job[s].request = 0
        /\ up' = [up EXCEPT ![s] = Tail(up[s])] /\ job'[s].request = Head(up[s])
        /\ \A t \in Sockets \ {s} : job'[t] = job[t]
        /\ UNCHANGED <<sock, down, answers>>
    BY <1>0, <1>1 DEF Receive, client, BackendInv, OnePlace, JobKind
  <2>2. up'[s] = Tail(up[s]) /\ \A t \in Sockets \ {s} : up'[t] = up[t]
    BY <1>0, <2>1
  <2>3. InLine(sock[s], Tail(up[s]), down[s], Head(up[s]), LastTold)
    BY <1>0, <2>1, LineReceives
  <2> QED
    BY <2>1, <2>2, <2>3, OneLineChanges
<1>2. CASE Refuse(s) \/ RunFails(s) \/ ChatDone(s) \/ SaDone(s) \/ HandlerDies(s)
  <2>1. Idle.request = 0 /\ [Idle EXCEPT !.stage = "ended"].request = 0
    BY DEF Idle
  <2>2. CASE Refuse(s)
    BY <2>1, <2>2, EndKeepsLine DEF Refuse, client
  <2>3. CASE RunFails(s)
    BY <2>1, <2>3, EndKeepsLine DEF RunFails, client
  <2>4. CASE ChatDone(s)
    BY <2>1, <2>4, EndKeepsLine DEF ChatDone, client
  <2>5. CASE SaDone(s)
    BY <2>1, <2>5, EndKeepsLine DEF SaDone, client
  <2>6. CASE HandlerDies(s)
    BY <2>1, <2>6, EndKeepsLine DEF HandlerDies, client
  <2> QED
    BY <1>2, <2>2, <2>3, <2>4, <2>5, <2>6
<1>3. CASE StartRun(s) \/ PmDone(s) \/ HandlerLeaves(s)
  <2>1. UNCHANGED <<sock, up, down, answers>>
    BY <1>3 DEF StartRun, PmDone, HandlerLeaves, client
  <2>2. job[s] \in Jobs
    BY <1>0
  <2>3. PICK j : j.request = job[s].request /\ job' = [job EXCEPT ![s] = j]
    <3>1. CASE StartRun(s)
      <4> DEFINE j == [[job[s] EXCEPT !.stage = "pm"] EXCEPT !.run = clock]
      <4>1. j.request = job[s].request
        BY <2>2 DEF Jobs
      <4>2. job' = [job EXCEPT ![s] = j]
        BY <1>0, <3>1 DEF StartRun, Jobs
      <4> QED
        BY <4>1, <4>2
    <3>2. CASE PmDone(s)
      <4> DEFINE j == [job[s] EXCEPT !.stage = "sa"]
      <4>1. j.request = job[s].request
        BY <2>2 DEF Jobs
      <4>2. job' = [job EXCEPT ![s] = j]
        BY <3>2 DEF PmDone
      <4> QED
        BY <4>1, <4>2
    <3>3. CASE HandlerLeaves(s)
      <4> DEFINE j == [job[s] EXCEPT !.stage = "ended"]
      <4>1. j.request = job[s].request
        BY <2>2 DEF Jobs
      <4>2. job' = [job EXCEPT ![s] = j]
        BY <3>3 DEF HandlerLeaves
      <4> QED
        BY <4>1, <4>2
    <3> QED
      BY <1>3, <3>1, <3>2, <3>3
  <2>4. \A t \in Sockets : job'[t].request = job[t].request
    BY <1>0, <2>3
  <2> QED
    BY <2>1, <2>4 DEF Lines, LastTold
<1> QED
  BY <1>1, <1>2, <1>3 DEF Handler

LEMMA ConnectKeepsLines ==
    ASSUME ClientInv, Lines, connectWebSocket, UNCHANGED <<answers, up, down, job>>
    PROVE  Lines'
<1>1. CASE UNCHANGED sock
  BY <1>1 DEF Lines, LastTold
<1>2. ASSUME NEW s \in Sockets, sock[s] = "unborn",
             sock' = [sock EXCEPT ![s] = "connecting"]
      PROVE  Lines'
  <2>1. sock'[s] = "connecting" /\ \A t \in Sockets \ {s} : sock'[t] = sock[t]
    BY <1>2 DEF ClientInv, ClientTypes
  <2>2. up[s] = <<>> /\ down[s] = <<>> /\ job[s].request = 0
    BY <1>2 DEF Lines, InLine
  <2> QED
    BY <2>1, <2>2, EmptyLine, OneLineChanges
<1> QED
  BY <1>1, <1>2 DEF connectWebSocket

LEMMA NextLines ==
    ASSUME Connects = 1, ClientInv, OpenIsUsed, BackendInv, Lines, [Next]_vars
    PROVE  Lines'
<1>0. /\ sock \in [Sockets -> {"unborn", "connecting", "open", "closed"}]
      /\ up \in [Sockets -> Seq(Nat)] /\ down \in [Sockets -> Seq(Frames)]
      /\ answers \in Seq(Frames)
  BY DEF ClientInv, ClientTypes, BackendInv, BackendTypes
<1>1. CASE AppConnects
  BY <1>1, ConnectKeepsLines DEF AppConnects, backend
<1>2. CASE RetryTimer
  <2>1. CASE wsStatus = "disconnected"
    BY <1>2, <2>1, ConnectKeepsLines DEF RetryTimer, backend
  <2>2. CASE wsStatus # "disconnected"
    BY <1>2, <2>2 DEF RetryTimer, backend, Lines, LastTold
  <2> QED
    BY <2>1, <2>2
<1>3. CASE Tick
  BY <1>3 DEF Tick, client, Lines, LastTold
<1>4. ASSUME NEW kind \in Kinds, sendWsMessage(kind) PROVE Lines'
  <2> DEFINE n == Len(requests) + 1
             s == wsConnection
  <2>1. UNCHANGED <<sock, answers, down, job>>
    BY <1>4 DEF sendWsMessage, client, backend
  <2>2. CASE ~CanSend
    BY <1>4, <2>1, <2>2 DEF sendWsMessage, Lines, LastTold
  <2>3. CASE CanSend
    <3>1. s \in Sockets /\ sock[s] = "open"
      BY <2>3 DEF CanSend, ClientInv, ClientTypes
    <3>2. up' = [up EXCEPT ![s] = Append(up[s], n)]
      BY <1>4, <2>3 DEF sendWsMessage
    <3>3. up'[s] = Append(up[s], n) /\ \A t \in Sockets \ {s} : up'[t] = up[t]
      BY <1>0, <3>1, <3>2
    <3>4. /\ LastTold \in Nat /\ LastTold < n /\ n \in Nat
          /\ up[s] \in Seq(Nat) /\ down[s] \in Seq(Frames)
          /\ job[s].request \in Nat /\ job[s].request < n
          /\ \A i \in 1 .. Len(up[s]) : up[s][i] < n
          /\ \A i \in 1 .. Len(down[s]) : down[s][i].request < n
      BY <3>1, AllAsked
    <3>5. InLine("open", up[s], down[s], job[s].request, LastTold)
      BY <3>1 DEF Lines
    <3> HIDE DEF n, s
    <3>6. InLine("open", Append(up[s], n), down[s], job[s].request, LastTold)
      BY <3>4, <3>5, LineGrows
    <3> QED
      BY <2>1, <3>1, <3>3, <3>6, OneLineChanges
  <2> QED
    BY <2>2, <2>3
<1>5. ASSUME NEW s \in Sockets, onopen(s) PROVE Lines'
  <2>1. /\ sock'[s] = "open" /\ \A t \in Sockets \ {s} : sock'[t] = sock[t]
        /\ UNCHANGED <<up, down, job, answers>>
    BY <1>0, <1>5 DEF onopen, backend
  <2>2. up[s] = <<>> /\ down[s] = <<>> /\ job[s].request = 0
    BY <1>5 DEF onopen, Lines, InLine
  <2> QED
    BY <2>1, <2>2, EmptyLine, OneLineChanges
<1>6. ASSUME NEW s \in Sockets, onclose(s) PROVE Lines'
  <2>1. /\ sock'[s] = "closed"
        /\ \A t \in Sockets \ {s} : sock'[t] = sock[t] /\ up'[t] = up[t]
                                    /\ down'[t] = down[t]
        /\ UNCHANGED <<job, answers>>
    BY <1>0, <1>6 DEF onclose, backend
  <2> QED
    BY <2>1, ClosedLine, OneLineChanges
<1>7. ASSUME NEW s \in Sockets, onmessage(s) PROVE Lines'
  <2> DEFINE h == Head(down[s])
  <2>1. /\ sock[s] = "open" /\ down[s] # <<>> /\ down[s] \in Seq(Frames)
        /\ answers' = Append(answers, h) /\ down'[s] = Tail(down[s])
        /\ \A t \in Sockets \ {s} : down'[t] = down[t]
        /\ UNCHANGED <<sock, up, job>>
    BY <1>0, <1>7 DEF onmessage, client, backend
  <2>2. LastTold' = h.request
    <3>1. PICK x \in Frames : x = h
      BY <2>1
    <3>2. answers' = Append(answers, x)
      BY <2>1, <3>1
    <3>3. Len(answers') = Len(answers) + 1 /\ Len(answers) \in Nat
      BY <1>0, <3>2
    <3>4. answers'[Len(answers) + 1] = x
      BY <1>0, <3>2
    <3>5. answers' # <<>>
      BY <3>3
    <3> QED
      BY <3>1, <3>3, <3>4, <3>5 DEF LastTold
  <2>3. \A t \in Sockets \ {s} : sock[t] # "open"
    BY <1>0, <2>1 DEF OpenIsUsed
  <2>4. InLine("open", up[s], Tail(down[s]), job[s].request, h.request)
    BY <2>1, LineTells DEF Lines
  <2> HIDE DEF h
  <2>5. ASSUME NEW t \in Sockets
        PROVE  InLine(sock'[t], up'[t], down'[t], job'[t].request, LastTold')
    <3>1. CASE t = s
      BY <2>1, <2>2, <2>4, <3>1
    <3>2. CASE t # s
      BY <2>1, <2>3, <3>2 DEF Lines, InLine
    <3> QED
      BY <3>1, <3>2
  <2> QED
    BY <2>5 DEF Lines
<1>8. ASSUME NEW s \in Sockets, Handler(s) PROVE Lines'
  BY <1>8, HandlerKeepsLine
<1>9. CASE UNCHANGED vars
  BY <1>9 DEF vars, client, backend, Lines, LastTold
<1> QED
  BY <1>1, <1>2, <1>3, <1>4, <1>5, <1>6, <1>7, <1>8, <1>9 DEF Next

\* What the service sees of an answer, without the id of the run.
Answers == [i \in 1 .. Len(answers) |->
              [request |-> answers[i].request, type |-> answers[i].type]]

LEMMA NextService ==
    ASSUME ClientInv, BackendInv, Lines, [Next]_vars
    PROVE  [Service!ServiceNext]_Service!serviceVars
<1> USE DEF Service!serviceVars
<1>0. answers \in Seq(Frames) /\ requests \in Seq(Kinds)
  BY DEF BackendInv, BackendTypes
<1>1. CASE UNCHANGED <<requests, answers>>
  BY <1>1
<1>2. ASSUME NEW kind \in Kinds, sendWsMessage(kind)
      PROVE  Service!ServiceNext
  BY <1>2 DEF sendWsMessage, Service!ServiceNext, Service!Ask, Service!Kinds, Kinds
<1>3. ASSUME NEW s \in Sockets, onmessage(s)
      PROVE  Service!ServiceNext
  <2> DEFINE h == Head(down[s])
  <2>1. /\ sock[s] = "open" /\ down[s] # <<>> /\ down[s] \in Seq(Frames)
        /\ answers' = Append(answers, h) /\ requests' = requests
    BY <1>3 DEF onmessage, BackendInv, BackendTypes
  <2>2. h \in Frames /\ h = down[s][1] /\ 1 \in 1 .. Len(down[s])
    BY <2>1
  <2>3. h.request \in 1 .. Len(requests) /\ h.type \in Service!AnswerTypes
    BY <2>2, AllAsked DEF Frames, Service!AnswerTypes
  <2>4. LastTold < h.request
    BY <2>1, LineTells DEF Lines
  <2> HIDE DEF h
  <2>5. Service!LastAnswered = LastTold
    BY <1>0 DEF Service!LastAnswered, LastTold
  <2>6. Answers' = Append(Answers, [request |-> h.request, type |-> h.type])
    BY <1>0, <2>1, <2>2 DEF Answers
  <2>7. PICK n \in 1 .. Len(requests), type \in Service!AnswerTypes :
          n = h.request /\ type = h.type
    BY <2>3
  <2>8. Service!Answer(n, type)
    BY <2>1, <2>4, <2>5, <2>6, <2>7 DEF Service!Answer, Answers
  <2> QED
    BY <2>8 DEF Service!ServiceNext
<1> QED
  BY <1>1, <1>2, <1>3
  DEF Next, vars, AppConnects, RetryTimer, Tick, onopen, onclose, Handler,
      Receive, Refuse, StartRun, PmDone, RunFails, SaDone, ChatDone,
      HandlerDies, HandlerLeaves

\* When App connects once, the sockets together are the service the store is
\* built on: a request is answered once at most, and answers come in the order
\* of the requests, across lost sockets and dying handlers.
THEOREM ServiceImplemented ==
    ASSUME Connects = 1
    PROVE  Spec => ImplementsService
<1>1. Init => Lines /\ Service!ServiceInit
  <2> SUFFICES ASSUME Init PROVE Lines /\ Service!ServiceInit
    OBVIOUS
  <2>1. Lines
    BY EmptyLine DEF Init, Idle, Lines
  <2>2. Service!ServiceInit
    BY DEF Init, Service!ServiceInit
  <2> QED
    BY <2>1, <2>2
<1>2. ClientInv /\ OpenIsUsed /\ BackendInv /\ Lines /\ [Next]_vars => Lines'
  BY NextLines
<1>3. ClientInv /\ BackendInv /\ Lines /\ [Next]_vars
        => [Service!ServiceNext]_Service!serviceVars
  BY NextService
<1> QED
  BY <1>1, <1>2, <1>3, ClientInvariance, OpenSocketIsUsed, BackendInvariant, PTL
  DEF Spec, ImplementsService, Service!ServiceSpec
=============================================================================
