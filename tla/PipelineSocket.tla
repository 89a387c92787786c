--------------------------- MODULE PipelineSocket ---------------------------
(***************************************************************************)
(* The WebSocket between the client's store and the backend's pipelines:   *)
(* the client connects, loses sockets and reconnects; each socket has a    *)
(* handler of its own on the backend, which serves the requests of its     *)
(* socket one after the other, stores the result of an analysis and        *)
(* answers.  Handlers of different sockets interleave wherever they await. *)
(*                                                                         *)
(* A request is named by its number.  Frames that report progress (status, *)
(* thinking) are left out; "none", socket 0 and run 0 stand for null.      *)
(*                                                                         *)
(* An operator marked "Fault:" is no part of the specification: it is a    *)
(* wrong version of the definition after it, and shows that a property     *)
(* depends on that definition.                                             *)
(***************************************************************************)
EXTENDS Naturals, Sequences, FiniteSets

CONSTANTS
    Connects,       \* times App connects: React's StrictMode runs effects twice
    MaxDrops,       \* bound: sockets lost, handlers that die
    MaxRequests,    \* bound: requests ever sent
    MaxSeconds      \* bound: seconds of the clock that names runs

ASSUME SocketAssumption ==
    /\ Connects \in Nat \ {0}
    /\ MaxDrops \in Nat /\ MaxRequests \in Nat
    /\ MaxSeconds \in Nat \ {0}

VARIABLES
    \* the client
    calls,      \* connections App asked for so far
    sock,       \* the state of each socket of the client
    wsConnection,
    wsStatus,
    timers,     \* pending setTimeout's of onclose
    requests,   \* the kinds of the requests sent so far
    answers,    \* the answers handled so far
    \* the network
    up,         \* requests on their way to the backend, per socket
    down,       \* answers on their way to the client, per socket
    \* the backend
    job,        \* what the handler of each socket does
    clock,      \* the second, from which run ids are made
    stored,     \* analysis_results: the request whose result an id names
    unstored,   \* requests whose result could not be stored
    drops

client == <<calls, sock, wsConnection, wsStatus, timers>>
backend == <<job, clock, stored, unstored>>
vars == <<client, requests, answers, up, down, backend, drops>>

\* Every socket but those of App's calls replaces a lost one.
Sockets == 1 .. (Connects + MaxDrops)
Seconds == 1 .. MaxSeconds
Requests == 1 .. MaxRequests
Kinds == {"analyze", "idea_chat"}

Live == {s \in Sockets : sock[s] \in {"connecting", "open"}}

\* The job of a handler: its stage, the request and the id of the run.
Idle == [stage |-> "idle", request |-> 0, run |-> 0]

Init ==
    /\ calls = 0 /\ timers = 0
    /\ sock = [s \in Sockets |-> "unborn"]
    /\ wsConnection = 0 /\ wsStatus = "disconnected"
    /\ requests = <<>> /\ answers = <<>>
    /\ up = [s \in Sockets |-> <<>>] /\ down = [s \in Sockets |-> <<>>]
    /\ job = [s \in Sockets |-> Idle]
    /\ clock = 1 /\ stored = [t \in Seconds |-> 0] /\ unstored = {}
    /\ drops = 0

(***************************************************************************)
(* The client's socket.                                                    *)
(***************************************************************************)

CanSend == wsConnection # 0 /\ sock[wsConnection] = "open"

\* connectWebSocket: it looks for an open socket only, so that a socket that
\* is still connecting is followed by a second one.
connectWebSocket ==
    IF CanSend
    THEN UNCHANGED <<sock, wsConnection, wsStatus>>
    ELSE \E s \in Sockets :
           /\ sock[s] = "unborn" /\ \A r \in 1 .. s - 1 : sock[r] # "unborn"
           /\ sock' = [sock EXCEPT ![s] = "connecting"]
           /\ wsConnection' = s
           /\ wsStatus' = "connecting"

\* Fault: the effect of App runs once more.
AppConnectsAgain ==
    /\ calls <= Connects
    /\ calls' = calls + 1
    /\ connectWebSocket
    /\ UNCHANGED <<timers, requests, answers, up, down, backend, drops>>

\* The effect of App, at start.
AppConnects ==
    /\ calls < Connects
    /\ calls' = calls + 1
    /\ connectWebSocket
    /\ UNCHANGED <<timers, requests, answers, up, down, backend, drops>>

onopen(s) ==
    /\ sock[s] = "connecting"
    /\ sock' = [sock EXCEPT ![s] = "open"]
    /\ wsConnection' = s
    /\ wsStatus' = "connected"
    /\ UNCHANGED <<calls, timers, requests, answers, up, down, backend, drops>>

\* Fault: only a socket that was open is followed by a timer.
oncloseIfOpened(s) ==
    /\ s \in Live
    /\ \/ drops < MaxDrops /\ drops' = drops + 1
       \/ job[s].stage = "ended" /\ UNCHANGED drops
    /\ sock' = [sock EXCEPT ![s] = "closed"]
    /\ wsConnection' = 0
    /\ wsStatus' = "disconnected"
    /\ timers' = IF sock[s] = "open" THEN timers + 1 ELSE timers
    /\ \E k \in 0 .. Len(up[s]) : up' = [up EXCEPT ![s] = SubSeq(@, 1, k)]
    /\ down' = [down EXCEPT ![s] = <<>>]
    /\ UNCHANGED <<calls, requests, answers, backend>>

\* A socket is lost, or could not be opened, or its handler has ended.
\* onerror, which comes just before, writes only what onclose overwrites.
\* The backend may still read a part of what the client had sent.
onclose(s) ==
    /\ s \in Live
    /\ \/ drops < MaxDrops /\ drops' = drops + 1
       \/ job[s].stage = "ended" /\ UNCHANGED drops
    /\ sock' = [sock EXCEPT ![s] = "closed"]
    /\ wsConnection' = 0
    /\ wsStatus' = "disconnected"
    /\ timers' = timers + 1
    /\ \E k \in 0 .. Len(up[s]) : up' = [up EXCEPT ![s] = SubSeq(@, 1, k)]
    /\ down' = [down EXCEPT ![s] = <<>>]
    /\ UNCHANGED <<calls, requests, answers, backend>>

\* Fault: the timer expects the status of a connection that failed.
RetryTimerOnError ==
    /\ timers > 0
    /\ timers' = timers - 1
    /\ IF wsStatus = "error"
       THEN connectWebSocket
       ELSE UNCHANGED <<sock, wsConnection, wsStatus>>
    /\ UNCHANGED <<calls, requests, answers, up, down, backend, drops>>

\* The timer of onclose connects again, unless something else did.
RetryTimer ==
    /\ timers > 0
    /\ timers' = timers - 1
    /\ IF wsStatus = "disconnected"
       THEN connectWebSocket
       ELSE UNCHANGED <<sock, wsConnection, wsStatus>>
    /\ UNCHANGED <<calls, requests, answers, up, down, backend, drops>>

\* sendWsMessage: without an open socket the message is dropped.
sendWsMessage(kind) ==
    /\ Len(requests) < MaxRequests
    /\ requests' = Append(requests, kind)
    /\ up' = IF CanSend
             THEN [up EXCEPT ![wsConnection] = Append(@, Len(requests) + 1)]
             ELSE up
    /\ UNCHANGED <<client, answers, down, backend, drops>>

onmessage(s) ==
    /\ sock[s] = "open" /\ down[s] # <<>>
    /\ answers' = Append(answers, Head(down[s]))
    /\ down' = [down EXCEPT ![s] = Tail(@)]
    /\ UNCHANGED <<client, requests, up, backend, drops>>

(***************************************************************************)
(* The handler of a socket: websocket_pipeline awaits each request before  *)
(* it receives the next.                                                   *)
(***************************************************************************)

\* manager.send_json: a frame for a socket that is gone is swallowed.
send_json(s, type) ==
    down' = IF sock[s] = "open"
            THEN [down EXCEPT ![s] = Append(@, [request |-> job[s].request,
                                                type |-> type,
                                                run |-> job[s].run])]
            ELSE down

Receive(s) ==
    /\ job[s].stage = "idle" /\ up[s] # <<>>
    /\ LET n == Head(up[s])
       IN job' = [job EXCEPT ![s] =
                    [stage |-> IF requests[n] = "analyze" THEN "prepare"
                                                          ELSE "chat",
                     request |-> n, run |-> 0]]
    /\ up' = [up EXCEPT ![s] = Tail(@)]
    /\ UNCHANGED <<client, requests, answers, down, clock, stored, unstored,
                   drops>>

\* Not a PM, no repository, no idea, nothing to scan: an error, no run.
Refuse(s) ==
    /\ job[s].stage = "prepare"
    /\ send_json(s, "error")
    /\ job' = [job EXCEPT ![s] = Idle]
    /\ UNCHANGED <<client, requests, answers, up, clock, stored, unstored,
                   drops>>

\* The run id is the second in which the preparation ended.
StartRun(s) ==
    /\ job[s].stage = "prepare"
    /\ job' = [job EXCEPT ![s].stage = "pm", ![s].run = clock]
    /\ UNCHANGED <<client, requests, answers, up, down, clock, stored,
                   unstored, drops>>

\* Fault: the PM stage sends its result like the SA stage.
PmDoneSends(s) ==
    /\ job[s].stage = "pm"
    /\ job' = [job EXCEPT ![s].stage = "sa"]
    /\ send_json(s, "result")
    /\ UNCHANGED <<client, requests, answers, up, clock, stored, unstored,
                   drops>>

\* Fault: the PM stage is stored like the SA stage.
PmDoneStores(s) ==
    /\ job[s].stage = "pm"
    /\ job' = [job EXCEPT ![s].stage = "sa"]
    /\ stored' = [stored EXCEPT ![job[s].run] = job[s].request]
    /\ UNCHANGED <<client, requests, answers, up, down, clock, unstored, drops>>

\* The PM stage is neither stored nor sent (save=False).
PmDone(s) ==
    /\ job[s].stage = "pm"
    /\ job' = [job EXCEPT ![s].stage = "sa"]
    /\ UNCHANGED <<client, requests, answers, up, down, clock, stored,
                   unstored, drops>>

\* Fault: a failed run ends without an error frame.
RunFailsSilently(s) ==
    /\ job[s].stage \in {"pm", "sa", "chat"}
    /\ job' = [job EXCEPT ![s] = Idle]
    /\ UNCHANGED <<client, requests, answers, up, down, clock, stored,
                   unstored, drops>>

\* A node reports an error or raises an exception.
RunFails(s) ==
    /\ job[s].stage \in {"pm", "sa", "chat"}
    /\ send_json(s, "error")
    /\ job' = [job EXCEPT ![s] = Idle]
    /\ UNCHANGED <<client, requests, answers, up, clock, stored, unstored,
                   drops>>

\* Fault: the id is made from the clock once more when the result is stored.
SaDoneLateId(s) ==
    /\ job[s].stage = "sa"
    /\ stored' = [stored EXCEPT ![clock] = job[s].request]
    /\ send_json(s, "result")
    /\ job' = [job EXCEPT ![s] = Idle]
    /\ UNCHANGED <<client, requests, answers, up, clock, unstored, drops>>

\* The result is stored under the run id, over what is there, and then sent;
\* it is sent as well when it could not be stored.
SaDone(s) ==
    /\ job[s].stage = "sa"
    /\ \/ /\ stored' = [stored EXCEPT ![job[s].run] = job[s].request]
          /\ UNCHANGED unstored
       \/ /\ unstored' = unstored \cup {job[s].request}
          /\ UNCHANGED stored
    /\ send_json(s, "result")
    /\ job' = [job EXCEPT ![s] = Idle]
    /\ UNCHANGED <<client, requests, answers, up, clock, drops>>

ChatDone(s) ==
    /\ job[s].stage = "chat"
    /\ send_json(s, "result")
    /\ job' = [job EXCEPT ![s] = Idle]
    /\ UNCHANGED <<client, requests, answers, up, clock, stored, unstored,
                   drops>>

\* An exception outside the pipelines (the scan of a folder) leaves
\* websocket_pipeline after an error frame; the socket then closes.
HandlerDies(s) ==
    /\ job[s].stage = "prepare" /\ drops < MaxDrops
    /\ drops' = drops + 1
    /\ send_json(s, "error")
    /\ job' = [job EXCEPT ![s] = [Idle EXCEPT !.stage = "ended"]]
    /\ up' = [up EXCEPT ![s] = <<>>]
    /\ UNCHANGED <<client, requests, answers, clock, stored, unstored>>

\* WebSocketDisconnect: the socket is gone and everything it sent is read.
HandlerLeaves(s) ==
    /\ sock[s] = "closed" /\ job[s].stage = "idle" /\ up[s] = <<>>
    /\ job' = [job EXCEPT ![s].stage = "ended"]
    /\ UNCHANGED <<client, requests, answers, up, down, clock, stored,
                   unstored, drops>>

Tick ==
    /\ clock < MaxSeconds
    /\ clock' = clock + 1
    /\ UNCHANGED <<client, requests, answers, up, down, job, stored, unstored,
                   drops>>

Handler(s) ==
    \/ Receive(s) \/ Refuse(s) \/ StartRun(s) \/ PmDone(s) \/ RunFails(s)
    \/ SaDone(s) \/ ChatDone(s) \/ HandlerDies(s) \/ HandlerLeaves(s)

Next ==
    \/ AppConnects
    \/ RetryTimer
    \/ Tick
    \/ \E kind \in Kinds : sendWsMessage(kind)
    \/ \E s \in Sockets : onopen(s) \/ onclose(s) \/ onmessage(s) \/ Handler(s)

Spec == Init /\ [][Next]_vars

\* The browser connects or reports that it could not, fires timers and
\* delivers what arrived; every model call of a pipeline returns or raises.
\* Nothing makes the user send, or a socket get lost.
Fairness ==
    /\ WF_vars(AppConnects) /\ WF_vars(RetryTimer)
    /\ \A s \in Sockets :
         /\ WF_vars(onopen(s)) /\ WF_vars(onmessage(s)) /\ WF_vars(Handler(s))
         /\ WF_vars(job[s].stage = "ended" /\ onclose(s))

FairSpec == Spec /\ Fairness

(***************************************************************************)
(* Properties.                                                             *)
(***************************************************************************)

\* The client never gives up and never multiplies its sockets: whatever is
\* lost, and whenever, a live socket or the timer that will make one is left,
\* and there are never more of the two than App asked for (onclose's timer
\* and its test of wsStatus, wsSlice.js).
ConnectionsBounded ==
    calls > 0 => /\ Cardinality(Live) + timers >= 1
                 /\ Cardinality(Live) + timers <= calls

\* When App connects once, an open socket is the one messages are sent on,
\* though every onclose clears wsConnection without asking whose it is.
OpenIsUsed ==
    Connects = 1 => \A s \in Sockets : sock[s] = "open" => wsConnection = s

\* A result the client got can be restored: something is stored under its run
\* id, unless storing it failed (_persist_analysis_result before send_json).
ResultStoredBeforeTold ==
    \A i \in 1 .. Len(answers) :
      LET a == answers[i]
      IN /\ a.type = "result" /\ requests[a.request] = "analyze"
         /\ a.request \notin unstored
         => stored[a.run] # 0

\* What is stored is the outcome of an analysis that went through: it is not
\* running any more, and its client was told no error (save=False in the
\* first stage; the returns after errors).
StoredMeansSucceeded ==
    \A t \in Seconds : stored[t] # 0 =>
      /\ \A s \in Sockets : job[s].request # stored[t]
      /\ \A i \in 1 .. Len(answers) :
           answers[i].request = stored[t] => answers[i].type = "result"

Answered(n) == \E i \in 1 .. Len(answers) : answers[i].request = n

\* What AnswerService promises the store, when App connects once: answers come
\* in the order of the requests and at most once, across reconnections.
Service ==
    INSTANCE AnswerService
    WITH answers <- [i \in 1 .. Len(answers) |->
                       [request |-> answers[i].request,
                        type |-> answers[i].type]]
ImplementsService == Service!ServiceSpec

\* A request the backend has read or will read is answered, unless its socket
\* is lost: no failure of a run ends without a frame.
EveryRequestSettles ==
    \A n \in Requests, s \in Sockets :
      (job[s].request = n /\ sock[s] = "open")
        ~> (Answered(n) \/ sock[s] = "closed")

\* Once sockets are no longer lost the client is connected for good.
EventuallyConnected == <>[](wsStatus = "connected" /\ CanSend)
=============================================================================
