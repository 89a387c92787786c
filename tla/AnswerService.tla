---------------------------- MODULE AnswerService ----------------------------
(***************************************************************************)
(* What the client may expect of /ws/pipeline, whatever happens to sockets *)
(* and handlers: a request is answered at most once, by a result or by an  *)
(* error, and answers come in the order of the requests; a request whose   *)
(* socket is lost is never answered.  PipelineSocket implements it, and    *)
(* ClientWorkspace is built on it.                                         *)
(***************************************************************************)
EXTENDS Naturals, Sequences

CONSTANTS
    MaxRequests     \* bound: requests ever sent

ASSUME MaxRequestsAssumption == MaxRequests \in Nat

VARIABLES
    requests,       \* the requests of the client, in the order it sent them
    answers         \* the answers it handled, in the order it handled them

serviceVars == <<requests, answers>>

Kinds == {"analyze", "idea_chat"}
AnswerTypes == {"result", "error"}
Answers == [request : Nat \ {0}, type : AnswerTypes]

LastAnswered == IF answers = <<>> THEN 0 ELSE answers[Len(answers)].request

ServiceInit == requests = <<>> /\ answers = <<>>

Ask(kind) ==
    /\ Len(requests) < MaxRequests
    /\ requests' = Append(requests, kind)
    /\ UNCHANGED answers

Answer(n, type) ==
    /\ LastAnswered < n /\ n <= Len(requests)
    /\ answers' = Append(answers, [request |-> n, type |-> type])
    /\ UNCHANGED requests

ServiceNext ==
    \/ \E kind \in Kinds : Ask(kind)
    \/ \E n \in 1 .. Len(requests), type \in AnswerTypes : Answer(n, type)

ServiceSpec == ServiceInit /\ [][ServiceNext]_serviceVars
=============================================================================
