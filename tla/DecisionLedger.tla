--------------------------- MODULE DecisionLedger ----------------------------
(***************************************************************************)
(* What the approval of GAPs promises of each pull request head, without   *)
(* tasks, handlers, failures or storage: a verdict is recorded first, what *)
(* is shown follows the verdict that is recorded at that time, and a       *)
(* report that the verdict is shown is never wrong.                        *)
(***************************************************************************)

CONSTANTS Heads, Approved, Rejected

VARIABLES
    verdict,    \* of each head, the recorded decision: at most one
    shown,      \* of each head, its commit status
    published,  \* what is told outside: <<head, decision>>
    reported    \* the heads whose record says that its verdict is shown

ledger == <<verdict, shown, published, reported>>

Verdicts == {Approved, Rejected}

StatusOf(d) == IF d = Approved THEN "success" ELSE "failure"

Init ==
    /\ verdict = [h \in Heads |-> {}]
    /\ shown = [h \in Heads |-> "none"]
    /\ published = {}
    /\ reported = {}

\* A decision replaces an earlier one; it is not shown yet.
Record(h, d) ==
    /\ verdict' = [verdict EXCEPT ![h] = {d}]
    /\ reported' = reported \ {h}
    /\ UNCHANGED <<shown, published>>

Show(h, d) ==
    /\ d \in verdict[h]
    /\ shown' = [shown EXCEPT ![h] = StatusOf(d)]
    /\ UNCHANGED <<verdict, published, reported>>

Publish(h, d) ==
    /\ d \in verdict[h]
    /\ published' = published \cup {<<h, d>>}
    /\ UNCHANGED <<verdict, shown, reported>>

Report(h, d) ==
    /\ d \in verdict[h]
    /\ shown[h] = StatusOf(d)
    /\ reported' = reported \cup {h}
    /\ UNCHANGED <<verdict, shown, published>>

\* The record goes; what it led to stays.
Forget(h) ==
    /\ verdict' = [verdict EXCEPT ![h] = {}]
    /\ reported' = reported \ {h}
    /\ UNCHANGED <<shown, published>>

Next ==
    \/ \E h \in Heads, d \in Verdicts :
          Record(h, d) \/ Show(h, d) \/ Publish(h, d) \/ Report(h, d)
    \/ \E h \in Heads : Forget(h)

Spec == Init /\ [][Next]_ledger
=============================================================================
