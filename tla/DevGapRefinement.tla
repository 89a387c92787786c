-------------------------- MODULE DevGapRefinement ---------------------------
(***************************************************************************)
(* The approval of GAPs implements DecisionLedger: the ledger's state is   *)
(* read off agile_tasks, GitHub, the wiki and the artifact store.          *)
(***************************************************************************)
EXTENDS DevGapApproval

\* The approval tasks that carry this head.
HeadTasks(h) ==
    {i \in DOMAIN tasks : /\ tasks[i].type = "dev_gap_approval"
                          /\ tasks[i].pr_context.head = h}

VerdictOf(h) == {tasks[i].result.decision : i \in HeadTasks(h)} \ {"none"}

ReportedHeads ==
    {h \in Heads : \E i \in HeadTasks(h) : tasks[i].result.posted}

\* The comments, artifacts and wiki pages that tell a decision.
Told ==
    {<<c[1].head, c[2]>> : c \in {c \in comments : c[2] \in Decisions}}
    \cup {<<a.head, a.decision>> :
             a \in {a \in knowledge : a.artifact_type # "DEV_GAP_REPORT"}}
    \cup {<<h, APPROVED>> : h \in wiki}

Ledger ==
    INSTANCE DecisionLedger WITH
        Approved  <- APPROVED,
        Rejected  <- REJECTED,
        verdict   <- [h \in Heads |-> VerdictOf(h)],
        shown     <- github,
        published <- Told,
        reported  <- ReportedHeads

\* Whatever fails, is repeated, reversed, patched or deleted, the endpoints,
\* the graph and gh together behave like the ledger.
ImplementsLedger == Ledger!Spec
=============================================================================
