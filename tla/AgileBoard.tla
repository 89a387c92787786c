----------------------------- MODULE AgileBoard -----------------------------
(***************************************************************************)
(* The tasks of the agile board (table agile_tasks of local.db) and the    *)
(* panels that show them.  No endpoint awaits, not even for the language   *)
(* model: the backend handles one request after the other.  The panels do  *)
(* not wait: what a user clicks is about rows that may be old, and the     *)
(* answers arrive in any order.                                            *)
(*                                                                         *)
(* Descriptions, efforts, priorities and payloads are left out, and so are *)
(* the approval and SA review tasks: DevGapApproval has them.              *)
(* "Fault:" marks a wrong version of the definition after it.              *)
(***************************************************************************)
EXTENDS Naturals, Sequences, FiniteSets

CONSTANTS
    Panels,       \* windows that show the board
    Teams,
    Titles,       \* pairs: what a title says, and one way to write it
    Refs,         \* ids of requirements, feature_ref
    Areas,
    Members,      \* names of members who are no PM
    RoleOf,       \* the role of each member
    NoRef, NoOne,
    MaxTasks,     \* bound: tasks ever created
    MaxProposals, \* bound: tasks proposed in one answer of the model
    MaxChanges,   \* bound: clicks that change something
    MaxAnswers    \* bound: answers on their way to a panel

ASSUME BoardAssumption ==
    /\ NoRef \notin Refs /\ NoOne \notin Members
    /\ MaxTasks \in Nat /\ MaxProposals \in Nat
    /\ MaxChanges \in Nat /\ MaxAnswers \in Nat \ {0}

VARIABLES
    board,    \* the rows by id
    made,     \* ids given
    team,     \* the team a panel's user works in
    shown,    \* tasks of a panel: the rows by id
    sent,     \* what a panel has sent and the backend not handled
    answers,  \* what the backend has answered and a panel not taken
    changes   \* clicks that change something

rows == <<board, made>>
vars == <<rows, team, shown, sent, answers, changes>>

Empty == [i \in {} |-> 0]
Nothing == [op |-> "none"]

Init ==
    /\ board = Empty /\ made = 0
    /\ team \in [Panels -> Teams]
    /\ shown = [p \in Panels |-> Empty]
    /\ sent = [p \in Panels |-> Nothing]
    /\ answers = [p \in Panels |-> {}]
    /\ changes = 0

(***************************************************************************)
(* The table.                                                              *)
(***************************************************************************)

\* Fault: what was rejected is forgotten.
TeamRowsOpen(b, t) == {i \in DOMAIN b : b[i].team = t /\ b[i].status # "rejected"}

\* list_tasks of a team, in every status.
TeamRows(b, t) == {i \in DOMAIN b : b[i].team = t}

\* _normalize: upper case, blanks and dashes do not count.
Said(title) == title[1]

\* create_task compares the requirement or, without one, the title as written.
Duplicate(b, r) ==
    \E i \in TeamRows(b, r.team) :
      IF r.ref # NoRef THEN b[i].ref = r.ref ELSE b[i].title = r.title

create_task(b, r) ==
    IF Duplicate(b, r) \/ made + Cardinality(DOMAIN b \ DOMAIN board) >= MaxTasks
    THEN b
    ELSE LET id == made + Cardinality(DOMAIN b \ DOMAIN board) + 1
         IN [i \in DOMAIN b \cup {id} |-> IF i = id THEN r ELSE b[i]]

NewRow(t, title, ref, area, who) ==
    [team |-> t, title |-> title, ref |-> ref, area |-> area,
     status |-> "unassigned", assignee |-> who]

Created(b) ==
    /\ board' = b
    /\ made' = made + Cardinality(DOMAIN b \ DOMAIN board)

(***************************************************************************)
(* run_task_generator.                                                     *)
(***************************************************************************)

Proposals == [title : Titles, ref : Refs \cup {NoRef}, area : Areas]

\* A task that is proposed, unless its requirement or its title is there.
AddProposal(b, t, p) ==
    IF \E i \in TeamRows(b, t) :
         \/ p.ref # NoRef /\ b[i].ref = p.ref
         \/ Said(b[i].title) = Said(p.title)
    THEN b
    ELSE create_task(b, NewRow(t, p.title, p.ref, p.area, NoOne))

\* The rows read at first and those of this answer are compared with each
\* proposal, then create_task compares again.
Planned(b, t, proposals) ==
    LET after[k \in 0 .. Len(proposals)] ==
          IF k = 0 THEN b ELSE AddProposal(after[k - 1], t, proposals[k])
    IN after[Len(proposals)]

\* unassigned_ids, as they were when the tasks were read.
Rewritable(t) == {i \in TeamRows(board, t) : board[i].status = "unassigned"}

\* A suggestion for a task that may be changed sets its title and its area.
Rewritten(b, t, s) ==
    IF s.id \in Rewritable(t)
    THEN [b EXCEPT ![s.id].title = s.title, ![s.id].area = s.area,
                   ![s.id].status = "unassigned"]
    ELSE b

\* The model fails, or answers with new tasks and a suggestion for any task.
run_task_generator(t) ==
    \/ UNCHANGED rows
    \/ \E n \in 0 .. MaxProposals : \E proposals \in [1 .. n -> Proposals] :
         Created(Planned(board, t, proposals))
    \/ \E s \in [id : DOMAIN board, title : Titles, area : Areas] :
         Created(Rewritten(board, t, s))

(***************************************************************************)
(* run_task_distributor.                                                   *)
(***************************************************************************)

\* ROLE_AREA_COMPAT; a task without an area suits every role there is.
Suits(role, area) ==
    \/ role \in {"engineer", "software_engineer"}
    \/ role \in {"backend", "frontend", "devops"} /\ area \in {role, "unknown"}
    \/ role \in {"backend", "frontend"} /\ area = "fullstack"

\* task_area knows the areas of the tasks the model was shown.
KnownArea(t, i) == IF i \in Rewritable(t) THEN board[i].area ELSE "unknown"

\* When the team has unassigned tasks the model is asked, and may name a member
\* for any task, of whatever team and status.  What does not suit is skipped.
Assignments(t) ==
    {a \in UNION {[S -> Members] : S \in SUBSET DOMAIN board} :
       \A i \in DOMAIN a :
         Rewritable(t) # {} /\ Suits(RoleOf[a[i]], KnownArea(t, i))}

assign_task(b, a) ==
    [i \in DOMAIN b |-> IF i \in DOMAIN a
                        THEN [b[i] EXCEPT !.assignee = a[i],
                                          !.status = "pending_approval"]
                        ELSE b[i]]

run_task_distributor(t) ==
    \E a \in Assignments(t) : board' = assign_task(board, a) /\ UNCHANGED made

(***************************************************************************)
(* What a panel sends.                                                     *)
(***************************************************************************)

Send(p, r) ==
    /\ sent[p] = Nothing /\ changes < MaxChanges
    /\ sent' = [sent EXCEPT ![p] = r]
    /\ changes' = changes + 1
    /\ UNCHANGED <<rows, team, shown, answers>>

Patch(i, status, who) == [op |-> "patch", id |-> i, status |-> status, assignee |-> who]

\* The buttons of a row depend on the status it is shown with.
SendAction(p) ==
    \E i \in DOMAIN shown[p] :
      LET status == shown[p][i].status
          who == shown[p][i].assignee
      IN \/ status = "pending_approval"
            /\ \E s \in {"in_progress", "rejected"} : Send(p, Patch(i, s, who))
         \/ status = "in_progress" /\ Send(p, Patch(i, "pr_pending", who))
         \* handleSaveEdit keeps the status that is shown
         \/ status = "unassigned" /\ Send(p, Patch(i, "unassigned", who))
         \* handleReturnToUnassigned, handleReassign, and both with an edit
         \/ status = "rejected" /\ Send(p, Patch(i, "unassigned", NoOne))
         \/ status = "rejected"
            /\ \E m \in Members : Send(p, Patch(i, "pending_approval", m))

SendDelete(p) ==
    \E i \in DOMAIN shown[p] : Send(p, [op |-> "delete", id |-> i])

SendCreate(p) ==
    \E title \in Titles, area \in Areas, who \in Members \cup {NoOne} :
      Send(p, [op |-> "create",
               row |-> NewRow(team[p], title, NoRef, area, who)])

SendPlan(p) ==
    \E op \in {"generate", "distribute"} : Send(p, [op |-> op, team |-> team[p]])

(***************************************************************************)
(* The endpoints.  Each takes one request; the panel fetches the tasks     *)
(* again after "done".                                                     *)
(***************************************************************************)

Answer(p, a) ==
    /\ sent' = [sent EXCEPT ![p] = Nothing]
    /\ answers' = [answers EXCEPT ![p] = @ \cup {a}]
    /\ UNCHANGED <<team, shown, changes>>

Room(p) == Cardinality(answers[p]) < MaxAnswers

create_task_endpoint(p) ==
    /\ sent[p].op = "create" /\ Room(p)
    /\ Created(create_task(board, sent[p].row))
    /\ Answer(p, [kind |-> "done"])

\* Fault: a task that is returned forgets its assignee.
PatchedAndFreed(row, r) ==
    [row EXCEPT !.status = r.status,
                !.assignee = IF r.status = "unassigned" THEN NoOne ELSE @]

\* TaskUpdateRequest has no assignee, title or area: what the panel sends of
\* them is dropped.
Patched(row, r) == [row EXCEPT !.status = r.status]

update_task_endpoint(p) ==
    /\ sent[p].op = "patch" /\ Room(p)
    /\ UNCHANGED made
    /\ IF sent[p].id \in DOMAIN board
       THEN /\ board' = [board EXCEPT ![sent[p].id] = Patched(@, sent[p])]
            /\ Answer(p, [kind |-> "task", id |-> sent[p].id,
                          row |-> board'[sent[p].id]])
       ELSE UNCHANGED board /\ Answer(p, [kind |-> "error"])

delete_task_endpoint(p) ==
    /\ sent[p].op = "delete" /\ Room(p)
    /\ board' = [i \in DOMAIN board \ {sent[p].id} |-> board[i]]
    /\ UNCHANGED made
    /\ Answer(p, IF sent[p].id \in DOMAIN board
                 THEN [kind |-> "deleted", id |-> sent[p].id]
                 ELSE [kind |-> "error"])

generate_tasks_endpoint(p) ==
    /\ sent[p].op = "generate" /\ Room(p)
    /\ run_task_generator(sent[p].team)
    /\ Answer(p, [kind |-> "done"])

distribute_tasks_endpoint(p) ==
    /\ sent[p].op = "distribute" /\ Room(p)
    /\ run_task_distributor(sent[p].team)
    /\ Answer(p, [kind |-> "done"])

\* Fault: the tasks are fetched when the panel opens only.
PollsOnce(p) == shown[p] = Empty

\* Every fifteen seconds, when the panel is seen again, and after "done".
Polls(p) == TRUE

\* fetchTasks and list_tasks_endpoint: the rows as they are now are on their
\* way; when the request was sent does not matter.
list_tasks_endpoint(p) ==
    /\ Polls(p) /\ Room(p)
    /\ answers' = [answers EXCEPT ![p] = @ \cup
                     {[kind |-> "list",
                       tasks |-> [i \in TeamRows(board, team[p]) |-> board[i]]]}]
    /\ UNCHANGED <<rows, team, shown, sent, changes>>

(***************************************************************************)
(* What a panel does with an answer.                                       *)
(***************************************************************************)

Show(p, a) ==
    CASE a.kind = "list" -> a.tasks
      [] a.kind = "task" -> [i \in DOMAIN shown[p] |->
                               IF i = a.id THEN a.row ELSE shown[p][i]]
      [] a.kind = "deleted" -> [i \in DOMAIN shown[p] \ {a.id} |-> shown[p][i]]
      [] OTHER -> shown[p]

Take(p, a) ==
    /\ a \in answers[p]
    /\ answers' = [answers EXCEPT ![p] = @ \ {a}]
    /\ shown' = [shown EXCEPT ![p] = Show(p, a)]
    /\ UNCHANGED <<rows, team, sent, changes>>

\* The user works in another team; the tasks shown stay until they are fetched.
SwitchTeam(p, t) ==
    /\ t # team[p] /\ changes < MaxChanges
    /\ team' = [team EXCEPT ![p] = t]
    /\ changes' = changes + 1
    /\ UNCHANGED <<rows, shown, sent, answers>>

(***************************************************************************)
(* The specification.                                                      *)
(***************************************************************************)

Handle(p) ==
    \/ create_task_endpoint(p) \/ update_task_endpoint(p)
    \/ delete_task_endpoint(p) \/ generate_tasks_endpoint(p)
    \/ distribute_tasks_endpoint(p)

TakeAny(p) == \E a \in answers[p] : Take(p, a)

Next ==
    \E p \in Panels :
      \/ SendAction(p) \/ SendDelete(p) \/ SendCreate(p) \/ SendPlan(p)
      \/ Handle(p) \/ list_tasks_endpoint(p) \/ TakeAny(p)
      \/ \E t \in Teams : SwitchTeam(p, t)

Spec == Init /\ [][Next]_vars

\* The backend handles what it is sent, the timer of a panel goes on, and an
\* answer arrives.
FairSpec ==
    /\ Spec
    /\ \A p \in Panels :
         SF_vars(Handle(p)) /\ SF_vars(list_tasks_endpoint(p)) /\ WF_vars(TakeAny(p))

(***************************************************************************)
(* Properties.                                                             *)
(***************************************************************************)

\* No requirement of a team has two tasks, whatever the model proposes and
\* whatever was created, rejected or deleted before (create_task,
\* run_task_generator).
OneTaskPerFeature ==
    \A i, j \in DOMAIN board :
      board[i].team = board[j].team /\ board[i].ref = board[j].ref
      /\ board[i].ref # NoRef => i = j

\* A task that left "unassigned" has an assignee, also when panels act on rows
\* that are old and the model names tasks that are worked on or of another team
\* (update_task_endpoint, run_task_distributor).
StartedWorkHasAssignee ==
    \A i \in DOMAIN board :
      board[i].status # "unassigned" => board[i].assignee # NoOne

\* Once the users stop, every panel comes to show the tasks of its team,
\* though older lists may arrive after newer ones (fetchTasks).
PanelSettles ==
    \A p \in Panels :
      <>[](shown[p] = [i \in TeamRows(board, team[p]) |-> board[i]])

\* A rejected task that the PM gives to another member is that member's
\* (handleReassign: "rejected -> pending_approval", with a new assignee).
ReassignTakesEffect ==
    [][\A p \in Panels :
         sent[p].op = "patch" /\ sent[p].status = "pending_approval"
         /\ sent[p].id \in DOMAIN board /\ sent'[p] = Nothing =>
           board'[sent[p].id].assignee = sent[p].assignee]_vars
=============================================================================
