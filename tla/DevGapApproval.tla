--------------------------- MODULE DevGapApproval ---------------------------
(***************************************************************************)
(* The approval of Dev Tracking GAPs: a pull request is analysed, its GAPs *)
(* are stored beside one approval task, and a PM approves or rejects the   *)
(* task, or the GAPs one by one, with effects on GitHub, on the knowledge  *)
(* store and on the wiki.                                                  *)
(*                                                                         *)
(* The backend is one process with one event loop, and the handlers of     *)
(* these endpoints never await between their steps: at most one request is *)
(* in flight (pc # "idle").  Each durable effect of a handler -- a commit  *)
(* of agile_tasks, a commit of shared.db, a call of gh -- is a step of its *)
(* own, because the process can die, or an exception can leave the         *)
(* handler, between any two of them (Interrupt).                           *)
(*                                                                         *)
(* "none" stands for the empty string of the code: no team, no directory.  *)
(*                                                                         *)
(* An operator marked "Fault:" is no part of the specification: it is a    *)
(* wrong version of the definition after it, and shows that a property     *)
(* depends on that definition.                                             *)
(***************************************************************************)
EXTENDS Naturals, FiniteSets

CONSTANTS
    Events,         \* the pull request heads GitHub reports: [repo, pr, head]
    Gaps,           \* the ids the analyser can give to GAPs
    Teams,          \* the teams in whose name requests come
    PatchStatuses,  \* the statuses plain PATCH requests ask for
    ManualDirs,     \* the source_dir manual requests name: "local" or "none"
    MaxTasks,       \* bound: tasks ever created
    MaxAnalyses,    \* bound: analyses ever stored
    MaxDecisions,   \* bound: decisions of the PM
    MaxFaults,      \* bound: deaths of a handler, worktrees not removed,
                    \* duplicate checks that fail
    Nil             \* no request in flight

APPROVED == "APPROVED_INTENTIONAL_CHANGE"
REJECTED == "REJECTED_UNINTENTIONAL_CHANGE"
PENDING  == "PENDING_PM_APPROVAL"
NO_GAP   == "NO_GAP_DETECTED"
Decisions == {APPROVED, REJECTED}

\* The statuses PATCH /api/tasks/{id} accepts.
Statuses == {"unassigned", "pending_approval", "in_progress", "pr_pending",
             "completed", "rejected"}

Heads == {e.head : e \in Events}

\* GitHub names a pull request by a positive number, and a head commit is
\* the head of one pull request.
ASSUME EventsAssumption ==
    /\ IsFiniteSet(Events)
    /\ \A e \in Events : e = [repo |-> e.repo, pr |-> e.pr, head |-> e.head]
    /\ \A e, f \in Events : e.head = f.head => e = f

ASSUME BoundsAssumption ==
    /\ MaxTasks \in Nat /\ MaxAnalyses \in Nat
    /\ MaxDecisions \in Nat /\ MaxFaults \in Nat
    /\ PatchStatuses \subseteq Statuses
    /\ ManualDirs \subseteq {"local", "none"}

VARIABLES
    tasks,      \* agile_tasks: the tasks that exist, by id
    taskSeq,    \* ids given so far; a deleted id (a uuid) is never reused
    analyses,   \* dev_pr_analyses with their dev_gap_items, by id
    analysisSeq,
    knowledge,  \* dev_knowledge_artifacts, append-only
    wiki,       \* the heads whose change doc_sync published
    github,     \* the commit status "NAVIGATOR Dev Tracking" of each head
    comments,   \* the comments gh left on pull requests
    worktrees,  \* the heads whose analysis worktree is on disk
    pc,         \* the next step of the request in flight
    run,        \* the analysis in flight
    dec,        \* the decision in flight
    decided,    \* decisions requested so far
    faults      \* handlers that died, worktrees that were not removed,
                \* lookups of a duplicate that failed

store == <<tasks, taskSeq, analyses, analysisSeq, knowledge>>
outside == <<wiki, github, comments, worktrees>>
vars == <<store, outside, pc, run, dec, decided, faults>>

AnalysisSteps == {"notify", "coordinate", "persist", "cleanup", "embed"}
DecisionSteps == {"mark", "post", "docs", "chunks", "record", "comment",
                  "sa_review", "finish"}

(***************************************************************************)
(* The shape of the state.                                                 *)
(***************************************************************************)

\* task.result: the decision it records, and what the finished decision
\* reports of its commit status.
ResultType == [decision: Decisions \cup {"none"}, posted: BOOLEAN,
               finished: BOOLEAN]
NoResult == [decision |-> "none", posted |-> FALSE, finished |-> FALSE]

TaskType == [type: {"dev_gap_approval", "sa_re_review"},
             pr_context: Events,
             source_dir: {"local", "worktree"},
             team: Teams \cup {"none"},
             status: Statuses,
             result: ResultType]

AnalysisType == [pr_context: Events,
                 origin: {"webhook", "manual"},
                 task: Nat,
                 approval_status: Decisions \cup {PENDING, NO_GAP},
                 items: [Gaps -> Decisions \cup {PENDING, "absent"}]]

ArtifactType ==
    [artifact_type: {"DEV_GAP_REPORT", "DEV_GAP_DECISION",
                     "APPROVED_CODE_CHUNK"},
     task: Nat,
     head: Heads,
     decision: Decisions \cup {PENDING, NO_GAP}]

\* The body of a request for an analysis, as run_dev_tracking_analysis gets it.
RequestType == [pr_context: Events, source_dir: {"local", "none"},
                team_id: Teams, notify_pr: BOOLEAN]

RunType == [request: RequestType,
            origin: {"webhook", "manual"},
            gaps: SUBSET Gaps,
            approval_status: {PENDING, NO_GAP},
            task: Nat]

DecisionType == [task: Nat, decision: Decisions, analysis: Nat,
                 posted: BOOLEAN]

TypeOK ==
    /\ taskSeq \in 0..MaxTasks
    /\ DOMAIN tasks \subseteq 1..taskSeq
    /\ tasks \in [DOMAIN tasks -> TaskType]
    /\ analysisSeq \in 0..MaxAnalyses
    /\ analyses \in [1..analysisSeq -> AnalysisType]
    /\ knowledge \subseteq ArtifactType
    /\ wiki \subseteq Heads
    /\ github \in [Heads -> {"none", "pending", "success", "failure"}]
    /\ comments \subseteq Events \X (Decisions \cup {PENDING})
    /\ worktrees \subseteq Heads
    /\ pc \in {"idle"} \cup AnalysisSteps \cup DecisionSteps
    /\ pc \in AnalysisSteps => run \in RunType
    /\ pc \in DecisionSteps => dec \in DecisionType
    /\ decided \in 0..MaxDecisions
    /\ faults \in 0..MaxFaults

(***************************************************************************)
(* agile_tasks: what create_task, list_tasks and update_task_status do.    *)
(***************************************************************************)

\* The titles are "PR #n GAP ..." and "PR #n SA GAP ...": a title says the
\* type of the task and the number of the pull request, not its repository.
SameTitle(t, type, pr) == t.type = type /\ t.pr_context.pr = pr

\* Fault: only a task that still waits for the PM takes its title.
OpenDuplicates(type, pr, team) ==
    {i \in DOMAIN tasks : /\ tasks[i].team = team
                          /\ SameTitle(tasks[i], type, pr)
                          /\ tasks[i].status = "pending_approval"}

\* The tasks that make create_task return None.
Duplicates(type, pr, team) ==
    {i \in DOMAIN tasks : tasks[i].team = team /\ SameTitle(tasks[i], type, pr)}

CanCreate(type, pr, team) == Duplicates(type, pr, team) = {}

WithTask(t) ==
    [i \in DOMAIN tasks \cup {taskSeq + 1} |->
        IF i = taskSeq + 1 THEN t ELSE tasks[i]]

\* create_task: nothing happens when the title is taken.
CreateTask(t) ==
    IF CanCreate(t.type, t.pr_context.pr, t.team)
    THEN tasks' = WithTask(t) /\ taskSeq' = taskSeq + 1
    ELSE UNCHANGED <<tasks, taskSeq>>

\* list_tasks(team_id): no team means every team.
ListTasks(team) ==
    {i \in DOMAIN tasks : team = "none" \/ tasks[i].team = team}

\* Fault: the commit leaves the result out.
UpdateStatusOnly(i, status, result) ==
    tasks' = [tasks EXCEPT ![i].status = status]

\* Fault: a new decision keeps what an earlier one reported.
MergeResult(i, status, result) ==
    tasks' = [tasks EXCEPT
                 ![i].status = status,
                 ![i].result = [decision |-> result.decision,
                                posted |->
                                    \/ result.posted
                                    \/ /\ result.decision # "none"
                                       /\ tasks[i].result.posted,
                                finished |-> result.finished]]

\* update_task_status, with a result.
UpdateTask(i, status, result) ==
    tasks' = [tasks EXCEPT ![i].status = status, ![i].result = result]

(***************************************************************************)
(* A new analysis.                                                         *)
(***************************************************************************)

\* The graph runs over PipelineState and keeps the keys that class declares.
\* Of the keys of the request, team_id and notify_pr are not among them.
PipelineState == {"pr_context", "source_dir"}

StateGet(key, default) ==
    IF key \in PipelineState THEN run.request[key] ELSE default

\* Fault: only an analysis that was decided stops a redelivery.
AlreadyDecided(e) ==
    \E a \in DOMAIN analyses :
        /\ analyses[a].pr_context = e
        /\ analyses[a].approval_status \in Decisions

\* The webhook looks for any stored analysis of this head.
AlreadyAnalyzed(e) ==
    \E a \in DOMAIN analyses : analyses[a].pr_context = e

\* The duplicate check lets a delivery pass too when its lookup raises.
DuplicateCheckPasses(e) ==
    \/ ~AlreadyAnalyzed(e) /\ UNCHANGED faults
    \/ faults < MaxFaults /\ faults' = faults + 1

\* pm_report_generator: warnings of a failed LLM call ask for the PM too.
ApprovalStatus(gaps, llmWarnings) ==
    IF gaps # {} \/ llmWarnings THEN PENDING ELSE NO_GAP

\* dev_task_planner to pm_report_generator.  branch_fetcher puts a worktree of
\* the head on disk, in place of a leftover one, unless the request names a
\* directory.
StartAnalysis(request, origin) ==
    /\ pc = "idle"
    /\ taskSeq < MaxTasks /\ analysisSeq < MaxAnalyses
    /\ \E gaps \in SUBSET Gaps, llmWarnings \in BOOLEAN :
          run' = [request |-> request, origin |-> origin, gaps |-> gaps,
                  approval_status |-> ApprovalStatus(gaps, llmWarnings),
                  task |-> 0]
    /\ worktrees' = IF request.source_dir = "none"
                    THEN worktrees \cup {request.pr_context.head}
                    ELSE worktrees
    /\ pc' = "notify"
    /\ UNCHANGED <<store, wiki, github, comments, dec, decided>>

\* POST /api/webhook/github.
Webhook(e, team) ==
    /\ DuplicateCheckPasses(e)
    /\ StartAnalysis([pr_context |-> e, source_dir |-> "none",
                      team_id |-> team, notify_pr |-> TRUE], "webhook")

\* POST /api/dev-tracking/pr, the manual form: no duplicate check.
ManualAnalysis(e, team, dir) ==
    /\ StartAnalysis([pr_context |-> e, source_dir |-> dir,
                      team_id |-> team, notify_pr |-> FALSE], "manual")
    /\ UNCHANGED faults

\* A request that branch_fetcher blocks, because git fails or the branch has
\* moved on, leaves nothing behind; it may have removed a leftover worktree.
Blocked(e) ==
    /\ pc = "idle"
    /\ \/ "none" \in ManualDirs /\ UNCHANGED faults
       \/ DuplicateCheckPasses(e)
    /\ e.head \in worktrees
    /\ worktrees' = worktrees \ {e.head}
    /\ UNCHANGED <<store, wiki, github, comments, pc, run, dec, decided>>

\* The commit status that announces an analysis.
DesiredStatus(approval) ==
    CASE approval \in {NO_GAP, APPROVED} -> "success"
      [] approval = PENDING              -> "pending"
      [] approval = REJECTED             -> "failure"

\* pr_comment_notifier, then pr_status_check_updater.
Notify ==
    /\ pc = "notify"
    /\ LET e == run.request.pr_context IN
       IF StateGet("notify_pr", FALSE)
       THEN /\ \E c \in SUBSET {<<e, PENDING>>} : comments' = comments \cup c
            /\ \E s \in {github[e.head], DesiredStatus(run.approval_status)} :
                  github' = [github EXCEPT ![e.head] = s]
       ELSE UNCHANGED <<comments, github>>
    /\ pc' = "coordinate"
    /\ UNCHANGED <<store, wiki, worktrees, run, dec, decided, faults>>

\* Fault: the lookup does not compare the type of the tasks.
TasksOfPr(team, pr) ==
    {i \in ListTasks(team) : tasks[i].pr_context.pr = pr}

\* What task_coordinator looks up when create_task returns None.
ExistingTasks(team, pr) ==
    {i \in ListTasks(team) : SameTitle(tasks[i], "dev_gap_approval", pr)}

\* task_coordinator: create the approval task or, when its title is taken,
\* take the newest approval task of this pull request number.
Coordinate ==
    LET e    == run.request.pr_context
        team == StateGet("team_id", "none")
        task == [type |-> "dev_gap_approval", pr_context |-> e,
                 source_dir |-> IF run.request.source_dir = "none"
                                THEN "worktree" ELSE "local",
                 team |-> team, status |-> "pending_approval",
                 result |-> NoResult]
        existing == ExistingTasks(team, e.pr)
    IN  /\ pc = "coordinate"
        /\ CreateTask(task)
        /\ run' = [run EXCEPT !.task =
                      IF CanCreate(task.type, e.pr, team) THEN taskSeq + 1
                      ELSE CHOOSE i \in existing : \A j \in existing : j <= i]
        /\ pc' = "persist"
        /\ UNCHANGED <<analyses, analysisSeq, knowledge, outside, dec,
                       decided, faults>>

\* analysis_persister: the analysis and its GAP items in one commit.
Persist ==
    LET analysis == [pr_context |-> run.request.pr_context,
                     origin |-> run.origin, task |-> run.task,
                     approval_status |-> run.approval_status,
                     items |-> [g \in Gaps |-> IF g \in run.gaps
                                               THEN run.approval_status
                                               ELSE "absent"]]
    IN  /\ pc = "persist"
        /\ analyses' = [a \in 1..(analysisSeq + 1) |->
                           IF a = analysisSeq + 1 THEN analysis
                                                  ELSE analyses[a]]
        /\ analysisSeq' = analysisSeq + 1
        /\ pc' = "cleanup"
        /\ UNCHANGED <<tasks, taskSeq, knowledge, outside, run, dec, decided,
                       faults>>

\* Fault: the worktree is kept for the next analysis of its head.
KeepWorktree(request) == UNCHANGED <<worktrees, faults>>

\* _cleanup_worktree: a failure leaves the worktree and is ignored.
CleanupWorktree(request) ==
    IF request.source_dir = "none"
    THEN \/ /\ worktrees' = worktrees \ {request.pr_context.head}
            /\ UNCHANGED faults
         \/ /\ faults < MaxFaults
            /\ faults' = faults + 1
            /\ UNCHANGED worktrees
    ELSE UNCHANGED <<worktrees, faults>>

\* The end of analysis_persister, after its commit.
Cleanup ==
    /\ pc = "cleanup"
    /\ CleanupWorktree(run.request)
    /\ pc' = "embed"
    /\ UNCHANGED <<store, wiki, github, comments, run, dec, decided>>

\* develop_embedding: store the report; a failed store is only a warning.
Embed ==
    /\ pc = "embed"
    /\ \E a \in SUBSET {[artifact_type |-> "DEV_GAP_REPORT", task |-> run.task,
                         head |-> run.request.pr_context.head,
                         decision |-> run.approval_status]} :
          knowledge' = knowledge \cup a
    /\ pc' = "idle"
    /\ run' = Nil
    /\ UNCHANGED <<tasks, taskSeq, analyses, analysisSeq, outside, dec,
                   decided, faults>>

(***************************************************************************)
(* A decision of the PM.                                                   *)
(***************************************************************************)

IsApprovalTask(i) ==
    i \in DOMAIN tasks /\ tasks[i].type = "dev_gap_approval"

\* _run_dev_gap_decision: it asks only that the task is an approval task,
\* whatever its status is.  A rejection may add a task.
Decide(i, d, analysis) ==
    /\ pc' = "mark"
    /\ dec' = [task |-> i, decision |-> d, analysis |-> analysis,
               posted |-> FALSE]

CanDecide ==
    pc = "idle" /\ decided < MaxDecisions /\ taskSeq < MaxTasks

\* POST /api/dev-tracking/tasks/{id}/approve and /reject, and PATCH of an
\* approval task to in_progress or rejected.
TaskDecision(i, d) ==
    /\ CanDecide
    /\ IsApprovalTask(i)
    /\ Decide(i, d, 0)
    /\ decided' = decided + 1
    /\ UNCHANGED <<store, outside, run, faults>>

\* Fault: a rejection waits until every item is judged.
AggregateWhenJudged(items) ==
    LET statuses == {items[g] : g \in Gaps} \ {"absent"}
    IN  IF PENDING \in statuses \/ statuses = {} THEN PENDING
        ELSE IF REJECTED \in statuses THEN REJECTED
        ELSE APPROVED

\* Fault: an approved item is looked for first.
AggregateApprovedFirst(items) ==
    LET statuses == {items[g] : g \in Gaps} \ {"absent"}
    IN  IF APPROVED \in statuses THEN APPROVED
        ELSE IF REJECTED \in statuses THEN REJECTED
        ELSE PENDING

\* _aggregate_gap_decision_status: the status an analysis gets from its items.
Aggregate(items) ==
    LET statuses == {items[g] : g \in Gaps} \ {"absent"}
    IN  IF REJECTED \in statuses THEN REJECTED
        ELSE IF statuses = {APPROVED} THEN APPROVED
        ELSE PENDING

\* Fault: a task is decided whatever its analysis became.
AlwaysPromotes(status) == TRUE

\* The item decisions that decide the task too.
Promotes(status) == status \in Decisions

\* POST /api/dev-tracking/gaps/{id}/approve and /reject: one commit for the
\* item and its analysis; a decided analysis then decides its task.
ItemDecision(a, g, d) ==
    LET items  == [analyses[a].items EXCEPT ![g] = d]
        status == Aggregate(items)
    IN  /\ CanDecide
        /\ analyses[a].items[g] # "absent"
        /\ analyses' = [analyses EXCEPT ![a].items = items,
                                        ![a].approval_status = status]
        /\ IF Promotes(status) /\ IsApprovalTask(analyses[a].task)
           THEN Decide(analyses[a].task, status, a)
           ELSE UNCHANGED <<pc, dec>>
        /\ decided' = decided + 1
        /\ UNCHANGED <<tasks, taskSeq, analysisSeq, knowledge, outside, run,
                       faults>>

Payload == tasks[dec.task].pr_context

\* The first commit: the status, and a result that no longer says anything
\* of an earlier decision.
Mark ==
    /\ pc = "mark"
    /\ UpdateTask(dec.task,
                  IF dec.decision = APPROVED THEN "in_progress" ELSE "rejected",
                  [decision |-> dec.decision, posted |-> FALSE,
                   finished |-> FALSE])
    /\ pc' = "post"
    /\ UNCHANGED <<taskSeq, analyses, analysisSeq, knowledge, outside, run,
                   dec, decided, faults>>

\* update_pr_status_check.  gh reports a failure when it times out, although
\* GitHub may have taken the status.
PostStatus ==
    /\ pc = "post"
    /\ \E landed, ok \in BOOLEAN :
          /\ ok => landed
          /\ github' = IF landed
                       THEN [github EXCEPT ![Payload.head] =
                                DesiredStatus(dec.decision)]
                       ELSE github
          /\ dec' = [dec EXCEPT !.posted = ok]
    /\ pc' = IF dec.decision = APPROVED THEN "docs" ELSE "record"
    /\ UNCHANGED <<store, wiki, comments, worktrees, run, decided, faults>>

\* doc_updater, for an approval; a failed synchronisation is a warning.
SyncDocs ==
    /\ pc = "docs"
    /\ \E w \in SUBSET {Payload.head} : wiki' = wiki \cup w
    /\ pc' = "chunks"
    /\ UNCHANGED <<store, github, comments, worktrees, run, dec, decided,
                   faults>>

\* persist_dev_knowledge_artifact: append, or warn.
StoreArtifact(type) ==
    \E a \in SUBSET {[artifact_type |-> type, task |-> dec.task,
                      head |-> Payload.head, decision |-> dec.decision]} :
       knowledge' = knowledge \cup a

\* build_approved_code_chunk_artifacts, for an approval.
StoreChunks ==
    /\ pc = "chunks"
    /\ StoreArtifact("APPROVED_CODE_CHUNK")
    /\ pc' = "record"
    /\ UNCHANGED <<tasks, taskSeq, analyses, analysisSeq, outside, run, dec,
                   decided, faults>>

\* build_dev_gap_decision_artifact.
RecordDecision ==
    /\ pc = "record"
    /\ StoreArtifact("DEV_GAP_DECISION")
    /\ pc' = "comment"
    /\ UNCHANGED <<tasks, taskSeq, analyses, analysisSeq, outside, run, dec,
                   decided, faults>>

\* _post_dev_gap_decision_comment runs gh in the directory the task names.
\* That of a worktree analysis is gone unless it was left behind.
CommentDirExists ==
    tasks[dec.task].source_dir = "local" \/ Payload.head \in worktrees

PostComment ==
    /\ pc = "comment"
    /\ IF CommentDirExists
       THEN \E c \in SUBSET {<<Payload, dec.decision>>} :
               comments' = comments \cup c
       ELSE UNCHANGED comments
    /\ pc' = IF dec.decision = APPROVED THEN "finish" ELSE "sa_review"
    /\ UNCHANGED <<store, wiki, github, worktrees, run, dec, decided,
                   faults>>

\* _create_sa_review_task.
SaReviewTask(i) ==
    [type |-> "sa_re_review", pr_context |-> tasks[i].pr_context,
     source_dir |-> tasks[i].source_dir, team |-> tasks[i].team,
     status |-> "unassigned", result |-> NoResult]

\* Fault: a title that is taken leaves the handler.
SaReviewRaises ==
    LET task == SaReviewTask(dec.task) IN
    /\ pc = "sa_review"
    /\ CreateTask(task)
    /\ IF CanCreate(task.type, task.pr_context.pr, task.team)
       THEN pc' = "finish" /\ UNCHANGED dec
       ELSE pc' = "idle" /\ dec' = Nil
    /\ UNCHANGED <<analyses, analysisSeq, knowledge, outside, run, decided,
                   faults>>

\* For a rejection; a title that is taken only leaves a warning.
SaReview ==
    /\ pc = "sa_review"
    /\ CreateTask(SaReviewTask(dec.task))
    /\ pc' = "finish"
    /\ UNCHANGED <<analyses, analysisSeq, knowledge, outside, run, dec,
                   decided, faults>>

\* The last commit: the status, and what the steps reported.
Finish ==
    /\ pc = "finish"
    /\ UpdateTask(dec.task,
                  IF dec.decision = APPROVED THEN "completed" ELSE "rejected",
                  [decision |-> dec.decision, posted |-> dec.posted,
                   finished |-> TRUE])
    /\ pc' = "idle"
    /\ dec' = Nil
    /\ UNCHANGED <<taskSeq, analyses, analysisSeq, knowledge, outside, run,
                   decided, faults>>

(***************************************************************************)
(* The other requests on tasks, and failures.                              *)
(***************************************************************************)

\* POST /api/dev-tracking/tasks/{id}/sa-review; an error if the title is taken.
RequestSaReview(i) ==
    /\ pc = "idle" /\ taskSeq < MaxTasks
    /\ IsApprovalTask(i)
    /\ CreateTask(SaReviewTask(i))
    /\ UNCHANGED <<analyses, analysisSeq, knowledge, outside, pc, run, dec,
                   decided, faults>>

\* PATCH /api/tasks/{id}, every case that is not a decision.  The result is
\* overwritten only by a text that is not empty.
PatchTask(i, status, text) ==
    /\ pc = "idle"
    /\ ~(IsApprovalTask(i) /\ status \in {"in_progress", "rejected"})
    /\ UpdateTask(i, status, IF text THEN NoResult ELSE tasks[i].result)
    /\ UNCHANGED <<taskSeq, analyses, analysisSeq, knowledge, outside, pc,
                   run, dec, decided, faults>>

\* DELETE /api/tasks/{id}.
DeleteTask(i) ==
    /\ pc = "idle"
    /\ tasks' = [j \in DOMAIN tasks \ {i} |-> tasks[j]]
    /\ UNCHANGED <<taskSeq, analyses, analysisSeq, knowledge, outside, pc,
                   run, dec, decided, faults>>

\* The process dies, or an exception leaves the handler: what was committed
\* stays, and the request is lost.
Interrupt ==
    /\ pc # "idle"
    /\ faults < MaxFaults
    /\ pc' = "idle"
    /\ run' = Nil
    /\ dec' = Nil
    /\ faults' = faults + 1
    /\ UNCHANGED <<store, outside, decided>>

-----------------------------------------------------------------------------

Init ==
    /\ tasks = [i \in {} |-> Nil]
    /\ taskSeq = 0
    /\ analyses = [a \in {} |-> Nil]
    /\ analysisSeq = 0
    /\ knowledge = {}
    /\ wiki = {}
    /\ github = [h \in Heads |-> "none"]
    /\ comments = {}
    /\ worktrees = {}
    /\ pc = "idle"
    /\ run = Nil
    /\ dec = Nil
    /\ decided = 0
    /\ faults = 0

\* The handler in flight goes on.
Step ==
    \/ Notify \/ Coordinate \/ Persist \/ Cleanup \/ Embed
    \/ Mark \/ PostStatus \/ SyncDocs \/ StoreChunks \/ RecordDecision
    \/ PostComment \/ SaReview \/ Finish

\* A request arrives.
Request ==
    \/ \E e \in Events, team \in Teams : Webhook(e, team)
    \/ \E e \in Events, team \in Teams, dir \in ManualDirs :
          ManualAnalysis(e, team, dir)
    \/ \E e \in Events : Blocked(e)
    \/ \E i \in DOMAIN tasks, d \in Decisions : TaskDecision(i, d)
    \/ \E a \in DOMAIN analyses, g \in Gaps, d \in Decisions :
          ItemDecision(a, g, d)
    \/ \E i \in DOMAIN tasks : RequestSaReview(i)
    \/ \E i \in DOMAIN tasks, status \in PatchStatuses, text \in BOOLEAN :
          PatchTask(i, status, text)
    \/ \E i \in DOMAIN tasks : DeleteTask(i)

Next == Step \/ Request \/ Interrupt

Spec == Init /\ [][Next]_vars

\* The event loop runs a handler it has started; requests need not come.
FairSpec == Spec /\ WF_vars(Step)

-----------------------------------------------------------------------------
(***************************************************************************)
(* What the code keeps.                                                    *)
(***************************************************************************)

\* create_task keeps titles unique in a team: whatever is redelivered,
\* analysed again, interrupted or deleted, a pull request number never has
\* two approval tasks, nor two SA reviews.
OneTaskPerTitle ==
    \A i, j \in DOMAIN tasks :
        /\ tasks[i].team = tasks[j].team
        /\ SameTitle(tasks[i], tasks[j].type, tasks[j].pr_context.pr)
        => i = j

\* The analyses that the webhook stored of a head analysed before.
RepeatedAnalyses ==
    {a \in DOMAIN analyses :
        /\ analyses[a].origin = "webhook"
        /\ \E b \in DOMAIN analyses :
              b < a /\ analyses[b].pr_context = analyses[a].pr_context}

\* The webhook's duplicate check comes long before the commit it looks for,
\* and lets a delivery pass when it cannot look: still a head that was
\* analysed is stored again for the webhook only as often as lookups failed,
\* however often GitHub delivers it and wherever an earlier delivery died.
RepeatsAreFaults == Cardinality(RepeatedAnalyses) <= faults

\* dev_pr_analyses and dev_gap_items agree in every stored state, and an
\* analysis without items is never decided.
AnalysisFollowsItems ==
    \A a \in DOMAIN analyses :
        LET items  == analyses[a].items
            status == analyses[a].approval_status
        IN  /\ status = REJECTED <=> \E g \in Gaps : items[g] = REJECTED
            /\ status = APPROVED <=>
                  /\ \E g \in Gaps : items[g] # "absent"
                  /\ \A g \in Gaps : items[g] \in {APPROVED, "absent"}

\* The task an analysis names is an approval task of its pull request
\* number as long as it exists, also when another analysis created it.
TaskOfAnalysis ==
    \A a \in DOMAIN analyses :
        LET i == analyses[a].task IN
        /\ i \in 1..taskSeq
        /\ i \in DOMAIN tasks =>
              SameTitle(tasks[i], "dev_gap_approval",
                        analyses[a].pr_context.pr)

\* A result that reports a posted commit status names the status GitHub
\* shows, after any further decision, time-out or death of a handler.
ResultMatchesGitHub ==
    \A i \in DOMAIN tasks :
        tasks[i].result.posted =>
            github[tasks[i].pr_context.head] =
                DesiredStatus(tasks[i].result.decision)

\* Items approve a task only unanimously, on what is stored when the task
\* is decided.  One rejected item rejects it, while others are pending.
PromotionIsUnanimous ==
    pc \in DecisionSteps /\ dec.analysis # 0 =>
        LET items == analyses[dec.analysis].items IN
        /\ dec.task = analyses[dec.analysis].task
        /\ dec.decision = APPROVED =>
              \A g \in Gaps : items[g] \in {APPROVED, "absent"}
        /\ dec.decision = REJECTED => \E g \in Gaps : items[g] = REJECTED

\* What the comment on the promotion says: the task is decided only when the
\* PM has judged every GAP of its analysis.
PromotionWaitsForItems ==
    pc \in DecisionSteps /\ dec.analysis # 0 =>
        \A g \in Gaps : analyses[dec.analysis].items[g] # PENDING

\* A worktree outlives its analysis only if that analysis died or git could
\* not remove it, and the next analysis of the head takes it over: however
\* many heads are analysed, the faults bound the worktrees left on disk.
LeftoverWorktrees ==
    LET inFlight == IF pc \in AnalysisSteps
                    THEN {run.request.pr_context.head} ELSE {}
    IN  Cardinality(worktrees \ inFlight) <= faults

\* No effect outside agile_tasks precedes the commit of the decision: when
\* a commit status, a comment, a wiki page or an artifact appears, the task
\* already records the decision it comes from.
Recorded(i, d) == i \in DOMAIN tasks /\ tasks[i].result.decision = d

EffectsAreRecorded ==
    /\ \A h \in Heads : github'[h] # github[h] =>
          \E i \in DOMAIN tasks, d \in Decisions :
              /\ Recorded(i, d) /\ tasks[i].pr_context.head = h
              /\ github'[h] = DesiredStatus(d)
    /\ \A c \in comments' \ comments :
          \E i \in DOMAIN tasks :
              Recorded(i, c[2]) /\ tasks[i].pr_context = c[1]
    /\ \A h \in wiki' \ wiki :
          \E i \in DOMAIN tasks :
              Recorded(i, APPROVED) /\ tasks[i].pr_context.head = h
    /\ \A a \in knowledge' \ knowledge :
          \/ a.artifact_type = "DEV_GAP_REPORT"
          \/ /\ Recorded(a.task, a.decision)
             /\ tasks[a.task].pr_context.head = a.head
             /\ a.artifact_type = "APPROVED_CODE_CHUNK" =>
                   a.decision = APPROVED

EffectsFollowDecision == [][EffectsAreRecorded]_vars

\* A decision that is not interrupted reaches its last commit, whatever gh,
\* the wiki, the artifact store and the SA task do.
DecisionCompletes ==
    \A i \in 1..MaxTasks, d \in Decisions, n \in 0..MaxFaults :
        (pc = "mark" /\ dec.task = i /\ dec.decision = d /\ faults = n)
        ~> \/ faults > n
           \/ /\ i \in DOMAIN tasks
              /\ tasks[i].result.finished
              /\ tasks[i].result.decision = d
              /\ tasks[i].status = IF d = APPROVED THEN "completed"
                                                   ELSE "rejected"
=============================================================================
