----------------------- MODULE DevGapApproval_proofs ------------------------
(***************************************************************************)
(* Theorems about DevGapApproval, for every value of its constants.  All   *)
(* of them follow from one inductive invariant, IInv.                      *)
(***************************************************************************)
EXTENDS DevGapApproval, TLAPS

\* A request starts only where the bounds leave room for what it creates.
Room ==
    /\ pc \in {"notify", "coordinate"} => taskSeq < MaxTasks
    /\ pc \in {"notify", "coordinate", "persist"} => analysisSeq < MaxAnalyses
    /\ pc \in DecisionSteps \ {"finish"} => taskSeq < MaxTasks

\* The graph drops the team of the request: no task of the model has one.
NoTeam == \A i \in DOMAIN tasks : tasks[i].team = "none"

\* The task the handler in flight works on.
InFlight ==
    /\ pc \in {"persist", "cleanup", "embed"} =>
          /\ run.task \in DOMAIN tasks
          /\ SameTitle(tasks[run.task], "dev_gap_approval",
                       run.request.pr_context.pr)
    /\ pc \in DecisionSteps => IsApprovalTask(dec.task)

\* GAPs ask for the PM.
GapsArePending ==
    pc \in AnalysisSteps /\ run.gaps # {} => run.approval_status = PENDING

\* The inductive invariant.
IInv ==
    /\ TypeOK
    /\ Room
    /\ NoTeam
    /\ OneTaskPerTitle
    /\ InFlight
    /\ GapsArePending
    /\ TaskOfAnalysis

-----------------------------------------------------------------------------

\* The initial state satisfies the inductive invariant.
LEMMA InitIInv == Init => IInv
<1> SUFFICES ASSUME Init PROVE IInv
    OBVIOUS
<1> USE DEF Init
<1>1. DOMAIN tasks = {} /\ tasks \in [DOMAIN tasks -> TaskType]
    OBVIOUS
<1>2. DOMAIN analyses = {} /\ analyses \in [1..analysisSeq -> AnalysisType]
    <2>1. 1..analysisSeq = {}
        OBVIOUS
    <2> QED
        BY <2>1
<1>3. TypeOK
    <2>1. DOMAIN tasks \subseteq 1..taskSeq
        BY <1>1
    <2>2. github \in [Heads -> {"none", "pending", "success", "failure"}]
        OBVIOUS
    <2>3. pc \notin AnalysisSteps \cup DecisionSteps
        BY DEF AnalysisSteps, DecisionSteps
    <2>4. /\ taskSeq \in 0..MaxTasks /\ analysisSeq \in 0..MaxAnalyses
          /\ decided \in 0..MaxDecisions /\ faults \in 0..MaxFaults
        BY BoundsAssumption DEF BoundsAssumption
    <2> QED
        BY <1>1, <1>2, <2>1, <2>2, <2>3, <2>4 DEF TypeOK
<1>4. Room /\ InFlight /\ GapsArePending
    BY DEF Room, InFlight, GapsArePending, AnalysisSteps, DecisionSteps
<1>5. NoTeam /\ OneTaskPerTitle /\ TaskOfAnalysis
    BY <1>1, <1>2 DEF NoTeam, OneTaskPerTitle, TaskOfAnalysis
<1> QED
    BY <1>3, <1>4, <1>5 DEF IInv

(***************************************************************************)
(* What create_task and update_task_status do to agile_tasks.              *)
(***************************************************************************)

TasksOK ==
    /\ taskSeq \in 0..MaxTasks
    /\ DOMAIN tasks \subseteq 1..taskSeq
    /\ tasks \in [DOMAIN tasks -> TaskType]

\* A task that stays keeps what create_task gave it.
KeepsTasks ==
    \A i \in DOMAIN tasks' \cap DOMAIN tasks :
        /\ tasks'[i].type = tasks[i].type
        /\ tasks'[i].pr_context = tasks[i].pr_context
        /\ tasks'[i].team = tasks[i].team

\* create_task adds a task with a new id or nothing, and keeps titles unique.
LEMMA CreateTaskKeeps ==
    ASSUME TasksOK, NoTeam, OneTaskPerTitle, taskSeq < MaxTasks,
           NEW t \in TaskType, t.team = "none", CreateTask(t)
    PROVE  /\ TasksOK' /\ NoTeam' /\ OneTaskPerTitle' /\ KeepsTasks
           /\ DOMAIN tasks \subseteq DOMAIN tasks'
           /\ \A i \in DOMAIN tasks : tasks'[i] = tasks[i]
           /\ taskSeq \in Nat /\ taskSeq' \in Nat /\ taskSeq <= taskSeq'
           /\ \A i \in DOMAIN tasks' \ DOMAIN tasks :
                 i = taskSeq + 1 /\ tasks'[i] = t
           /\ CanCreate(t.type, t.pr_context.pr, t.team) =>
                 taskSeq + 1 \in DOMAIN tasks' /\ tasks'[taskSeq + 1] = t
<1> USE BoundsAssumption DEF BoundsAssumption
<1>1. taskSeq \in Nat /\ taskSeq + 1 \notin DOMAIN tasks
    BY DEF TasksOK
<1>2. CASE ~CanCreate(t.type, t.pr_context.pr, t.team)
    <2>1. UNCHANGED <<tasks, taskSeq>>
        BY <1>2 DEF CreateTask
    <2> QED
        BY <1>1, <1>2, <2>1
        DEF TasksOK, NoTeam, OneTaskPerTitle, KeepsTasks, SameTitle
<1>3. CASE CanCreate(t.type, t.pr_context.pr, t.team)
    <2>1. tasks' = WithTask(t) /\ taskSeq' = taskSeq + 1
        BY <1>3 DEF CreateTask
    <2>2. /\ DOMAIN tasks' = DOMAIN tasks \cup {taskSeq + 1}
          /\ \A i \in DOMAIN tasks : tasks'[i] = tasks[i]
          /\ tasks'[taskSeq + 1] = t
        BY <1>1, <2>1 DEF WithTask
    <2>3. TasksOK'
        <3>1. taskSeq' \in 0..MaxTasks
            BY <1>1, <2>1
        <3>2. DOMAIN tasks' \subseteq 1..taskSeq'
            BY <1>1, <2>1, <2>2 DEF TasksOK
        <3>3. tasks' \in [DOMAIN tasks' -> TaskType]
            BY <2>1, <2>2 DEF TasksOK, WithTask
        <3> QED
            BY <3>1, <3>2, <3>3 DEF TasksOK
    <2>4. NoTeam'
        BY <2>2 DEF NoTeam
    <2>5. OneTaskPerTitle'
        <3>1. \A i \in DOMAIN tasks :
                ~(tasks[i].team = t.team
                  /\ SameTitle(tasks[i], t.type, t.pr_context.pr))
            BY <1>3 DEF CanCreate, Duplicates
        <3> QED
            BY <2>2, <3>1 DEF OneTaskPerTitle, SameTitle
    <2> QED
        BY <1>1, <2>1, <2>2, <2>3, <2>4, <2>5 DEF KeepsTasks
<1> QED
    BY <1>2, <1>3

\* update_task_status changes the status and the result of one task.
LEMMA UpdateTaskKeeps ==
    ASSUME TasksOK, NoTeam, OneTaskPerTitle,
           NEW i \in DOMAIN tasks, NEW s \in Statuses, NEW r \in ResultType,
           UpdateTask(i, s, r), taskSeq' = taskSeq
    PROVE  /\ TasksOK' /\ NoTeam' /\ OneTaskPerTitle' /\ KeepsTasks
           /\ DOMAIN tasks' = DOMAIN tasks
           /\ tasks'[i].result = r
           /\ \A j \in DOMAIN tasks \ {i} : tasks'[j] = tasks[j]
<1>1. /\ DOMAIN tasks' = DOMAIN tasks
      /\ \A j \in DOMAIN tasks \ {i} : tasks'[j] = tasks[j]
      /\ tasks'[i] = [tasks[i] EXCEPT !.status = s, !.result = r]
    BY DEF UpdateTask, TasksOK
<1>2. tasks[i] \in TaskType
    BY DEF TasksOK
<1>3. /\ tasks'[i] \in TaskType
      /\ tasks'[i].type = tasks[i].type
      /\ tasks'[i].pr_context = tasks[i].pr_context
      /\ tasks'[i].team = tasks[i].team
      /\ tasks'[i].result = r
    BY <1>1, <1>2 DEF TaskType
<1>4. tasks' \in [DOMAIN tasks' -> TaskType]
    BY <1>1, <1>3 DEF TasksOK, UpdateTask
<1>5. TasksOK'
    BY <1>1, <1>4 DEF TasksOK
<1>6. KeepsTasks
    BY <1>1, <1>3 DEF KeepsTasks
<1>7. NoTeam' /\ OneTaskPerTitle'
    BY <1>1, <1>6 DEF NoTeam, OneTaskPerTitle, KeepsTasks, SameTitle
<1> QED
    BY <1>1, <1>3, <1>5, <1>6, <1>7

\* delete_task takes one task out.
LEMMA DeleteTaskKeeps ==
    ASSUME TasksOK, NoTeam, OneTaskPerTitle, NEW i \in DOMAIN tasks,
           DeleteTask(i)
    PROVE  /\ TasksOK' /\ NoTeam' /\ OneTaskPerTitle' /\ KeepsTasks
           /\ DOMAIN tasks' = DOMAIN tasks \ {i}
           /\ \A j \in DOMAIN tasks' : tasks'[j] = tasks[j]
<1>1. /\ DOMAIN tasks' = DOMAIN tasks \ {i}
      /\ \A j \in DOMAIN tasks' : tasks'[j] = tasks[j]
      /\ taskSeq' = taskSeq
    BY DEF DeleteTask
<1>2. tasks' \in [DOMAIN tasks' -> TaskType]
    BY <1>1 DEF TasksOK, DeleteTask
<1> QED
    BY <1>1, <1>2 DEF TasksOK, NoTeam, OneTaskPerTitle, KeepsTasks, SameTitle

\* An analysis keeps naming a task of its pull request while tasks come and go.
LEMMA TaskOfAnalysisKept ==
    ASSUME TaskOfAnalysis, KeepsTasks,
           taskSeq \in Nat, taskSeq' \in Nat, taskSeq <= taskSeq',
           \A i \in DOMAIN tasks' \ DOMAIN tasks : i = taskSeq + 1,
           DOMAIN analyses' = DOMAIN analyses,
           \A a \in DOMAIN analyses :
               /\ analyses'[a].task = analyses[a].task
               /\ analyses'[a].pr_context = analyses[a].pr_context
    PROVE  TaskOfAnalysis'
<1> SUFFICES ASSUME NEW a \in DOMAIN analyses
             PROVE  LET i == analyses'[a].task IN
                    /\ i \in 1..taskSeq'
                    /\ i \in DOMAIN tasks' =>
                          SameTitle(tasks'[i], "dev_gap_approval",
                                    analyses'[a].pr_context.pr)
    BY DEF TaskOfAnalysis, SameTitle
<1> DEFINE i == analyses[a].task
<1>1. /\ i \in 1..taskSeq
      /\ i \in DOMAIN tasks =>
            SameTitle(tasks[i], "dev_gap_approval", analyses[a].pr_context.pr)
    BY DEF TaskOfAnalysis
<1>2. i \in DOMAIN tasks' => i \in DOMAIN tasks
    BY <1>1
<1> QED
    BY <1>1, <1>2 DEF KeepsTasks, SameTitle

-----------------------------------------------------------------------------
(***************************************************************************)
(* Every action preserves the inductive invariant.                         *)
(***************************************************************************)

\* A delivery that passes the duplicate check adds one fault at most.
LEMMA CheckFaults ==
    ASSUME IInv, NEW e, DuplicateCheckPasses(e)
    PROVE  /\ faults \in Nat /\ faults' \in 0..MaxFaults
           /\ faults' \in {faults, faults + 1}
BY BoundsAssumption
DEF BoundsAssumption, IInv, TypeOK, DuplicateCheckPasses

LEMMA StartAnalysisIInv ==
    ASSUME IInv, NEW request \in RequestType,
           NEW origin \in {"webhook", "manual"},
           StartAnalysis(request, origin), faults' \in 0..MaxFaults
    PROVE  IInv'
<1> USE DEF StartAnalysis, store, IInv
<1>1. TypeOK'
    <2>1. run' \in RunType
        BY DEF RunType, ApprovalStatus
    <2>2. worktrees' \subseteq Heads
        BY DEF TypeOK, RequestType, Heads
    <2> QED
        BY <2>1, <2>2 DEF TypeOK, AnalysisSteps, DecisionSteps
<1>2. Room' /\ InFlight' /\ GapsArePending'
    BY DEF Room, InFlight, GapsArePending, ApprovalStatus, DecisionSteps
<1>3. NoTeam' /\ OneTaskPerTitle' /\ TaskOfAnalysis'
    BY DEF NoTeam, OneTaskPerTitle, TaskOfAnalysis, SameTitle
<1> QED
    BY <1>1, <1>2, <1>3

LEMMA NotifyIInv == IInv /\ Notify => IInv'
<1> SUFFICES ASSUME IInv, Notify PROVE IInv'
    OBVIOUS
<1> USE DEF Notify, store, IInv
<1>1. UNCHANGED <<github, comments>>
    BY DEF StateGet, PipelineState
<1>2. TypeOK'
    BY <1>1 DEF TypeOK, AnalysisSteps, DecisionSteps
<1>3. Room' /\ InFlight' /\ GapsArePending'
    BY DEF Room, InFlight, GapsArePending, AnalysisSteps, DecisionSteps
<1>4. NoTeam' /\ OneTaskPerTitle' /\ TaskOfAnalysis'
    BY DEF NoTeam, OneTaskPerTitle, TaskOfAnalysis, SameTitle
<1> QED
    BY <1>2, <1>3, <1>4

LEMMA CoordinateIInv == IInv /\ Coordinate => IInv'
<1> SUFFICES ASSUME IInv, Coordinate PROVE IInv'
    OBVIOUS
<1> DEFINE e == run.request.pr_context
           task == [type |-> "dev_gap_approval", pr_context |-> e,
                    source_dir |-> IF run.request.source_dir = "none"
                                   THEN "worktree" ELSE "local",
                    team |-> "none", status |-> "pending_approval",
                    result |-> NoResult]
           existing == ExistingTasks("none", e.pr)
           id == IF CanCreate("dev_gap_approval", e.pr, "none")
                 THEN taskSeq + 1
                 ELSE CHOOSE i \in existing : \A j \in existing : j <= i
<1>1. /\ pc = "coordinate" /\ pc' = "persist"
      /\ CreateTask(task)
      /\ run' = [run EXCEPT !.task = id]
      /\ UNCHANGED <<analyses, analysisSeq, knowledge, outside, dec,
                     decided, faults>>
    BY DEF Coordinate, StateGet, PipelineState
<1>2. /\ TasksOK /\ NoTeam /\ OneTaskPerTitle
      /\ taskSeq \in Nat /\ taskSeq < MaxTasks /\ analysisSeq < MaxAnalyses
      /\ run \in RunType /\ e \in Events
    <2>1. run \in RunType
        BY <1>1 DEF IInv, TypeOK, AnalysisSteps
    <2> QED
        BY <1>1, <2>1 DEF IInv, TypeOK, TasksOK, Room, RunType, RequestType
<1>3. task \in TaskType /\ task.team = "none"
    BY <1>2 DEF TaskType, NoResult, ResultType, Statuses
<1>4. /\ TasksOK' /\ NoTeam' /\ OneTaskPerTitle' /\ KeepsTasks
      /\ DOMAIN tasks \subseteq DOMAIN tasks'
      /\ \A i \in DOMAIN tasks : tasks'[i] = tasks[i]
      /\ taskSeq \in Nat /\ taskSeq' \in Nat /\ taskSeq <= taskSeq'
      /\ \A i \in DOMAIN tasks' \ DOMAIN tasks :
            i = taskSeq + 1 /\ tasks'[i] = task
      /\ CanCreate(task.type, task.pr_context.pr, task.team) =>
            taskSeq + 1 \in DOMAIN tasks' /\ tasks'[taskSeq + 1] = task
    <2> HIDE DEF task
    <2> QED
        BY <1>1, <1>2, <1>3, CreateTaskKeeps
<1>5. id \in DOMAIN tasks' /\ SameTitle(tasks'[id], "dev_gap_approval", e.pr)
    <2>1. CASE CanCreate("dev_gap_approval", e.pr, "none")
        BY <2>1, <1>4 DEF SameTitle
    <2>2. CASE ~CanCreate("dev_gap_approval", e.pr, "none")
        <3>1. PICK i \in DOMAIN tasks :
                SameTitle(tasks[i], "dev_gap_approval", e.pr)
            BY <2>2 DEF CanCreate, Duplicates
        <3>2. existing = {i}
            BY <3>1, <1>2 DEF ExistingTasks, ListTasks, NoTeam, OneTaskPerTitle, SameTitle
        <3>3. i \in Nat
            BY <1>2 DEF TasksOK
        <3>4. id = i
            BY <2>2, <3>2, <3>3
        <3> QED
            BY <3>1, <3>4, <1>4
    <2> QED
        BY <2>1, <2>2
<1>6. id \in Nat /\ run' \in RunType /\ run'.task = id
      /\ run'.request = run.request /\ run'.gaps = run.gaps
      /\ run'.approval_status = run.approval_status
    <2>1. id \in Nat
        BY <1>4, <1>5 DEF TasksOK
    <2> QED
        BY <2>1, <1>1, <1>2 DEF RunType
<1>7. TypeOK'
    BY <1>1, <1>4, <1>6
    DEF TypeOK, TasksOK, IInv, AnalysisSteps, DecisionSteps, outside
<1>8. Room' /\ InFlight' /\ GapsArePending'
    BY <1>1, <1>2, <1>5, <1>6
    DEF IInv, Room, InFlight, GapsArePending, AnalysisSteps, DecisionSteps
<1>9. TaskOfAnalysis'
    BY <1>1, <1>4, TaskOfAnalysisKept DEF IInv
<1> QED
    BY <1>4, <1>7, <1>8, <1>9 DEF IInv

LEMMA PersistIInv == IInv /\ Persist => IInv'
<1> SUFFICES ASSUME IInv, Persist PROVE IInv'
    OBVIOUS
<1> DEFINE items == [g \in Gaps |-> IF g \in run.gaps
                                    THEN run.approval_status ELSE "absent"]
           analysis == [pr_context |-> run.request.pr_context,
                        origin |-> run.origin, task |-> run.task,
                        approval_status |-> run.approval_status,
                        items |-> items]
<1>1. /\ pc = "persist" /\ pc' = "cleanup"
      /\ analyses' = [a \in 1..(analysisSeq + 1) |->
                         IF a = analysisSeq + 1 THEN analysis ELSE analyses[a]]
      /\ analysisSeq' = analysisSeq + 1
      /\ UNCHANGED <<tasks, taskSeq, knowledge, outside, run, dec, decided,
                     faults>>
    BY DEF Persist
<1>2. /\ run \in RunType /\ analysisSeq \in Nat /\ analysisSeq < MaxAnalyses
      /\ analyses \in [1..analysisSeq -> AnalysisType]
    BY <1>1 DEF IInv, TypeOK, AnalysisSteps, Room
<1>3. analysis \in AnalysisType
    <2>1. \A g \in run.gaps : run.approval_status = PENDING
        BY <1>1 DEF IInv, GapsArePending, AnalysisSteps
    <2>2. items \in [Gaps -> Decisions \cup {PENDING, "absent"}]
        BY <2>1
    <2>3. run.approval_status \in Decisions \cup {PENDING, NO_GAP}
        BY <1>2 DEF RunType
    <2> HIDE DEF items
    <2> QED
        BY <2>2, <2>3, <1>2 DEF RunType, RequestType, AnalysisType
<1>4. /\ DOMAIN analyses = 1..analysisSeq
      /\ DOMAIN analyses' = DOMAIN analyses \cup {analysisSeq + 1}
      /\ \A a \in DOMAIN analyses : analyses'[a] = analyses[a]
      /\ analyses'[analysisSeq + 1] = analysis
    <2> HIDE DEF analysis
    <2> QED
        BY <1>1, <1>2
<1>5. TypeOK'
    <2>1. analyses' \in [1..analysisSeq' -> AnalysisType]
        <3> HIDE DEF analysis
        <3> QED
            BY <1>1, <1>2, <1>3, <1>4
    <2>2. analysisSeq' \in 0..MaxAnalyses
        BY <1>1, <1>2, BoundsAssumption DEF BoundsAssumption
    <2> QED
        BY <1>1, <2>1, <2>2
        DEF IInv, TypeOK, AnalysisSteps, DecisionSteps, outside
<1>6. Room' /\ InFlight' /\ GapsArePending'
    BY <1>1 DEF IInv, Room, InFlight, GapsArePending, AnalysisSteps, DecisionSteps
<1>7. NoTeam' /\ OneTaskPerTitle'
    BY <1>1 DEF IInv, NoTeam, OneTaskPerTitle, SameTitle
<1>8. TaskOfAnalysis'
    <2>1. /\ run.task \in DOMAIN tasks /\ run.task \in 1..taskSeq
          /\ SameTitle(tasks[run.task], "dev_gap_approval",
                       run.request.pr_context.pr)
        BY <1>1 DEF IInv, InFlight, TypeOK
    <2> QED
        BY <1>1, <1>4, <2>1 DEF IInv, TaskOfAnalysis, SameTitle
<1> QED
    BY <1>5, <1>6, <1>7, <1>8 DEF IInv

LEMMA CleanupIInv == IInv /\ Cleanup => IInv'
<1> SUFFICES ASSUME IInv, Cleanup PROVE IInv'
    OBVIOUS
<1>1. /\ pc = "cleanup" /\ pc' = "embed"
      /\ worktrees' \subseteq worktrees
      /\ faults' = faults \/ (faults < MaxFaults /\ faults' = faults + 1)
      /\ UNCHANGED <<tasks, taskSeq, analyses, analysisSeq, knowledge, wiki,
                     github, comments, run, dec, decided>>
    BY DEF Cleanup, CleanupWorktree, store
<1>2. TypeOK'
    <2>1. faults' \in 0..MaxFaults
        BY <1>1, BoundsAssumption DEF BoundsAssumption, IInv, TypeOK
    <2> QED
        BY <1>1, <2>1 DEF IInv, TypeOK, AnalysisSteps, DecisionSteps
<1>3. Room' /\ InFlight' /\ GapsArePending'
    BY <1>1 DEF IInv, Room, InFlight, GapsArePending, AnalysisSteps,
                DecisionSteps
<1>4. NoTeam' /\ OneTaskPerTitle' /\ TaskOfAnalysis'
    BY <1>1 DEF IInv, NoTeam, OneTaskPerTitle, TaskOfAnalysis, SameTitle
<1> QED
    BY <1>2, <1>3, <1>4 DEF IInv

LEMMA BlockedIInv ==
    ASSUME IInv, NEW e \in Events, Blocked(e)
    PROVE  IInv'
<1>1. /\ pc = "idle"
      /\ worktrees' \subseteq worktrees
      /\ UNCHANGED <<tasks, taskSeq, analyses, analysisSeq, knowledge, wiki,
                     github, comments, pc, run, dec, decided>>
      /\ faults' \in 0..MaxFaults
    BY CheckFaults DEF Blocked, store, IInv, TypeOK
<1>2. TypeOK'
    BY <1>1 DEF IInv, TypeOK, AnalysisSteps, DecisionSteps
<1>3. Room' /\ InFlight' /\ GapsArePending'
    BY <1>1 DEF IInv, Room, InFlight, GapsArePending, AnalysisSteps,
                DecisionSteps
<1>4. NoTeam' /\ OneTaskPerTitle' /\ TaskOfAnalysis'
    BY <1>1 DEF IInv, NoTeam, OneTaskPerTitle, TaskOfAnalysis, SameTitle
<1> QED
    BY <1>2, <1>3, <1>4 DEF IInv

LEMMA EmbedIInv == IInv /\ Embed => IInv'
<1> SUFFICES ASSUME IInv, Embed PROVE IInv'
    OBVIOUS
<1> USE DEF Embed, store, outside
<1>1. UNCHANGED <<tasks, taskSeq, analyses, analysisSeq>>
    OBVIOUS
<1>2. TypeOK'
    <2>1. knowledge' \subseteq ArtifactType
        BY DEF IInv, TypeOK, AnalysisSteps, RunType, RequestType, ArtifactType,
               Heads
    <2> QED
        BY <1>1, <2>1 DEF IInv, TypeOK, AnalysisSteps, DecisionSteps
<1>3. Room' /\ InFlight' /\ GapsArePending'
    BY DEF IInv, Room, InFlight, IsApprovalTask, GapsArePending,
           AnalysisSteps, DecisionSteps
<1>4. NoTeam' /\ OneTaskPerTitle' /\ TaskOfAnalysis'
    BY <1>1 DEF IInv, NoTeam, OneTaskPerTitle, TaskOfAnalysis, SameTitle
<1> QED
    BY <1>2, <1>3, <1>4 DEF IInv

LEMMA PostStatusIInv == IInv /\ PostStatus => IInv'
<1> SUFFICES ASSUME IInv, PostStatus PROVE IInv'
    OBVIOUS
<1> USE DEF PostStatus, store, outside
<1>1. UNCHANGED <<tasks, taskSeq, analyses, analysisSeq>>
    OBVIOUS
<1>2. TypeOK'
    <2>1. dec \in DecisionType /\ Payload \in Events
        BY DEF IInv, InFlight, IsApprovalTask, TypeOK, TaskType, DecisionSteps,
               Payload
    <2>2. dec' \in DecisionType
        BY <2>1 DEF DecisionType
    <2>3. DesiredStatus(dec.decision) \in {"success", "failure"}
        BY <2>1 DEF DecisionType, Decisions, DesiredStatus, APPROVED, REJECTED,
                    PENDING, NO_GAP
    <2>4. github' \in [Heads -> {"none", "pending", "success", "failure"}]
        BY <2>3 DEF IInv, TypeOK
    <2> QED
        BY <1>1, <2>2, <2>4 DEF IInv, TypeOK, AnalysisSteps, DecisionSteps
<1>3. Room' /\ InFlight' /\ GapsArePending'
    BY DEF IInv, Room, InFlight, IsApprovalTask, GapsArePending,
           AnalysisSteps, DecisionSteps
<1>4. NoTeam' /\ OneTaskPerTitle' /\ TaskOfAnalysis'
    BY <1>1 DEF IInv, NoTeam, OneTaskPerTitle, TaskOfAnalysis, SameTitle
<1> QED
    BY <1>2, <1>3, <1>4 DEF IInv

LEMMA SyncDocsIInv == IInv /\ SyncDocs => IInv'
<1> SUFFICES ASSUME IInv, SyncDocs PROVE IInv'
    OBVIOUS
<1> USE DEF SyncDocs, store, outside
<1>1. UNCHANGED <<tasks, taskSeq, analyses, analysisSeq>>
    OBVIOUS
<1>2. TypeOK'
    <2>1. dec \in DecisionType /\ Payload \in Events
        BY DEF IInv, InFlight, IsApprovalTask, TypeOK, TaskType, DecisionSteps,
               Payload
    <2>2. wiki' \subseteq Heads
        BY <2>1 DEF IInv, TypeOK, Heads
    <2> QED
        BY <1>1, <2>2 DEF IInv, TypeOK, AnalysisSteps, DecisionSteps
<1>3. Room' /\ InFlight' /\ GapsArePending'
    BY DEF IInv, Room, InFlight, IsApprovalTask, GapsArePending,
           AnalysisSteps, DecisionSteps
<1>4. NoTeam' /\ OneTaskPerTitle' /\ TaskOfAnalysis'
    BY <1>1 DEF IInv, NoTeam, OneTaskPerTitle, TaskOfAnalysis, SameTitle
<1> QED
    BY <1>2, <1>3, <1>4 DEF IInv

LEMMA StoreChunksIInv == IInv /\ StoreChunks => IInv'
<1> SUFFICES ASSUME IInv, StoreChunks PROVE IInv'
    OBVIOUS
<1> USE DEF StoreChunks, store, outside
<1>1. UNCHANGED <<tasks, taskSeq, analyses, analysisSeq>>
    OBVIOUS
<1>2. TypeOK'
    <2>1. dec \in DecisionType /\ Payload \in Events
        BY DEF IInv, InFlight, IsApprovalTask, TypeOK, TaskType, DecisionSteps,
               Payload
    <2>2. knowledge' \subseteq ArtifactType
        BY <2>1 DEF IInv, TypeOK, StoreArtifact, ArtifactType, DecisionType,
                    Heads
    <2> QED
        BY <1>1, <2>2 DEF IInv, TypeOK, AnalysisSteps, DecisionSteps
<1>3. Room' /\ InFlight' /\ GapsArePending'
    BY DEF IInv, Room, InFlight, IsApprovalTask, GapsArePending,
           AnalysisSteps, DecisionSteps
<1>4. NoTeam' /\ OneTaskPerTitle' /\ TaskOfAnalysis'
    BY <1>1 DEF IInv, NoTeam, OneTaskPerTitle, TaskOfAnalysis, SameTitle
<1> QED
    BY <1>2, <1>3, <1>4 DEF IInv

LEMMA RecordDecisionIInv == IInv /\ RecordDecision => IInv'
<1> SUFFICES ASSUME IInv, RecordDecision PROVE IInv'
    OBVIOUS
<1> USE DEF RecordDecision, store, outside
<1>1. UNCHANGED <<tasks, taskSeq, analyses, analysisSeq>>
    OBVIOUS
<1>2. TypeOK'
    <2>1. dec \in DecisionType /\ Payload \in Events
        BY DEF IInv, InFlight, IsApprovalTask, TypeOK, TaskType, DecisionSteps,
               Payload
    <2>2. knowledge' \subseteq ArtifactType
        BY <2>1 DEF IInv, TypeOK, StoreArtifact, ArtifactType, DecisionType,
                    Heads
    <2> QED
        BY <1>1, <2>2 DEF IInv, TypeOK, AnalysisSteps, DecisionSteps
<1>3. Room' /\ InFlight' /\ GapsArePending'
    BY DEF IInv, Room, InFlight, IsApprovalTask, GapsArePending,
           AnalysisSteps, DecisionSteps
<1>4. NoTeam' /\ OneTaskPerTitle' /\ TaskOfAnalysis'
    BY <1>1 DEF IInv, NoTeam, OneTaskPerTitle, TaskOfAnalysis, SameTitle
<1> QED
    BY <1>2, <1>3, <1>4 DEF IInv

LEMMA PostCommentIInv == IInv /\ PostComment => IInv'
<1> SUFFICES ASSUME IInv, PostComment PROVE IInv'
    OBVIOUS
<1> USE DEF PostComment, store, outside
<1>1. UNCHANGED <<tasks, taskSeq, analyses, analysisSeq>>
    OBVIOUS
<1>2. TypeOK'
    <2>1. dec \in DecisionType /\ Payload \in Events
        BY DEF IInv, InFlight, IsApprovalTask, TypeOK, TaskType, DecisionSteps,
               Payload
    <2>2. comments' \subseteq Events \X (Decisions \cup {PENDING})
        BY <2>1 DEF IInv, TypeOK, DecisionType
    <2> QED
        BY <1>1, <2>2 DEF IInv, TypeOK, AnalysisSteps, DecisionSteps
<1>3. Room' /\ InFlight' /\ GapsArePending'
    BY DEF IInv, Room, InFlight, IsApprovalTask, GapsArePending,
           AnalysisSteps, DecisionSteps
<1>4. NoTeam' /\ OneTaskPerTitle' /\ TaskOfAnalysis'
    BY <1>1 DEF IInv, NoTeam, OneTaskPerTitle, TaskOfAnalysis, SameTitle
<1> QED
    BY <1>2, <1>3, <1>4 DEF IInv

LEMMA InterruptIInv == IInv /\ Interrupt => IInv'
<1> SUFFICES ASSUME IInv, Interrupt PROVE IInv'
    OBVIOUS
<1> USE DEF Interrupt, store, outside
<1>1. UNCHANGED <<tasks, taskSeq, analyses, analysisSeq>>
    OBVIOUS
<1>2. TypeOK'
    <2>1. faults' \in 0..MaxFaults
        BY BoundsAssumption DEF BoundsAssumption, IInv, TypeOK
    <2> QED
        BY <1>1, <2>1 DEF IInv, TypeOK, AnalysisSteps, DecisionSteps
<1>3. Room' /\ InFlight' /\ GapsArePending'
    BY DEF IInv, Room, InFlight, IsApprovalTask, GapsArePending,
           AnalysisSteps, DecisionSteps
<1>4. NoTeam' /\ OneTaskPerTitle' /\ TaskOfAnalysis'
    BY <1>1 DEF IInv, NoTeam, OneTaskPerTitle, TaskOfAnalysis, SameTitle
<1> QED
    BY <1>2, <1>3, <1>4 DEF IInv

LEMMA TaskDecisionIInv ==
    ASSUME IInv, NEW i \in DOMAIN tasks, NEW d \in Decisions,
           TaskDecision(i, d)
    PROVE  IInv'
<1> USE DEF TaskDecision, CanDecide, Decide, store, outside
<1>1. UNCHANGED <<tasks, taskSeq, analyses, analysisSeq>>
    OBVIOUS
<1>2. TypeOK'
    <2>1. dec' \in DecisionType
        BY DEF IInv, TypeOK, DecisionType
    <2>2. decided' \in 0..MaxDecisions
        BY BoundsAssumption DEF BoundsAssumption, IInv, TypeOK
    <2> QED
        BY <1>1, <2>1, <2>2 DEF IInv, TypeOK, AnalysisSteps, DecisionSteps
<1>3. Room' /\ InFlight' /\ GapsArePending'
    BY DEF IInv, Room, InFlight, IsApprovalTask, GapsArePending,
           AnalysisSteps, DecisionSteps
<1>4. NoTeam' /\ OneTaskPerTitle' /\ TaskOfAnalysis'
    BY <1>1 DEF IInv, NoTeam, OneTaskPerTitle, TaskOfAnalysis, SameTitle
<1> QED
    BY <1>2, <1>3, <1>4 DEF IInv

\* The aggregate of items is a status an analysis can have.
LEMMA AggregateType ==
    ASSUME NEW items
    PROVE  Aggregate(items) \in Decisions \cup {PENDING}
BY DEF Aggregate, Decisions

LEMMA ItemDecisionIInv ==
    ASSUME IInv, NEW a \in DOMAIN analyses, NEW g \in Gaps,
           NEW d \in Decisions, ItemDecision(a, g, d)
    PROVE  IInv'
<1> DEFINE items == [analyses[a].items EXCEPT ![g] = d]
           status == Aggregate(items)
<1>1. /\ pc = "idle" /\ decided < MaxDecisions /\ taskSeq < MaxTasks
      /\ analyses' = [analyses EXCEPT ![a].items = items,
                                      ![a].approval_status = status]
      /\ decided' = decided + 1
      /\ UNCHANGED <<tasks, taskSeq, analysisSeq, knowledge, outside, run,
                     faults>>
    BY DEF ItemDecision, CanDecide
<1>2. \/ UNCHANGED <<pc, dec>>
      \/ /\ pc' = "mark"
         /\ status \in Decisions
         /\ IsApprovalTask(analyses[a].task)
         /\ dec' = [task |-> analyses[a].task, decision |-> status,
                    analysis |-> a, posted |-> FALSE]
    BY DEF ItemDecision, Promotes, Decide
<1>3. /\ analyses \in [1..analysisSeq -> AnalysisType]
      /\ DOMAIN analyses = 1..analysisSeq /\ a \in Nat
      /\ analyses[a] \in AnalysisType
    BY DEF IInv, TypeOK
<1>4. items \in [Gaps -> Decisions \cup {PENDING, "absent"}]
    BY <1>3 DEF AnalysisType
<1>5. status \in Decisions \cup {PENDING}
    BY AggregateType
<1> HIDE DEF items, status
<1>6. /\ analyses'[a] = [analyses[a] EXCEPT !.items = items,
                                            !.approval_status = status]
      /\ DOMAIN analyses' = DOMAIN analyses
      /\ \A b \in DOMAIN analyses \ {a} : analyses'[b] = analyses[b]
    BY <1>1, <1>3
<1>7. /\ analyses'[a] \in AnalysisType
      /\ analyses'[a].task = analyses[a].task
      /\ analyses'[a].pr_context = analyses[a].pr_context
    BY <1>3, <1>4, <1>5, <1>6 DEF AnalysisType
<1>8. TypeOK'
    <2>1. analyses' \in [1..analysisSeq' -> AnalysisType]
        BY <1>1, <1>3, <1>6, <1>7
    <2>2. decided' \in 0..MaxDecisions
        BY <1>1, BoundsAssumption DEF BoundsAssumption, IInv, TypeOK
    <2>3. pc' \in {"idle", "mark"}
        BY <1>1, <1>2
    <2>4. pc' = "mark" => dec' \in DecisionType
        <3> SUFFICES ASSUME pc' = "mark" PROVE dec' \in DecisionType
            OBVIOUS
        <3>1. analyses[a].task \in Nat
            BY <1>3 DEF AnalysisType
        <3>2. /\ status \in Decisions
              /\ dec' = [task |-> analyses[a].task, decision |-> status,
                         analysis |-> a, posted |-> FALSE]
            BY <1>1, <1>2
        <3> QED
            BY <1>3, <3>1, <3>2 DEF DecisionType
    <2> QED
        BY <1>1, <2>1, <2>2, <2>3, <2>4
        DEF IInv, TypeOK, AnalysisSteps, DecisionSteps, outside
<1>9. Room' /\ InFlight' /\ GapsArePending'
    BY <1>1, <1>2 DEF IInv, Room, InFlight, IsApprovalTask, GapsArePending,
                      AnalysisSteps, DecisionSteps
<1>10. NoTeam' /\ OneTaskPerTitle'
    BY <1>1 DEF IInv, NoTeam, OneTaskPerTitle, SameTitle
<1>11. TaskOfAnalysis'
    BY <1>1, <1>6, <1>7 DEF IInv, TaskOfAnalysis, SameTitle
<1> QED
    BY <1>8, <1>9, <1>10, <1>11 DEF IInv

LEMMA MarkIInv == IInv /\ Mark => IInv'
<1> SUFFICES ASSUME IInv, Mark PROVE IInv'
    OBVIOUS
<1> DEFINE status == IF dec.decision = APPROVED THEN "in_progress" ELSE "rejected"
           result == [decision |-> dec.decision, posted |-> FALSE, finished |-> FALSE]
<1>1. /\ pc = "mark" /\ pc' = "post"
      /\ UpdateTask(dec.task, status, result)
      /\ UNCHANGED <<taskSeq, analyses, analysisSeq, knowledge, outside, run,
                     dec, decided, faults>>
    BY DEF Mark
<1>2. /\ dec \in DecisionType /\ IsApprovalTask(dec.task)
      /\ TasksOK /\ NoTeam /\ OneTaskPerTitle
    BY <1>1 DEF IInv, TypeOK, TasksOK, InFlight, DecisionSteps
<1>3. status \in Statuses /\ result \in ResultType
    BY <1>2 DEF Statuses, ResultType, DecisionType
<1> HIDE DEF status, result
<1>4. /\ TasksOK' /\ NoTeam' /\ OneTaskPerTitle' /\ KeepsTasks
      /\ DOMAIN tasks' = DOMAIN tasks
    BY <1>1, <1>2, <1>3, UpdateTaskKeeps DEF IsApprovalTask
<1>5. TypeOK'
    BY <1>1, <1>2, <1>4
    DEF IInv, TypeOK, TasksOK, AnalysisSteps, DecisionSteps, outside
<1>6. Room' /\ InFlight' /\ GapsArePending'
    BY <1>1, <1>2, <1>4
    DEF IInv, Room, InFlight, IsApprovalTask, GapsArePending, KeepsTasks,
        AnalysisSteps, DecisionSteps
<1>7. TaskOfAnalysis'
    BY <1>1, <1>2, <1>4, TaskOfAnalysisKept DEF IInv, TasksOK
<1> QED
    BY <1>4, <1>5, <1>6, <1>7 DEF IInv

LEMMA FinishIInv == IInv /\ Finish => IInv'
<1> SUFFICES ASSUME IInv, Finish PROVE IInv'
    OBVIOUS
<1> DEFINE status == IF dec.decision = APPROVED THEN "completed" ELSE "rejected"
           result == [decision |-> dec.decision, posted |-> dec.posted, finished |-> TRUE]
<1>1. /\ pc = "finish" /\ pc' = "idle"
      /\ UpdateTask(dec.task, status, result)
      /\ UNCHANGED <<taskSeq, analyses, analysisSeq, knowledge, outside, run,
                     decided, faults>>
    BY DEF Finish
<1>2. /\ dec \in DecisionType /\ IsApprovalTask(dec.task)
      /\ TasksOK /\ NoTeam /\ OneTaskPerTitle
    BY <1>1 DEF IInv, TypeOK, TasksOK, InFlight, DecisionSteps
<1>3. status \in Statuses /\ result \in ResultType
    BY <1>2 DEF Statuses, ResultType, DecisionType
<1> HIDE DEF status, result
<1>4. /\ TasksOK' /\ NoTeam' /\ OneTaskPerTitle' /\ KeepsTasks
      /\ DOMAIN tasks' = DOMAIN tasks
    BY <1>1, <1>2, <1>3, UpdateTaskKeeps DEF IsApprovalTask
<1>5. TypeOK'
    BY <1>1, <1>2, <1>4
    DEF IInv, TypeOK, TasksOK, AnalysisSteps, DecisionSteps, outside
<1>6. Room' /\ InFlight' /\ GapsArePending'
    BY <1>1, <1>2, <1>4
    DEF IInv, Room, InFlight, IsApprovalTask, GapsArePending, KeepsTasks,
        AnalysisSteps, DecisionSteps
<1>7. TaskOfAnalysis'
    BY <1>1, <1>2, <1>4, TaskOfAnalysisKept DEF IInv, TasksOK
<1> QED
    BY <1>4, <1>5, <1>6, <1>7 DEF IInv

LEMMA SaReviewIInv ==
    ASSUME IInv, SaReview
    PROVE  IInv'
<1> DEFINE task == SaReviewTask(dec.task)
<1>1. /\ pc = "sa_review" /\ pc' = "finish"
      /\ taskSeq < MaxTasks
      /\ IsApprovalTask(dec.task)
      /\ CreateTask(task)
      /\ UNCHANGED <<analyses, analysisSeq, knowledge, outside, run, dec,
                     decided, faults>>
    BY DEF SaReview, IInv, Room, InFlight, DecisionSteps
<1>2. /\ TasksOK /\ NoTeam /\ OneTaskPerTitle
      /\ tasks[dec.task] \in TaskType /\ tasks[dec.task].team = "none"
    BY <1>1 DEF IInv, TypeOK, TasksOK, NoTeam, IsApprovalTask
<1>3. task \in TaskType /\ task.team = "none"
    <2>1. tasks[dec.task] \in TaskType => SaReviewTask(dec.task) \in TaskType
        BY DEF SaReviewTask, TaskType, NoResult, ResultType, Statuses
    <2>2. task.team = "none"
        BY <1>2 DEF SaReviewTask
    <2> QED
        BY <1>2, <2>1, <2>2
<1> HIDE DEF task
<1>4. /\ TasksOK' /\ NoTeam' /\ OneTaskPerTitle' /\ KeepsTasks
      /\ DOMAIN tasks \subseteq DOMAIN tasks'
      /\ \A j \in DOMAIN tasks : tasks'[j] = tasks[j]
      /\ taskSeq \in Nat /\ taskSeq' \in Nat /\ taskSeq <= taskSeq'
      /\ \A j \in DOMAIN tasks' \ DOMAIN tasks : j = taskSeq + 1
    BY <1>1, <1>2, <1>3, CreateTaskKeeps
<1>5. TypeOK'
    BY <1>1, <1>4
    DEF IInv, TypeOK, TasksOK, AnalysisSteps, DecisionSteps, outside
<1>6. Room' /\ InFlight' /\ GapsArePending'
    BY <1>1, <1>4
    DEF IInv, Room, InFlight, IsApprovalTask, GapsArePending, AnalysisSteps,
        DecisionSteps
<1>7. TaskOfAnalysis'
    BY <1>1, <1>4, TaskOfAnalysisKept DEF IInv
<1> QED
    BY <1>4, <1>5, <1>6, <1>7 DEF IInv

LEMMA RequestSaReviewIInv ==
    ASSUME IInv, NEW i \in DOMAIN tasks, RequestSaReview(i)
    PROVE  IInv'
<1> DEFINE task == SaReviewTask(i)
<1>1. /\ pc = "idle" /\ pc' = "idle"
      /\ taskSeq < MaxTasks
      /\ IsApprovalTask(i)
      /\ CreateTask(task)
      /\ UNCHANGED <<analyses, analysisSeq, knowledge, outside, run, dec,
                     decided, faults>>
    BY DEF RequestSaReview, IInv, Room, InFlight, DecisionSteps
<1>2. /\ TasksOK /\ NoTeam /\ OneTaskPerTitle
      /\ tasks[i] \in TaskType /\ tasks[i].team = "none"
    BY <1>1 DEF IInv, TypeOK, TasksOK, NoTeam, IsApprovalTask
<1>3. task \in TaskType /\ task.team = "none"
    <2>1. tasks[i] \in TaskType => SaReviewTask(i) \in TaskType
        BY DEF SaReviewTask, TaskType, NoResult, ResultType, Statuses
    <2>2. task.team = "none"
        BY <1>2 DEF SaReviewTask
    <2> QED
        BY <1>2, <2>1, <2>2
<1> HIDE DEF task
<1>4. /\ TasksOK' /\ NoTeam' /\ OneTaskPerTitle' /\ KeepsTasks
      /\ DOMAIN tasks \subseteq DOMAIN tasks'
      /\ \A j \in DOMAIN tasks : tasks'[j] = tasks[j]
      /\ taskSeq \in Nat /\ taskSeq' \in Nat /\ taskSeq <= taskSeq'
      /\ \A j \in DOMAIN tasks' \ DOMAIN tasks : j = taskSeq + 1
    BY <1>1, <1>2, <1>3, CreateTaskKeeps
<1>5. TypeOK'
    BY <1>1, <1>4
    DEF IInv, TypeOK, TasksOK, AnalysisSteps, DecisionSteps, outside
<1>6. Room' /\ InFlight' /\ GapsArePending'
    BY <1>1, <1>4
    DEF IInv, Room, InFlight, IsApprovalTask, GapsArePending, AnalysisSteps,
        DecisionSteps
<1>7. TaskOfAnalysis'
    BY <1>1, <1>4, TaskOfAnalysisKept DEF IInv
<1> QED
    BY <1>4, <1>5, <1>6, <1>7 DEF IInv

LEMMA PatchTaskIInv ==
    ASSUME IInv, NEW i \in DOMAIN tasks, NEW status \in PatchStatuses,
           NEW text \in BOOLEAN, PatchTask(i, status, text)
    PROVE  IInv'
<1> DEFINE result == IF text THEN NoResult ELSE tasks[i].result
<1>1. /\ pc = "idle" /\ pc' = "idle"
      /\ UpdateTask(i, status, result)
      /\ UNCHANGED <<taskSeq, analyses, analysisSeq, knowledge, outside, run,
                     dec, decided, faults>>
    BY DEF PatchTask
<1>2. TasksOK /\ NoTeam /\ OneTaskPerTitle
    BY DEF IInv, TypeOK, TasksOK
<1>3. status \in Statuses /\ result \in ResultType
    <2>1. tasks[i].result \in ResultType
        BY <1>2 DEF TasksOK, TaskType
    <2> QED
        BY <2>1, BoundsAssumption
        DEF BoundsAssumption, NoResult, ResultType
<1> HIDE DEF result
<1>4. /\ TasksOK' /\ NoTeam' /\ OneTaskPerTitle' /\ KeepsTasks
      /\ DOMAIN tasks' = DOMAIN tasks
    BY <1>1, <1>2, <1>3, UpdateTaskKeeps
<1>5. TypeOK'
    BY <1>1, <1>4
    DEF IInv, TypeOK, TasksOK, AnalysisSteps, DecisionSteps, outside
<1>6. Room' /\ InFlight' /\ GapsArePending'
    BY <1>1
    DEF IInv, Room, InFlight, GapsArePending, AnalysisSteps, DecisionSteps
<1>7. TaskOfAnalysis'
    BY <1>1, <1>2, <1>4, TaskOfAnalysisKept DEF IInv, TasksOK
<1> QED
    BY <1>4, <1>5, <1>6, <1>7 DEF IInv

LEMMA DeleteTaskIInv ==
    ASSUME IInv, NEW i \in DOMAIN tasks, DeleteTask(i)
    PROVE  IInv'
<1>1. /\ pc = "idle" /\ pc' = "idle"
      /\ UNCHANGED <<taskSeq, analyses, analysisSeq, knowledge, outside, run,
                     dec, decided, faults>>
    BY DEF DeleteTask
<1>2. TasksOK /\ NoTeam /\ OneTaskPerTitle
    BY DEF IInv, TypeOK, TasksOK
<1>3. /\ TasksOK' /\ NoTeam' /\ OneTaskPerTitle' /\ KeepsTasks
      /\ DOMAIN tasks' = DOMAIN tasks \ {i}
    BY <1>2, DeleteTaskKeeps
<1>4. TypeOK'
    BY <1>1, <1>3
    DEF IInv, TypeOK, TasksOK, AnalysisSteps, DecisionSteps, outside
<1>5. Room' /\ InFlight' /\ GapsArePending'
    BY <1>1
    DEF IInv, Room, InFlight, GapsArePending, AnalysisSteps, DecisionSteps
<1>6. TaskOfAnalysis'
    BY <1>1, <1>2, <1>3, TaskOfAnalysisKept DEF IInv, TasksOK
<1> QED
    BY <1>3, <1>4, <1>5, <1>6 DEF IInv

\* The inductive step.
LEMMA NextIInv == IInv /\ [Next]_vars => IInv'
<1> SUFFICES ASSUME IInv, [Next]_vars PROVE IInv'
    OBVIOUS
<1>1. CASE Step
    BY <1>1, NotifyIInv, CoordinateIInv, PersistIInv, CleanupIInv, EmbedIInv,
       MarkIInv, PostStatusIInv, SyncDocsIInv, StoreChunksIInv, RecordDecisionIInv,
       PostCommentIInv, SaReviewIInv, FinishIInv
    DEF Step
<1>2. ASSUME NEW e \in Events, NEW team \in Teams, Webhook(e, team)
      PROVE  IInv'
    <2> DEFINE request == [pr_context |-> e, source_dir |-> "none",
                           team_id |-> team, notify_pr |-> TRUE]
    <2>1. /\ request \in RequestType /\ StartAnalysis(request, "webhook")
          /\ faults' \in 0..MaxFaults
        BY <1>2, CheckFaults DEF Webhook, RequestType
    <2> HIDE DEF request
    <2> QED
        BY <2>1, StartAnalysisIInv
<1>3. ASSUME NEW e \in Events, NEW team \in Teams, NEW dir \in ManualDirs,
             ManualAnalysis(e, team, dir)
      PROVE  IInv'
    <2> DEFINE request == [pr_context |-> e, source_dir |-> dir,
                           team_id |-> team, notify_pr |-> FALSE]
    <2>1. /\ request \in RequestType /\ StartAnalysis(request, "manual")
          /\ faults' \in 0..MaxFaults
        BY <1>3, BoundsAssumption
        DEF BoundsAssumption, ManualAnalysis, RequestType, IInv, TypeOK
    <2> HIDE DEF request
    <2> QED
        BY <2>1, StartAnalysisIInv
<1>4. CASE Request
    BY <1>2, <1>3, <1>4, BlockedIInv, TaskDecisionIInv, ItemDecisionIInv,
       RequestSaReviewIInv, PatchTaskIInv, DeleteTaskIInv
    DEF Request
<1>5. CASE Interrupt
    BY <1>5, InterruptIInv
<1>6. CASE UNCHANGED vars
    BY <1>6
    DEF vars, store, outside, IInv, TypeOK, Room, NoTeam, OneTaskPerTitle,
        InFlight, GapsArePending, TaskOfAnalysis, SameTitle, IsApprovalTask
<1> QED
    BY <1>1, <1>4, <1>5, <1>6 DEF Next

THEOREM Invariance == Spec => []IInv
<1>1. Init => IInv
    BY InitIInv
<1>2. IInv /\ [Next]_vars => IInv'
    BY NextIInv
<1> QED
    BY <1>1, <1>2, PTL DEF Spec

\* Every state of the approval has its type.
THEOREM TypeCorrect == Spec => []TypeOK
<1>1. IInv => TypeOK
    BY DEF IInv
<1> QED
    BY <1>1, Invariance, PTL

\* create_task keeps titles unique, for any number of requests.
THEOREM TitlesUnique == Spec => []OneTaskPerTitle
<1>1. IInv => OneTaskPerTitle
    BY DEF IInv
<1> QED
    BY <1>1, Invariance, PTL

\* An analysis never names the task of another pull request number.
THEOREM AnalysisTask == Spec => []TaskOfAnalysis
<1>1. IInv => TaskOfAnalysis
    BY DEF IInv
<1> QED
    BY <1>1, Invariance, PTL

-----------------------------------------------------------------------------
(***************************************************************************)
(* A handler goes on to its end.                                           *)
(***************************************************************************)

\* The steps a handler may still take.
StepsLeft(p) ==
    CASE p = "mark" -> 8
      [] p = "post" -> 7
      [] p = "docs" -> 6
      [] p = "chunks" -> 5
      [] p = "record" -> 4
      [] p = "comment" -> 3
      [] p = "sa_review" -> 2
      [] p = "finish" -> 1
      [] p = "notify" -> 5
      [] p = "coordinate" -> 4
      [] p = "persist" -> 3
      [] p = "cleanup" -> 2
      [] p = "embed" -> 1
      [] p = "idle" -> 0

\* The task i of the table t says that the decision d was carried out.
SaysDecided(t, i, d) ==
    /\ i \in DOMAIN t
    /\ t[i].result.finished
    /\ t[i].result.decision = d
    /\ t[i].status = IF d = APPROVED THEN "completed" ELSE "rejected"

\* A step leads nearer to the end of its handler.  A step of a decision is a
\* fault, goes on with this decision of this task, or ends it recorded.
HandlerAdvances ==
    pc # "idle" =>
      /\ StepsLeft(pc') < StepsLeft(pc)
      /\ pc \in DecisionSteps =>
           \/ faults' > faults
           \/ /\ pc' \in DecisionSteps
              /\ dec'.task = dec.task /\ dec'.decision = dec.decision
           \/ pc' = "idle" /\ SaysDecided(tasks', dec.task, dec.decision)

LEMMA FinishRecords ==
    ASSUME IInv, Finish
    PROVE  SaysDecided(tasks', dec.task, dec.decision)
<1> DEFINE status == IF dec.decision = APPROVED THEN "completed" ELSE "rejected"
           result == [decision |-> dec.decision, posted |-> dec.posted, finished |-> TRUE]
<1>1. UpdateTask(dec.task, status, result)
    BY DEF Finish
<1>2. dec.task \in DOMAIN tasks /\ tasks \in [DOMAIN tasks -> TaskType]
    BY DEF Finish, IInv, TypeOK, InFlight, DecisionSteps, IsApprovalTask
<1>3. result.decision = dec.decision /\ result.finished
    OBVIOUS
<1> HIDE DEF status, result
<1>4. /\ dec.task \in DOMAIN tasks'
      /\ tasks'[dec.task].status = status /\ tasks'[dec.task].result = result
    BY <1>1, <1>2 DEF UpdateTask, TaskType
<1> QED
    BY <1>3, <1>4 DEF SaysDecided, status

LEMMA NextAdvances ==
    ASSUME IInv, Next
    PROVE  HandlerAdvances
<1>1. CASE Notify \/ Coordinate \/ Persist \/ Cleanup \/ Embed
    <2>1. \/ pc = "notify" /\ pc' = "coordinate"
          \/ pc = "coordinate" /\ pc' = "persist"
          \/ pc = "persist" /\ pc' = "cleanup"
          \/ pc = "cleanup" /\ pc' = "embed"
          \/ pc = "embed" /\ pc' = "idle"
        BY <1>1 DEF Notify, Coordinate, Persist, Cleanup, Embed
    <2> QED
        BY <2>1 DEF HandlerAdvances, StepsLeft, DecisionSteps
<1>2. CASE Mark \/ SyncDocs \/ StoreChunks \/ RecordDecision \/ SaReview
    BY <1>2
    DEF Mark, SyncDocs, StoreChunks, RecordDecision, SaReview, HandlerAdvances,
        StepsLeft, DecisionSteps
<1>3. CASE PostStatus
    <2>1. dec'.task = dec.task /\ dec'.decision = dec.decision
        BY <1>3 DEF PostStatus, IInv, TypeOK, DecisionSteps, DecisionType
    <2>2. pc = "post" /\ pc' \in {"docs", "record"}
        BY <1>3 DEF PostStatus
    <2> QED
        BY <2>1, <2>2 DEF HandlerAdvances, StepsLeft, DecisionSteps
<1>4. CASE PostComment
    <2>1. pc = "comment" /\ pc' \in {"finish", "sa_review"} /\ dec' = dec
        BY <1>4 DEF PostComment
    <2> QED
        BY <2>1 DEF HandlerAdvances, StepsLeft, DecisionSteps
<1>5. CASE Finish
    <2>1. pc = "finish" /\ pc' = "idle"
        BY <1>5 DEF Finish
    <2>2. SaysDecided(tasks', dec.task, dec.decision)
        BY <1>5, FinishRecords
    <2>3. StepsLeft(pc') < StepsLeft(pc)
        BY <2>1 DEF StepsLeft
    <2> QED
        BY <2>1, <2>2, <2>3 DEF HandlerAdvances
<1>6. CASE Interrupt
    <2>1. /\ pc # "idle" /\ pc' = "idle"
          /\ faults' = faults + 1 /\ faults \in Nat
        BY <1>6, BoundsAssumption DEF BoundsAssumption, Interrupt, IInv, TypeOK
    <2>2. StepsLeft(pc') = 0 /\ StepsLeft(pc) > 0
        BY <2>1 DEF StepsLeft, IInv, TypeOK, AnalysisSteps, DecisionSteps
    <2> QED
        BY <2>1, <2>2 DEF HandlerAdvances
<1>7. CASE Request
    <2>1. pc = "idle"
        BY <1>7
        DEF Request, Webhook, ManualAnalysis, StartAnalysis, Blocked,
            TaskDecision, ItemDecision, CanDecide, RequestSaReview, PatchTask,
            DeleteTask
    <2> QED
        BY <2>1 DEF HandlerAdvances
<1> QED
    BY <1>1, <1>2, <1>3, <1>4, <1>5, <1>6, <1>7 DEF Next, Step

\* A handler has at most eight steps, and a decision ends only with its task
\* saying so or with a fault: no failure of gh, the wiki, the artifact store or
\* the SA task ends it, or puts another task or decision in its place
\* (_run_dev_gap_decision).
THEOREM HandlersAdvance == Spec => [][HandlerAdvances]_vars
<1>1. IInv /\ [Next]_vars => [HandlerAdvances]_vars
    BY NextAdvances
<1> QED
    BY <1>1, Invariance, PTL DEF Spec

=============================================================================
