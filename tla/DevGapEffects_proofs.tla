------------------------ MODULE DevGapEffects_proofs -------------------------
(***************************************************************************)
(* Theorems about what the approval stores and shows outside its own       *)
(* table: the analyses, their items, the decisions they lead to, the       *)
(* commit statuses on GitHub and the worktrees on disk.  Each rests on     *)
(* IInv and on an invariant of its own, which is inductive relative to     *)
(* IInv.  The last part, which needs all of them, is the refinement of     *)
(* DecisionLedger.                                                         *)
(***************************************************************************)
EXTENDS DevGapApproval_proofs, DevGapRefinement, FiniteSetTheorems

-----------------------------------------------------------------------------
(***************************************************************************)
(* A delivered head is stored again only by a fault.                       *)
(***************************************************************************)

BeforeCommit == {"notify", "coordinate", "persist"}

\* A delivery in flight that will be stored although its head was analysed
\* before counts with those that are stored.
InRepeat ==
    IF /\ pc \in BeforeCommit /\ run.origin = "webhook"
       /\ AlreadyAnalyzed(run.request.pr_context)
    THEN 1 ELSE 0

RepeatBound == Cardinality(RepeatedAnalyses) + InRepeat <= faults

LEMMA RepeatsFinite ==
    ASSUME IInv
    PROVE  /\ IsFiniteSet(RepeatedAnalyses)
           /\ Cardinality(RepeatedAnalyses) \in Nat
           /\ faults \in Nat /\ InRepeat \in {0, 1}
<1>1. analysisSeq \in Nat /\ DOMAIN analyses = 1..analysisSeq
    BY BoundsAssumption DEF BoundsAssumption, IInv, TypeOK
<1>2. IsFiniteSet(1..analysisSeq) /\ RepeatedAnalyses \in SUBSET (1..analysisSeq)
    BY <1>1, FS_Interval DEF RepeatedAnalyses
<1>3. faults \in Nat
    BY BoundsAssumption DEF BoundsAssumption, IInv, TypeOK
<1> QED
    BY <1>2, <1>3, FS_Subset, FS_CardinalityType DEF InRepeat

\* A step that neither stores nor begins an analysis.
LEMMA QuietRepeats ==
    ASSUME IInv, RepeatBound,
           DOMAIN analyses' = DOMAIN analyses,
           \A a \in DOMAIN analyses :
               /\ analyses'[a].origin = analyses[a].origin
               /\ analyses'[a].pr_context = analyses[a].pr_context,
           pc' \in BeforeCommit =>
               /\ pc \in BeforeCommit
               /\ run'.origin = run.origin /\ run'.request = run.request,
           faults' \in {faults, faults + 1}
    PROVE  RepeatBound'
<1>1. RepeatedAnalyses' = RepeatedAnalyses
    BY DEF RepeatedAnalyses
<1>2. InRepeat' \in {0, 1} /\ (InRepeat' = 1 => InRepeat = 1)
    BY DEF InRepeat, AlreadyAnalyzed
<1> QED
    BY <1>1, <1>2, RepeatsFinite DEF RepeatBound

\* A delivery of a head that was analysed has used a failed lookup.
LEMMA StartRepeats ==
    ASSUME IInv, RepeatBound, NEW request \in RequestType,
           NEW origin \in {"webhook", "manual"},
           StartAnalysis(request, origin),
           \/ faults' = faults + 1
           \/ /\ faults' = faults
              /\ origin = "webhook" => ~AlreadyAnalyzed(request.pr_context)
    PROVE  RepeatBound'
<1>1. /\ pc = "idle" /\ UNCHANGED analyses
      /\ run'.origin = origin /\ run'.request = request
    BY DEF StartAnalysis, store
<1>2. RepeatedAnalyses' = RepeatedAnalyses
    BY <1>1 DEF RepeatedAnalyses
<1>3. InRepeat = 0
    BY <1>1 DEF InRepeat, BeforeCommit
<1>4. /\ InRepeat' \in {0, 1}
      /\ InRepeat' = 1 =>
            origin = "webhook" /\ AlreadyAnalyzed(request.pr_context)
    BY <1>1 DEF InRepeat, AlreadyAnalyzed
<1> QED
    BY <1>2, <1>3, <1>4, RepeatsFinite DEF RepeatBound

\* The commit moves a repetition from the delivery in flight to the store.
LEMMA PersistRepeats == IInv /\ RepeatBound /\ Persist => RepeatBound'
<1> SUFFICES ASSUME IInv, RepeatBound, Persist PROVE RepeatBound'
    OBVIOUS
<1> DEFINE n == analysisSeq + 1
<1>1. /\ pc = "persist" /\ pc' = "cleanup" /\ faults' = faults
      /\ DOMAIN analyses = 1..analysisSeq /\ analysisSeq \in Nat
    BY DEF Persist, IInv, TypeOK
<1>2. /\ DOMAIN analyses' = DOMAIN analyses \cup {n}
      /\ \A a \in DOMAIN analyses : analyses'[a] = analyses[a]
      /\ analyses'[n].origin = run.origin
      /\ analyses'[n].pr_context = run.request.pr_context
    BY <1>1 DEF Persist
<1>3. InRepeat' = 0
    BY <1>1 DEF InRepeat, BeforeCommit
<1>4. \A a \in DOMAIN analyses : a < n /\ a \in Nat /\ ~(n < a)
    BY <1>1
<1>5. n \notin DOMAIN analyses /\ ~(n < n)
    BY <1>1
<1> HIDE DEF n
<1>6. CASE InRepeat = 1
    <2>1. RepeatedAnalyses' = RepeatedAnalyses \cup {n}
        BY <1>2, <1>4, <1>5, <1>6
        DEF RepeatedAnalyses, InRepeat, AlreadyAnalyzed
    <2>2. n \notin RepeatedAnalyses
        BY <1>5 DEF RepeatedAnalyses
    <2>3. Cardinality(RepeatedAnalyses') = Cardinality(RepeatedAnalyses) + 1
        BY <2>1, <2>2, RepeatsFinite, FS_AddElement
    <2> QED
        BY <1>1, <1>3, <1>6, <2>3, RepeatsFinite DEF RepeatBound
<1>7. CASE InRepeat = 0
    <2>1. ~(run.origin = "webhook" /\ AlreadyAnalyzed(run.request.pr_context))
        BY <1>1, <1>7 DEF InRepeat, BeforeCommit
    <2>2. RepeatedAnalyses' = RepeatedAnalyses
        BY <1>2, <1>4, <1>5, <2>1 DEF RepeatedAnalyses, AlreadyAnalyzed
    <2> QED
        BY <1>1, <1>3, <1>7, <2>2 DEF RepeatBound
<1> QED
    BY <1>6, <1>7, RepeatsFinite

LEMMA ItemDecisionRepeats ==
    ASSUME IInv, RepeatBound, NEW a \in DOMAIN analyses, NEW g \in Gaps,
           NEW d \in Decisions, ItemDecision(a, g, d)
    PROVE  RepeatBound'
<1>1. pc' \in {"idle", "mark"} /\ faults' = faults
    BY DEF ItemDecision, CanDecide, Decide
<1>2. analyses \in [1..analysisSeq -> AnalysisType]
    BY DEF IInv, TypeOK
<1>3. /\ DOMAIN analyses' = DOMAIN analyses
      /\ \A b \in DOMAIN analyses :
            /\ analyses'[b].origin = analyses[b].origin
            /\ analyses'[b].pr_context = analyses[b].pr_context
    BY <1>2 DEF ItemDecision, AnalysisType
<1> QED
    BY <1>1, <1>3, QuietRepeats DEF BeforeCommit

LEMMA NextRepeats == IInv /\ RepeatBound /\ [Next]_vars => RepeatBound'
<1> SUFFICES ASSUME IInv, RepeatBound, [Next]_vars PROVE RepeatBound'
    OBVIOUS
<1>1. CASE Persist
    BY <1>1, PersistRepeats
<1>2. CASE Coordinate
    <2>1. /\ run \in RunType
          /\ pc = "coordinate" /\ UNCHANGED <<analyses, faults>>
        BY <1>2 DEF Coordinate, IInv, TypeOK, AnalysisSteps
    <2>2. run'.origin = run.origin /\ run'.request = run.request
        BY <1>2, <2>1 DEF Coordinate, RunType
    <2> QED
        BY <2>1, <2>2, QuietRepeats DEF BeforeCommit
<1>3. CASE Notify \/ Cleanup \/ Embed
    BY <1>3, QuietRepeats
    DEF Notify, Cleanup, CleanupWorktree, Embed, store, BeforeCommit
<1>4. CASE \/ Mark \/ PostStatus \/ SyncDocs \/ StoreChunks
           \/ RecordDecision \/ PostComment \/ SaReview \/ Finish
    BY <1>4, QuietRepeats
    DEF Mark, PostStatus, SyncDocs, StoreChunks, RecordDecision, PostComment,
        SaReview, Finish, store, BeforeCommit
<1>5. ASSUME NEW e \in Events, NEW team \in Teams, Webhook(e, team)
      PROVE  RepeatBound'
    <2> DEFINE request == [pr_context |-> e, source_dir |-> "none",
                           team_id |-> team, notify_pr |-> TRUE]
    <2>1. /\ request \in RequestType /\ StartAnalysis(request, "webhook")
          /\ \/ faults' = faults + 1
             \/ ~AlreadyAnalyzed(request.pr_context) /\ faults' = faults
        BY <1>5 DEF Webhook, DuplicateCheckPasses, RequestType
    <2> HIDE DEF request
    <2> QED
        BY <2>1, StartRepeats
<1>6. ASSUME NEW e \in Events, NEW team \in Teams, NEW dir \in ManualDirs,
             ManualAnalysis(e, team, dir)
      PROVE  RepeatBound'
    <2> DEFINE request == [pr_context |-> e, source_dir |-> dir,
                           team_id |-> team, notify_pr |-> FALSE]
    <2>1. /\ request \in RequestType /\ StartAnalysis(request, "manual")
          /\ faults' = faults
        BY <1>6, BoundsAssumption
        DEF BoundsAssumption, ManualAnalysis, RequestType
    <2> HIDE DEF request
    <2> QED
        BY <2>1, StartRepeats
<1>7. ASSUME NEW i \in DOMAIN tasks, NEW d \in Decisions, TaskDecision(i, d)
      PROVE  RepeatBound'
    BY <1>7, QuietRepeats DEF TaskDecision, Decide, store, BeforeCommit
<1>8. ASSUME NEW i \in DOMAIN tasks, NEW s \in PatchStatuses,
             NEW text \in BOOLEAN,
             RequestSaReview(i) \/ PatchTask(i, s, text) \/ DeleteTask(i)
      PROVE  RepeatBound'
    BY <1>8, QuietRepeats DEF RequestSaReview, PatchTask, DeleteTask
<1>9. CASE \E i \in DOMAIN tasks : RequestSaReview(i) \/ DeleteTask(i)
    BY <1>9, QuietRepeats DEF RequestSaReview, DeleteTask
<1>10. CASE \E e \in Events : Blocked(e)
    BY <1>10, QuietRepeats, CheckFaults DEF Blocked, store
<1>11. CASE Interrupt \/ UNCHANGED vars
    BY <1>11, QuietRepeats DEF Interrupt, vars, store, BeforeCommit
<1> QED
    BY <1>1, <1>2, <1>3, <1>4, <1>5, <1>6, <1>7, <1>8, <1>9, <1>10, <1>11,
       ItemDecisionRepeats
    DEF Next, Step, Request

\* A head that was analysed is stored again for the webhook only as often as
\* its duplicate check failed, however often GitHub delivers it and wherever
\* an earlier delivery died.
THEOREM RepeatsBounded == Spec => []RepeatsAreFaults
<1>1. Init => RepeatBound
    <2> SUFFICES ASSUME Init PROVE RepeatBound
        OBVIOUS
    <2>1. RepeatedAnalyses = {} /\ InRepeat = 0 /\ faults = 0
        BY DEF Init, RepeatedAnalyses, InRepeat, BeforeCommit
    <2> QED
        BY <2>1, FS_EmptySet DEF RepeatBound
<1>2. IInv /\ RepeatBound /\ [Next]_vars => RepeatBound'
    BY NextRepeats
<1>3. IInv /\ RepeatBound => RepeatsAreFaults
    BY RepeatsFinite DEF RepeatBound, RepeatsAreFaults
<1> QED
    BY <1>1, <1>2, <1>3, Invariance, PTL DEF Spec

-----------------------------------------------------------------------------
(***************************************************************************)
(* Items, analysis and task agree.                                         *)
(***************************************************************************)

AInv == AnalysisFollowsItems /\ PromotionIsUnanimous

\* The aggregate is decided by one rejected item, or by every stored item.
LEMMA AggregateFollowsItems ==
    ASSUME NEW items
    PROVE  /\ Aggregate(items) = REJECTED <=>
                  \E g \in Gaps : items[g] = REJECTED
           /\ Aggregate(items) = APPROVED <=>
                  /\ \E g \in Gaps : items[g] # "absent"
                  /\ \A g \in Gaps : items[g] \in {APPROVED, "absent"}
<1> DEFINE statuses == {items[g] : g \in Gaps} \ {"absent"}
<1>1. REJECTED # APPROVED /\ REJECTED # PENDING /\ APPROVED # PENDING
      /\ REJECTED # "absent" /\ APPROVED # "absent"
    BY DEF REJECTED, APPROVED, PENDING
<1>2. REJECTED \in statuses <=> \E g \in Gaps : items[g] = REJECTED
    BY <1>1
<1>3. statuses = {APPROVED} <=>
          /\ \E g \in Gaps : items[g] # "absent"
          /\ \A g \in Gaps : items[g] \in {APPROVED, "absent"}
    <2>1. ASSUME statuses = {APPROVED}
          PROVE  /\ \E g \in Gaps : items[g] # "absent"
                 /\ \A g \in Gaps : items[g] \in {APPROVED, "absent"}
        <3>1. APPROVED \in statuses
            BY <2>1
        <3>2. \A g \in Gaps : items[g] \in statuses \cup {"absent"}
            OBVIOUS
        <3> QED
            BY <1>1, <2>1, <3>1, <3>2
    <2>2. ASSUME \E g \in Gaps : items[g] # "absent",
                 \A g \in Gaps : items[g] \in {APPROVED, "absent"}
          PROVE  statuses = {APPROVED}
        <3>1. APPROVED \in statuses
            BY <1>1, <2>2
        <3>2. \A s \in statuses : s = APPROVED
            BY <2>2
        <3> QED
            BY <3>1, <3>2
    <2> QED
        BY <2>1, <2>2
<1>4. Aggregate(items) = IF REJECTED \in statuses THEN REJECTED
                         ELSE IF statuses = {APPROVED} THEN APPROVED
                         ELSE PENDING
    BY DEF Aggregate
<1> HIDE DEF statuses
<1> QED
    BY <1>1, <1>2, <1>3, <1>4

\* A step that changes no analysis and begins no decision of items.
LEMMA QuietAInv ==
    ASSUME AInv, UNCHANGED analyses,
           pc' \in DecisionSteps =>
               \/ dec'.analysis = 0
               \/ /\ pc \in DecisionSteps
                  /\ dec'.analysis = dec.analysis
                  /\ dec'.task = dec.task /\ dec'.decision = dec.decision
    PROVE  AInv'
BY DEF AInv, AnalysisFollowsItems, PromotionIsUnanimous

LEMMA PersistAInv == IInv /\ AInv /\ Persist => AInv'
<1> SUFFICES ASSUME IInv, AInv, Persist PROVE AInv'
    OBVIOUS
<1> DEFINE new == analysisSeq + 1
<1>1. /\ pc = "persist" /\ pc' = "cleanup"
      /\ DOMAIN analyses = 1..analysisSeq /\ analysisSeq \in Nat
      /\ run \in RunType
      /\ \A g \in run.gaps : run.approval_status = PENDING
    BY DEF Persist, IInv, TypeOK, AnalysisSteps, GapsArePending
<1>2. /\ DOMAIN analyses' = DOMAIN analyses \cup {new}
      /\ \A a \in DOMAIN analyses : analyses'[a] = analyses[a]
      /\ analyses'[new].approval_status = run.approval_status
      /\ analyses'[new].items =
             [g \in Gaps |-> IF g \in run.gaps
                             THEN run.approval_status ELSE "absent"]
    BY <1>1 DEF Persist
<1>3. run.approval_status \in {PENDING, NO_GAP}
    BY <1>1 DEF RunType
<1>4. \A g \in Gaps : analyses'[new].items[g] \in {PENDING, "absent"}
    BY <1>1, <1>2
<1>5. /\ REJECTED \notin {PENDING, NO_GAP, "absent"}
      /\ APPROVED \notin {PENDING, NO_GAP, "absent"}
    BY DEF REJECTED, APPROVED, PENDING, NO_GAP
<1>6. LET items  == analyses'[new].items
          status == analyses'[new].approval_status
      IN  /\ status = REJECTED <=> \E g \in Gaps : items[g] = REJECTED
          /\ status = APPROVED <=>
                /\ \E g \in Gaps : items[g] # "absent"
                /\ \A g \in Gaps : items[g] \in {APPROVED, "absent"}
    <2>1. analyses'[new].approval_status \notin {REJECTED, APPROVED}
        BY <1>2, <1>3, <1>5
    <2>2. ~\E g \in Gaps : analyses'[new].items[g] = REJECTED
        BY <1>4, <1>5
    <2>3. ~ /\ \E g \in Gaps : analyses'[new].items[g] # "absent"
            /\ \A g \in Gaps : analyses'[new].items[g] \in {APPROVED, "absent"}
        BY <1>4, <1>5
    <2> QED
        BY <2>1, <2>2, <2>3
<1>7. AnalysisFollowsItems'
    <2> HIDE DEF new
    <2> QED
        BY <1>2, <1>6 DEF AInv, AnalysisFollowsItems
<1>8. PromotionIsUnanimous'
    BY <1>1 DEF PromotionIsUnanimous, DecisionSteps
<1> QED
    BY <1>7, <1>8 DEF AInv

LEMMA ItemDecisionAInv ==
    ASSUME IInv, AInv, NEW a \in DOMAIN analyses, NEW g \in Gaps,
           NEW d \in Decisions, ItemDecision(a, g, d)
    PROVE  AInv'
<1> DEFINE items == [analyses[a].items EXCEPT ![g] = d]
           status == Aggregate(items)
<1>1. /\ pc = "idle"
      /\ analyses' = [analyses EXCEPT ![a].items = items,
                                      ![a].approval_status = status]
      /\ \/ pc' = pc
         \/ /\ pc' = "mark"
            /\ dec' = [task |-> analyses[a].task, decision |-> status,
                       analysis |-> a, posted |-> FALSE]
    BY DEF ItemDecision, CanDecide, Decide
<1>2. analyses \in [1..analysisSeq -> AnalysisType]
    BY DEF IInv, TypeOK
<1>3. /\ status = REJECTED <=> \E h \in Gaps : items[h] = REJECTED
      /\ status = APPROVED <=>
            /\ \E h \in Gaps : items[h] # "absent"
            /\ \A h \in Gaps : items[h] \in {APPROVED, "absent"}
    BY AggregateFollowsItems
<1> HIDE DEF items, status
<1>4. /\ DOMAIN analyses' = DOMAIN analyses
      /\ \A b \in DOMAIN analyses \ {a} : analyses'[b] = analyses[b]
      /\ analyses'[a].items = items
      /\ analyses'[a].approval_status = status
      /\ analyses'[a].task = analyses[a].task
    BY <1>1, <1>2 DEF AnalysisType
<1>5. AnalysisFollowsItems'
    BY <1>3, <1>4 DEF AInv, AnalysisFollowsItems
<1>6. PromotionIsUnanimous'
    BY <1>1, <1>3, <1>4 DEF PromotionIsUnanimous, DecisionSteps
<1> QED
    BY <1>5, <1>6 DEF AInv

LEMMA NextAInv == IInv /\ AInv /\ [Next]_vars => AInv'
<1> SUFFICES ASSUME IInv, AInv, [Next]_vars PROVE AInv'
    OBVIOUS
<1>1. CASE Persist
    BY <1>1, PersistAInv
<1>2. CASE Notify \/ Coordinate \/ Cleanup \/ Embed
    BY <1>2, QuietAInv DEF Notify, Coordinate, Cleanup, Embed, store,
                           DecisionSteps
<1>3. CASE PostStatus
    <2>1. /\ dec \in DecisionType /\ pc \in DecisionSteps
          /\ UNCHANGED analyses
        BY <1>3 DEF PostStatus, IInv, TypeOK, DecisionSteps, store
    <2>2. /\ dec'.analysis = dec.analysis
          /\ dec'.task = dec.task /\ dec'.decision = dec.decision
        BY <1>3, <2>1 DEF PostStatus, DecisionType
    <2> QED
        BY <2>1, <2>2, QuietAInv
<1>4. CASE \/ Mark \/ SyncDocs \/ StoreChunks \/ RecordDecision
           \/ PostComment \/ SaReview \/ Finish
    BY <1>4, QuietAInv
    DEF Mark, SyncDocs, StoreChunks, RecordDecision, PostComment, SaReview,
        Finish, store, DecisionSteps
<1>5. CASE \/ \E e \in Events, team \in Teams : Webhook(e, team)
           \/ \E e \in Events, team \in Teams, dir \in ManualDirs :
                 ManualAnalysis(e, team, dir)
    BY <1>5, QuietAInv
    DEF Webhook, ManualAnalysis, StartAnalysis, store, DecisionSteps
<1>6. CASE \E i \in DOMAIN tasks, d \in Decisions : TaskDecision(i, d)
    BY <1>6, QuietAInv DEF TaskDecision, Decide, store
<1>7. CASE \/ \E i \in DOMAIN tasks : RequestSaReview(i) \/ DeleteTask(i)
           \/ \E i \in DOMAIN tasks, s \in PatchStatuses, text \in BOOLEAN :
                 PatchTask(i, s, text)
           \/ \E e \in Events : Blocked(e)
    BY <1>7, QuietAInv
    DEF RequestSaReview, DeleteTask, PatchTask, Blocked, store, DecisionSteps
<1>8. CASE Interrupt \/ UNCHANGED vars
    BY <1>8, QuietAInv DEF Interrupt, vars, store, DecisionSteps
<1> QED
    BY <1>1, <1>2, <1>3, <1>4, <1>5, <1>6, <1>7, <1>8, ItemDecisionAInv
    DEF Next, Step, Request

LEMMA ItemsInvariance == Spec => []AInv
<1>1. Init => AInv
    BY DEF Init, AInv, AnalysisFollowsItems, PromotionIsUnanimous,
           DecisionSteps
<1>2. IInv /\ AInv /\ [Next]_vars => AInv'
    BY NextAInv
<1> QED
    BY <1>1, <1>2, Invariance, PTL DEF Spec

\* An analysis is approved or rejected exactly when its items say so.
THEOREM AnalysesFollowItems == Spec => []AnalysisFollowsItems
<1>1. AInv => AnalysisFollowsItems
    BY DEF AInv
<1> QED
    BY <1>1, ItemsInvariance, PTL

\* Items approve a task only unanimously.
THEOREM PromotionsUnanimous == Spec => []PromotionIsUnanimous
<1>1. AInv => PromotionIsUnanimous
    BY DEF AInv
<1> QED
    BY <1>1, ItemsInvariance, PTL

-----------------------------------------------------------------------------
(***************************************************************************)
(* What a task reports is what GitHub shows.                               *)
(***************************************************************************)

\* Only decided tasks report a status; a task whose decision is being
\* carried out does not report one yet.
Reported ==
    /\ \A i \in DOMAIN tasks :
          tasks[i].result.posted => tasks[i].type = "dev_gap_approval"
    /\ pc \in DecisionSteps \ {"mark"} =>
          /\ tasks[dec.task].result.decision = dec.decision
          /\ ~tasks[dec.task].result.posted

\* What the decision in flight knows of its commit status.
Posting ==
    /\ pc \in {"mark", "post"} => ~dec.posted
    /\ pc \in DecisionSteps /\ dec.posted =>
          github[Payload.head] = DesiredStatus(dec.decision)
    /\ pc \in {"docs", "chunks"} => dec.decision = APPROVED

PInv == ResultMatchesGitHub /\ Reported /\ Posting

\* A step outside a decision: tasks that report a status keep it.
LEMMA QuietPInv ==
    ASSUME PInv, UNCHANGED github, pc' \notin DecisionSteps,
           \A i \in DOMAIN tasks' :
               tasks'[i].result.posted =>
                   /\ i \in DOMAIN tasks
                   /\ tasks[i].result.posted
                   /\ tasks'[i].result.decision = tasks[i].result.decision
                   /\ tasks'[i].pr_context = tasks[i].pr_context
                   /\ tasks'[i].type = tasks[i].type
    PROVE  PInv'
BY DEF PInv, ResultMatchesGitHub, Reported, Posting, DecisionSteps

\* A step of a decision that changes neither its task nor the status.
LEMMA StepPInv ==
    ASSUME PInv, UNCHANGED <<tasks, github, dec>>,
           pc \in DecisionSteps \ {"mark"},
           pc' \in DecisionSteps \ {"mark", "post"},
           pc' \in {"docs", "chunks"} => pc \in {"docs", "chunks"}
    PROVE  PInv'
BY DEF PInv, ResultMatchesGitHub, Reported, Posting, Payload

LEMMA BeginPInv ==
    ASSUME PInv, UNCHANGED <<tasks, github>>,
           pc' = "mark", ~dec'.posted
    PROVE  PInv'
BY DEF PInv, ResultMatchesGitHub, Reported, Posting, DecisionSteps

\* create_task changes no task that exists.
LEMMA CreateTaskGrows ==
    ASSUME TasksOK, NEW t, CreateTask(t)
    PROVE  /\ DOMAIN tasks \subseteq DOMAIN tasks'
           /\ \A i \in DOMAIN tasks : tasks'[i] = tasks[i]
           /\ \A i \in DOMAIN tasks' \ DOMAIN tasks : tasks'[i] = t
<1>1. taskSeq \in Nat /\ taskSeq + 1 \notin DOMAIN tasks
    BY BoundsAssumption DEF BoundsAssumption, TasksOK
<1>2. CASE UNCHANGED <<tasks, taskSeq>>
    BY <1>2
<1>3. CASE tasks' = WithTask(t)
    BY <1>1, <1>3 DEF WithTask
<1> QED
    BY <1>2, <1>3 DEF CreateTask

LEMMA MarkPInv == IInv /\ PInv /\ Mark => PInv'
<1> SUFFICES ASSUME IInv, PInv, Mark PROVE PInv'
    OBVIOUS
<1> DEFINE status == IF dec.decision = APPROVED THEN "in_progress" ELSE "rejected"
           result == [decision |-> dec.decision, posted |-> FALSE,
                      finished |-> FALSE]
<1>1. /\ pc = "mark" /\ pc' = "post"
      /\ UpdateTask(dec.task, status, result)
      /\ UNCHANGED <<taskSeq, github, dec>>
    BY DEF Mark, outside
<1>2. /\ dec \in DecisionType /\ dec.task \in DOMAIN tasks
      /\ TasksOK /\ NoTeam /\ OneTaskPerTitle
    BY <1>1 DEF IInv, TypeOK, TasksOK, InFlight, IsApprovalTask, DecisionSteps
<1>3. /\ status \in Statuses /\ result \in ResultType
      /\ result.decision = dec.decision /\ ~result.posted
    BY <1>2 DEF Statuses, ResultType, DecisionType
<1> HIDE DEF status, result
<1>4. /\ KeepsTasks /\ DOMAIN tasks' = DOMAIN tasks
      /\ tasks'[dec.task].result = result
      /\ \A j \in DOMAIN tasks \ {dec.task} : tasks'[j] = tasks[j]
    BY <1>1, <1>2, <1>3, UpdateTaskKeeps
<1>5. ResultMatchesGitHub'
    BY <1>1, <1>3, <1>4 DEF PInv, ResultMatchesGitHub
<1>6. Reported'
    BY <1>1, <1>3, <1>4 DEF PInv, Reported
<1>7. Posting'
    BY <1>1 DEF PInv, Posting
<1> QED
    BY <1>5, <1>6, <1>7 DEF PInv

\* The status of another task's head stays: the task of a head is unique.
LEMMA PostStatusPInv == IInv /\ PInv /\ PostStatus => PInv'
<1> SUFFICES ASSUME IInv, PInv, PostStatus PROVE PInv'
    OBVIOUS
<1>1. PICK landed \in BOOLEAN, ok \in BOOLEAN :
        /\ ok => landed
        /\ github' = IF landed
                     THEN [github EXCEPT ![Payload.head] =
                              DesiredStatus(dec.decision)]
                     ELSE github
        /\ dec' = [dec EXCEPT !.posted = ok]
    BY DEF PostStatus
<1>2. /\ pc = "post"
      /\ pc' = IF dec.decision = APPROVED THEN "docs" ELSE "record"
      /\ UNCHANGED tasks
    BY DEF PostStatus, store
<1>3. /\ dec \in DecisionType
      /\ dec.task \in DOMAIN tasks
      /\ tasks[dec.task].type = "dev_gap_approval"
      /\ tasks \in [DOMAIN tasks -> TaskType]
      /\ github \in [Heads -> {"none", "pending", "success", "failure"}]
    BY <1>2 DEF IInv, InFlight, IsApprovalTask, TypeOK, DecisionSteps
<1>4. /\ Payload \in Events /\ Payload.head \in Heads /\ Payload' = Payload
      /\ dec'.task = dec.task /\ dec'.decision = dec.decision
      /\ dec'.posted = ok
    BY <1>1, <1>2, <1>3 DEF Payload, TaskType, DecisionType, Heads
<1>5. ASSUME NEW i \in DOMAIN tasks, tasks[i].result.posted
      PROVE  tasks[i].pr_context.head # Payload.head
    <2> SUFFICES ASSUME tasks[i].pr_context.head = Payload.head PROVE FALSE
        OBVIOUS
    <2>1. tasks[i].pr_context \in Events
        BY <1>3 DEF TaskType
    <2>2. tasks[i].pr_context = Payload
        BY <1>4, <2>1, EventsAssumption DEF EventsAssumption
    <2>3. tasks[i].type = "dev_gap_approval"
        BY <1>5 DEF PInv, Reported
    <2>4. i = dec.task
        BY <1>3, <2>2, <2>3
        DEF IInv, NoTeam, OneTaskPerTitle, SameTitle, Payload
    <2> QED
        BY <1>2, <1>5, <2>4 DEF PInv, Reported, DecisionSteps
<1>6. \A h \in Heads : h # Payload.head => github'[h] = github[h]
    BY <1>1, <1>3
<1>7. ResultMatchesGitHub'
    <2> SUFFICES ASSUME NEW i \in DOMAIN tasks, tasks[i].result.posted
                 PROVE  github'[tasks[i].pr_context.head] =
                            DesiredStatus(tasks[i].result.decision)
        BY <1>2 DEF ResultMatchesGitHub
    <2>1. tasks[i].pr_context.head \in Heads
        BY <1>3 DEF TaskType, Heads
    <2> QED
        BY <1>5, <1>6, <2>1 DEF PInv, ResultMatchesGitHub
<1>8. Reported'
    BY <1>2, <1>4 DEF PInv, Reported, DecisionSteps
<1>9. Posting'
    <2>1. ok => github'[Payload.head] = DesiredStatus(dec.decision)
        BY <1>1, <1>3, <1>4
    <2>2. pc' \notin {"mark", "post"}
        BY <1>2
    <2>3. pc' \in {"docs", "chunks"} => dec'.decision = APPROVED
        BY <1>2, <1>4
    <2> QED
        BY <1>4, <2>1, <2>2, <2>3 DEF Posting
<1> QED
    BY <1>7, <1>8, <1>9 DEF PInv

LEMMA SaReviewPInv == IInv /\ PInv /\ SaReview => PInv'
<1> SUFFICES ASSUME IInv, PInv, SaReview PROVE PInv'
    OBVIOUS
<1>1. /\ pc = "sa_review" /\ pc' = "finish" /\ taskSeq < MaxTasks
      /\ dec.task \in DOMAIN tasks
      /\ TasksOK /\ NoTeam /\ OneTaskPerTitle
      /\ CreateTask(SaReviewTask(dec.task))
      /\ UNCHANGED <<github, dec>>
    BY DEF SaReview, IInv, Room, InFlight, IsApprovalTask, TypeOK, TasksOK,
           DecisionSteps, outside
<1>2. SaReviewTask(dec.task).result.posted = FALSE
    BY DEF SaReviewTask, NoResult
<1>3. /\ DOMAIN tasks \subseteq DOMAIN tasks'
      /\ \A i \in DOMAIN tasks : tasks'[i] = tasks[i]
      /\ \A i \in DOMAIN tasks' \ DOMAIN tasks :
            tasks'[i] = SaReviewTask(dec.task)
    BY <1>1, CreateTaskGrows
<1>4. \A i \in DOMAIN tasks' : tasks'[i].result.posted => i \in DOMAIN tasks
    BY <1>2, <1>3
<1>5. Payload' = Payload
    BY <1>1, <1>3 DEF Payload
<1> QED
    BY <1>1, <1>3, <1>4, <1>5
    DEF PInv, ResultMatchesGitHub, Reported, Posting, DecisionSteps

LEMMA FinishPInv == IInv /\ PInv /\ Finish => PInv'
<1> SUFFICES ASSUME IInv, PInv, Finish PROVE PInv'
    OBVIOUS
<1> DEFINE status == IF dec.decision = APPROVED THEN "completed" ELSE "rejected"
           result == [decision |-> dec.decision, posted |-> dec.posted,
                      finished |-> TRUE]
<1>1. /\ pc = "finish" /\ pc' = "idle"
      /\ UpdateTask(dec.task, status, result)
      /\ UNCHANGED <<taskSeq, github>>
    BY DEF Finish, outside
<1>2. /\ dec \in DecisionType /\ IsApprovalTask(dec.task)
      /\ TasksOK /\ NoTeam /\ OneTaskPerTitle
    BY <1>1 DEF IInv, TypeOK, TasksOK, InFlight, DecisionSteps
<1>3. /\ status \in Statuses /\ result \in ResultType
      /\ result.decision = dec.decision /\ result.posted = dec.posted
    BY <1>2 DEF Statuses, ResultType, DecisionType
<1> HIDE DEF status, result
<1>4. /\ KeepsTasks /\ DOMAIN tasks' = DOMAIN tasks
      /\ tasks'[dec.task].result = result
      /\ \A j \in DOMAIN tasks \ {dec.task} : tasks'[j] = tasks[j]
    BY <1>1, <1>2, <1>3, UpdateTaskKeeps DEF IsApprovalTask
<1>5. tasks'[dec.task].pr_context = Payload
      /\ tasks'[dec.task].type = "dev_gap_approval"
    BY <1>2, <1>4 DEF KeepsTasks, Payload, IsApprovalTask
<1>6. dec.posted => github[Payload.head] = DesiredStatus(dec.decision)
    BY <1>1 DEF PInv, Posting, DecisionSteps
<1>7. ResultMatchesGitHub'
    BY <1>1, <1>3, <1>4, <1>5, <1>6 DEF PInv, ResultMatchesGitHub
<1>8. Reported' /\ Posting'
    BY <1>1, <1>4, <1>5 DEF PInv, Reported, Posting, DecisionSteps
<1> QED
    BY <1>7, <1>8 DEF PInv

\* The steps of an analysis change no status: the graph drops notify_pr.
LEMMA NotifyShowsNothing == Notify => UNCHANGED <<github, comments>>
BY DEF Notify, StateGet, PipelineState

LEMMA CoordinatePInv == IInv /\ PInv /\ Coordinate => PInv'
<1> SUFFICES ASSUME IInv, PInv, Coordinate PROVE PInv'
    OBVIOUS
<1>1. /\ pc' = "persist" /\ TasksOK /\ UNCHANGED github
    BY DEF Coordinate, outside, IInv, TypeOK, TasksOK
<1>2. PICK t : CreateTask(t) /\ t.result.posted = FALSE
    BY DEF Coordinate, NoResult
<1>3. \A i \in DOMAIN tasks' :
        tasks'[i].result.posted => /\ i \in DOMAIN tasks
                                   /\ tasks'[i] = tasks[i]
    BY <1>1, <1>2, CreateTaskGrows
<1> QED
    BY <1>1, <1>3, QuietPInv DEF DecisionSteps

LEMMA RequestSaReviewPInv ==
    ASSUME IInv, PInv, NEW i \in DOMAIN tasks, RequestSaReview(i)
    PROVE  PInv'
<1>1. /\ pc' = "idle" /\ TasksOK /\ UNCHANGED github
      /\ CreateTask(SaReviewTask(i))
      /\ SaReviewTask(i).result.posted = FALSE
    BY DEF RequestSaReview, outside, IInv, TypeOK, TasksOK, SaReviewTask,
           NoResult
<1>2. \A j \in DOMAIN tasks' :
        tasks'[j].result.posted => /\ j \in DOMAIN tasks
                                   /\ tasks'[j] = tasks[j]
    BY <1>1, CreateTaskGrows
<1> QED
    BY <1>1, <1>2, QuietPInv DEF DecisionSteps

LEMMA PatchTaskPInv ==
    ASSUME IInv, PInv, NEW i \in DOMAIN tasks, NEW s \in PatchStatuses,
           NEW text \in BOOLEAN, PatchTask(i, s, text)
    PROVE  PInv'
<1> DEFINE result == IF text THEN NoResult ELSE tasks[i].result
<1>1. /\ pc' = "idle" /\ UNCHANGED <<taskSeq, github>>
      /\ UpdateTask(i, s, result)
      /\ TasksOK /\ NoTeam /\ OneTaskPerTitle
    BY DEF PatchTask, outside, IInv, TypeOK, TasksOK
<1>2. /\ s \in Statuses /\ result \in ResultType
      /\ result.posted => result = tasks[i].result
    <2>1. tasks[i].result \in ResultType
        BY <1>1 DEF TasksOK, TaskType
    <2> QED
        BY <2>1, BoundsAssumption
        DEF BoundsAssumption, NoResult, ResultType
<1> HIDE DEF result
<1>3. /\ KeepsTasks /\ DOMAIN tasks' = DOMAIN tasks
      /\ tasks'[i].result = result
      /\ \A j \in DOMAIN tasks \ {i} : tasks'[j] = tasks[j]
    BY <1>1, <1>2, UpdateTaskKeeps
<1> QED
    BY <1>1, <1>2, <1>3, QuietPInv DEF KeepsTasks, DecisionSteps

LEMMA NextPInv == IInv /\ PInv /\ [Next]_vars => PInv'
<1> SUFFICES ASSUME IInv, PInv, [Next]_vars PROVE PInv'
    OBVIOUS
<1>1. CASE Notify \/ Persist \/ Cleanup \/ Embed
    BY <1>1, NotifyShowsNothing, QuietPInv
    DEF Notify, Persist, Cleanup, Embed, store, outside, DecisionSteps
<1>2. CASE SyncDocs \/ StoreChunks \/ RecordDecision \/ PostComment
    BY <1>2, StepPInv
    DEF SyncDocs, StoreChunks, RecordDecision, PostComment, store, outside,
        DecisionSteps
<1>3. CASE \/ \E e \in Events, team \in Teams : Webhook(e, team)
           \/ \E e \in Events, team \in Teams, dir \in ManualDirs :
                 ManualAnalysis(e, team, dir)
           \/ \E e \in Events : Blocked(e)
    BY <1>3, QuietPInv
    DEF Webhook, ManualAnalysis, StartAnalysis, Blocked, store, DecisionSteps
<1>4. CASE \E i \in DOMAIN tasks, d \in Decisions : TaskDecision(i, d)
    BY <1>4, BeginPInv DEF TaskDecision, Decide, store, outside
<1>5. CASE \E a \in DOMAIN analyses, g \in Gaps, d \in Decisions :
              ItemDecision(a, g, d)
    <2>1. /\ UNCHANGED <<tasks, github>>
          /\ \/ pc' = "idle"
             \/ pc' = "mark" /\ ~dec'.posted
        BY <1>5 DEF ItemDecision, CanDecide, Decide, outside
    <2> QED
        BY <2>1, BeginPInv, QuietPInv DEF DecisionSteps
<1>6. CASE \E i \in DOMAIN tasks : DeleteTask(i)
    BY <1>6, QuietPInv DEF DeleteTask, outside, DecisionSteps
<1>7. CASE Interrupt
    BY <1>7, QuietPInv DEF Interrupt, store, outside, DecisionSteps
<1>8. CASE UNCHANGED vars
    BY <1>8
    DEF vars, store, outside, PInv, ResultMatchesGitHub, Reported, Posting,
        Payload
<1> QED
    BY <1>1, <1>2, <1>3, <1>4, <1>5, <1>6, <1>7, <1>8, MarkPInv,
       PostStatusPInv, SaReviewPInv, FinishPInv, CoordinatePInv,
       RequestSaReviewPInv, PatchTaskPInv
    DEF Next, Step, Request

LEMMA StatusInvariance == Spec => []PInv
<1>1. Init => PInv
    BY DEF Init, PInv, ResultMatchesGitHub, Reported, Posting, DecisionSteps
<1>2. IInv /\ PInv /\ [Next]_vars => PInv'
    BY NextPInv
<1> QED
    BY <1>1, <1>2, Invariance, PTL DEF Spec

\* A task that reports a posted commit status names the one GitHub shows.
THEOREM ReportedStatus == Spec => []ResultMatchesGitHub
<1>1. PInv => ResultMatchesGitHub
    BY DEF PInv
<1> QED
    BY <1>1, StatusInvariance, PTL

-----------------------------------------------------------------------------
(***************************************************************************)
(* No effect precedes the commit of its decision.                          *)
(***************************************************************************)

\* The steps that show something outside find their decision recorded.
LEMMA DecisionIsRecorded ==
    ASSUME IInv, PInv, pc \in DecisionSteps \ {"mark"}
    PROVE  /\ dec.task \in DOMAIN tasks /\ dec.decision \in Decisions
           /\ Recorded(dec.task, dec.decision)
BY DEF IInv, TypeOK, InFlight, IsApprovalTask, PInv, Reported, Recorded,
       DecisionType, DecisionSteps

LEMMA NextEffects == IInv /\ PInv /\ [Next]_vars => EffectsAreRecorded
<1> SUFFICES ASSUME IInv, PInv, [Next]_vars PROVE EffectsAreRecorded
    OBVIOUS
<1>1. ASSUME UNCHANGED <<github, comments, wiki, knowledge>>
      PROVE  EffectsAreRecorded
    BY <1>1 DEF EffectsAreRecorded
<1>2. CASE PostStatus
    <2>1. /\ dec.task \in DOMAIN tasks /\ dec.decision \in Decisions
          /\ Recorded(dec.task, dec.decision)
          /\ UNCHANGED <<comments, wiki, knowledge>>
        BY <1>2, DecisionIsRecorded DEF PostStatus, DecisionSteps, store
    <2>2. ASSUME NEW h \in Heads, github'[h] # github[h]
          PROVE  /\ Payload.head = h
                 /\ github'[h] = DesiredStatus(dec.decision)
        <3>1. github \in [Heads -> {"none", "pending", "success", "failure"}]
            BY DEF IInv, TypeOK
        <3> QED
            BY <1>2, <2>2, <3>1 DEF PostStatus
    <2> QED
        BY <2>1, <2>2 DEF EffectsAreRecorded, Payload
<1>3. CASE SyncDocs
    <2>1. /\ dec.task \in DOMAIN tasks
          /\ Recorded(dec.task, APPROVED)
          /\ UNCHANGED <<github, comments, knowledge>>
        BY <1>3, DecisionIsRecorded
        DEF SyncDocs, DecisionSteps, store, PInv, Posting
    <2>2. \A h \in wiki' \ wiki : Payload.head = h
        BY <1>3 DEF SyncDocs
    <2> QED
        BY <2>1, <2>2 DEF EffectsAreRecorded, Payload
<1>4. CASE StoreChunks \/ RecordDecision
    <2>1. /\ Recorded(dec.task, dec.decision)
          /\ pc = "chunks" => dec.decision = APPROVED
          /\ UNCHANGED <<github, comments, wiki>>
        BY <1>4, DecisionIsRecorded
        DEF StoreChunks, RecordDecision, DecisionSteps, outside, PInv, Posting
    <2>2. \A a \in knowledge' \ knowledge :
            /\ a.task = dec.task /\ a.decision = dec.decision
            /\ a.head = Payload.head
            /\ a.artifact_type = "APPROVED_CODE_CHUNK" => pc = "chunks"
        BY <1>4 DEF StoreChunks, RecordDecision, StoreArtifact
    <2> QED
        BY <2>1, <2>2 DEF EffectsAreRecorded, Payload
<1>5. CASE PostComment
    <2>1. /\ dec.task \in DOMAIN tasks
          /\ Recorded(dec.task, dec.decision)
          /\ UNCHANGED <<github, wiki, knowledge>>
        BY <1>5, DecisionIsRecorded DEF PostComment, DecisionSteps, store
    <2>2. \A c \in comments' \ comments : c = <<Payload, dec.decision>>
        BY <1>5 DEF PostComment
    <2> QED
        BY <2>1, <2>2 DEF EffectsAreRecorded, Payload
<1>6. CASE Embed
    <2>1. \A a \in knowledge' \ knowledge : a.artifact_type = "DEV_GAP_REPORT"
        BY <1>6 DEF Embed
    <2> QED
        BY <1>6, <2>1 DEF Embed, outside, EffectsAreRecorded
<1>7. CASE \/ Notify \/ Coordinate \/ Persist \/ Cleanup \/ Mark \/ SaReview
           \/ Finish \/ Request \/ Interrupt \/ UNCHANGED vars
    <2>1. CASE Notify \/ Coordinate \/ Persist \/ Cleanup
        BY <1>1, <2>1, NotifyShowsNothing
        DEF Notify, Coordinate, Persist, Cleanup, store, outside
    <2>2. CASE Mark \/ SaReview \/ Finish \/ Interrupt \/ UNCHANGED vars
        BY <1>1, <2>2
        DEF Mark, SaReview, Finish, Interrupt, vars, store, outside
    <2>3. CASE Request
        BY <1>1, <2>3
        DEF Request, Webhook, ManualAnalysis, StartAnalysis, Blocked,
            TaskDecision, ItemDecision, RequestSaReview, PatchTask,
            DeleteTask, store, outside
    <2> QED
        BY <1>7, <2>1, <2>2, <2>3
<1> QED
    BY <1>2, <1>3, <1>4, <1>5, <1>6, <1>7 DEF Next, Step

\* No commit status, comment, wiki page or artifact of a decision appears
\* before its task records that decision.
THEOREM EffectsRecorded == Spec => EffectsFollowDecision
<1>1. IInv /\ PInv /\ [Next]_vars => EffectsAreRecorded
    BY NextEffects
<1>2. IInv /\ PInv /\ [Next]_vars => [EffectsAreRecorded]_vars
    BY <1>1
<1> QED
    BY <1>2, Invariance, StatusInvariance, PTL
    DEF Spec, EffectsFollowDecision

-----------------------------------------------------------------------------
(***************************************************************************)
(* The worktrees that are left on disk.                                    *)
(***************************************************************************)

\* The worktree of an analysis that will still remove it.  One that works in
\* a named directory removes none, and after the clean-up none is in use.
InUse == IF pc \in AnalysisSteps \ {"embed"} /\ run.request.source_dir = "none"
         THEN {run.request.pr_context.head} ELSE {}

LInv == IsFiniteSet(worktrees) /\ Cardinality(worktrees \ InUse) <= faults

LEMMA FewerWorktrees ==
    ASSUME NEW S, IsFiniteSet(S), NEW T \in SUBSET S
    PROVE  /\ IsFiniteSet(T) /\ Cardinality(T) <= Cardinality(S)
           /\ Cardinality(S) \in Nat /\ Cardinality(T) \in Nat
BY FS_Subset, FS_CardinalityType

LEMMA OneMoreWorktree ==
    ASSUME NEW S, IsFiniteSet(S), NEW h
    PROVE  Cardinality(S) <= Cardinality(S \ {h}) + 1
<1>1. IsFiniteSet(S \ {h}) /\ Cardinality(S \ {h}) \in Nat
    BY FewerWorktrees
<1>2. CASE h \in S
    <2>1. S = (S \ {h}) \cup {h} /\ h \notin S \ {h}
        BY <1>2
    <2>2. Cardinality((S \ {h}) \cup {h}) = Cardinality(S \ {h}) + 1
        BY <1>1, <2>1, FS_AddElement
    <2> QED
        BY <1>1, <2>1, <2>2
<1>3. CASE h \notin S
    <2>1. S \ {h} = S
        BY <1>3
    <2> QED
        BY <1>1, <2>1
<1> QED
    BY <1>2, <1>3

\* No worktree that was not there or is not in use.
LEMMA NoneLeft ==
    ASSUME IInv, LInv, IsFiniteSet(worktrees'),
           faults' \in {faults, faults + 1},
           worktrees' \ InUse' \subseteq worktrees \ InUse
    PROVE  LInv'
<1>1. IsFiniteSet(worktrees \ InUse)
    BY FewerWorktrees DEF LInv
<1>2. /\ Cardinality(worktrees' \ InUse') <= Cardinality(worktrees \ InUse)
      /\ Cardinality(worktrees' \ InUse') \in Nat
      /\ Cardinality(worktrees \ InUse) \in Nat
    BY <1>1, FewerWorktrees
<1>3. faults \in Nat
    BY BoundsAssumption DEF IInv, TypeOK, BoundsAssumption
<1> QED
    BY <1>2, <1>3 DEF LInv

\* A fault leaves the worktree that was in use.
LEMMA OneLeft ==
    ASSUME IInv, LInv, worktrees' = worktrees, faults' = faults + 1,
           InUse' = {}
    PROVE  LInv'
<1>1. faults \in Nat
    BY BoundsAssumption DEF IInv, TypeOK, BoundsAssumption
<1>2. PICK h : InUse \subseteq {h}
    BY DEF InUse
<1>3. /\ IsFiniteSet(worktrees) /\ IsFiniteSet(worktrees \ InUse)
      /\ Cardinality(worktrees) \in Nat
      /\ Cardinality(worktrees \ InUse) \in Nat
    BY FewerWorktrees DEF LInv
<1>4. /\ Cardinality(worktrees \ {h}) <= Cardinality(worktrees \ InUse)
      /\ Cardinality(worktrees \ {h}) \in Nat
    BY <1>2, <1>3, FewerWorktrees
<1>5. Cardinality(worktrees) <= Cardinality(worktrees \ {h}) + 1
    BY <1>3, OneMoreWorktree
<1>6. Cardinality(worktrees) <= faults + 1
    BY <1>1, <1>3, <1>4, <1>5 DEF LInv
<1>7. worktrees' \ InUse' = worktrees
    OBVIOUS
<1> QED
    BY <1>3, <1>6, <1>7 DEF LInv

LEMMA StartAnalysisLInv ==
    ASSUME IInv, LInv, NEW request \in RequestType,
           NEW origin \in {"webhook", "manual"}, StartAnalysis(request, origin),
           faults' \in {faults, faults + 1}
    PROVE  LInv'
<1>1. /\ pc = "idle" /\ pc' = "notify"
      /\ run'.request = request
      /\ worktrees' = IF request.source_dir = "none"
                      THEN worktrees \cup {request.pr_context.head}
                      ELSE worktrees
    BY DEF StartAnalysis
<1>2. InUse = {}
    BY <1>1 DEF InUse, AnalysisSteps
<1>3. InUse' = IF request.source_dir = "none"
               THEN {request.pr_context.head} ELSE {}
    BY <1>1 DEF InUse, AnalysisSteps
<1>4. worktrees' \ InUse' \subseteq worktrees \ InUse
    BY <1>1, <1>2, <1>3
<1>5. IsFiniteSet(worktrees')
    BY <1>1, FS_AddElement DEF LInv
<1> QED
    BY <1>1, <1>4, <1>5, NoneLeft

LEMMA CleanupLInv == IInv /\ LInv /\ Cleanup => LInv'
<1> SUFFICES ASSUME IInv, LInv, Cleanup PROVE LInv'
    OBVIOUS
<1>1. pc = "cleanup" /\ pc' = "embed" /\ CleanupWorktree(run.request)
    BY DEF Cleanup
<1>2. InUse' = {}
    BY <1>1 DEF InUse
<1>3. InUse = IF run.request.source_dir = "none"
              THEN {run.request.pr_context.head} ELSE {}
    BY <1>1 DEF InUse, AnalysisSteps
<1>4. CASE worktrees' = worktrees /\ faults' = faults + 1
    BY <1>2, <1>4, OneLeft
<1>5. CASE /\ run.request.source_dir = "none" /\ faults' = faults
           /\ worktrees' = worktrees \ {run.request.pr_context.head}
    <2>1. IsFiniteSet(worktrees')
        BY <1>5, FewerWorktrees DEF LInv
    <2>2. worktrees' \ InUse' \subseteq worktrees \ InUse
        BY <1>2, <1>3, <1>5
    <2> QED
        BY <1>5, <2>1, <2>2, NoneLeft
<1>6. CASE run.request.source_dir # "none" /\ UNCHANGED <<worktrees, faults>>
    <2>1. worktrees' \ InUse' \subseteq worktrees \ InUse
        BY <1>2, <1>3, <1>6
    <2> QED
        BY <1>6, <2>1, NoneLeft DEF LInv
<1> QED
    BY <1>1, <1>4, <1>5, <1>6 DEF CleanupWorktree

\* A step that leaves the worktrees, and those in use.
LEMMA QuietLInv ==
    ASSUME IInv, LInv, UNCHANGED <<worktrees, faults>>, InUse \subseteq InUse'
    PROVE  LInv'
<1>1. worktrees' \ InUse' \subseteq worktrees \ InUse
    OBVIOUS
<1> QED
    BY <1>1, NoneLeft DEF LInv

LEMMA NextLInv == IInv /\ LInv /\ [Next]_vars => LInv'
<1> SUFFICES ASSUME IInv, LInv, [Next]_vars PROVE LInv'
    OBVIOUS
<1>1. CASE Notify \/ Persist
    <2>1. /\ pc \in {"notify", "persist"} /\ pc' \in {"coordinate", "cleanup"}
          /\ UNCHANGED <<run, worktrees, faults>>
        BY <1>1 DEF Notify, Persist, outside
    <2>2. InUse' = InUse
        BY <2>1 DEF InUse, AnalysisSteps
    <2> QED
        BY <2>1, <2>2, QuietLInv
<1>2. CASE Coordinate
    <2>1. /\ run \in RunType
          /\ pc = "coordinate" /\ pc' = "persist"
          /\ UNCHANGED <<worktrees, faults>>
        BY <1>2 DEF Coordinate, IInv, TypeOK, AnalysisSteps, outside
    <2>2. run'.request = run.request
        BY <1>2, <2>1 DEF Coordinate, RunType
    <2>3. InUse' = InUse
        BY <2>1, <2>2 DEF InUse, AnalysisSteps
    <2> QED
        BY <2>1, <2>3, QuietLInv
<1>3. CASE Cleanup
    BY <1>3, CleanupLInv
<1>4. CASE Embed
    <2>1. InUse = {} /\ UNCHANGED <<worktrees, faults>>
        BY <1>4 DEF Embed, InUse, outside
    <2> QED
        BY <2>1, QuietLInv
<1>5. CASE \/ Mark \/ PostStatus \/ SyncDocs \/ StoreChunks
           \/ RecordDecision \/ PostComment \/ SaReview \/ Finish
    <2>1. UNCHANGED <<worktrees, faults>>
        BY <1>5 DEF Mark, PostStatus, SyncDocs, StoreChunks, RecordDecision,
                    PostComment, SaReview, Finish, outside
    <2>2. pc \notin AnalysisSteps
        BY <1>5 DEF Mark, PostStatus, SyncDocs, StoreChunks, RecordDecision,
                    PostComment, SaReview, Finish, AnalysisSteps, IInv, TypeOK
    <2> QED
        BY <2>1, <2>2, QuietLInv DEF InUse
<1>6. ASSUME NEW e \in Events, NEW team \in Teams, Webhook(e, team)
      PROVE  LInv'
    <2> DEFINE request == [pr_context |-> e, source_dir |-> "none",
                           team_id |-> team, notify_pr |-> TRUE]
    <2>1. /\ request \in RequestType /\ StartAnalysis(request, "webhook")
          /\ faults' \in {faults, faults + 1}
        BY <1>6, CheckFaults DEF Webhook, RequestType
    <2> HIDE DEF request
    <2> QED
        BY <2>1, StartAnalysisLInv
<1>7. ASSUME NEW e \in Events, NEW team \in Teams, NEW dir \in ManualDirs,
             ManualAnalysis(e, team, dir)
      PROVE  LInv'
    <2> DEFINE request == [pr_context |-> e, source_dir |-> dir,
                           team_id |-> team, notify_pr |-> FALSE]
    <2>1. /\ request \in RequestType /\ StartAnalysis(request, "manual")
          /\ faults' \in {faults, faults + 1}
        BY <1>7, BoundsAssumption
        DEF BoundsAssumption, ManualAnalysis, RequestType
    <2> HIDE DEF request
    <2> QED
        BY <2>1, StartAnalysisLInv
<1>8. ASSUME NEW e \in Events, Blocked(e) PROVE LInv'
    <2>1. /\ pc = "idle" /\ pc' = pc /\ faults' \in {faults, faults + 1}
          /\ worktrees' = worktrees \ {e.head}
        BY <1>8, CheckFaults DEF Blocked
    <2>2. InUse = {} /\ InUse' = {}
        BY <2>1 DEF InUse, AnalysisSteps
    <2>3. IsFiniteSet(worktrees')
        BY <2>1, FewerWorktrees DEF LInv
    <2> QED
        BY <2>1, <2>2, <2>3, NoneLeft
<1>9. CASE Interrupt
    <2>1. /\ worktrees' = worktrees /\ faults' = faults + 1 /\ InUse' = {}
        BY <1>9 DEF Interrupt, outside, InUse, AnalysisSteps
    <2> QED
        BY <2>1, OneLeft
<1>10. ASSUME NEW i \in DOMAIN tasks, NEW d \in Decisions, TaskDecision(i, d)
       PROVE  LInv'
    <2>1. pc = "idle" /\ UNCHANGED <<worktrees, faults>>
        BY <1>10 DEF TaskDecision, CanDecide, Decide, outside
    <2> QED
        BY <2>1, QuietLInv DEF InUse, AnalysisSteps
<1>11. ASSUME NEW a \in DOMAIN analyses, NEW g \in Gaps, NEW d \in Decisions,
              ItemDecision(a, g, d)
       PROVE  LInv'
    <2>1. pc = "idle" /\ UNCHANGED <<worktrees, faults>>
        BY <1>11 DEF ItemDecision, CanDecide, Decide, outside
    <2> QED
        BY <2>1, QuietLInv DEF InUse, AnalysisSteps
<1>12. CASE \E i \in DOMAIN tasks :
                \/ RequestSaReview(i) \/ DeleteTask(i)
                \/ \E s \in PatchStatuses, text \in BOOLEAN :
                      PatchTask(i, s, text)
    <2>1. pc = "idle" /\ UNCHANGED <<worktrees, faults>>
        BY <1>12 DEF RequestSaReview, DeleteTask, PatchTask, outside
    <2> QED
        BY <2>1, QuietLInv DEF InUse, AnalysisSteps
<1>13. CASE UNCHANGED vars
    <2>1. UNCHANGED <<worktrees, faults, pc, run>>
        BY <1>13 DEF vars, outside
    <2>2. InUse' = InUse
        BY <2>1 DEF InUse
    <2> QED
        BY <2>1, <2>2, QuietLInv
<1> QED
    BY <1>1, <1>2, <1>3, <1>4, <1>5, <1>6, <1>7, <1>8, <1>9, <1>10, <1>11,
       <1>12, <1>13
    DEF Next, Step, Request

\* However many heads are analysed, the faults bound the worktrees left on
\* disk (_cleanup_worktree, and branch_fetcher taking over a leftover one).
THEOREM WorktreesBounded == Spec => []LeftoverWorktrees
<1>1. Init => LInv
    <2> SUFFICES ASSUME Init PROVE LInv
        OBVIOUS
    <2>1. worktrees = {} /\ faults = 0 /\ worktrees \ InUse = {}
        BY DEF Init
    <2> QED
        BY <2>1, FS_EmptySet DEF LInv
<1>2. IInv /\ LInv /\ [Next]_vars => LInv'
    BY NextLInv
<1>3. IInv /\ LInv => LeftoverWorktrees
    <2> SUFFICES ASSUME IInv, LInv PROVE LeftoverWorktrees
        OBVIOUS
    <2> DEFINE inFlight == IF pc \in AnalysisSteps
                           THEN {run.request.pr_context.head} ELSE {}
    <2>1. InUse \subseteq inFlight
        BY DEF InUse
    <2>2. IsFiniteSet(worktrees \ InUse)
        BY FewerWorktrees DEF LInv
    <2>3. /\ Cardinality(worktrees \ inFlight) <= Cardinality(worktrees \ InUse)
          /\ Cardinality(worktrees \ inFlight) \in Nat
          /\ Cardinality(worktrees \ InUse) \in Nat
        BY <2>1, <2>2, FewerWorktrees
    <2>4. faults \in Nat
        BY BoundsAssumption DEF IInv, TypeOK, BoundsAssumption
    <2> QED
        BY <2>3, <2>4 DEF LInv, LeftoverWorktrees
<1> QED
    BY <1>1, <1>2, <1>3, Invariance, PTL DEF Spec

-----------------------------------------------------------------------------
(***************************************************************************)
(* DevGapApproval implements DecisionLedger, for every value of the        *)
(* constants: every step is a step of the ledger or changes nothing of it. *)
(***************************************************************************)

Verdict == [h \in Heads |-> VerdictOf(h)]

\* A head has one approval task at most.
LEMMA HeadTaskUnique ==
    ASSUME IInv, NEW h \in Heads, NEW i \in HeadTasks(h), NEW j \in HeadTasks(h)
    PROVE  i = j
<1>1. tasks \in [DOMAIN tasks -> TaskType]
    BY DEF IInv, TypeOK
<1>2. tasks[i].pr_context \in Events /\ tasks[j].pr_context \in Events
    BY <1>1 DEF HeadTasks, TaskType
<1>3. tasks[i].pr_context = tasks[j].pr_context
    BY <1>2, EventsAssumption DEF EventsAssumption, HeadTasks
<1> QED
    BY <1>3 DEF HeadTasks, IInv, NoTeam, OneTaskPerTitle, SameTitle

\* What the ledger sees of a head with an approval task is its result.
LEMMA HeadTaskView ==
    ASSUME IInv, NEW h \in Heads, NEW i \in HeadTasks(h)
    PROVE  /\ VerdictOf(h) = {tasks[i].result.decision} \ {"none"}
           /\ h \in ReportedHeads <=> tasks[i].result.posted
<1>1. HeadTasks(h) = {i}
    BY HeadTaskUnique
<1> QED
    BY <1>1 DEF VerdictOf, ReportedHeads

\* A step in which approval tasks keep their results, except tasks without a
\* result that come or go, does not change the records of the ledger.
LEMMA RecordsKept ==
    ASSUME IInv, IInv',
           \A i \in DOMAIN tasks \cap DOMAIN tasks' :
               /\ tasks'[i].type = tasks[i].type
               /\ tasks'[i].pr_context = tasks[i].pr_context
               /\ tasks[i].type = "dev_gap_approval" =>
                     tasks'[i].result = tasks[i].result,
           \A i \in DOMAIN tasks \ DOMAIN tasks' :
               tasks[i].type # "dev_gap_approval",
           \A i \in DOMAIN tasks' \ DOMAIN tasks :
               tasks'[i].result = NoResult
    PROVE  Verdict' = Verdict /\ ReportedHeads' = ReportedHeads
<1>1. ASSUME NEW h \in Heads
      PROVE  /\ VerdictOf(h)' = VerdictOf(h)
             /\ (h \in ReportedHeads)' <=> h \in ReportedHeads
    <2>1. VerdictOf(h)' = VerdictOf(h)
        BY DEF VerdictOf, HeadTasks, NoResult
    <2>2. (h \in ReportedHeads)' <=> h \in ReportedHeads
        BY DEF ReportedHeads, HeadTasks, NoResult
    <2> QED
        BY <2>1, <2>2
<1>2. ReportedHeads \subseteq Heads /\ ReportedHeads' \subseteq Heads
    BY DEF ReportedHeads
<1> QED
    BY <1>1, <1>2 DEF Verdict

\* A step that gives the approval task of head h the result r.
LEMMA ResultChanged ==
    ASSUME IInv, IInv', NEW i \in DOMAIN tasks,
           tasks[i].type = "dev_gap_approval",
           DOMAIN tasks' = DOMAIN tasks,
           KeepsTasks,
           \A j \in DOMAIN tasks \ {i} : tasks'[j] = tasks[j],
           NEW h, h = tasks[i].pr_context.head,
           NEW r, r = tasks'[i].result
    PROVE  /\ h \in Heads
           /\ VerdictOf(h) = {tasks[i].result.decision} \ {"none"}
           /\ Verdict' = [Verdict EXCEPT ![h] = {r.decision} \ {"none"}]
           /\ ReportedHeads' = IF r.posted THEN ReportedHeads \cup {h}
                                           ELSE ReportedHeads \ {h}
<1>1. h \in Heads
    BY DEF IInv, TypeOK, TaskType, Heads
<1>2. i \in HeadTasks(h) /\ HeadTasks(h)' = HeadTasks(h)
    BY DEF HeadTasks, KeepsTasks
<1>3. VerdictOf(h) = {tasks[i].result.decision} \ {"none"}
    BY <1>1, <1>2, HeadTaskView
<1>4. /\ VerdictOf(h)' = {r.decision} \ {"none"}
      /\ (h \in ReportedHeads)' <=> r.posted
    <2>1. HeadTasks(h)' = {i}
        BY <1>1, <1>2, HeadTaskUnique
    <2> QED
        BY <1>1, <2>1 DEF VerdictOf, ReportedHeads
<1>5. ASSUME NEW g \in Heads, g # h
      PROVE  /\ VerdictOf(g)' = VerdictOf(g)
             /\ (g \in ReportedHeads)' <=> g \in ReportedHeads
    <2>1. HeadTasks(g)' = HeadTasks(g) /\ i \notin HeadTasks(g)
        BY <1>5 DEF HeadTasks, KeepsTasks
    <2>2. \A j \in HeadTasks(g) : tasks'[j] = tasks[j]
        BY <2>1 DEF HeadTasks
    <2> QED
        BY <2>1, <2>2 DEF VerdictOf, ReportedHeads
<1>6. Verdict' = [Verdict EXCEPT ![h] = {r.decision} \ {"none"}]
    BY <1>1, <1>4, <1>5 DEF Verdict
<1>7. ReportedHeads' = IF r.posted THEN ReportedHeads \cup {h}
                                   ELSE ReportedHeads \ {h}
    <2>1. ReportedHeads \subseteq Heads /\ ReportedHeads' \subseteq Heads
        BY DEF ReportedHeads
    <2> QED
        BY <1>1, <1>4, <1>5, <2>1
<1> QED
    BY <1>1, <1>3, <1>6, <1>7

\* An approval task that goes leaves its head without a record.
LEMMA TaskGone ==
    ASSUME IInv, NEW i \in DOMAIN tasks,
           tasks[i].type = "dev_gap_approval",
           DOMAIN tasks' = DOMAIN tasks \ {i},
           \A j \in DOMAIN tasks' : tasks'[j] = tasks[j],
           NEW h, h = tasks[i].pr_context.head
    PROVE  /\ h \in Heads
           /\ Verdict' = [Verdict EXCEPT ![h] = {}]
           /\ ReportedHeads' = ReportedHeads \ {h}
<1>1. h \in Heads
    BY DEF IInv, TypeOK, TaskType, Heads
<1>2. HeadTasks(h) = {i}
    <2>1. i \in HeadTasks(h)
        BY DEF HeadTasks
    <2> QED
        BY <1>1, <2>1, HeadTaskUnique
<1>3. HeadTasks(h)' = {}
    BY <1>2 DEF HeadTasks
<1>4. ASSUME NEW g \in Heads, g # h
      PROVE  /\ VerdictOf(g)' = VerdictOf(g)
             /\ (g \in ReportedHeads)' <=> g \in ReportedHeads
    <2>1. HeadTasks(g)' = HeadTasks(g) /\ i \notin HeadTasks(g)
        BY <1>4 DEF HeadTasks
    <2>2. \A j \in HeadTasks(g) : tasks'[j] = tasks[j]
        BY <2>1 DEF HeadTasks
    <2> QED
        BY <2>1, <2>2 DEF VerdictOf, ReportedHeads
<1>5. VerdictOf(h)' = {} /\ ~(h \in ReportedHeads)'
    BY <1>3 DEF VerdictOf, ReportedHeads
<1>6. ReportedHeads \subseteq Heads /\ ReportedHeads' \subseteq Heads
    BY DEF ReportedHeads
<1> QED
    BY <1>1, <1>4, <1>5, <1>6 DEF Verdict

-----------------------------------------------------------------------------
(***************************************************************************)
(* The steps of the ledger.                                                *)
(***************************************************************************)

LEMMA LedgerStutters ==
    ASSUME Verdict' = Verdict, UNCHANGED github, Told' = Told,
           ReportedHeads' = ReportedHeads
    PROVE  UNCHANGED Ledger!ledger
BY DEF Ledger!ledger, Verdict

LEMMA LedgerMoves ==
    ASSUME NEW h \in Heads, NEW d \in Decisions,
           \/ Ledger!Record(h, d) \/ Ledger!Show(h, d)
           \/ Ledger!Publish(h, d) \/ Ledger!Report(h, d)
           \/ Ledger!Forget(h)
    PROVE  Ledger!Next
BY DEF Ledger!Next, Ledger!Verdicts, Decisions

LEMMA ToldKept == UNCHANGED <<comments, knowledge, wiki>> => Told' = Told
BY DEF Told

\* A step that does not touch what the ledger is read from.
LEMMA QuietLedger ==
    ASSUME UNCHANGED <<tasks, github, comments, knowledge, wiki>>
    PROVE  UNCHANGED Ledger!ledger
<1>1. Verdict' = Verdict /\ ReportedHeads' = ReportedHeads
    BY DEF Verdict, VerdictOf, ReportedHeads, HeadTasks
<1> QED
    BY <1>1, ToldKept, LedgerStutters

\* A step that only adds a task without a result.
LEMMA CreateTaskLedger ==
    ASSUME IInv, IInv', NEW t, CreateTask(t), t.result = NoResult,
           UNCHANGED <<github, comments, knowledge, wiki>>
    PROVE  UNCHANGED Ledger!ledger
<1>1. TasksOK
    BY DEF IInv, TypeOK, TasksOK
<1>2. /\ DOMAIN tasks \subseteq DOMAIN tasks'
      /\ \A i \in DOMAIN tasks : tasks'[i] = tasks[i]
      /\ \A i \in DOMAIN tasks' \ DOMAIN tasks : tasks'[i] = t
    BY <1>1, CreateTaskGrows
<1>3. Verdict' = Verdict /\ ReportedHeads' = ReportedHeads
    BY <1>2, RecordsKept
<1> QED
    BY <1>3, ToldKept, LedgerStutters

LEMMA EmbedLedger == Embed => UNCHANGED Ledger!ledger
<1> SUFFICES ASSUME Embed PROVE UNCHANGED Ledger!ledger
    OBVIOUS
<1>1. UNCHANGED <<tasks, github, comments, wiki>>
    BY DEF Embed, outside
<1>2. {a \in knowledge' : a.artifact_type # "DEV_GAP_REPORT"} =
      {a \in knowledge : a.artifact_type # "DEV_GAP_REPORT"}
    BY DEF Embed
<1>3. Told' = Told
    BY <1>1, <1>2 DEF Told
<1>4. Verdict' = Verdict /\ ReportedHeads' = ReportedHeads
    BY <1>1 DEF Verdict, VerdictOf, ReportedHeads, HeadTasks
<1> QED
    BY <1>1, <1>3, <1>4, LedgerStutters

\* The commit of Mark is the ledger's Record.
LEMMA MarkLedger ==
    ASSUME IInv, IInv', Mark
    PROVE  Ledger!Next
<1> DEFINE status == IF dec.decision = APPROVED THEN "in_progress" ELSE "rejected"
           result == [decision |-> dec.decision, posted |-> FALSE,
                      finished |-> FALSE]
<1>1. /\ UpdateTask(dec.task, status, result)
      /\ UNCHANGED <<taskSeq, github, comments, knowledge, wiki>>
      /\ dec \in DecisionType /\ IsApprovalTask(dec.task)
      /\ TasksOK /\ NoTeam /\ OneTaskPerTitle
    BY DEF Mark, outside, IInv, TypeOK, TasksOK, InFlight, DecisionSteps
<1>2. /\ status \in Statuses /\ result \in ResultType
      /\ result.decision = dec.decision /\ ~result.posted
    BY <1>1 DEF Statuses, ResultType, DecisionType
<1>3. PICK h, r : h = tasks[dec.task].pr_context.head /\ r = result
    OBVIOUS
<1> HIDE DEF status, result
<1>4. /\ KeepsTasks /\ DOMAIN tasks' = DOMAIN tasks
      /\ tasks'[dec.task].result = result
      /\ \A j \in DOMAIN tasks \ {dec.task} : tasks'[j] = tasks[j]
    BY <1>1, <1>2, UpdateTaskKeeps DEF IsApprovalTask
<1>5. /\ h \in Heads
      /\ Verdict' = [Verdict EXCEPT ![h] = {r.decision} \ {"none"}]
      /\ ReportedHeads' = ReportedHeads \ {h}
    BY <1>1, <1>2, <1>3, <1>4, ResultChanged DEF IsApprovalTask
<1>6. /\ r.decision = dec.decision /\ r.decision \in Decisions
      /\ {r.decision} \ {"none"} = {r.decision}
    BY <1>1, <1>2, <1>3 DEF DecisionType, Decisions, APPROVED, REJECTED
<1>7. Ledger!Record(h, r.decision)
    BY <1>1, <1>5, <1>6, ToldKept DEF Ledger!Record, Verdict
<1> QED
    BY <1>5, <1>6, <1>7, LedgerMoves

\* What the steps after the commit find: the verdict of the head they name.
LEMMA RecordedVerdict ==
    ASSUME IInv, PInv, pc \in DecisionSteps \ {"mark"}
    PROVE  /\ Payload \in Events /\ Payload.head \in Heads
           /\ dec \in DecisionType /\ dec.decision \in Decisions
           /\ dec.task \in HeadTasks(Payload.head)
           /\ VerdictOf(Payload.head) = {dec.decision}
<1>1. /\ dec \in DecisionType /\ dec.decision \in Decisions
      /\ IsApprovalTask(dec.task)
      /\ Payload \in Events /\ Payload.head \in Heads
    BY DEF IInv, TypeOK, InFlight, IsApprovalTask, TaskType, DecisionType,
           Payload, Heads, DecisionSteps
<1>2. dec.task \in HeadTasks(Payload.head)
    BY <1>1 DEF HeadTasks, IsApprovalTask, Payload
<1>3. tasks[dec.task].result.decision = dec.decision
    BY DEF PInv, Reported
<1>4. dec.decision # "none"
    BY <1>1 DEF Decisions, APPROVED, REJECTED
<1> QED
    BY <1>1, <1>2, <1>3, <1>4, HeadTaskView

LEMMA StatusOfDecision ==
    ASSUME NEW d \in Decisions
    PROVE  Ledger!StatusOf(d) = DesiredStatus(d)
BY DEF Ledger!StatusOf, DesiredStatus, Decisions, APPROVED, REJECTED, PENDING,
       NO_GAP

\* Posting the commit status is the ledger's Show.
LEMMA PostStatusLedger ==
    ASSUME IInv, PInv, PostStatus
    PROVE  Ledger!Next \/ UNCHANGED Ledger!ledger
<1>1. /\ UNCHANGED <<tasks, comments, knowledge, wiki>>
      /\ \/ UNCHANGED github
         \/ github' = [github EXCEPT ![Payload.head] =
                          DesiredStatus(dec.decision)]
      /\ pc \in DecisionSteps \ {"mark"}
    BY DEF PostStatus, store, DecisionSteps
<1>2. CASE UNCHANGED github
    BY <1>1, <1>2, QuietLedger
<1>3. CASE github' = [github EXCEPT ![Payload.head] =
                         DesiredStatus(dec.decision)]
    <2>1. PICK h, d : h = Payload.head /\ d = dec.decision
        OBVIOUS
    <2>2. /\ h \in Heads /\ d \in Decisions
          /\ VerdictOf(h) = {d}
        BY <1>1, <2>1, RecordedVerdict
    <2>3. Verdict' = Verdict /\ ReportedHeads' = ReportedHeads
        BY <1>1 DEF Verdict, VerdictOf, ReportedHeads, HeadTasks
    <2>4. Ledger!Show(h, d)
        BY <1>1, <1>3, <2>1, <2>2, <2>3, StatusOfDecision, ToldKept
        DEF Ledger!Show, Verdict
    <2> QED
        BY <2>2, <2>4, LedgerMoves
<1> QED
    BY <1>1, <1>2, <1>3

\* A step that tells the decision, or fails to, is the ledger's Publish.
LEMMA ToldLedger ==
    ASSUME IInv, PInv, pc \in DecisionSteps \ {"mark"},
           UNCHANGED <<tasks, github>>,
           \/ Told' = Told
           \/ Told' = Told \cup {<<Payload.head, dec.decision>>}
    PROVE  Ledger!Next \/ UNCHANGED Ledger!ledger
<1>1. Verdict' = Verdict /\ ReportedHeads' = ReportedHeads
    BY DEF Verdict, VerdictOf, ReportedHeads, HeadTasks
<1>2. CASE Told' = Told
    BY <1>1, <1>2, LedgerStutters
<1>3. CASE Told' = Told \cup {<<Payload.head, dec.decision>>}
    <2>1. PICK h, d : h = Payload.head /\ d = dec.decision
        OBVIOUS
    <2>2. /\ h \in Heads /\ d \in Decisions
          /\ VerdictOf(h) = {d}
        BY <2>1, RecordedVerdict
    <2>3. Ledger!Publish(h, d)
        BY <1>1, <1>3, <2>1, <2>2 DEF Ledger!Publish, Verdict
    <2> QED
        BY <2>2, <2>3, LedgerMoves
<1> QED
    BY <1>2, <1>3

LEMMA SyncDocsLedger ==
    ASSUME IInv, PInv, SyncDocs
    PROVE  Ledger!Next \/ UNCHANGED Ledger!ledger
<1>1. /\ UNCHANGED <<tasks, github, comments, knowledge>>
      /\ wiki' = wiki \/ wiki' = wiki \cup {Payload.head}
      /\ pc \in DecisionSteps \ {"mark"}
      /\ dec.decision = APPROVED
    <2>1. PICK w \in SUBSET {Payload.head} : wiki' = wiki \cup w
        BY DEF SyncDocs
    <2>2. w = {} \/ w = {Payload.head}
        OBVIOUS
    <2> QED
        BY <2>1, <2>2 DEF SyncDocs, store, DecisionSteps, PInv, Posting
<1>2. Told' = Told \/ Told' = Told \cup {<<Payload.head, dec.decision>>}
    <2>1. CASE wiki' = wiki
        BY <1>1, <2>1, ToldKept
    <2>2. CASE wiki' = wiki \cup {Payload.head}
        <3>1. {<<h, APPROVED>> : h \in wiki'} =
              {<<h, APPROVED>> : h \in wiki} \cup {<<Payload.head, APPROVED>>}
            BY <2>2
        <3> QED
            BY <1>1, <3>1 DEF Told
    <2> QED
        BY <1>1, <2>1, <2>2
<1> QED
    BY <1>1, <1>2, ToldLedger

LEMMA StoreLedger ==
    ASSUME IInv, PInv, StoreChunks \/ RecordDecision
    PROVE  Ledger!Next \/ UNCHANGED Ledger!ledger
<1>1. /\ UNCHANGED <<tasks, github, comments, wiki>>
      /\ pc \in DecisionSteps \ {"mark"}
    BY DEF StoreChunks, RecordDecision, outside, DecisionSteps
<1>2. PICK artifact :
        /\ artifact.artifact_type # "DEV_GAP_REPORT"
        /\ artifact.head = Payload.head /\ artifact.decision = dec.decision
        /\ knowledge' = knowledge \/ knowledge' = knowledge \cup {artifact}
    <2>1. PICK type \in {"APPROVED_CODE_CHUNK", "DEV_GAP_DECISION"} :
            StoreArtifact(type)
        BY DEF StoreChunks, RecordDecision
    <2> DEFINE new == [artifact_type |-> type, task |-> dec.task,
                       head |-> Payload.head, decision |-> dec.decision]
    <2>2. PICK n \in SUBSET {new} : knowledge' = knowledge \cup n
        BY <2>1 DEF StoreArtifact
    <2>3. n = {} \/ n = {new}
        OBVIOUS
    <2>4. /\ new.artifact_type # "DEV_GAP_REPORT"
          /\ new.head = Payload.head /\ new.decision = dec.decision
        OBVIOUS
    <2> HIDE DEF new
    <2> QED
        BY <2>2, <2>3, <2>4
<1>3. Told' = Told \/ Told' = Told \cup {<<Payload.head, dec.decision>>}
    <2>1. CASE knowledge' = knowledge
        BY <1>1, <2>1, ToldKept
    <2>2. CASE knowledge' = knowledge \cup {artifact}
        <3>1. {<<a.head, a.decision>> :
                  a \in {a \in knowledge' :
                            a.artifact_type # "DEV_GAP_REPORT"}} =
              {<<a.head, a.decision>> :
                  a \in {a \in knowledge :
                            a.artifact_type # "DEV_GAP_REPORT"}}
              \cup {<<Payload.head, dec.decision>>}
            BY <1>2, <2>2
        <3> QED
            BY <1>1, <3>1 DEF Told
    <2> QED
        BY <1>2, <2>1, <2>2
<1> QED
    BY <1>1, <1>3, ToldLedger

LEMMA PostCommentLedger ==
    ASSUME IInv, PInv, PostComment
    PROVE  Ledger!Next \/ UNCHANGED Ledger!ledger
<1> DEFINE comment == <<Payload, dec.decision>>
<1>1. /\ UNCHANGED <<tasks, github, knowledge, wiki>>
      /\ comments' = comments \/ comments' = comments \cup {comment}
      /\ pc \in DecisionSteps \ {"mark"}
    <2>1. \/ comments' = comments
          \/ \E c \in SUBSET {comment} : comments' = comments \cup c
        BY DEF PostComment
    <2>2. \A c \in SUBSET {comment} : c = {} \/ c = {comment}
        OBVIOUS
    <2> QED
        BY <2>1, <2>2 DEF PostComment, store, DecisionSteps
<1>2. dec.decision \in Decisions
    BY <1>1, RecordedVerdict
<1>3. Told' = Told \/ Told' = Told \cup {<<Payload.head, dec.decision>>}
    <2>1. CASE comments' = comments
        BY <1>1, <2>1, ToldKept
    <2>2. CASE comments' = comments \cup {comment}
        <3>1. {<<c[1].head, c[2]>> : c \in {c \in comments' : c[2] \in Decisions}}
              = {<<c[1].head, c[2]>> : c \in {c \in comments : c[2] \in Decisions}}
                \cup {<<Payload.head, dec.decision>>}
            <4>1. /\ comment[1].head = Payload.head
                  /\ comment[2] = dec.decision /\ comment[2] \in Decisions
                BY <1>2
            <4> HIDE DEF comment
            <4>2. {c \in comments' : c[2] \in Decisions} =
                  {c \in comments : c[2] \in Decisions} \cup {comment}
                BY <2>2, <4>1
            <4> QED
                BY <4>1, <4>2
        <3> QED
            BY <1>1, <3>1 DEF Told
    <2> QED
        BY <1>1, <2>1, <2>2
<1> QED
    BY <1>1, <1>3, ToldLedger

\* The last commit is the ledger's Report, if the status was posted.
LEMMA FinishLedger ==
    ASSUME IInv, IInv', PInv, Finish
    PROVE  Ledger!Next \/ UNCHANGED Ledger!ledger
<1> DEFINE status == IF dec.decision = APPROVED THEN "completed" ELSE "rejected"
           result == [decision |-> dec.decision, posted |-> dec.posted,
                      finished |-> TRUE]
<1>1. /\ UpdateTask(dec.task, status, result)
      /\ UNCHANGED <<taskSeq, github, comments, knowledge, wiki>>
      /\ IsApprovalTask(dec.task) /\ pc \in DecisionSteps \ {"mark"}
      /\ TasksOK /\ NoTeam /\ OneTaskPerTitle
    BY DEF Finish, outside, IInv, TypeOK, TasksOK, InFlight, DecisionSteps
<1>2. PICK h, d, r :
        h = Payload.head /\ d = dec.decision /\ r = result
    OBVIOUS
<1>3. /\ h \in Heads /\ d \in Decisions /\ d # "none"
      /\ dec \in DecisionType
      /\ dec.task \in HeadTasks(h)
      /\ VerdictOf(h) = {d}
    BY <1>1, <1>2, RecordedVerdict DEF Decisions, APPROVED, REJECTED
<1>4. /\ status \in Statuses /\ result \in ResultType
      /\ result.decision = d /\ result.posted = dec.posted
    BY <1>2, <1>3 DEF Statuses, ResultType, DecisionType
<1> HIDE DEF status, result
<1>5. /\ KeepsTasks /\ DOMAIN tasks' = DOMAIN tasks
      /\ tasks'[dec.task].result = result
      /\ \A j \in DOMAIN tasks \ {dec.task} : tasks'[j] = tasks[j]
    BY <1>1, <1>4, UpdateTaskKeeps DEF IsApprovalTask
<1>6. /\ Verdict' = [Verdict EXCEPT ![h] = {r.decision} \ {"none"}]
      /\ ReportedHeads' = IF r.posted THEN ReportedHeads \cup {h}
                                      ELSE ReportedHeads \ {h}
    BY <1>1, <1>2, <1>5, ResultChanged DEF IsApprovalTask, Payload
<1>7. Verdict' = Verdict
    <2>1. {r.decision} \ {"none"} = {d}
        BY <1>2, <1>3, <1>4
    <2>2. /\ Verdict[h] = {d}
          /\ Verdict = [Verdict EXCEPT ![h] = Verdict[h]]
        BY <1>3 DEF Verdict
    <2> QED
        BY <1>6, <2>1, <2>2
<1>8. CASE dec.posted
    <2>1. github[h] = Ledger!StatusOf(d)
        BY <1>1, <1>2, <1>3, <1>8, StatusOfDecision DEF PInv, Posting
    <2>2. Ledger!Report(h, d)
        BY <1>1, <1>2, <1>3, <1>4, <1>6, <1>7, <1>8, <2>1, ToldKept
        DEF Ledger!Report, Verdict
    <2> QED
        BY <1>3, <2>2, LedgerMoves
<1>9. CASE ~dec.posted
    <2>1. h \notin ReportedHeads
        BY <1>1, <1>3, HeadTaskView DEF PInv, Reported
    <2> QED
        BY <1>1, <1>2, <1>4, <1>6, <1>7, <1>9, <2>1, ToldKept, LedgerStutters
<1> QED
    BY <1>8, <1>9

\* A PATCH with a text overwrites the record, any other one keeps it.
LEMMA PatchTaskLedger ==
    ASSUME IInv, IInv', NEW i \in DOMAIN tasks, NEW s \in PatchStatuses,
           NEW text \in BOOLEAN, PatchTask(i, s, text)
    PROVE  Ledger!Next \/ UNCHANGED Ledger!ledger
<1> DEFINE result == IF text THEN NoResult ELSE tasks[i].result
<1>1. /\ UpdateTask(i, s, result)
      /\ UNCHANGED <<taskSeq, github, comments, knowledge, wiki>>
      /\ TasksOK /\ NoTeam /\ OneTaskPerTitle
    BY DEF PatchTask, outside, IInv, TypeOK, TasksOK
<1>2. s \in Statuses /\ result \in ResultType
    <2>1. tasks[i].result \in ResultType
        BY <1>1 DEF TasksOK, TaskType
    <2> QED
        BY <2>1, BoundsAssumption
        DEF BoundsAssumption, NoResult, ResultType
<1>3. /\ KeepsTasks /\ DOMAIN tasks' = DOMAIN tasks
      /\ tasks'[i].result = result
      /\ \A j \in DOMAIN tasks \ {i} : tasks'[j] = tasks[j]
    <2> HIDE DEF result
    <2> QED
        BY <1>1, <1>2, UpdateTaskKeeps
<1>4. CASE text /\ tasks[i].type = "dev_gap_approval"
    <2>1. PICK h, r : h = tasks[i].pr_context.head /\ r = NoResult
        OBVIOUS
    <2>2. /\ h \in Heads
          /\ Verdict' = [Verdict EXCEPT ![h] = {r.decision} \ {"none"}]
          /\ ReportedHeads' = IF r.posted THEN ReportedHeads \cup {h}
                                          ELSE ReportedHeads \ {h}
        <3>1. r = tasks'[i].result
            BY <1>3, <1>4, <2>1
        <3> QED
            BY <1>3, <1>4, <2>1, <3>1, ResultChanged
    <2>3. {r.decision} \ {"none"} = {} /\ ~r.posted
        BY <2>1 DEF NoResult
    <2>4. Ledger!Forget(h)
        BY <1>1, <2>2, <2>3, ToldKept DEF Ledger!Forget, Verdict
    <2> QED
        BY <2>2, <2>4, LedgerMoves DEF Decisions
<1>5. CASE ~(text /\ tasks[i].type = "dev_gap_approval")
    <2>1. tasks[i].type = "dev_gap_approval" =>
              tasks'[i].result = tasks[i].result
        BY <1>3, <1>5
    <2>2. Verdict' = Verdict /\ ReportedHeads' = ReportedHeads
        BY <1>3, <2>1, RecordsKept DEF KeepsTasks
    <2> QED
        BY <1>1, <2>2, ToldKept, LedgerStutters
<1> QED
    BY <1>4, <1>5

\* Deleting an approval task is the ledger's Forget.
LEMMA DeleteTaskLedger ==
    ASSUME IInv, IInv', NEW i \in DOMAIN tasks, DeleteTask(i)
    PROVE  Ledger!Next \/ UNCHANGED Ledger!ledger
<1>1. /\ DOMAIN tasks' = DOMAIN tasks \ {i}
      /\ \A j \in DOMAIN tasks' : tasks'[j] = tasks[j]
      /\ UNCHANGED <<github, comments, knowledge, wiki>>
    BY DEF DeleteTask, outside
<1>2. CASE tasks[i].type = "dev_gap_approval"
    <2>1. PICK h : h = tasks[i].pr_context.head
        OBVIOUS
    <2>2. /\ h \in Heads
          /\ Verdict' = [Verdict EXCEPT ![h] = {}]
          /\ ReportedHeads' = ReportedHeads \ {h}
        BY <1>1, <1>2, <2>1, TaskGone
    <2>3. Ledger!Forget(h)
        BY <1>1, <2>2, ToldKept DEF Ledger!Forget, Verdict
    <2> QED
        BY <2>2, <2>3, LedgerMoves DEF Decisions
<1>3. CASE tasks[i].type # "dev_gap_approval"
    <2>1. Verdict' = Verdict /\ ReportedHeads' = ReportedHeads
        BY <1>1, <1>3, RecordsKept
    <2> QED
        BY <1>1, <2>1, ToldKept, LedgerStutters
<1> QED
    BY <1>2, <1>3

-----------------------------------------------------------------------------

LEMMA InitLedger == Init => Ledger!Init
<1> SUFFICES ASSUME Init PROVE Ledger!Init
    OBVIOUS
<1>1. \A h \in Heads : HeadTasks(h) = {}
    BY DEF Init, HeadTasks
<1>2. (\A h \in Heads : VerdictOf(h) = {}) /\ ReportedHeads = {}
    BY <1>1 DEF VerdictOf, ReportedHeads
<1>3. Told = {}
    BY DEF Init, Told
<1> QED
    BY <1>2, <1>3 DEF Init, Ledger!Init

LEMMA NextLedger ==
    IInv /\ IInv' /\ PInv /\ [Next]_vars => [Ledger!Next]_Ledger!ledger
<1> SUFFICES ASSUME IInv, IInv', PInv, [Next]_vars
             PROVE  Ledger!Next \/ UNCHANGED Ledger!ledger
    OBVIOUS
<1>1. CASE Notify \/ Persist \/ Cleanup
    BY <1>1, NotifyShowsNothing, QuietLedger
    DEF Notify, Persist, Cleanup, store, outside
<1>2. CASE Coordinate
    <2>1. UNCHANGED <<github, comments, knowledge, wiki>>
        BY <1>2 DEF Coordinate, outside
    <2>2. PICK t : CreateTask(t) /\ t.result = NoResult
        BY <1>2 DEF Coordinate
    <2> QED
        BY <2>1, <2>2, CreateTaskLedger
<1>3. CASE SaReview \/ \E i \in DOMAIN tasks : RequestSaReview(i)
    <2>1. UNCHANGED <<github, comments, knowledge, wiki>>
        BY <1>3 DEF SaReview, RequestSaReview, outside
    <2>2. PICK i : CreateTask(SaReviewTask(i))
        BY <1>3 DEF SaReview, RequestSaReview
    <2>3. SaReviewTask(i).result = NoResult
        BY DEF SaReviewTask
    <2> QED
        BY <2>1, <2>2, <2>3, CreateTaskLedger
<1>4. CASE \/ \E e \in Events, team \in Teams : Webhook(e, team)
           \/ \E e \in Events, team \in Teams, dir \in ManualDirs :
                 ManualAnalysis(e, team, dir)
           \/ \E e \in Events : Blocked(e)
    BY <1>4, QuietLedger DEF Webhook, ManualAnalysis, StartAnalysis, Blocked,
                             store
<1>5. CASE \/ \E i \in DOMAIN tasks, d \in Decisions : TaskDecision(i, d)
           \/ \E a \in DOMAIN analyses, g \in Gaps, d \in Decisions :
                 ItemDecision(a, g, d)
    BY <1>5, QuietLedger DEF TaskDecision, ItemDecision, store, outside
<1>6. CASE Interrupt \/ UNCHANGED vars
    BY <1>6, QuietLedger DEF Interrupt, vars, store, outside
<1> QED
    BY <1>1, <1>2, <1>3, <1>4, <1>5, <1>6, EmbedLedger, MarkLedger,
       PostStatusLedger, SyncDocsLedger, StoreLedger, PostCommentLedger,
       FinishLedger, PatchTaskLedger, DeleteTaskLedger
    DEF Next, Step, Request

\* The approval of GAPs implements the ledger.
THEOREM LedgerImplemented == Spec => ImplementsLedger
<1>1. Init => Ledger!Init
    BY InitLedger
<1>2. IInv /\ IInv' /\ PInv /\ [Next]_vars => [Ledger!Next]_Ledger!ledger
    BY NextLedger
<1> QED
    BY <1>1, <1>2, Invariance, StatusInvariance, PTL
    DEF Spec, ImplementsLedger, Ledger!Spec

=============================================================================
